----------------------------- MODULE PlotReceiver -----------------------------
(***************************************************************************)
(* The farmer's side of plot sync (plot_sync/receiver.py): what a Receiver *)
(* makes of one message.  A receiver is a record, a handler maps a message *)
(* and a receiver to the receiver afterwards and the answer.               *)
(*                                                                         *)
(* The callback a handler awaits (farmer.py, plot_sync_callback) never     *)
(* suspends, so a handler is one step.  Left out: the plot sizes, the      *)
(* counters of processed plots and the harvesting mode, which are only     *)
(* displayed.                                                              *)
(***************************************************************************)
EXTENDS Naturals, Sequences, SequencesExt

Sync == [state |-> "idle", sync_id |-> 0, next_message_id |-> 0,
         added |-> {}, removed |-> {}, invalid |-> {}, keys_missing |-> {}, duplicates |-> {}]

NewReceiver == [current |-> Sync, last_sync_id |-> 0,
                plots |-> {}, invalid |-> {}, keys_missing |-> {}, duplicates |-> {}]

Answer(r, error, expected) == [receiver |-> r, error |-> error, expected |-> expected]
Accepts(r) == Answer(r, "none", <<0, 0>>)
Fails(r)   == Answer(r, "fatal", <<0, 0>>)

(* InvalidIdentifierError carries the identifier the receiver expects.     *)
WrongIdentifier(r) == Answer(r, "identifier", <<r.current.sync_id, r.current.next_message_id>>)

ValidIdentifier(r, m) ==
    /\ m.message_id = r.current.next_message_id
    /\ m.body.type # "start" => m.sync_id = r.current.sync_id

SyncStarted(r0, m) ==
    LET r == IF m.body.initial THEN NewReceiver ELSE r0
    IN IF ~ValidIdentifier(r, m) THEN WrongIdentifier(r)
       ELSE IF m.body.last_sync_id # r.last_sync_id \/ m.body.last_sync_id = m.sync_id THEN Fails(r)
       ELSE Accepts([r EXCEPT !.current = [Sync EXCEPT !.state = "loaded",
                                                       !.sync_id = m.sync_id,
                                                       !.next_message_id = @ + 1]])

(* The items before the first that is refused.                             *)
Taken(data, refused) ==
    {data[i] : i \in {j \in DOMAIN data : \A h \in 1 .. j : data[h] \notin refused}}

(* The handlers of the list messages enter one item after the other into   *)
(* the field of the current sync and stop at the first that is refused.    *)
ProcessList(r, m, field, next, refused) ==
    LET cur == [r.current EXCEPT ![field] = @ \cup Taken(m.body.data, refused)]
    IN IF ~ValidIdentifier(r, m) THEN WrongIdentifier(r)
       ELSE IF ToSet(m.body.data) \cap refused # {} THEN Fails([r EXCEPT !.current = cur])
       ELSE Accepts([r EXCEPT !.current =
                [cur EXCEPT !.state = IF m.body.final THEN next ELSE @, !.next_message_id = @ + 1]])

ProcessLoaded(r, m) ==
    ProcessList(r, m, "added", "removed", r.plots \cup r.current.added)

ProcessRemoved(r, m) ==
    ProcessList(r, m, "removed", "invalid", (ToSet(m.body.data) \ r.plots) \cup r.current.removed)

ProcessInvalid(r, m) ==
    ProcessList(r, m, "invalid", "keys_missing", r.current.invalid)

ProcessKeysMissing(r, m) ==
    ProcessList(r, m, "keys_missing", "duplicates", r.current.keys_missing)

ProcessDuplicates(r, m) ==
    ProcessList(r, m, "duplicates", "done", r.current.duplicates)

Applied(r) ==
    [current |-> Sync, last_sync_id |-> r.current.sync_id,
     plots |-> (r.plots \cup r.current.added) \ r.current.removed,
     invalid |-> r.current.invalid, keys_missing |-> r.current.keys_missing,
     duplicates |-> r.current.duplicates]

SyncDone(r, m) == IF ValidIdentifier(r, m) THEN Accepts(Applied(r)) ELSE WrongIdentifier(r)

Process(r, m) ==
    CASE m.body.type = "start"        -> SyncStarted(r, m)
      [] m.body.type = "loaded"       -> ProcessLoaded(r, m)
      [] m.body.type = "removed"      -> ProcessRemoved(r, m)
      [] m.body.type = "invalid"      -> ProcessInvalid(r, m)
      [] m.body.type = "keys_missing" -> ProcessKeysMissing(r, m)
      [] m.body.type = "duplicates"   -> ProcessDuplicates(r, m)
      [] m.body.type = "done"         -> SyncDone(r, m)
==============================================================================
