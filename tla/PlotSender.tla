------------------------------ MODULE PlotSender ------------------------------
(***************************************************************************)
(* The harvester's side of plot sync (plot_sync/sender.py): the messages a *)
(* Sender queues and what it does with an answer.  A sender is a record; a *)
(* queued message is a MessageGenerator: an identifier and a body.         *)
(*                                                                         *)
(* Plots and other files are natural numbers, in the order of their paths. *)
(***************************************************************************)
EXTENDS Naturals, Sequences, SequencesExt, FiniteSets

CONSTANT BatchSize    \* refresh_parameter.batch_size

ASSUME BatchAssumption == BatchSize \in Nat \ {0}

NewSender == [sync_id |-> 0, next_message_id |-> 0, messages |-> <<>>, last_sync_id |-> 0]

(* The files of a finite set in their order.                               *)
Sorted(files) ==
    [i \in 1 .. Cardinality(files) |->
        CHOOSE f \in files : Cardinality({g \in files : g < f}) = i - 1]

Batches(files) ==
    [i \in 1 .. ((Len(files) + BatchSize - 1) \div BatchSize) |->
        SubSeq(files, (i - 1) * BatchSize + 1,
               IF i * BatchSize < Len(files) THEN i * BatchSize ELSE Len(files))]

SyncActive(s) == s.sync_id # 0

(* Messages are numbered by their position and carry the current sync id.  *)
AddMessages(s, new) ==
    [s EXCEPT !.messages = @ \o [i \in 1 .. Len(new) |->
        [sync_id |-> s.sync_id, message_id |-> Len(s.messages) + i - 1, body |-> new[i]]]]

ListMessages(type, files) ==
    LET b == Batches(files)
    IN IF files = <<>> THEN <<[type |-> type, data |-> <<>>, final |-> TRUE]>>
       ELSE [i \in 1 .. Len(b) |-> [type |-> type, data |-> b[i], final |-> i = Len(b)]]

(* The sync id is the time in seconds, made different from the last one.   *)
SyncStart(s, now, initial) ==
    LET id == IF now = s.last_sync_id THEN now + 1 ELSE now
    IN AddMessages([s EXCEPT !.sync_id = id],
           <<[type |-> "start", initial |-> initial, last_sync_id |-> s.last_sync_id]>>)

ReportsBatch(loaded, remaining) == loaded # <<>> \/ remaining = 0

ProcessBatch(s, loaded, remaining) ==
    IF ReportsBatch(loaded, remaining)
    THEN AddMessages(s, <<[type |-> "loaded", data |-> loaded, final |-> remaining = 0]>>)
    ELSE s

(* sync_done; pm is the plot manager whose lists it sends.                 *)
FinishSync(s, removed, pm) ==
    AddMessages(s, ListMessages("removed", removed)
                   \o ListMessages("invalid", Sorted(pm.failed))
                   \o ListMessages("keys_missing", Sorted(pm.no_key))
                   \o ListMessages("duplicates", Sorted(pm.duplicates))
                   \o <<[type |-> "done"]>>)

(* _reset, its first half and, when the sender's task runs, its second:    *)
(* an initial sync of everything the plot manager has.                     *)
Cleared == NewSender

Rebuilt(s, now, pm) ==
    LET started == SyncStart(s, now, TRUE)
        loaded  == IF pm.plots = {} THEN <<>> ELSE ListMessages("loaded", Sorted(pm.plots))
    IN FinishSync(AddMessages(started, loaded), <<>>, pm)

(* Mutant: the last sync id is left as it was.                             *)
FinalizeSyncKeepingLast(s) == [NewSender EXCEPT !.last_sync_id = s.last_sync_id]

FinalizeSync(s) == [NewSender EXCEPT !.last_sync_id = s.sync_id]

HasNextMessage(s) == SyncActive(s) /\ s.next_message_id < Len(s.messages)

NextMessage(s) == s.messages[s.next_message_id + 1]

ValidGenerator(s) ==
    NextMessage(s).sync_id = s.sync_id /\ NextMessage(s).message_id = s.next_message_id

------------------------------------------------------------------------------
(* The answer to the message just sent, as _send_next_message treats it.   *)

AllSent(s) ==
    /\ Last(s.messages).body.type = "done"
    /\ s.next_message_id = Len(s.messages) - 1

(* The answer to done was missed: the receiver has finished the sync.      *)
MissedDone(s, r) == r.error = "identifier" /\ r.expected = <<0, 0>> /\ AllSent(s)

Jumps(s, r) ==
    /\ r.error = "identifier"
    /\ r.expected[1] = s.sync_id
    /\ r.expected[2] < Len(s.messages)

Recoverable(s, r) == r.error = "none" \/ MissedDone(s, r) \/ Jumps(s, r)

(* Mutant: the message after the expected one is sent next.                *)
RecoveredBehind(s, r) ==
    IF MissedDone(s, r) \/ (r.error = "none" /\ r.type = "done") THEN FinalizeSync(s)
    ELSE [s EXCEPT !.next_message_id = IF r.error = "none" THEN @ + 1 ELSE r.expected[2] + 1]

Recovered(s, r) ==
    IF MissedDone(s, r) \/ (r.error = "none" /\ r.type = "done") THEN FinalizeSync(s)
    ELSE [s EXCEPT !.next_message_id = IF r.error = "none" THEN @ + 1 ELSE r.expected[2]]
==============================================================================
