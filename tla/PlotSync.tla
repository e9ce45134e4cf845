------------------------------- MODULE PlotSync -------------------------------
(***************************************************************************)
(* Plot sync between one harvester and its farmer: the plot manager's      *)
(* refresh thread, the sender's task on the harvester's event loop, the    *)
(* connection, and the farmer's receiver.                                  *)
(*                                                                         *)
(* The refresh thread interleaves with the event loop between any two of   *)
(* its calls into the sender, and inside _reset between the moment it      *)
(* clears the sync id and the sync it starts itself.  The connection keeps *)
(* the order of messages and may delay them beyond the time-out; it loses  *)
(* them only by closing.                                                   *)
(***************************************************************************)
EXTENDS PlotSender, PlotReceiver, FiniteSets

CONSTANTS
    Files,             \* the paths of the plot directories, numbers
    Name,              \* the file name of a path; equal names are copies
    InitialDisk,       \* the state of each path at the beginning
    MaxClock,          \* bounds: a second passes between syncs up to here,
    MaxRefreshes,      \* refreshes of the plot manager,
    MaxChanges,        \* changes of the disk,
    MaxTimeouts,       \* time-outs of the sender,
    MaxConnections,    \* connections,
    MaxFailures        \* exceptions of the refresh thread between refreshes

DiskStates == {"absent", "plot", "broken", "no_key"}

ASSUME PlotSyncAssumption ==
    /\ Files \subseteq Nat /\ IsFiniteSet(Files)
    /\ Name \in [Files -> Nat]
    /\ InitialDisk \in [Files -> DiskStates]
    /\ {MaxClock, MaxRefreshes, MaxChanges, MaxTimeouts, MaxConnections, MaxFailures} \subseteq Nat

VARIABLES
    disk,        \* what the plot directories hold
    pm,          \* PlotManager: plots, failed, no_key, duplicates, initial, enabled
    thread,      \* the refresh thread: pc, paths, batches, loaded, removed
    sender,      \* Sender: see PlotSender
    task,        \* the sender's task: "none", "ready", "wait", "reset"
    awaited,     \* the identifier and type of the _response waited for
    closing,     \* on_disconnect: "no", "join" the thread, "close" the task
    connected,   \* the connection the sender holds is open
    toFarmer,    \* messages and answers on the way
    toHarvester,
    receiver,    \* Receiver: see PlotReceiver
    clock,       \* seconds
    used,        \* what is used up of the bounds
    disturbed    \* history: a reset cut into a refresh, or a refresh into a reset

harvester == <<disk, pm, thread, sender, task, awaited, closing>>
network   == <<connected, toFarmer, toHarvester>>
vars      == <<harvester, network, receiver, clock, used, disturbed>>

------------------------------------------------------------------------------
NewPlotManager ==
    [plots |-> {}, failed |-> {}, no_key |-> {}, duplicates |-> {}, initial |-> TRUE, enabled |-> FALSE]

Idle(pc) == [pc |-> pc, paths |-> {}, batches |-> <<>>, loaded |-> <<>>, removed |-> <<>>]

Init ==
    /\ disk = InitialDisk
    /\ pm = NewPlotManager
    /\ thread = Idle("dead")
    /\ sender = NewSender
    /\ task = "none"
    /\ awaited = <<0, 0, "none">>
    /\ closing = "no"
    /\ connected = FALSE
    /\ toFarmer = <<>> /\ toHarvester = <<>>
    /\ receiver = NewReceiver
    /\ clock = 1
    /\ used = [refreshes |-> 0, changes |-> 0, timeouts |-> 0, connections |-> 0, failures |-> 0]
    /\ disturbed = FALSE

(* time.time() when a sync starts: the same second as before, or later.    *)
Time == {clock} \cup {t \in {clock + 1} : t <= MaxClock}

Use(bound, max) ==
    /\ used[bound] < max
    /\ used' = [used EXCEPT ![bound] = @ + 1]

------------------------------------------------------------------------------
(* The plot directories.                                                   *)

DiskChanges(f, state) ==
    /\ disk[f] # state
    /\ Use("changes", MaxChanges)
    /\ disk' = [disk EXCEPT ![f] = state]
    /\ UNCHANGED <<pm, thread, sender, task, awaited, closing, network, receiver, clock, disturbed>>

------------------------------------------------------------------------------
(* The refresh thread, _refresh_task.                                      *)

(* Between the started and the done event.                                 *)
InRefresh == thread.pc \in {"drop", "batch", "report", "done"}

BeginRefresh ==
    /\ thread.pc = "sleep" /\ pm.enabled
    /\ Use("refreshes", MaxRefreshes)
    /\ thread' = [Idle("start") EXCEPT !.paths = {f \in Files : disk[f] # "absent"}]
    /\ UNCHANGED <<disk, pm, sender, task, awaited, closing, network, receiver, clock, disturbed>>

(* PlotManager.reset; whether refreshing is enabled stays.                 *)
ResetPlotManager == [NewPlotManager EXCEPT !.enabled = pm.enabled]

(* An exception outside a refresh, as from reading the configuration or    *)
(* saving the cache.                                                       *)
RefreshFails ==
    /\ thread.pc = "sleep" /\ pm.enabled
    /\ Use("failures", MaxFailures)
    /\ pm' = ResetPlotManager
    /\ UNCHANGED <<disk, thread, sender, task, awaited, closing, network, receiver, clock, disturbed>>

(* The started event: sync_start waits while another sync is active, and   *)
(* gives up without one when the sender is told to stop.                   *)
RefreshStarted ==
    /\ thread.pc = "start"
    /\ thread' = [thread EXCEPT !.pc = "drop"]
    /\ \/ /\ ~SyncActive(sender)
          /\ \E now \in Time :
                /\ clock' = now
                /\ sender' = SyncStart(sender, now, pm.initial)
       \/ /\ SyncActive(sender) /\ closing # "no"
          /\ UNCHANGED <<sender, clock>>
    /\ disturbed' = (disturbed \/ task = "reset")
    /\ UNCHANGED <<disk, pm, task, awaited, closing, network, receiver, used>>

(* Entries whose file is gone are dropped; with a loaded plot the copies   *)
(* of it are forgotten too, and may be loaded in its place.                *)
DropMissing ==
    /\ thread.pc = "drop"
    /\ LET gone   == pm.plots \ thread.paths
           copies == {d \in pm.duplicates : d \notin thread.paths \/ \E f \in gone : Name[f] = Name[d]}
           rest   == Batches(Sorted(thread.paths))
       IN /\ pm' = [pm EXCEPT !.plots = @ \ gone, !.failed = @ \cap thread.paths,
                              !.no_key = @ \cap thread.paths, !.duplicates = @ \ copies]
          /\ thread' = [thread EXCEPT !.removed = Sorted(gone), !.batches = rest,
                                      !.pc = IF rest = <<>> THEN "done" ELSE "batch"]
    /\ UNCHANGED <<disk, sender, task, awaited, closing, network, receiver, clock, used, disturbed>>

(* The files of the batch that process_file opens and finds in this state; *)
(* each that failed to open before is tried again only after some time.    *)
Opened(state, skip) ==
    {f \in ToSet(Head(thread.batches)) : disk[f] = state} \ (skip \cup pm.plots \cup pm.duplicates)

(* Of the copies of a plot the first is loaded, in the order in which the  *)
(* threads of refresh_batch come to them, unless one was loaded before.    *)
FirstCopies(new, good) ==
    /\ \A f \in new : \A g \in (pm.plots \cup new) \ {f} : Name[g] # Name[f]
    /\ \A f \in good \ new : \E g \in pm.plots \cup new : Name[g] = Name[f]

RefreshBatch ==
    /\ thread.pc = "batch" /\ pm.enabled
    /\ \E skip \in SUBSET pm.failed :
          LET good == Opened("plot", skip)
          IN \E new \in SUBSET good :
                /\ FirstCopies(new, good)
                /\ pm' = [pm EXCEPT !.plots = @ \cup new,
                                    !.duplicates = @ \cup (good \ new),
                                    !.failed = (@ \cup Opened("broken", skip)) \ new,
                                    !.no_key = (@ \cup Opened("no_key", skip)) \ good]
                /\ thread' = [thread EXCEPT !.pc = "report", !.loaded = Sorted(new)]
    /\ UNCHANGED <<disk, sender, task, awaited, closing, network, receiver, clock, used, disturbed>>

(* Refreshing was disabled before or during the batch.                     *)
AbortRefresh ==
    /\ thread.pc \in {"batch", "report"} /\ ~pm.enabled
    /\ thread' = [thread EXCEPT !.pc = "done"]
    /\ UNCHANGED <<disk, pm, sender, task, awaited, closing, network, receiver, clock, used, disturbed>>

Remaining == IF Len(thread.batches) > 1 THEN Len(thread.batches) - 1 ELSE 0

(* The batch_processed event.  _add_message asserts that a sync is active. *)
BatchProcessed ==
    /\ thread.pc = "report" /\ pm.enabled
    /\ IF ReportsBatch(thread.loaded, Remaining) /\ ~SyncActive(sender)
       THEN /\ pm' = ResetPlotManager
            /\ thread' = Idle("sleep")
            /\ UNCHANGED sender
       ELSE /\ sender' = ProcessBatch(sender, thread.loaded, Remaining)
            /\ thread' = [thread EXCEPT !.pc = IF Remaining = 0 THEN "done" ELSE "batch",
                                        !.batches = Tail(@), !.loaded = <<>>]
            /\ UNCHANGED pm
    /\ UNCHANGED <<disk, task, awaited, closing, network, receiver, clock, used, disturbed>>

(* The done event, left out when refreshing was disabled.                  *)
RefreshDone ==
    /\ thread.pc = "done"
    /\ thread' = Idle("sleep")
    /\ IF pm.enabled /\ ~SyncActive(sender)
       THEN pm' = ResetPlotManager /\ UNCHANGED sender
       ELSE /\ pm' = [pm EXCEPT !.initial = FALSE]
            /\ sender' = IF pm.enabled THEN FinishSync(sender, thread.removed, pm) ELSE sender
    /\ UNCHANGED <<disk, task, awaited, closing, network, receiver, clock, used, disturbed>>

ThreadExits ==
    /\ thread.pc = "sleep" /\ ~pm.enabled
    /\ thread' = Idle("dead")
    /\ UNCHANGED <<disk, pm, sender, task, awaited, closing, network, receiver, clock, used, disturbed>>

------------------------------------------------------------------------------
(* The sender's task, _run and _send_next_message.  The event loop stands  *)
(* still while it joins the thread, and while _reset waits in sync_start.  *)

LoopFree == task # "reset" /\ closing # "join"

(* The first half of _reset, from within the task.                         *)
Reset ==
    /\ sender' = Cleared
    /\ task' = "reset"
    /\ disturbed' = (disturbed \/ InRefresh)

(* The second half: an initial sync of what the plot manager has, once no  *)
(* sync is active.                                                         *)
ResetRebuilds ==
    /\ task = "reset"
    /\ ~SyncActive(sender)
    /\ \E now \in Time :
          /\ clock' = now
          /\ sender' = Rebuilt(sender, now, pm)
    /\ task' = "ready"
    /\ disturbed' = InRefresh
    /\ UNCHANGED <<disk, pm, thread, awaited, closing, network, receiver, used>>

SendNextMessage ==
    /\ task = "ready" /\ closing = "no"
    /\ HasNextMessage(sender)
    /\ IF ValidGenerator(sender) /\ connected
       THEN /\ toFarmer' = Append(toFarmer, [expired |-> FALSE, message |-> NextMessage(sender)])
            /\ awaited' = <<sender.sync_id, sender.next_message_id, NextMessage(sender).body.type>>
            /\ task' = "wait"
            /\ UNCHANGED <<sender, disturbed>>
       ELSE Reset /\ UNCHANGED <<toFarmer, awaited>>
    /\ UNCHANGED <<disk, pm, thread, closing, connected, toHarvester, receiver, clock, used>>

Expire(channel) == [i \in 1 .. Len(channel) |-> [channel[i] EXCEPT !.expired = TRUE]]

(* No answer within message_timeout: the message will be sent again, and   *)
(* answers to what was sent so far are skipped by their time stamp.  The   *)
(* time-out is longer than the second by which a sync id may be ahead.     *)
Timeout ==
    /\ task = "wait" /\ closing = "no"
    /\ Use("timeouts", MaxTimeouts)
    /\ task' = "ready"
    /\ clock' = clock + 2
    /\ toFarmer' = Expire(toFarmer)
    /\ toHarvester' = Expire(toHarvester)
    /\ UNCHANGED <<disk, pm, thread, sender, awaited, closing, connected, receiver, disturbed>>

(* set_response.                                                           *)
SetResponse(r) ==
    /\ task = "wait"
    /\ ~r.expired
    /\ <<r.sync_id, r.message_id, r.type>> = awaited

(* An answer arrives, and if it is the one waited for, is acted on.        *)
ReceiveResponse ==
    /\ LoopFree /\ closing = "no"
    /\ toHarvester # <<>>
    /\ toHarvester' = Tail(toHarvester)
    /\ LET r == Head(toHarvester)
       IN IF ~SetResponse(r) THEN UNCHANGED <<sender, task, disturbed>>
          ELSE IF Recoverable(sender, r)
          THEN sender' = Recovered(sender, r) /\ task' = "ready" /\ UNCHANGED disturbed
          ELSE Reset
    /\ UNCHANGED <<disk, pm, thread, awaited, closing, connected, toFarmer, receiver, clock, used>>

------------------------------------------------------------------------------
(* The farmer.                                                             *)

FarmerReceives ==
    /\ connected /\ toFarmer # <<>>
    /\ toFarmer' = Tail(toFarmer)
    /\ LET m == Head(toFarmer).message
           a == Process(receiver, m)
       IN /\ receiver' = a.receiver
          /\ toHarvester' = Append(toHarvester,
                [sync_id |-> m.sync_id, message_id |-> m.message_id, type |-> m.body.type,
                 expired |-> Head(toFarmer).expired, error |-> a.error, expected |-> a.expected])
    /\ UNCHANGED <<harvester, connected, clock, used, disturbed>>

------------------------------------------------------------------------------
(* Connections.                                                            *)

(* Mutant: start leaves the sender as it is.                               *)
StartedAsIs(s, now) == s

(* Sender.start: all plots are synced anew unless the first refresh will.  *)
Started(s, now) == IF ~pm.initial \/ SyncActive(s) THEN Rebuilt(Cleared, now, pm) ELSE s

(* The farmer makes a receiver for the connection, the harvester handles   *)
(* its handshake: Sender.start and start_refreshing.                       *)
Handshake ==
    /\ task = "none" /\ thread.pc = "dead"
    /\ Use("connections", MaxConnections)
    /\ connected' = TRUE
    /\ receiver' = NewReceiver
    /\ task' = "ready"
    /\ \E now \in Time : clock' = now /\ sender' = Started(sender, now)
    /\ pm' = [pm EXCEPT !.enabled = TRUE]
    /\ thread' = Idle("sleep")
    /\ disturbed' = FALSE
    /\ UNCHANGED <<disk, awaited, closing, toFarmer, toHarvester>>

ConnectionCloses ==
    /\ connected
    /\ used.connections < MaxConnections
    /\ connected' = FALSE
    /\ toFarmer' = <<>> /\ toHarvester' = <<>>
    /\ receiver' = NewReceiver
    /\ UNCHANGED <<harvester, clock, used, disturbed>>

(* on_disconnect of the harvester: stop, await_closed scheduled, and       *)
(* stop_refreshing, which joins the thread.                                *)
OnDisconnect ==
    /\ ~connected /\ closing = "no" /\ task \in {"ready", "wait"}
    /\ closing' = "join"
    /\ pm' = [pm EXCEPT !.enabled = FALSE]
    /\ UNCHANGED <<disk, thread, sender, task, awaited, network, receiver, clock, used, disturbed>>

ThreadJoined ==
    /\ closing = "join" /\ thread.pc = "dead"
    /\ closing' = "close"
    /\ UNCHANGED <<disk, pm, thread, sender, task, awaited, network, receiver, clock, used, disturbed>>

(* await_closed: the task ends, when it waits for an answer at the         *)
(* time-out; _reset without a task only clears.                            *)
AwaitClosed ==
    /\ closing = "close"
    /\ closing' = "no"
    /\ task' = "none"
    /\ sender' = Cleared
    /\ UNCHANGED <<disk, pm, thread, awaited, network, receiver, clock, used, disturbed>>

------------------------------------------------------------------------------
Refresh ==
    \/ RefreshStarted \/ DropMissing \/ RefreshBatch \/ AbortRefresh
    \/ BatchProcessed \/ RefreshDone \/ ThreadExits

Next ==
    \/ \E f \in Files, state \in DiskStates : DiskChanges(f, state)
    \/ BeginRefresh \/ RefreshFails \/ Refresh
    \/ SendNextMessage \/ Timeout \/ ReceiveResponse \/ ResetRebuilds
    \/ FarmerReceives
    \/ Handshake \/ ConnectionCloses \/ OnDisconnect \/ ThreadJoined \/ AwaitClosed

(* The refresh thread, the event loops and the open connection make        *)
(* progress; refreshes, time-outs and connections need not happen.         *)
Fairness ==
    /\ WF_vars(Refresh)
    /\ WF_vars(SendNextMessage) /\ WF_vars(ReceiveResponse) /\ WF_vars(ResetRebuilds)
    /\ WF_vars(FarmerReceives)
    /\ SF_vars(OnDisconnect) /\ WF_vars(ThreadJoined) /\ WF_vars(AwaitClosed)

Spec == Init /\ [][Next]_vars /\ Fairness

------------------------------------------------------------------------------
TypeOK ==
    /\ disk \in [Files -> DiskStates]
    /\ pm.plots \cup pm.failed \cup pm.no_key \cup pm.duplicates \subseteq Files
    /\ {pm.initial, pm.enabled, connected, disturbed} \subseteq BOOLEAN
    /\ thread.pc \in {"dead", "sleep", "start", "drop", "batch", "report", "done"}
    /\ task \in {"none", "ready", "wait", "reset"}
    /\ closing \in {"no", "join", "close"}
    /\ sender.next_message_id \in 0 .. Len(sender.messages)
    /\ {sender.sync_id, sender.last_sync_id, receiver.last_sync_id} \subseteq
          0 .. (MaxClock + 2 * MaxTimeouts + 1)
    /\ receiver.plots \cup receiver.invalid \cup receiver.keys_missing \cup receiver.duplicates
          \subseteq Files

(* Nothing is left to do for the two sides: the task is idle and the       *)
(* thread asleep.                                                          *)
Quiet ==
    /\ connected /\ task = "ready" /\ closing = "no"
    /\ ~SyncActive(sender)
    /\ thread.pc = "sleep"

FarmerMatches ==
    /\ receiver.plots = pm.plots
    /\ receiver.invalid = pm.failed
    /\ receiver.keys_missing = pm.no_key
    /\ receiver.duplicates = pm.duplicates

(* When no sync is active and no refresh runs, the farmer shows exactly    *)
(* the plots, invalid files, files without keys and duplicates of the plot *)
(* manager, through time-outs, messages sent twice, recoveries by the      *)
(* expected identifier and reconnections (Sender._send_next_message,       *)
(* Receiver._sync_done), as long as no reset cut into a refresh.           *)
Converged == Quiet /\ ~pm.initial /\ ~disturbed => FarmerMatches

(* The same without the exception: a reset is followed by a fresh sync of  *)
(* all the plot manager has (Sender._reset).                               *)
ResetConverges == Quiet /\ ~pm.initial => FarmerMatches

(* While no sync is active both sides name the same last sync              *)
(* (_finalize_sync, _sync_done), so that the next one is not refused.      *)
LastSyncAgrees ==
    connected /\ task = "ready" /\ closing = "no" /\ ~SyncActive(sender) =>
        sender.last_sync_id = receiver.last_sync_id

(* A sync that started comes to its end, or is given up with the           *)
(* connection, although messages are delayed beyond the time-out and sent  *)
(* again (Sender._run), unless a reset cuts into a refresh.                *)
SyncEnds ==
    SyncActive(sender) ~> ((~SyncActive(sender) /\ task # "reset") \/ disturbed)
==============================================================================
