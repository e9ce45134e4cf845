------------------------------ MODULE NodeLocks ------------------------------
(***************************************************************************)
(* The two gates a task of the full node passes: a new_peak handler first  *)
(* takes a slot of new_peak_sem and then, for every block or batch it adds *)
(* (FullNode.add_block, short_sync_batch), the blockchain's mutex at high  *)
(* priority; a transaction (FullNode.add_transaction) takes only the       *)
(* mutex, at low priority.  A handler may be cancelled in either queue.    *)
(***************************************************************************)
EXTENDS PriorityMutex, LimitedSemaphore

VARIABLE semCancels    \* handlers cancelled in the semaphore's queue

CONSTANT MaxSemCancels \* bound on semCancels

lockVars == <<mutexVars, semVars, semCancels>>

ASSUME LocksAssumption == Handlers \subseteq Tasks /\ {0, 1} \subseteq Priorities

High == 0
Low  == 1

Init == MutexInit /\ SemInit /\ semCancels = 0

(* FullNodeAPI.new_peak.  It may return without adding a block.            *)
NewPeak(h) == SemAcquire(h) /\ UNCHANGED <<mutexVars, semCancels>>

NewPeakResumes(h) == SemResume(h) /\ UNCHANGED <<mutexVars, semCancels>>

NewPeakCancelled(h) ==
    /\ semCancels < MaxSemCancels
    /\ SemCancel(h)
    /\ semCancels' = semCancels + 1
    /\ UNCHANGED mutexVars

NewPeakReturns(h) == pc[h] = "idle" /\ SemRelease(h) /\ UNCHANGED <<mutexVars, semCancels>>

AddBlock(h) ==
    /\ gate[h] = "in"
    /\ Acquire(h, High)
    /\ UNCHANGED <<semVars, semCancels>>

AddTransaction(t) == Acquire(t, Low) /\ UNCHANGED <<semVars, semCancels>>

GetMutex(t)    == Enter(t) /\ UNCHANGED <<semVars, semCancels>>
LeaveMutex(t)  == Exit(t) /\ UNCHANGED <<semVars, semCancels>>
CancelMutex(t) == Cancel(t) /\ UNCHANGED <<semVars, semCancels>>

Next ==
    \/ \E h \in Handlers :
        \/ NewPeak(h) \/ NewPeakResumes(h) \/ NewPeakCancelled(h) \/ NewPeakReturns(h)
        \/ AddBlock(h)
    \/ \E t \in Tasks \ Handlers : AddTransaction(t)
    \/ \E t \in Tasks : GetMutex(t) \/ LeaveMutex(t) \/ CancelMutex(t)

(* The event loop runs every task that can go on, and a body comes to its  *)
(* end; nothing makes a handler start, or a task be cancelled.             *)
Fairness ==
    /\ \A t \in Tasks : WF_lockVars(GetMutex(t)) /\ WF_lockVars(LeaveMutex(t))
    /\ \A h \in Handlers : WF_lockVars(NewPeakResumes(h)) /\ WF_lockVars(NewPeakReturns(h))

Spec == Init /\ [][Next]_lockVars /\ Fairness

-----------------------------------------------------------------------------
TypeOK == MutexTypeOK /\ SemTypeOK /\ semCancels \in Nat

(* Every task that waits for the mutex gets it, or is cancelled itself,    *)
(* unless some wait was cancelled behind an earlier one of its priority.   *)
MutexServes == \A t \in Tasks : pc[t] = "waiting" ~> pc[t] # "waiting" \/ skipped

(* The test that cancels a queued waiter then awaits the others: whoever   *)
(* waits for the mutex comes to the end of its wait.                       *)
MutexServesAll == \A t \in Tasks : pc[t] = "waiting" ~> pc[t] # "waiting"

(* Every new_peak handler that found a slot runs, under the same condition *)
(* on the mutex that the running handlers need.                            *)
HandlersRun == \A h \in Handlers : gate[h] = "queued" ~> gate[h] # "queued" \/ skipped
==============================================================================
