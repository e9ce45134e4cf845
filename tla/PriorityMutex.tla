---------------------------- MODULE PriorityMutex ----------------------------
(***************************************************************************)
(* The lock around the blockchain (util/priority_mutex.py): one task at a  *)
(* time, those with the lowest priority value first, in the order of their *)
(* calls among equals.                                                     *)
(*                                                                         *)
(* Every call of acquire makes an _Element: its task, and here also the    *)
(* number of the call, which gives the element its identity.               *)
(* asyncio runs one task at a time, so what lies between two awaits is one *)
(* step: acquire up to its wait, the return from the wait, and the finally *)
(* block, which runs when the body ends and when the wait is cancelled.    *)
(***************************************************************************)
EXTENDS Naturals, Sequences, FiniteSets

CONSTANTS Tasks,         \* asyncio tasks
          Priorities,    \* BlockchainMutexPriority: lower values go first
          MaxAcquires,   \* bound: calls of acquire
          MaxCancels     \* bound: waits that are cancelled

ASSUME MutexAssumption ==
    /\ IsFiniteSet(Tasks)
    /\ Priorities \subseteq Nat
    /\ Priorities # {}
    /\ MaxAcquires \in Nat
    /\ MaxCancels \in Nat

VARIABLES deques,     \* _deques: the elements of each priority
          active,     \* _active, or None
          ready,      \* elements in use whose ready_event is set
          calls,      \* calls of acquire so far
          pc,         \* where a task is: idle, waiting or inside the body
          element,    \* the element a task's acquire works with, else None
          priority,   \* the priority it was called with
          cancels,    \* number of cancelled waits
          skipped     \* a wait was cancelled while an earlier one of the same
                      \* priority was still on (history, for the properties)

mutexVars == <<deques, active, ready, calls, pc, element, priority, cancels, skipped>>

None == [task |-> "none", call |-> 0]

(* Mutant: the priorities in the wrong order.                              *)
Highest(ps) == CHOOSE p \in ps : \A q \in ps : q <= p

Lowest(ps) == CHOOSE p \in ps : \A q \in ps : p <= q

MutexInit ==
    /\ deques = [p \in Priorities |-> <<>>]
    /\ active = None
    /\ ready = {}
    /\ calls = 0
    /\ pc = [t \in Tasks |-> "idle"]
    /\ element = [t \in Tasks |-> None]
    /\ priority = [t \in Tasks |-> Lowest(Priorities)]
    /\ cancels = 0
    /\ skipped = FALSE

-----------------------------------------------------------------------------
(* acquire up to its first await.  A task whose element is active gets     *)
(* NestedLockUnsupportedError and changes nothing.                         *)
Acquire(t, p) ==
    LET e == [task |-> t, call |-> calls + 1]
    IN /\ pc[t] = "idle"
       /\ calls < MaxAcquires
       /\ active.task # t
       /\ calls' = calls + 1
       /\ deques' = [deques EXCEPT ![p] = Append(@, e)]
       /\ element' = [element EXCEPT ![t] = e]
       /\ priority' = [priority EXCEPT ![t] = p]
       /\ \/ active = None /\ active' = e /\ pc' = [pc EXCEPT ![t] = "inside"]
          \/ active # None /\ UNCHANGED active /\ pc' = [pc EXCEPT ![t] = "waiting"]
       /\ UNCHANGED <<ready, cancels, skipped>>

(* ready_event.wait() returns.                                             *)
Enter(t) ==
    /\ pc[t] = "waiting"
    /\ element[t] \in ready
    /\ pc' = [pc EXCEPT ![t] = "inside"]
    /\ UNCHANGED <<deques, active, ready, calls, element, priority, cancels, skipped>>

(* Mutant: the finally block does not leave the deque.                     *)
RemovedNothing(p) == deques

(* deque.remove(element).  No field of _Element takes part in comparisons, *)
(* so any two elements are equal and the first of the deque is removed.    *)
Removed(p) == [deques EXCEPT ![p] = Tail(@)]

(* Mutant: the mutex is taken for free without a look at who is active.    *)
FinallyUnchecked(t) ==
    LET rest   == Removed(priority[t])
        queued == {p \in Priorities : rest[p] # <<>>}
        next   == Head(rest[Lowest(queued)])
    IN /\ deques' = rest
       /\ \/ queued = {} /\ active' = None /\ ready' = ready \ {element[t]}
          \/ queued # {} /\ active' = next /\ ready' = (ready \ {element[t]}) \cup {next}
       /\ pc' = [pc EXCEPT ![t] = "idle"]
       /\ element' = [element EXCEPT ![t] = None]
       /\ UNCHANGED <<calls, priority>>

(* Mutant: a cancelled waiter only hands the mutex on when it is its own   *)
(* body that ends.                                                         *)
FinallyInside(t) ==
    LET rest    == Removed(priority[t])
        queued  == {p \in Priorities : rest[p] # <<>>}
        passing == active \in {None, element[t]}
        next    == Head(rest[Lowest(queued)])
    IN /\ deques' = rest
       /\ ready' = (ready \ {element[t]}) \cup IF passing /\ queued # {} /\ pc[t] = "inside" THEN {next} ELSE {}
       /\ active' = CASE ~passing -> active
                      [] passing /\ queued # {} /\ pc[t] = "inside" -> next
                      [] OTHER -> None
       /\ pc' = [pc EXCEPT ![t] = "idle"]
       /\ element' = [element EXCEPT ![t] = None]
       /\ UNCHANGED <<calls, priority>>

(* The finally block: give up the mutex if it is ours, leave the deque,    *)
(* and make the first element of the first deque that has one active.      *)
Finally(t) ==
    LET rest    == Removed(priority[t])
        queued  == {p \in Priorities : rest[p] # <<>>}
        passing == active \in {None, element[t]}
        next    == Head(rest[Lowest(queued)])
    IN /\ deques' = rest
       /\ \/ ~passing /\ UNCHANGED active /\ ready' = ready \ {element[t]}
          \/ passing /\ queued = {} /\ active' = None /\ ready' = ready \ {element[t]}
          \/ passing /\ queued # {} /\ active' = next /\ ready' = (ready \ {element[t]}) \cup {next}
       /\ pc' = [pc EXCEPT ![t] = "idle"]
       /\ element' = [element EXCEPT ![t] = None]
       /\ UNCHANGED <<calls, priority>>

(* The body ends, with or without an exception.                            *)
Exit(t) ==
    /\ pc[t] = "inside"
    /\ Finally(t)
    /\ UNCHANGED <<cancels, skipped>>

EarlierWaiter(t) ==
    \E u \in Tasks : pc[u] = "waiting" /\ priority[u] = priority[t] /\ element[u].call < element[t].call

(* The task is cancelled while it waits, its event set or not.             *)
Cancel(t) ==
    /\ pc[t] = "waiting"
    /\ cancels < MaxCancels
    /\ Finally(t)
    /\ cancels' = cancels + 1
    /\ skipped' = (skipped \/ EarlierWaiter(t))

MutexNext ==
    \E t \in Tasks :
        \/ \E p \in Priorities : Acquire(t, p)
        \/ Enter(t)
        \/ Exit(t)
        \/ Cancel(t)

MutexSpec == MutexInit /\ [][MutexNext]_mutexVars

-----------------------------------------------------------------------------
Elements == [task : Tasks, call : Nat]

MutexTypeOK ==
    /\ deques \in [Priorities -> Seq(Elements)]
    /\ active \in Elements \cup {None}
    /\ ready \subseteq Elements
    /\ calls \in Nat
    /\ pc \in [Tasks -> {"idle", "waiting", "inside"}]
    /\ element \in [Tasks -> Elements \cup {None}]
    /\ priority \in [Tasks -> Priorities]
    /\ cancels \in Nat
    /\ skipped \in BOOLEAN

(* At most one task is inside the body at a time, whatever was cancelled:  *)
(* the body of acquire is where blocks are added and the mempool changes.  *)
MutualExclusion == \A t, u \in Tasks : pc[t] = "inside" /\ pc[u] = "inside" => t = u

(* The mutex is never free while a task waits for it: the finally block    *)
(* hands it on, also when the element it removes is not its own.           *)
NeverIdle == active = None => \A t \in Tasks : pc[t] = "idle"

(* The active element belongs to a task that still works with it, as long  *)
(* as no wait was cancelled behind an earlier one of its own priority.     *)
(* Otherwise the finally block may hand the mutex to an element whose task *)
(* is gone.                                                                *)
ActiveIsAlive == ~skipped /\ active # None => \E t \in Tasks : element[t] = active

(* The mutex is handed to the waiter that comes first: lowest priority     *)
(* value, then earliest call.                                              *)
HandedInOrder ==
    [][\A t, u \in Tasks :
        /\ pc[t] = "waiting" /\ pc[u] = "waiting" /\ pc'[u] = "waiting"
        /\ active' = element[t] /\ active # active' /\ ~skipped'
        => \/ priority[t] < priority[u]
           \/ priority[t] = priority[u] /\ element[t].call <= element[u].call]_mutexVars
==============================================================================
