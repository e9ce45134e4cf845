-------------------------- MODULE LimitedSemaphore --------------------------
(***************************************************************************)
(* util/limited_semaphore.py: at most ActiveLimit handlers run, at most    *)
(* WaitingLimit more wait, and the rest are refused at once.               *)
(*                                                                         *)
(* value, waiters and granted are the asyncio.Semaphore inside it: waiters *)
(* in the order of their calls, and those whose future is already set,     *)
(* which stay among the waiters until they run.                            *)
(***************************************************************************)
EXTENDS Naturals, Sequences, SequencesExt, FiniteSets

CONSTANTS Handlers,      \* tasks that call acquire
          ActiveLimit,   \* active_limit
          WaitingLimit   \* waiting_limit

ASSUME LimitAssumption == ActiveLimit \in Nat /\ WaitingLimit \in Nat

VARIABLES available,     \* _available_count
          value, waiters, granted,
          gate           \* where a handler is: out, queued or in

semVars == <<available, value, waiters, granted, gate>>

SemInit ==
    /\ available = ActiveLimit + WaitingLimit
    /\ value = ActiveLimit
    /\ waiters = <<>>
    /\ granted = {}
    /\ gate = [h \in Handlers |-> "out"]

(* Mutant: the unit goes back to the count and nobody is woken.            *)
WakeNobody(units, ws, gs) == value' = units /\ waiters' = ws /\ granted' = gs

(* _wake_up_next: the first waiter whose future is not set takes a unit,   *)
(* if there is such a waiter.                                              *)
WakeUpNext(units, ws, gs) ==
    LET asleep == SelectSeq(ws, LAMBDA w : w \notin gs)
    IN IF asleep = <<>>
       THEN value' = units /\ waiters' = ws /\ granted' = gs
       ELSE value' = units - 1 /\ waiters' = ws /\ granted' = gs \cup {Head(asleep)}

(* acquire, when there is a slot (LimitedSemaphoreFullError otherwise, and *)
(* nothing changes): run at once, or queue behind the others.              *)
SemAcquire(h) ==
    /\ gate[h] = "out"
    /\ available >= 1
    /\ available' = available - 1
    /\ \/ /\ value > 0 /\ waiters = <<>>
          /\ value' = value - 1
          /\ gate' = [gate EXCEPT ![h] = "in"]
          /\ UNCHANGED <<waiters, granted>>
       \/ /\ value = 0 \/ waiters # <<>>
          /\ waiters' = Append(waiters, h)
          /\ gate' = [gate EXCEPT ![h] = "queued"]
          /\ UNCHANGED <<value, granted>>

(* The wait for a unit returns; a unit that is left wakes another waiter.  *)
SemResume(h) ==
    LET ws == Remove(waiters, h)
        gs == granted \ {h}
    IN /\ gate[h] = "queued"
       /\ h \in granted
       /\ gate' = [gate EXCEPT ![h] = "in"]
       /\ \/ value > 0 /\ WakeUpNext(value, ws, gs)
          \/ value = 0 /\ waiters' = ws /\ granted' = gs /\ UNCHANGED value
       /\ UNCHANGED available

(* The wait is cancelled; a unit already given to it is passed on.         *)
SemCancel(h) ==
    LET ws == Remove(waiters, h)
        gs == granted \ {h}
    IN /\ gate[h] = "queued"
       /\ gate' = [gate EXCEPT ![h] = "out"]
       /\ \/ h \in granted /\ WakeUpNext(value + 1, ws, gs)
          \/ h \notin granted /\ waiters' = ws /\ UNCHANGED <<granted, value>>
       /\ available' = available + 1

(* The body ends, with or without an exception.                            *)
SemRelease(h) ==
    /\ gate[h] = "in"
    /\ gate' = [gate EXCEPT ![h] = "out"]
    /\ WakeUpNext(value + 1, waiters, granted)
    /\ available' = available + 1

InGate(where) == {h \in Handlers : gate[h] = where}

SemTypeOK ==
    /\ available \in 0 .. ActiveLimit + WaitingLimit
    /\ value \in 0 .. ActiveLimit
    /\ waiters \in Seq(Handlers)
    /\ granted \subseteq ToSet(waiters)
    /\ gate \in [Handlers -> {"out", "queued", "in"}]
==============================================================================
