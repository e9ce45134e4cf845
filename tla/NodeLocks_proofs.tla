--------------------------- MODULE NodeLocks_proofs ---------------------------
(***************************************************************************)
(* The blockchain's mutex excludes and never idles, for every number of    *)
(* tasks, priorities, calls and cancellations; although the finally block  *)
(* of acquire removes the first element of a deque and not its own, what   *)
(* counts is that it removes one.                                          *)
(***************************************************************************)
EXTENDS NodeLocks, TLAPS, FiniteSetTheorems, WellFoundedInduction

(* The tasks between acquire and the end of its finally block, at p.       *)
Busy(p) == {t \in Tasks : pc[t] # "idle" /\ priority[t] = p}

DequesOK ==
    /\ deques \in [Priorities -> Seq(Elements)]
    /\ \A p \in Priorities : \A i \in 1 .. Len(deques[p]) :
          deques[p][i].call \in 1 .. calls

(* A deque has as many elements as tasks at work, if not their own.        *)
Counted == \A p \in Priorities : Len(deques[p]) = Cardinality(Busy(p))

ElementsOK ==
    /\ calls \in Nat
    /\ active \in Elements \cup {None}
    /\ ready \subseteq Elements
    /\ \A e \in ready : e.call \in 1 .. calls
    /\ active # None => active.call \in 1 .. calls
    /\ pc \in [Tasks -> {"idle", "waiting", "inside"}]
    /\ priority \in [Tasks -> Priorities]
    /\ element \in [Tasks -> Elements \cup {None}]
    /\ \A t \in Tasks : pc[t] # "idle" =>
          /\ element[t] \in Elements
          /\ element[t].task = t
          /\ element[t].call \in 1 .. calls

(* Only the task of the active element is inside, or about to enter.       *)
Excluded ==
    \A t \in Tasks :
        /\ pc[t] = "inside" => active = element[t]
        /\ pc[t] = "waiting" /\ element[t] \in ready => active = element[t]

MutexInv == ElementsOK /\ DequesOK /\ Counted /\ Excluded /\ NeverIdle

------------------------------------------------------------------------------
(* Adding and removing one task from a finite set of them.                 *)
LEMMA CountOneMore ==
    ASSUME NEW S \in SUBSET Tasks, NEW t \in Tasks, t \notin S
    PROVE  Cardinality(S \cup {t}) = Cardinality(S) + 1
  BY FS_AddElement, FS_Subset, MutexAssumption

LEMMA CountOneLess ==
    ASSUME NEW S \in SUBSET Tasks, NEW t \in S
    PROVE  /\ Cardinality(S \ {t}) = Cardinality(S) - 1
           /\ Cardinality(S) > 0
  <1>1. IsFiniteSet(S) /\ Cardinality(S) \in Nat
    BY FS_Subset, FS_CardinalityType, MutexAssumption
  <1> QED
    BY <1>1, FS_RemoveElement, FS_EmptySet

(* No element of a task is None.                                           *)
LEMMA NotNone ==
    ASSUME NEW e \in Elements, e.call \in 1 .. calls
    PROVE  e # None
  BY DEF None, Elements

(* The lowest of some priorities is one of them.                           *)
LEMMA StrictOrder ==
    ASSUME NEW R, R = {e \in Nat \X Nat : e[1] < e[2]},
           NEW x \in Nat, NEW y \in Nat, ~ (<<y, x>> \in R)
    PROVE  x <= y
  OBVIOUS

LEMMA LowestIsLeast ==
    ASSUME NEW S \in SUBSET Nat, S # {}
    PROVE  Lowest(S) \in S /\ \A q \in S : Lowest(S) <= q
  <1>1. \E x \in S : \A y \in S : x <= y
    <2> DEFINE R == OpToRel(<, Nat)
    <2>1. R = {e \in Nat \X Nat : e[1] < e[2]}
      BY Zenon DEF OpToRel
    <2>2. PICK x \in S : \A y \in S : ~ (<<y, x>> \in R)
      BY NatLessThanWellFounded, WFMin
    <2> HIDE DEF R
    <2>3. \A y \in S : x <= y
      BY <2>1, <2>2, StrictOrder, Zenon
    <2> QED
      BY <2>3, Zenon
  <1> QED
    BY <1>1 DEF Lowest

LEMMA MutexInitially ==
    ASSUME MutexInit
    PROVE  MutexInv
  <1>1. Lowest(Priorities) \in Priorities
    BY LowestIsLeast, MutexAssumption
  <1>2. ElementsOK
    BY <1>1 DEF MutexInit, ElementsOK
  <1>3. DequesOK
    BY DEF MutexInit, DequesOK
  <1>4. Counted
    <2>1. \A p \in Priorities : Busy(p) = {}
      BY DEF MutexInit, Busy
    <2> QED
      BY <2>1, FS_EmptySet DEF MutexInit, Counted
  <1>5. Excluded /\ NeverIdle
    BY DEF MutexInit, Excluded, NeverIdle
  <1> QED
    BY <1>2, <1>3, <1>4, <1>5 DEF MutexInv

------------------------------------------------------------------------------
LEMMA AcquireStep ==
    ASSUME MutexInv, NEW t \in Tasks, NEW p \in Priorities, Acquire(t, p)
    PROVE  MutexInv'
  <1> DEFINE e == [task |-> t, call |-> calls + 1]
  <1>1. /\ pc[t] = "idle" /\ calls' = calls + 1 /\ UNCHANGED ready
        /\ deques' = [deques EXCEPT ![p] = Append(@, e)]
        /\ element' = [element EXCEPT ![t] = e]
        /\ priority' = [priority EXCEPT ![t] = p]
        /\ \/ /\ active = None /\ active' = e
              /\ pc' = [pc EXCEPT ![t] = "inside"]
           \/ /\ active # None /\ active' = active
              /\ pc' = [pc EXCEPT ![t] = "waiting"]
    BY DEF Acquire
  <1>2. /\ e \in Elements /\ e.task = t /\ e.call = calls + 1
        /\ calls \in Nat /\ e # None
    BY DEF Elements, None, MutexInv, ElementsOK
  <1> HIDE DEF e
  <1>3. ElementsOK'
    BY <1>1, <1>2 DEF MutexInv, ElementsOK
  <1>4. DequesOK'
    <2>1. deques' \in [Priorities -> Seq(Elements)]
      BY <1>1, <1>2 DEF MutexInv, DequesOK
    <2>2. ASSUME NEW q \in Priorities, NEW i \in 1 .. Len(deques'[q])
          PROVE  deques'[q][i].call \in 1 .. calls'
      <3>1. CASE q # p
        BY <1>1, <1>2, <2>2, <3>1 DEF MutexInv, DequesOK
      <3>2. CASE q = p
        <4>1. deques'[p] = Append(deques[p], e) /\ deques[p] \in Seq(Elements)
          BY <1>1 DEF MutexInv, DequesOK
        <4>2. CASE i \in 1 .. Len(deques[p])
          <5>1. deques'[p][i] = deques[p][i]
            BY <4>1, <4>2
          <5> QED
            BY <1>1, <1>2, <3>2, <4>2, <5>1 DEF MutexInv, DequesOK
        <4>3. CASE i = Len(deques[p]) + 1
          <5>1. deques'[p][i] = e
            BY <4>1, <4>3, <1>2
          <5> QED
            BY <1>1, <1>2, <3>2, <5>1
        <4> QED
          BY <1>2, <2>2, <3>2, <4>1, <4>2, <4>3
      <3> QED
        BY <3>1, <3>2
    <2> QED
      BY <2>1, <2>2 DEF DequesOK
  <1>5. Counted'
    <2>1. /\ Busy(p)' = Busy(p) \cup {t} /\ t \notin Busy(p)
          /\ \A q \in Priorities \ {p} : Busy(q)' = Busy(q)
      BY <1>1 DEF Busy, MutexInv, ElementsOK
    <2>2. Cardinality(Busy(p)') = Cardinality(Busy(p)) + 1
      BY <2>1, CountOneMore DEF Busy
    <2>3. Len(deques'[p]) = Len(deques[p]) + 1
      BY <1>1, <1>2 DEF MutexInv, DequesOK
    <2>4. \A q \in Priorities \ {p} : deques'[q] = deques[q]
      BY <1>1 DEF MutexInv, DequesOK
    <2> QED
      BY <2>1, <2>2, <2>3, <2>4 DEF MutexInv, Counted
  <1>6. Excluded'
    <2>1. e \notin ready
      BY <1>2 DEF MutexInv, ElementsOK
    <2>2. \A u \in Tasks : pc[u] # "idle" => element[u] # None
      BY NotNone DEF MutexInv, ElementsOK
    <2> QED
      BY <1>1, <2>1, <2>2 DEF MutexInv, Excluded, ElementsOK
  <1>7. NeverIdle'
    BY <1>1, <1>2 DEF NeverIdle
  <1> QED
    BY <1>3, <1>4, <1>5, <1>6, <1>7 DEF MutexInv

LEMMA EnterStep ==
    ASSUME MutexInv, NEW t \in Tasks, Enter(t)
    PROVE  MutexInv'
  <1>1. /\ UNCHANGED <<deques, active, ready, calls, element, priority>>
        /\ pc[t] = "waiting" /\ element[t] \in ready
        /\ pc' = [pc EXCEPT ![t] = "inside"]
    BY DEF Enter
  <1>2. ElementsOK' /\ DequesOK'
    BY <1>1 DEF MutexInv, ElementsOK, DequesOK
  <1>3. Counted'
    <2>1. \A p \in Priorities : Busy(p)' = Busy(p)
      BY <1>1 DEF Busy, MutexInv, ElementsOK
    <2> QED
      BY <1>1, <2>1 DEF MutexInv, Counted
  <1>4. Excluded'
    BY <1>1 DEF MutexInv, ElementsOK, Excluded
  <1>5. NeverIdle'
    BY <1>1 DEF MutexInv, NeverIdle
  <1> QED
    BY <1>2, <1>3, <1>4, <1>5 DEF MutexInv

(* The finally block, at the end of the body and of a cancelled wait.      *)
LEMMA FinallyStep ==
    ASSUME MutexInv, NEW t \in Tasks, pc[t] # "idle", Finally(t)
    PROVE  MutexInv'
  <1>0. PICK p \in Priorities : p = priority[t]
    BY DEF MutexInv, ElementsOK
  <1> DEFINE rest    == Removed(p)
             queued  == {q \in Priorities : rest[q] # <<>>}
             passing == active \in {None, element[t]}
             next    == Head(rest[Lowest(queued)])
  <1>1. /\ deques' = rest
        /\ pc' = [pc EXCEPT ![t] = "idle"]
        /\ element' = [element EXCEPT ![t] = None]
        /\ UNCHANGED <<calls, priority>>
        /\ \/ ~ passing /\ active' = active /\ ready' = ready \ {element[t]}
           \/ /\ passing /\ queued = {} /\ active' = None
              /\ ready' = ready \ {element[t]}
           \/ /\ passing /\ queued # {} /\ active' = next
              /\ ready' = (ready \ {element[t]}) \cup {next}
    BY <1>0 DEF Finally
  <1>2. /\ t \in Busy(p)
        /\ element[t] \in Elements /\ element[t].task = t
    BY <1>0 DEF MutexInv, ElementsOK, Busy
  <1>3. /\ Busy(p)' = Busy(p) \ {t}
        /\ \A q \in Priorities \ {p} : Busy(q)' = Busy(q)
    BY <1>1, <1>2 DEF Busy, MutexInv, ElementsOK
  <1>4. Cardinality(Busy(p)') = Cardinality(Busy(p)) - 1 /\ Len(deques[p]) > 0
    BY <1>2, <1>3, CountOneLess DEF Busy, MutexInv, Counted
  <1>5. /\ deques[p] \in Seq(Elements) /\ deques[p] # <<>>
        /\ rest = [deques EXCEPT ![p] = Tail(@)]
    BY <1>2, <1>4 DEF MutexInv, DequesOK, Removed
  <1>6. /\ rest \in [Priorities -> Seq(Elements)]
        /\ rest[p] = Tail(deques[p]) /\ Len(rest[p]) = Len(deques[p]) - 1
        /\ \A q \in Priorities \ {p} : rest[q] = deques[q]
    BY <1>2, <1>5 DEF MutexInv, DequesOK
  <1> HIDE DEF rest
  <1>7. \A q \in Priorities : \A i \in 1 .. Len(rest[q]) :
           rest[q][i].call \in 1 .. calls
    <2>1. SUFFICES ASSUME NEW i \in 1 .. Len(rest[p])
                   PROVE  rest[p][i].call \in 1 .. calls
      BY <1>6 DEF MutexInv, DequesOK
    <2>2. rest[p][i] = deques[p][i + 1] /\ i + 1 \in 1 .. Len(deques[p])
      BY <1>5, <1>6
    <2> QED
      BY <1>2, <2>2 DEF MutexInv, DequesOK
  <1>8. DequesOK'
    BY <1>1, <1>6, <1>7 DEF DequesOK
  <1>9. Counted'
    BY <1>1, <1>2, <1>3, <1>4, <1>6 DEF MutexInv, Counted
  <1>10. queued # {} => next \in Elements /\ next.call \in 1 .. calls
    <2>1. SUFFICES ASSUME queued # {}
                   PROVE  next \in Elements /\ next.call \in 1 .. calls
      OBVIOUS
    <2>2. Lowest(queued) \in queued
      BY <2>1, LowestIsLeast, MutexAssumption
    <2> DEFINE l == Lowest(queued)
    <2> HIDE DEF l
    <2>3. /\ l \in Priorities /\ rest[l] # <<>> /\ rest[l] \in Seq(Elements)
          /\ next = Head(rest[l])
      BY <1>6, <2>2 DEF l
    <2>4. /\ Head(rest[l]) = rest[l][1] /\ 1 \in 1 .. Len(rest[l])
          /\ Head(rest[l]) \in Elements
      BY <2>3
    <2> QED
      BY <1>7, <2>3, <2>4
  <1> HIDE DEF next, queued
  <1>11. ElementsOK'
    BY <1>1, <1>10 DEF MutexInv, ElementsOK
  <1>12. ASSUME NEW u \in Tasks, pc[u] # "idle", active = element[u], u # t
         PROVE  ~ passing
    BY <1>2, <1>12, NotNone DEF MutexInv, ElementsOK
  <1>13. Excluded'
    <2>1. SUFFICES ASSUME NEW u \in Tasks, u # t,
                          \/ pc[u] = "inside"
                          \/ pc[u] = "waiting" /\ element[u] \in ready'
                   PROVE  active' = element[u]
      BY <1>1 DEF MutexInv, ElementsOK, Excluded
    <2>2. CASE active = element[u]
      BY <1>1, <1>12, <2>1, <2>2
    <2>3. CASE active # element[u]
      BY <1>1, <2>1, <2>3 DEF MutexInv, Excluded
    <2> QED
      BY <2>2, <2>3
  <1>14. NeverIdle'
    <2>1. SUFFICES ASSUME active' = None, NEW u \in Tasks
                   PROVE  pc'[u] = "idle"
      BY DEF NeverIdle
    <2>2. queued = {}
      <3>1. active = None => pc[t] = "idle"
        BY DEF MutexInv, NeverIdle
      <3>2. passing
        BY <1>1, <2>1, <3>1
      <3>3. queued # {} => next # None
        BY <1>10, NotNone
      <3> QED
        BY <1>1, <2>1, <3>2, <3>3
    <2>3. ASSUME NEW q \in Priorities PROVE Busy(q)' = {}
      <3>1. Len(deques'[q]) = 0
        BY <1>1, <1>6, <2>2 DEF queued
      <3>2. Cardinality(Busy(q)') = 0
        BY <1>9, <3>1 DEF Counted
      <3>3. Busy(q)' \in SUBSET Tasks
        BY DEF Busy
      <3> QED
        BY <3>2, <3>3, FS_EmptySet, FS_Subset, MutexAssumption
    <2> QED
      BY <1>11, <2>3 DEF Busy, ElementsOK
  <1> QED
    BY <1>8, <1>9, <1>11, <1>13, <1>14 DEF MutexInv

------------------------------------------------------------------------------
(* Every step of the node's tasks is a step of the mutex or leaves it.     *)
LEMMA NodeStep ==
    ASSUME MutexInv, [Next]_lockVars
    PROVE  MutexInv'
  <1>1. \/ \E t \in Tasks, p \in Priorities : Acquire(t, p)
        \/ \E t \in Tasks : Enter(t)
        \/ \E t \in Tasks : pc[t] # "idle" /\ Finally(t)
        \/ UNCHANGED mutexVars
    <2>1. CASE \E h \in Handlers : AddBlock(h)
      BY <2>1, LocksAssumption DEF AddBlock, High
    <2>2. CASE \E t \in Tasks \ Handlers : AddTransaction(t)
      BY <2>2, LocksAssumption DEF AddTransaction, Low
    <2>3. CASE \E t \in Tasks : GetMutex(t)
      BY <2>3 DEF GetMutex
    <2>4. CASE \E t \in Tasks : LeaveMutex(t) \/ CancelMutex(t)
      BY <2>4 DEF LeaveMutex, CancelMutex, Exit, Cancel
    <2>5. CASE \E h \in Handlers : \/ NewPeak(h) \/ NewPeakResumes(h)
                                   \/ NewPeakCancelled(h) \/ NewPeakReturns(h)
      BY <2>5 DEF NewPeak, NewPeakResumes, NewPeakCancelled, NewPeakReturns
    <2>6. CASE UNCHANGED lockVars
      BY <2>6 DEF lockVars
    <2> QED
      BY <2>1, <2>2, <2>3, <2>4, <2>5, <2>6 DEF Next
  <1>2. CASE UNCHANGED mutexVars
    <2>1. UNCHANGED <<deques, active, ready, calls, pc, element, priority>>
      BY <1>2 DEF mutexVars
    <2>2. \A p \in Priorities : Busy(p)' = Busy(p)
      BY <2>1 DEF Busy
    <2> QED
      BY <2>1, <2>2 DEF MutexInv, ElementsOK, DequesOK, Counted, Excluded, NeverIdle
  <1> QED
    BY <1>1, <1>2, AcquireStep, EnterStep, FinallyStep

(* Elements, deques and tasks agree after any sequence of calls of         *)
(* acquire, hand-overs and cancellations.                                  *)
THEOREM MutexInvariance == Spec => []MutexInv
  <1>1. Init => MutexInv
    BY MutexInitially DEF Init
  <1>2. MutexInv /\ [Next]_lockVars => MutexInv'
    BY NodeStep
  <1> QED
    BY <1>1, <1>2, PTL DEF Spec

(* Never two tasks in a body under the blockchain's mutex, whatever is     *)
(* cancelled.                                                              *)
THEOREM MutexExcludes == Spec => []MutualExclusion
  <1>1. MutexInv => MutualExclusion
    BY DEF MutexInv, Excluded, ElementsOK, MutualExclusion
  <1> QED
    BY <1>1, MutexInvariance, PTL

(* The mutex is never free while a task waits for it.                      *)
THEOREM MutexNeverIdle == Spec => []NeverIdle
  <1>1. MutexInv => NeverIdle
    BY DEF MutexInv
  <1> QED
    BY <1>1, MutexInvariance, PTL

------------------------------------------------------------------------------
(* The order of the queue, while nobody was cancelled behind an earlier    *)
(* waiter of the same priority.  Behind the place of the task inside, a    *)
(* deque holds the elements of the waiting tasks in the order of calls;    *)
(* what is at the place of the task inside may be another's, since         *)
(* deque.remove takes the first.                                           *)

Waits(t, p) == pc[t] = "waiting" /\ priority[t] = p

From(p) == IF \E t \in Tasks : pc[t] = "inside" /\ priority[t] = p THEN 2 ELSE 1

InOrder ==
    \A p \in Priorities :
        /\ \A i \in From(p) .. Len(deques[p]) :
              \E t \in Tasks : Waits(t, p) /\ element[t] = deques[p][i]
        /\ \A t \in Tasks : Waits(t, p) =>
              \E i \in From(p) .. Len(deques[p]) : element[t] = deques[p][i]
        /\ \A i, j \in From(p) .. Len(deques[p]) :
              i < j => deques[p][i].call < deques[p][j].call

Owned ==
    active # None =>
        \E t \in Tasks :
            /\ pc[t] # "idle" /\ element[t] = active
            /\ pc[t] = "waiting" =>
                  /\ Len(deques[priority[t]]) > 0
                  /\ deques[priority[t]][1] = active

OrderInv == ~ skipped => InOrder /\ Owned

(* The waiter that no other one of its priority precedes comes first.      *)
LEMMA FirstWaiter ==
    ASSUME MutexInv, InOrder, NEW p \in Priorities, NEW t \in Tasks,
           Waits(t, p), ~ EarlierWaiter(t)
    PROVE  From(p) <= Len(deques[p]) /\ deques[p][From(p)] = element[t]
  <1>1. PICK i \in From(p) .. Len(deques[p]) : element[t] = deques[p][i]
    BY DEF InOrder
  <1>2. From(p) \in Nat /\ Len(deques[p]) \in Nat /\ From(p) <= i
    BY DEF From, MutexInv, DequesOK
  <1>3. ASSUME i # From(p) PROVE FALSE
    <2>1. /\ From(p) \in From(p) .. Len(deques[p]) /\ From(p) < i
      BY <1>2, <1>3
    <2>2. PICK u \in Tasks : Waits(u, p) /\ element[u] = deques[p][From(p)]
      BY <2>1 DEF InOrder
    <2>3. element[u].call < element[t].call
      BY <1>1, <2>1, <2>2 DEF InOrder
    <2> QED
      BY <2>2, <2>3 DEF EarlierWaiter, Waits
  <1> QED
    BY <1>1, <1>2, <1>3

LEMMA OrderInitially ==
    ASSUME MutexInit
    PROVE  OrderInv
  BY DEF MutexInit, OrderInv, InOrder, Owned, From, Waits

(* A new call goes to the end of its deque.                                *)
LEMMA AcquireKeepsOrder ==
    ASSUME MutexInv, InOrder, Owned, NEW t \in Tasks, NEW p \in Priorities,
           Acquire(t, p)
    PROVE  InOrder' /\ Owned'
  <1> DEFINE e == [task |-> t, call |-> calls + 1]
  <1>1. /\ pc[t] = "idle" /\ calls' = calls + 1
        /\ deques' = [deques EXCEPT ![p] = Append(@, e)]
        /\ element' = [element EXCEPT ![t] = e]
        /\ priority' = [priority EXCEPT ![t] = p]
    BY DEF Acquire
  <1>2. /\ e \in Elements /\ e.task = t /\ e.call = calls + 1 /\ calls \in Nat
    BY DEF Elements, MutexInv, ElementsOK
  <1> HIDE DEF e
  <1>3. /\ deques[p] \in Seq(Elements) /\ deques'[p] = Append(deques[p], e)
        /\ Len(deques[p]) \in Nat /\ Len(deques'[p]) = Len(deques[p]) + 1
        /\ deques'[p][Len(deques[p]) + 1] = e
        /\ \A i \in 1 .. Len(deques[p]) : deques'[p][i] = deques[p][i]
        /\ \A q \in Priorities \ {p} : deques'[q] = deques[q]
    BY <1>1, <1>2 DEF MutexInv, DequesOK
  <1>4. CASE active = None
    <2>1. /\ active' = e /\ pc' = [pc EXCEPT ![t] = "inside"]
          /\ \A u \in Tasks : pc[u] = "idle"
      BY <1>2, <1>4 DEF Acquire, MutexInv, NeverIdle, e
    <2>2. \A q \in Priorities : Len(deques[q]) = 0
      <3>1. \A q \in Priorities : Busy(q) = {}
        BY <2>1 DEF Busy
      <3> QED
        BY <3>1, FS_EmptySet DEF MutexInv, Counted
    <2>3. \A u \in Tasks : pc'[u] # "waiting"
      BY <2>1 DEF MutexInv, ElementsOK
    <2>4. /\ From(p)' = 2
          /\ \A q \in Priorities : From(q)' \in {1, 2}
      BY <1>1, <2>1 DEF From, MutexInv, ElementsOK
    <2>5. InOrder'
      BY <1>3, <2>2, <2>3, <2>4 DEF InOrder, Waits
    <2>6. Owned'
      BY <1>1, <2>1, <2>3 DEF Owned, MutexInv, ElementsOK
    <2> QED
      BY <2>5, <2>6
  <1>5. CASE active # None
    <2>1. active' = active /\ pc' = [pc EXCEPT ![t] = "waiting"]
      BY <1>5 DEF Acquire
    <2>2. \A q \in Priorities : From(q)' = From(q) /\ From(q) \in {1, 2}
      BY <1>1, <2>1 DEF From, MutexInv, ElementsOK
    <2>3. \A u \in Tasks \ {t}, q \in Priorities :
             /\ Waits(u, q)' <=> Waits(u, q)
             /\ element'[u] = element[u]
      BY <1>1, <2>1 DEF Waits, MutexInv, ElementsOK
    <2>4. /\ Waits(t, p)' /\ element'[t] = e
          /\ \A q \in Priorities : Waits(t, q)' => q = p
          /\ \A q \in Priorities : ~ Waits(t, q)
      BY <1>1, <2>1 DEF Waits, MutexInv, ElementsOK
    <2>5. From(p) <= Len(deques[p]) + 1
      <3>1. CASE From(p) = 1
        BY <1>3, <3>1
      <3>2. CASE From(p) # 1
        <4>1. PICK u \in Tasks : pc[u] = "inside" /\ priority[u] = p
          BY <3>2 DEF From
        <4>2. u \in Busy(p) /\ Busy(p) \in SUBSET Tasks
          BY <4>1 DEF Busy
        <4>3. Len(deques[p]) > 0
          BY <4>2, CountOneLess DEF MutexInv, Counted
        <4> QED
          BY <1>3, <2>2, <4>3
      <3> QED
        BY <3>1, <3>2
    <2>6. InOrder'
      <3>1. ASSUME NEW q \in Priorities, NEW i \in From(q)' .. Len(deques'[q])
            PROVE  \E u \in Tasks : Waits(u, q)' /\ element'[u] = deques'[q][i]
        <4>1. CASE q = p /\ i = Len(deques[p]) + 1
          BY <1>3, <2>4, <4>1
        <4>2. CASE ~ (q = p /\ i = Len(deques[p]) + 1)
          <5>1. i \in From(q) .. Len(deques[q]) /\ deques'[q][i] = deques[q][i]
            BY <1>3, <2>2, <3>1, <4>2
          <5>2. PICK u \in Tasks : Waits(u, q) /\ element[u] = deques[q][i]
            BY <5>1 DEF InOrder
          <5> QED
            BY <2>3, <2>4, <5>1, <5>2
        <4> QED
          BY <4>1, <4>2
      <3>2. ASSUME NEW q \in Priorities, NEW u \in Tasks, Waits(u, q)'
            PROVE  \E i \in From(q)' .. Len(deques'[q]) : element'[u] = deques'[q][i]
        <4>1. CASE u = t
          <5>1. q = p /\ element'[u] = deques'[p][Len(deques[p]) + 1]
            BY <1>3, <2>4, <3>2, <4>1
          <5>2. Len(deques[p]) + 1 \in From(p)' .. Len(deques'[p])
            BY <1>3, <2>2, <2>5
          <5> QED
            BY <5>1, <5>2
        <4>2. CASE u # t
          <5>1. PICK i \in From(q) .. Len(deques[q]) : element[u] = deques[q][i]
            BY <2>3, <3>2, <4>2 DEF InOrder
          <5>2. i \in From(q)' .. Len(deques'[q]) /\ deques'[q][i] = deques[q][i]
            BY <1>3, <2>2, <5>1
          <5> QED
            BY <2>3, <4>2, <5>1, <5>2
        <4> QED
          BY <4>1, <4>2
      <3>3. ASSUME NEW q \in Priorities,
                   NEW i \in From(q)' .. Len(deques'[q]),
                   NEW j \in From(q)' .. Len(deques'[q]), i < j
            PROVE  deques'[q][i].call < deques'[q][j].call
        <4>1. /\ i \in From(q) .. Len(deques[q])
              /\ deques'[q][i] = deques[q][i]
              /\ deques[q][i].call \in 1 .. calls
          <5>1. Len(deques[q]) \in Nat /\ From(q) \in {1, 2}
            BY <2>2 DEF MutexInv, DequesOK
          <5>2. i \in From(q) .. Len(deques[q]) /\ i \in 1 .. Len(deques[q])
            BY <1>3, <2>2, <3>3, <5>1
          <5>3. deques'[q][i] = deques[q][i]
            BY <1>3, <5>2
          <5> QED
            BY <5>2, <5>3 DEF MutexInv, DequesOK
        <4>2. CASE q = p /\ j = Len(deques[p]) + 1
          BY <1>2, <1>3, <4>1, <4>2
        <4>3. CASE ~ (q = p /\ j = Len(deques[p]) + 1)
          <5>1. j \in From(q) .. Len(deques[q]) /\ deques'[q][j] = deques[q][j]
            BY <1>3, <2>2, <3>3, <4>3
          <5> QED
            BY <3>3, <4>1, <5>1 DEF InOrder
        <4> QED
          BY <4>2, <4>3
      <3> QED
        BY <3>1, <3>2, <3>3 DEF InOrder
    <2>7. Owned'
      <3>1. PICK u \in Tasks :
               /\ pc[u] # "idle" /\ element[u] = active
               /\ pc[u] = "waiting" => /\ Len(deques[priority[u]]) > 0
                                      /\ deques[priority[u]][1] = active
        BY <1>5 DEF Owned
      <3>2. /\ u # t /\ pc'[u] = pc[u] /\ element'[u] = element[u]
            /\ priority'[u] = priority[u] /\ priority[u] \in Priorities
        BY <1>1, <2>1, <3>1 DEF MutexInv, ElementsOK
      <3>3. Len(deques[priority[u]]) > 0 =>
               /\ Len(deques'[priority[u]]) > 0
               /\ deques'[priority[u]][1] = deques[priority[u]][1]
        BY <1>3, <3>2 DEF MutexInv, DequesOK
      <3> QED
        BY <2>1, <3>1, <3>2, <3>3 DEF Owned
    <2> QED
      BY <2>6, <2>7
  <1> QED
    BY <1>4, <1>5

(* Two tasks at work have different elements.                              *)
LEMMA OwnElement ==
    ASSUME MutexInv, NEW t \in Tasks, NEW u \in Tasks,
           pc[t] # "idle", pc[u] # "idle", element[t] = element[u]
    PROVE  t = u
  BY DEF MutexInv, ElementsOK

(* The first of its deque goes inside and leaves its place behind.         *)
LEMMA EnterKeepsOrder ==
    ASSUME MutexInv, InOrder, Owned, NEW t \in Tasks, Enter(t)
    PROVE  InOrder' /\ Owned'
  <1>1. /\ UNCHANGED <<deques, active, element, priority>>
        /\ pc[t] = "waiting" /\ active = element[t] /\ active # None
        /\ pc' = [pc EXCEPT ![t] = "inside"]
    BY NotNone DEF Enter, MutexInv, Excluded, ElementsOK
  <1>2. PICK p \in Priorities : p = priority[t]
    BY DEF MutexInv, ElementsOK
  <1>3. Len(deques[p]) > 0 /\ deques[p][1] = element[t]
    BY <1>1, <1>2, OwnElement DEF Owned
  <1>4. \A u \in Tasks : pc[u] # "inside"
    BY <1>1, OwnElement DEF MutexInv, Excluded
  <1>5. /\ \A q \in Priorities : From(q) = 1
        /\ From(p)' = 2 /\ \A q \in Priorities \ {p} : From(q)' = 1
    BY <1>1, <1>2, <1>4 DEF From, MutexInv, ElementsOK
  <1>6. /\ \A u \in Tasks \ {t}, q \in Priorities : Waits(u, q)' <=> Waits(u, q)
        /\ \A q \in Priorities : /\ ~ Waits(t, q)'
                                 /\ Waits(t, q) => q = p
    BY <1>1, <1>2 DEF Waits, MutexInv, ElementsOK
  <1>7. Len(deques[p]) \in Nat
    BY DEF MutexInv, DequesOK
  <1>8. InOrder'
    <2>1. ASSUME NEW q \in Priorities, NEW i \in From(q)' .. Len(deques'[q])
          PROVE  \E u \in Tasks : Waits(u, q)' /\ element'[u] = deques'[q][i]
      <3>1. i \in From(q) .. Len(deques[q])
        BY <1>1, <1>5, <1>7, <2>1
      <3>2. PICK u \in Tasks : Waits(u, q) /\ element[u] = deques[q][i]
        BY <3>1 DEF InOrder
      <3>3. u # t
        <4>1. SUFFICES ASSUME u = t PROVE FALSE
          OBVIOUS
        <4>2. q = p /\ 1 < i /\ 1 \in From(p) .. Len(deques[p])
          BY <1>3, <1>5, <1>6, <1>7, <2>1, <3>2, <4>1
        <4>3. deques[p][1].call < deques[p][i].call
          BY <1>1, <2>1, <3>1, <4>2 DEF InOrder
        <4>4. deques[p][i] = deques[p][1] /\ element[t].call \in Nat
          BY <1>1, <1>3, <3>2, <4>1, <4>2 DEF MutexInv, ElementsOK
        <4> QED
          BY <1>3, <4>3, <4>4
      <3> QED
        BY <1>1, <1>6, <3>2, <3>3
    <2>2. ASSUME NEW q \in Priorities, NEW u \in Tasks, Waits(u, q)'
          PROVE  \E i \in From(q)' .. Len(deques'[q]) : element'[u] = deques'[q][i]
      <3>1. u # t /\ Waits(u, q)
        BY <1>6, <2>2
      <3>2. PICK i \in From(q) .. Len(deques[q]) : element[u] = deques[q][i]
        BY <3>1 DEF InOrder
      <3>3. q = p => i # 1
        BY <1>1, <1>3, <3>1, <3>2, OwnElement DEF Waits
      <3>4. i \in From(q)' .. Len(deques[q])
        BY <1>5, <1>7, <3>2, <3>3
      <3> QED
        BY <1>1, <3>2, <3>4
    <2>3. ASSUME NEW q \in Priorities,
                 NEW i \in From(q)' .. Len(deques'[q]),
                 NEW j \in From(q)' .. Len(deques'[q]), i < j
          PROVE  deques'[q][i].call < deques'[q][j].call
      <3>1. i \in From(q) .. Len(deques[q]) /\ j \in From(q) .. Len(deques[q])
        BY <1>1, <1>5, <1>7, <2>3
      <3> QED
        BY <1>1, <2>3, <3>1 DEF InOrder
    <2> QED
      BY <2>1, <2>2, <2>3 DEF InOrder
  <1>9. Owned'
    BY <1>1 DEF Owned, MutexInv, ElementsOK
  <1> QED
    BY <1>8, <1>9

(* Who is made active is the first of all that wait.                       *)
HandedOver ==
    active' # active /\ active' # None =>
        \E w \in Tasks :
            /\ pc'[w] = "waiting" /\ element'[w] = active'
            /\ \A u \in Tasks : pc'[u] = "waiting" =>
                  \/ priority'[w] < priority'[u]
                  \/ /\ priority'[w] = priority'[u]
                     /\ element'[w].call <= element'[u].call

(* The finally block: the task that leaves is inside, or the first waiter  *)
(* of its priority.                                                        *)
LEMMA FinallyKeepsOrder ==
    ASSUME MutexInv, MutexInv', InOrder, Owned, NEW t \in Tasks,
           pc[t] # "idle", Finally(t),
           pc[t] = "waiting" => ~ EarlierWaiter(t)
    PROVE  InOrder' /\ Owned' /\ HandedOver
  <1>0. PICK p \in Priorities : p = priority[t]
    BY DEF MutexInv, ElementsOK
  <1> DEFINE rest    == Removed(p)
             queued  == {q \in Priorities : rest[q] # <<>>}
             passing == active \in {None, element[t]}
             next    == Head(rest[Lowest(queued)])
  <1>1. /\ deques' = rest
        /\ pc' = [pc EXCEPT ![t] = "idle"]
        /\ element' = [element EXCEPT ![t] = None]
        /\ priority' = priority
        /\ \/ ~ passing /\ active' = active
           \/ passing /\ queued = {} /\ active' = None
           \/ passing /\ queued # {} /\ active' = next
    BY <1>0 DEF Finally
  <1>2. t \in Busy(p) /\ Busy(p) \in SUBSET Tasks
    BY <1>0 DEF Busy
  <1>3. deques[p] \in Seq(Elements) /\ Len(deques[p]) > 0 /\ Len(deques[p]) \in Nat
    <2>1. deques[p] \in Seq(Elements)
      BY DEF MutexInv, DequesOK
    <2>2. Len(deques[p]) = Cardinality(Busy(p)) /\ Cardinality(Busy(p)) > 0
      BY <1>2, CountOneLess DEF MutexInv, Counted
    <2> QED
      BY <2>1, <2>2
  <1>4. /\ rest \in [Priorities -> Seq(Elements)]
        /\ Len(rest[p]) = Len(deques[p]) - 1
        /\ \A i \in 1 .. Len(rest[p]) : rest[p][i] = deques[p][i + 1]
        /\ \A q \in Priorities \ {p} : rest[q] = deques[q]
    <2>1. /\ deques[p] # <<>> /\ rest = [deques EXCEPT ![p] = Tail(@)]
          /\ deques \in [Priorities -> Seq(Elements)]
      BY <1>3 DEF Removed, MutexInv, DequesOK
    <2> QED
      BY <1>3, <2>1
  <1> HIDE DEF rest
  <1>5. /\ \A u \in Tasks \ {t} : /\ pc'[u] = pc[u] /\ element'[u] = element[u]
                                  /\ \A q \in Priorities : Waits(u, q)' <=> Waits(u, q)
        /\ pc'[t] = "idle" /\ \A q \in Priorities : ~ Waits(t, q)'
    BY <1>1 DEF Waits, MutexInv, ElementsOK
  <1>6. /\ \A q \in Priorities \ {p} : From(q)' = From(q)
        /\ \A q \in Priorities : From(q) \in {1, 2} /\ From(q)' \in {1, 2}
    BY <1>0, <1>1 DEF From, MutexInv, ElementsOK
  <1>7. \/ /\ pc[t] = "inside" /\ From(p) = 2 /\ From(p)' = 1
        \/ /\ pc[t] = "waiting" /\ From(p)' = From(p)
           /\ From(p) <= Len(deques[p]) /\ deques[p][From(p)] = element[t]
    <2>1. CASE pc[t] = "inside"
      <3>1. \A u \in Tasks : pc[u] = "inside" => u = t
        BY <2>1, OwnElement DEF MutexInv, Excluded
      <3> QED
        BY <1>0, <1>1, <2>1, <3>1 DEF From, MutexInv, ElementsOK
    <2>2. CASE pc[t] = "waiting"
      <3>1. From(p)' = From(p)
        BY <1>1, <2>2 DEF From, MutexInv, ElementsOK
      <3> QED
        BY <1>0, <2>2, <3>1, FirstWaiter DEF Waits
    <2> QED
      BY <2>1, <2>2 DEF MutexInv, ElementsOK
  <1>8. ASSUME NEW i \in From(p)' .. Len(rest[p])
        PROVE  /\ i + 1 \in From(p) .. Len(deques[p])
               /\ rest[p][i] = deques[p][i + 1]
               /\ deques[p][i + 1] # element[t]
    <2>1. i + 1 \in From(p) .. Len(deques[p]) /\ rest[p][i] = deques[p][i + 1]
      BY <1>3, <1>4, <1>6, <1>7, <1>8
    <2>2. PICK u \in Tasks : Waits(u, p) /\ element[u] = deques[p][i + 1]
      BY <2>1 DEF InOrder
    <2>3. CASE pc[t] = "inside"
      BY <2>1, <2>2, <2>3, OwnElement DEF Waits
    <2>4. CASE pc[t] # "inside"
      <3>1. /\ From(p) \in From(p) .. Len(deques[p]) /\ From(p) < i + 1
            /\ deques[p][From(p)] = element[t]
        BY <1>3, <1>6, <1>7, <1>8, <2>4
      <3>2. element[t].call < deques[p][i + 1].call /\ element[t].call \in Nat
        <4>1. deques[p][From(p)].call < deques[p][i + 1].call
          BY <2>1, <3>1 DEF InOrder
        <4> QED
          BY <3>1, <4>1 DEF MutexInv, ElementsOK
      <3> QED
        BY <2>1, <3>2
    <2> QED
      BY <2>1, <2>3, <2>4
  <1>9. InOrder'
    <2>1. ASSUME NEW q \in Priorities, NEW i \in From(q)' .. Len(rest[q])
          PROVE  \E u \in Tasks : Waits(u, q)' /\ element'[u] = rest[q][i]
      <3>1. CASE q = p
        <4>1. PICK u \in Tasks : Waits(u, p) /\ element[u] = deques[p][i + 1]
          BY <1>8, <2>1, <3>1 DEF InOrder
        <4>2. u # t /\ element[u] = rest[p][i]
          BY <1>8, <2>1, <3>1, <4>1
        <4> QED
          BY <1>5, <3>1, <4>1, <4>2
      <3>2. CASE q # p
        <4>1. PICK u \in Tasks : Waits(u, q) /\ element[u] = rest[q][i]
          BY <1>4, <1>6, <2>1, <3>2 DEF InOrder
        <4> QED
          BY <1>0, <1>5, <3>2, <4>1 DEF Waits
      <3> QED
        BY <3>1, <3>2
    <2>2. ASSUME NEW q \in Priorities, NEW u \in Tasks, Waits(u, q)'
          PROVE  \E i \in From(q)' .. Len(rest[q]) : element'[u] = rest[q][i]
      <3>1. u # t /\ Waits(u, q) /\ element'[u] = element[u]
        BY <1>5, <2>2
      <3>2. PICK i \in From(q) .. Len(deques[q]) : element[u] = deques[q][i]
        BY <3>1 DEF InOrder
      <3>3. CASE q = p
        <4>1. pc[t] = "waiting" => i # From(p)
          BY <1>7, <3>1, <3>2, <3>3, OwnElement DEF Waits
        <4>2. i - 1 \in From(p)' .. Len(rest[p]) /\ i - 1 \in 1 .. Len(rest[p])
          BY <1>3, <1>4, <1>6, <1>7, <3>2, <3>3, <4>1
        <4>3. rest[p][i - 1] = deques[p][(i - 1) + 1] /\ (i - 1) + 1 = i
          BY <1>4, <1>6, <3>2, <4>2
        <4> QED
          BY <3>1, <3>2, <3>3, <4>2, <4>3
      <3>4. CASE q # p
        BY <1>4, <1>6, <3>1, <3>2, <3>4
      <3> QED
        BY <3>3, <3>4
    <2>3. ASSUME NEW q \in Priorities,
                 NEW i \in From(q)' .. Len(rest[q]),
                 NEW j \in From(q)' .. Len(rest[q]), i < j
          PROVE  rest[q][i].call < rest[q][j].call
      <3>1. CASE q = p
        <4>1. /\ rest[p][i] = deques[p][i + 1] /\ rest[p][j] = deques[p][j + 1]
              /\ i + 1 \in From(p) .. Len(deques[p])
              /\ j + 1 \in From(p) .. Len(deques[p])
          BY <1>8, <2>3, <3>1
        <4>2. i + 1 < j + 1
          BY <1>6, <2>3
        <4> QED
          BY <3>1, <4>1, <4>2 DEF InOrder
      <3>2. CASE q # p
        BY <1>4, <1>6, <2>3, <3>2 DEF InOrder
      <3> QED
        BY <3>1, <3>2
    <2> QED
      BY <1>1, <2>1, <2>2, <2>3 DEF InOrder
  <1>10. CASE ~ passing
    <2>1. active' = active /\ active # None /\ active # element[t]
      BY <1>1, <1>10
    <2>2. PICK u \in Tasks :
             /\ pc[u] # "idle" /\ element[u] = active
             /\ pc[u] = "waiting" => /\ Len(deques[priority[u]]) > 0
                                    /\ deques[priority[u]][1] = active
      BY <2>1 DEF Owned
    <2>3. u # t /\ pc'[u] = pc[u] /\ element'[u] = element[u]
      BY <1>5, <2>1, <2>2
    <2>4. ASSUME pc[u] = "waiting" PROVE priority[u] # p
      <3>1. SUFFICES ASSUME priority[u] = p PROVE FALSE
        OBVIOUS
      <3>2. pc[t] = "waiting"
        BY <2>1 DEF MutexInv, ElementsOK, Excluded
      <3>3. \A v \in Tasks : pc[v] # "inside"
        BY <2>2, <2>4, OwnElement DEF MutexInv, Excluded
      <3>4. From(p) = 1
        BY <3>3 DEF From
      <3> QED
        BY <1>7, <2>1, <2>2, <2>4, <3>1, <3>2, <3>4
    <2>5. pc[u] = "waiting" => deques'[priority[u]] = deques[priority[u]]
      BY <1>1, <1>4, <2>4 DEF MutexInv, ElementsOK
    <2>6. Owned'
      BY <1>1, <2>1, <2>2, <2>3, <2>5 DEF Owned
    <2> QED
      BY <1>9, <2>1, <2>6 DEF HandedOver
  <1>11. CASE passing /\ queued = {}
    BY <1>1, <1>9, <1>11 DEF Owned, HandedOver
  <1>12. CASE passing /\ queued # {}
    <2>1. active = element[t]
      BY <1>12 DEF MutexInv, NeverIdle
    <2>2. \A v \in Tasks : pc'[v] # "inside"
      BY <1>5, <2>1, OwnElement DEF MutexInv, Excluded, ElementsOK
    <2>3. \A q \in Priorities : From(q)' = 1
      BY <2>2 DEF From
    <2>4. PICK l \in queued : l = Lowest(queued) /\ \A q \in queued : l <= q
      BY <1>12, LowestIsLeast, MutexAssumption
    <2>5. /\ l \in Priorities /\ rest[l] # <<>> /\ rest[l] \in Seq(Elements)
          /\ active' = Head(rest[l])
      BY <1>1, <1>4, <1>12, <2>4
    <2>6. /\ active' = rest[l][1] /\ Len(rest[l]) > 0 /\ Len(rest[l]) \in Nat
      BY <2>5
    <2> HIDE DEF queued
    <2>7. PICK w \in Tasks : Waits(w, l)' /\ element'[w] = rest[l][1]
      <3>1. 1 \in From(l)' .. Len(rest[l])
        BY <2>3, <2>5, <2>6
      <3> QED
        BY <1>1, <1>9, <2>5, <3>1 DEF InOrder
    <2>8. pc'[w] = "waiting" /\ priority'[w] = l
      BY <2>7 DEF Waits
    <2>9. Owned'
      BY <1>1, <2>6, <2>7, <2>8 DEF Owned
    <2>10. ASSUME NEW u \in Tasks, pc'[u] = "waiting"
           PROVE  \/ l < priority'[u]
                  \/ l = priority'[u] /\ element'[w].call <= element'[u].call
      <3>1. PICK q \in Priorities : q = priority'[u]
        BY DEF MutexInv, ElementsOK
      <3>2. PICK i \in 1 .. Len(rest[q]) : element'[u] = rest[q][i]
        <4>1. Waits(u, q)'
          BY <2>10, <3>1 DEF Waits
        <4> QED
          BY <1>1, <1>9, <2>3, <4>1 DEF InOrder
      <3>3. rest[q] # <<>>
        BY <1>4, <3>2
      <3>4. l <= q /\ l \in Nat /\ q \in Nat
        BY <2>4, <2>5, <3>3, MutexAssumption DEF queued
      <3>5. CASE l = q
        <4>1. CASE i = 1
          <5>1. element'[w].call \in Nat /\ element'[w].call = element'[u].call
            BY <2>7, <2>8, <3>2, <3>5, <4>1 DEF MutexInv, ElementsOK
          <5> QED
            BY <3>1, <3>5, <5>1
        <4>2. CASE i # 1
          <5>1. 1 \in From(q)' .. Len(rest[q]) /\ i \in From(q)' .. Len(rest[q]) /\ 1 < i
            BY <2>3, <2>6, <3>2, <3>5, <4>2
          <5>2. rest[q][1].call < rest[q][i].call
            BY <1>1, <1>9, <5>1 DEF InOrder
          <5>3. element'[w].call \in Nat /\ element'[u].call \in Nat
            BY <2>8, <2>10 DEF MutexInv, ElementsOK
          <5> QED
            BY <2>7, <3>1, <3>2, <3>5, <5>2, <5>3
        <4> QED
          BY <4>1, <4>2
      <3> QED
        BY <3>1, <3>4, <3>5
    <2> QED
      BY <1>9, <2>6, <2>7, <2>8, <2>9, <2>10 DEF HandedOver
  <1> QED
    BY <1>10, <1>11, <1>12

------------------------------------------------------------------------------
(* skipped is set when a wait is cancelled behind an earlier one.          *)
LEMMA NotSkipped ==
    ASSUME MutexInv, NEW t \in Tasks, Exit(t) \/ Cancel(t), ~ skipped'
    PROVE  ~ skipped /\ (pc[t] = "waiting" => ~ EarlierWaiter(t))
  <1>1. CASE Exit(t)
    BY <1>1 DEF Exit
  <1>2. CASE Cancel(t)
    BY <1>2, Zenon DEF Cancel
  <1> QED
    BY <1>1, <1>2

(* A step of the node is one of the mutex, or leaves it alone.             *)
LEMMA MutexSteps ==
    ASSUME [Next]_lockVars
    PROVE  \/ \E t \in Tasks, p \in Priorities : Acquire(t, p)
           \/ \E t \in Tasks : Enter(t)
           \/ \E t \in Tasks : Exit(t) \/ Cancel(t)
           \/ UNCHANGED mutexVars
  <1>1. CASE \E h \in Handlers : AddBlock(h)
    BY <1>1, LocksAssumption DEF AddBlock, High
  <1>2. CASE \E t \in Tasks \ Handlers : AddTransaction(t)
    BY <1>2, LocksAssumption DEF AddTransaction, Low
  <1>3. CASE \E t \in Tasks : GetMutex(t)
    BY <1>3 DEF GetMutex
  <1>4. CASE \E t \in Tasks : LeaveMutex(t) \/ CancelMutex(t)
    BY <1>4 DEF LeaveMutex, CancelMutex
  <1>5. CASE \E h \in Handlers : \/ NewPeak(h) \/ NewPeakResumes(h)
                                 \/ NewPeakCancelled(h) \/ NewPeakReturns(h)
    BY <1>5 DEF NewPeak, NewPeakResumes, NewPeakCancelled, NewPeakReturns
  <1>6. CASE UNCHANGED lockVars
    BY <1>6 DEF lockVars
  <1> QED
    BY <1>1, <1>2, <1>3, <1>4, <1>5, <1>6 DEF Next

(* A task that waits before and after a step keeps its place.              *)
LEMMA KeepsPlace ==
    ASSUME MutexInv, [Next]_lockVars, NEW u \in Tasks,
           pc[u] = "waiting", pc'[u] = "waiting"
    PROVE  element'[u] = element[u] /\ priority'[u] = priority[u]
  <1>1. ASSUME NEW t \in Tasks, NEW p \in Priorities, Acquire(t, p)
        PROVE  element'[u] = element[u] /\ priority'[u] = priority[u]
    BY <1>1 DEF Acquire, MutexInv, ElementsOK
  <1>2. ASSUME NEW t \in Tasks, Enter(t)
        PROVE  element'[u] = element[u] /\ priority'[u] = priority[u]
    BY <1>2 DEF Enter
  <1>3. ASSUME NEW t \in Tasks, Exit(t) \/ Cancel(t)
        PROVE  element'[u] = element[u] /\ priority'[u] = priority[u]
    <2>1. /\ pc' = [pc EXCEPT ![t] = "idle"] /\ priority' = priority
          /\ element' = [element EXCEPT ![t] = None]
      BY <1>3 DEF Exit, Cancel, Finally
    <2> QED
      BY <2>1 DEF MutexInv, ElementsOK
  <1>4. CASE UNCHANGED mutexVars
    BY <1>4 DEF mutexVars
  <1> QED
    BY <1>1, <1>2, <1>3, <1>4, MutexSteps

(* What a step of any task does to the order of the queue.                 *)
LEMMA OrderStep ==
    ASSUME MutexInv, MutexInv', OrderInv, [Next]_lockVars
    PROVE  OrderInv' /\ (~ skipped' => \/ HandedOver
                                      \/ \E t \in Tasks : /\ pc[t] = "idle"
                                                           /\ pc'[t] # "idle"
                                                           /\ active' = element'[t])
  <1>1. \/ \E t \in Tasks, p \in Priorities : Acquire(t, p)
        \/ \E t \in Tasks : Enter(t)
        \/ \E t \in Tasks : Exit(t) \/ Cancel(t)
        \/ UNCHANGED mutexVars
    BY MutexSteps
  <1>2. ASSUME NEW t \in Tasks, NEW p \in Priorities, Acquire(t, p)
        PROVE  /\ OrderInv'
               /\ HandedOver \/ (pc[t] = "idle" /\ pc'[t] # "idle" /\ active' = element'[t])
    <2>1. OrderInv'
      BY <1>2, AcquireKeepsOrder DEF Acquire, OrderInv
    <2>2. HandedOver \/ (pc[t] = "idle" /\ pc'[t] # "idle" /\ active' = element'[t])
      BY <1>2 DEF Acquire, HandedOver, MutexInv, ElementsOK
    <2> QED
      BY <2>1, <2>2
  <1>3. ASSUME NEW t \in Tasks, Enter(t)
        PROVE  OrderInv' /\ HandedOver
    <2>1. UNCHANGED <<active, skipped>>
      BY <1>3 DEF Enter
    <2> QED
      BY <1>3, <2>1, EnterKeepsOrder DEF OrderInv, HandedOver
  <1>4. ASSUME NEW t \in Tasks, Exit(t) \/ Cancel(t)
        PROVE  ~ skipped' => InOrder' /\ Owned' /\ HandedOver
    <2>1. pc[t] # "idle" /\ Finally(t)
      BY <1>4 DEF Exit, Cancel
    <2> QED
      BY <1>4, <2>1, NotSkipped, FinallyKeepsOrder DEF OrderInv
  <1>5. CASE UNCHANGED mutexVars
    <2>1. UNCHANGED <<deques, active, pc, element, priority, skipped>>
      BY <1>5 DEF mutexVars
    <2>2. \A q \in Priorities : From(q)' = From(q)
      BY <2>1 DEF From
    <2>3. OrderInv'
      BY <2>1, <2>2 DEF OrderInv, InOrder, Owned, Waits
    <2> QED
      BY <2>1, <2>3 DEF HandedOver
  <1> QED
    BY <1>1, <1>2, <1>3, <1>4, <1>5 DEF OrderInv

LEMMA OrderInvariance == Spec => [](MutexInv /\ OrderInv)
  <1>1. Init => MutexInv /\ OrderInv
    BY MutexInitially, OrderInitially DEF Init
  <1>2. MutexInv /\ OrderInv /\ [Next]_lockVars => MutexInv' /\ OrderInv'
    BY NodeStep, OrderStep
  <1> QED
    BY <1>1, <1>2, PTL DEF Spec

(* The active element is that of a task still at work, unless a wait was   *)
(* cancelled behind an earlier one of its priority: the one way to lose    *)
(* the mutex is the comparison of elements in deque.remove.                *)
THEOREM ActiveStaysAlive == Spec => []ActiveIsAlive
  <1>1. MutexInv /\ OrderInv => ActiveIsAlive
    BY DEF OrderInv, Owned, ActiveIsAlive
  <1> QED
    BY <1>1, OrderInvariance, PTL

(* The mutex is handed to the waiter that comes first: lowest priority     *)
(* value, then earliest call.                                              *)
THEOREM MutexHandedInOrder == Spec => HandedInOrder
  <1> DEFINE Handing ==
        \A t, u \in Tasks :
          /\ pc[t] = "waiting" /\ pc[u] = "waiting" /\ pc'[u] = "waiting"
          /\ active' = element[t] /\ active # active' /\ ~ skipped'
          => \/ priority[t] < priority[u]
             \/ priority[t] = priority[u] /\ element[t].call <= element[u].call
  <1>1. ASSUME MutexInv, MutexInv', OrderInv, [Next]_lockVars,
               NEW t \in Tasks, NEW u \in Tasks,
               pc[t] = "waiting", pc[u] = "waiting", pc'[u] = "waiting",
               active' = element[t], active # active', ~ skipped'
        PROVE  \/ priority[t] < priority[u]
               \/ /\ priority[t] = priority[u]
                  /\ element[t].call <= element[u].call
    <2>1. active'.task = t /\ active' # None
      BY <1>1, NotNone DEF MutexInv, ElementsOK
    <2>2. ASSUME NEW w \in Tasks, pc'[w] # "idle", element'[w] = active'
          PROVE  w = t
      BY <1>1, <2>1, <2>2 DEF MutexInv, ElementsOK
    <2>3. HandedOver
      BY <1>1, <2>2, OrderStep
    <2>4. PICK w \in Tasks :
             /\ pc'[w] = "waiting" /\ element'[w] = active'
             /\ \A v \in Tasks : pc'[v] = "waiting" =>
                   \/ priority'[w] < priority'[v]
                   \/ /\ priority'[w] = priority'[v]
                      /\ element'[w].call <= element'[v].call
      BY <1>1, <2>1, <2>3 DEF HandedOver
    <2>5. w = t
      BY <2>2, <2>4
    <2>6. /\ element'[t] = element[t] /\ priority'[t] = priority[t]
          /\ element'[u] = element[u] /\ priority'[u] = priority[u]
      BY <1>1, <2>4, <2>5, KeepsPlace
    <2> QED
      BY <1>1, <2>4, <2>5, <2>6
  <1>2. MutexInv /\ MutexInv' /\ OrderInv /\ [Next]_lockVars => [Handing]_mutexVars
    BY <1>1
  <1> QED
    BY <1>2, OrderInvariance, PTL DEF Spec, HandedInOrder
==============================================================================
