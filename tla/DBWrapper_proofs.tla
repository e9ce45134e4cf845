--------------------------- MODULE DBWrapper_proofs ---------------------------
(***************************************************************************)
(* Transactions of DBWrapper2 are atomic and isolated, and no connection   *)
(* is lost, for any number of tasks and connections, any nesting and any   *)
(* sequence of exceptions and cancellations.                               *)
(*                                                                         *)
(* Statements are run by threads, long after they were sent.  The proof    *)
(* follows the trace of states the thread of the writing connection will   *)
(* go through: a task reasons about the last of them as if its statements  *)
(* were run at once, and what a reader sees is the first.                  *)
(***************************************************************************)
EXTENDS DBWrapper, TLAPS, FiniteSetTheorems, SequenceTheorems

------------------------------------------------------------------------------
(* Tasks, their contexts and the connections.                              *)

WriterKinds == {"top", "nested"}

(* What t awaits is a statement of its innermost context.                  *)
ShapeOf(t) ==
    /\ at[t] \in {"SAVEPOINT", "ROLLBACK_TO", "RELEASE"} =>
          stack[t] # <<>> /\ Top(t).kind \in WriterKinds
    /\ at[t] \in {"BEGIN", "ROLLBACK", "error"} => stack[t] # <<>> /\ Top(t).begins
    /\ at[t] = "statement" => stack[t] # <<>>
    /\ at[t] = "ROLLBACK_TO" => Top(t).failed
    /\ \A i \in DOMAIN stack[t] :
          /\ stack[t][i].failed => i = Len(stack[t]) /\ at[t] \in {"ROLLBACK_TO", "RELEASE"}
          /\ stack[t][i].kind \in {"top", "nested", "joined"} => stack[t][i].conn = Writer
          /\ stack[t][i].begins => stack[t][i].kind = "reader" /\ stack[t][i].conn # Writer

Shape == \A t \in Tasks : ShapeOf(t)

(* The context that took a connection of the pool is the only one to hold  *)
(* it, and is around all others that use it.                               *)
HoldingOf(t) ==
    /\ at[t] = "pool" => inUse[t] = Writer
    /\ \A i \in DOMAIN stack[t] :
          /\ stack[t][i].conn # Writer => stack[t][i].conn = inUse[t]
          /\ stack[t][i].holds => stack[t][i].conn # Writer
          /\ ~ stack[t][i].holds => stack[t][i].since = {}
          /\ \A j \in DOMAIN stack[t] :
                stack[t][i].holds /\ stack[t][j].conn # Writer =>
                    i <= j /\ (stack[t][j].holds => i = j)

Holding == \A t \in Tasks : HoldingOf(t)

(* Every read connection is in the pool once or in use by one task.        *)
PoolInv ==
    /\ \A i, j \in DOMAIN pool : pool[i] = pool[j] => i = j
    /\ \A t \in Tasks : \A i \in DOMAIN pool : pool[i] # inUse[t]
    /\ \A t, u \in Tasks : inUse[t] = inUse[u] => t = u \/ inUse[t] = Writer
    /\ \A r \in Readers : (\E i \in DOMAIN pool : pool[i] = r) \/ (\E t \in Tasks : inUse[t] = r)

(* Only the holder of the lock is inside a writer, and the outermost one   *)
(* is around all others.                                                   *)
LockedOf(t) ==
    \A i \in DOMAIN stack[t] :
        /\ stack[t][i].kind \in {"top", "nested", "joined"} => lock = t
        /\ stack[t][i].kind \in {"nested", "joined"} =>
              \E j \in DOMAIN stack[t] : j < i /\ stack[t][j].kind = "top"
        /\ \A j \in DOMAIN stack[t] :
              stack[t][i].kind = "top" /\ stack[t][j].kind \in {"top", "nested", "joined"} => i <= j

(* t may open writers inside the outermost one.                            *)
WritingOf(t) ==
    currentWriter = t =>
        /\ lock = t
        /\ \E i \in DOMAIN stack[t] : stack[t][i].kind = "top"
        /\ ~ (at[t] \in {"SAVEPOINT", "ROLLBACK_TO", "RELEASE"} /\ Top(t).kind = "top")

LockInv == \A t \in Tasks : LockedOf(t) /\ WritingOf(t)

(* What is sent to which connection.                                       *)
QueueInv ==
    /\ \A i \in DOMAIN queue[Writer] :
          /\ queue[Writer][i].op \in {"SAVEPOINT", "write", "ROLLBACK_TO", "RELEASE"}
          /\ queue[Writer][i].op = "write" => queue[Writer][i].arg # 0
    /\ \A r \in Readers : \A i \in DOMAIN queue[r] :
          queue[r][i].op \in {"BEGIN", "SELECT", "ROLLBACK"}

Core == Shape /\ Holding /\ PoolInv /\ LockInv /\ QueueInv

Base == TypeOK /\ Core

------------------------------------------------------------------------------
(* The writing connection.                                                 *)

Savepoints == [name : Nat, rows : SUBSET Rows]

States == [committed : SUBSET Rows, data : SUBSET Rows, savepoints : Seq(Savepoints)]

Current == [committed |-> committed, data |-> data, savepoints |-> savepoints]

BelowIn(S, name) ==
    IF \E i \in DOMAIN S : S[i].name = name
    THEN (CHOOSE i \in DOMAIN S : S[i].name = name) - 1
    ELSE Len(S)

(* The state after statement s is run in state x.                          *)
Exec(x, s) ==
    LET below == BelowIn(x.savepoints, s.arg)
        now   == IF x.savepoints = <<>> THEN x.committed ELSE x.data
    IN CASE s.op = "SAVEPOINT" ->
              [committed |-> x.committed, data |-> now,
               savepoints |-> Append(x.savepoints, [name |-> s.arg, rows |-> now])]
         [] s.op = "write" -> [x EXCEPT !.data = @ \cup {s.arg}]
         [] s.op = "ROLLBACK_TO" ->
              IF below < Len(x.savepoints)
              THEN [x EXCEPT !.data = x.savepoints[below + 1].rows,
                             !.savepoints = SubSeq(@, 1, below + 1)]
              ELSE x
         [] s.op = "RELEASE" ->
              [x EXCEPT !.savepoints = SubSeq(@, 1, below),
                        !.committed = IF below = 0 /\ x.savepoints # <<>> THEN x.data ELSE @]

Pending == Len(queue[Writer])

(* tr goes from the state of the connection to x, the one in which it has  *)
(* run every statement it was sent.                                        *)
IsTrace(tr, x) ==
    /\ tr[1] = Current
    /\ tr[Pending + 1] = x
    /\ \A i \in 1 .. Pending : tr[i + 1] = Exec(tr[i], queue[Writer][i])

(* Context k of task t has sent RELEASE.                                   *)
Gone(t, k) == k = Len(stack[t]) /\ at[t] = "RELEASE"

(* Of the rows c nothing is wrong if they are in the database.             *)
CommitOK(c) ==
    /\ c \subseteq 1 .. statements
    /\ undone \cap c = {}
    /\ \A t \in Tasks : \A k \in DOMAIN stack[t] :
          \/ Gone(t, k) /\ stack[t][k].kind = "top" /\ ~ stack[t][k].failed
          \/ stack[t][k].wrote \cap c = {}

(* In no state of the trace is a row in the database that must not be, and *)
(* none is lost on the way.                                                *)
CommitsOK(tr) ==
    \A i \in 1 .. (Pending + 1) :
        CommitOK(tr[i].committed) /\ \A j \in 1 .. i : tr[j].committed \subseteq tr[i].committed

(* In its last state the savepoints are in the order of their names, and   *)
(* every savepoint has what was committed and nothing that was undone.     *)
SavepointOK(x, p) ==
    /\ x.savepoints[p].name < nextName
    /\ x.savepoints[p].rows \subseteq 1 .. statements
    /\ undone \cap x.savepoints[p].rows = {}
    /\ x.committed \subseteq x.savepoints[p].rows

RowsOK(x) ==
    /\ x.data \subseteq 1 .. statements
    /\ undone \cap x.data = {}
    /\ x.savepoints # <<>> => x.committed \subseteq x.data
    /\ \A p \in DOMAIN x.savepoints : SavepointOK(x, p)
    /\ \A p, q \in DOMAIN x.savepoints : p < q => x.savepoints[p].name < x.savepoints[q].name

(* The savepoint of a writer is set until it is released; it has the rows  *)
(* of the contexts around it and none that was written inside it.          *)
WriterFrameOK(x, t, k) ==
    LET f == stack[t][k]
        S == x.savepoints
    IN /\ f.name < nextName
       /\ Gone(t, k) \/ \E p \in DOMAIN S : S[p].name = f.name
       /\ \A j \in DOMAIN stack[t] :
             /\ j > k /\ stack[t][j].kind \in WriterKinds => f.name < stack[t][j].name
             /\ j < k => \A p \in DOMAIN S : S[p].name = f.name => stack[t][j].wrote \subseteq S[p].rows
             /\ j >= k => \A p \in DOMAIN S : S[p].name <= f.name => stack[t][j].wrote \cap S[p].rows = {}

FrameOK(x, t, k) ==
    LET f == stack[t][k]
    IN /\ f.wrote \subseteq 1 .. statements
       /\ f.wrote # {} => \E j \in DOMAIN stack[t] : j <= k /\ stack[t][j].kind = "top"
       /\ ~ f.failed => f.wrote \subseteq x.data
       /\ f.failed => /\ f.wrote \cap x.data = {}
                      /\ \A p \in DOMAIN x.savepoints : f.wrote \cap x.savepoints[p].rows = {}
       /\ f.kind \in WriterKinds => WriterFrameOK(x, t, k)

FramesOK(x) == \A t \in Tasks : \A k \in DOMAIN stack[t] : FrameOK(x, t, k)

(* The outermost writer's savepoint is the first.                          *)
OutermostOK(x) ==
    /\ lock = NoTask => x.savepoints = <<>>
    /\ \A t \in Tasks : \A k \in DOMAIN stack[t] : stack[t][k].kind = "top" =>
          IF Gone(t, k) THEN x.savepoints = <<>>
          ELSE x.savepoints # <<>> /\ x.savepoints[1].name = stack[t][k].name

LastOK(x) ==
    /\ RowsOK(x)
    /\ FramesOK(x)
    /\ CommitOK(x.committed)
    /\ Writer \notin leaked => OutermostOK(x)

(* What an outermost writer released is in the database once RELEASE of it *)
(* is run.                                                                 *)
ReleasedOK(tr) ==
    \A t \in Tasks : \A k \in DOMAIN stack[t] :
        stack[t][k].kind = "top" /\ Gone(t, k) /\ ~ stack[t][k].failed =>
            \A i \in 1 .. (Pending + 1) :
                (\A j \in i .. Pending : queue[Writer][j].task # t) =>
                    stack[t][k].wrote \subseteq tr[i].committed

(* As long as no outermost SAVEPOINT was cancelled.                        *)
KeptOK(tr) == Writer \notin leaked => kept \subseteq committed /\ ReleasedOK(tr)

HistoryOK == undone \cup kept \subseteq 1 .. statements

WriterInvOf(tr, x) == IsTrace(tr, x) /\ CommitsOK(tr) /\ LastOK(x) /\ KeptOK(tr) /\ HistoryOK

WriterInv == \E tr \in [Nat -> States], x \in States : WriterInvOf(tr, x)

------------------------------------------------------------------------------
(* The reading connections.                                                *)

OnlySelects(r) == \A i \in DOMAIN queue[r] : queue[r][i].op = "SELECT"

(* The last statement sent to r is op, sent by t, after SELECTs only.      *)
LastSent(r, op, t) ==
    /\ queue[r] # <<>>
    /\ queue[r][Len(queue[r])].op = op
    /\ queue[r][Len(queue[r])].task = t
    /\ \A i \in 1 .. (Len(queue[r]) - 1) : queue[r][i].op = "SELECT"

Quiet(r) == ~ begun[r] /\ snap[r] = NoRows /\ OnlySelects(r)

(* No context that sent BEGIN to r is open.                                *)
Unused(r) == \A t \in Tasks : \A i \in DOMAIN stack[t] : stack[t][i].begins => stack[t][i].conn # r

IdleOK == \A r \in Readers \ leaked : Unused(r) => Quiet(r)

(* While a context that sent BEGIN is open, its connection r is in a       *)
(* transaction, up to the statement the task awaits.                       *)
Began(t, i, r) ==
    CASE i = Len(stack[t]) /\ at[t] = "BEGIN" ->
           \/ OnlySelects(r) /\ begun[r]
           \/ LastSent(r, "BEGIN", t) /\ ~ begun[r] /\ snap[r] = NoRows
      [] i = Len(stack[t]) /\ at[t] = "ROLLBACK" ->
           \/ Quiet(r)
           \/ LastSent(r, "ROLLBACK", t) /\ begun[r]
      [] OTHER -> OnlySelects(r) /\ begun[r]

BeginsOf(t) ==
    \A i \in DOMAIN stack[t] : \A r \in Readers \ leaked :
        stack[t][i].begins /\ stack[t][i].conn = r =>
            Began(t, i, r) /\ \A j \in DOMAIN stack[t] : stack[t][j].begins => i = j

(* The snapshot of a connection is younger than the context that holds it, *)
(* and it is what every reader on that connection has seen.                *)
ReadsOK(t, i) ==
    LET f == stack[t][i]
    IN /\ f.since \subseteq committed
       /\ f.conn = Writer => f.seen = NoRows
       /\ f.conn \in Readers \ leaked =>
             /\ snap[f.conn] # NoRows => f.since \subseteq snap[f.conn]
             /\ f.seen # NoRows => f.since \subseteq f.seen
             /\ f.kind = "reader" =>
                   /\ \E j \in DOMAIN stack[t] : j <= i /\ stack[t][j].begins
                   /\ \/ f.seen = NoRows
                      \/ f.seen = snap[f.conn]
                      \/ i = Len(stack[t]) /\ at[t] = "ROLLBACK"

ReaderOf(t) ==
    /\ BeginsOf(t)
    /\ at[t] = "error" => Top(t).conn \in leaked
    /\ \A i \in DOMAIN stack[t] : ReadsOK(t, i)

ReaderInv == IdleOK /\ \A t \in Tasks : ReaderOf(t)

------------------------------------------------------------------------------
(* The three ways a stack changes.                                         *)

LEMMA CutFacts ==
    ASSUME NEW F, NEW s \in Seq(F), NEW n \in Nat, n <= Len(s)
    PROVE  /\ SubSeq(s, 1, n) \in Seq(F)
           /\ Len(SubSeq(s, 1, n)) = n
           /\ \A i \in 1 .. n : SubSeq(s, 1, n)[i] = s[i]
  <1>1. SubSeq(s, 1, n) \in Seq(F)
    OBVIOUS
  <1>2. Len(SubSeq(s, 1, n)) = n
    OBVIOUS
  <1>3. \A i \in 1 .. n : SubSeq(s, 1, n)[i] = s[i]
    OBVIOUS
  <1> QED
    BY <1>1, <1>2, <1>3

LEMMA PutFacts ==
    ASSUME NEW F, NEW s \in Seq(F), NEW n \in 1 .. Len(s), NEW g \in F,
           NEW r, r = [s EXCEPT ![n] = g]
    PROVE  /\ r \in Seq(F) /\ Len(r) = Len(s) /\ r[n] = g
           /\ \A i \in 1 .. Len(s) : i # n => r[i] = s[i]
  OBVIOUS

LEMMA StackFacts ==
    ASSUME TypeOK, NEW t \in Tasks
    PROVE  /\ stack[t] \in Seq(Frames) /\ Len(stack[t]) \in Nat
           /\ DOMAIN stack[t] = 1 .. Len(stack[t])
           /\ \A i \in DOMAIN stack[t] : stack[t][i] \in Frames
           /\ stack[t] # <<>> => /\ Len(stack[t]) > 0
                                 /\ Len(stack[t]) \in DOMAIN stack[t]
                                 /\ Top(t) = stack[t][Len(stack[t])]
                                 /\ Top(t) \in Frames
  <1>1. stack[t] \in Seq(Frames)
    BY DEF TypeOK
  <1> QED
    BY <1>1 DEF Top, Last

LEMMA PushFacts ==
    ASSUME TypeOK, NEW t \in Tasks, NEW f \in Frames, Push(t, f)
    PROVE  /\ stack' \in [Tasks -> Seq(Frames)]
           /\ \A u \in Tasks : u # t => stack'[u] = stack[u]
           /\ stack'[t] # <<>> /\ Top(t)' = f
           /\ Len(stack'[t]) = Len(stack[t]) + 1
           /\ DOMAIN stack'[t] = 1 .. (Len(stack[t]) + 1)
           /\ \A i \in 1 .. Len(stack[t]) : stack'[t][i] = stack[t][i]
           /\ stack'[t][Len(stack[t]) + 1] = f
  <1>1. stack \in [Tasks -> Seq(Frames)] /\ stack[t] \in Seq(Frames)
    BY DEF TypeOK
  <1>2. stack' = [stack EXCEPT ![t] = Append(@, f)]
    BY DEF Push
  <1>3. stack'[t] = Append(stack[t], f) /\ stack'[t] \in Seq(Frames)
    BY <1>1, <1>2
  <1> QED
    BY <1>1, <1>2, <1>3 DEF Top, Last

LEMMA WithTopFacts ==
    ASSUME TypeOK, NEW t \in Tasks, stack[t] # <<>>, NEW f \in Frames, stack' = WithTop(t, f)
    PROVE  /\ stack' \in [Tasks -> Seq(Frames)]
           /\ \A u \in Tasks : u # t => stack'[u] = stack[u]
           /\ stack'[t] # <<>> /\ Top(t)' = f
           /\ Len(stack'[t]) = Len(stack[t])
           /\ DOMAIN stack'[t] = 1 .. Len(stack[t])
           /\ \A i \in 1 .. (Len(stack[t]) - 1) : stack'[t][i] = stack[t][i]
           /\ stack'[t][Len(stack[t])] = f
  <1>1. /\ stack \in [Tasks -> Seq(Frames)] /\ stack[t] \in Seq(Frames)
        /\ Len(stack[t]) \in Nat /\ Len(stack[t]) > 0
    BY StackFacts DEF TypeOK
  <1> DEFINE n == Len(stack[t])
  <1>2. stack' = [stack EXCEPT ![t] = [stack[t] EXCEPT ![n] = f]]
    BY DEF WithTop
  <1>3. stack'[t] = [stack[t] EXCEPT ![n] = f]
    BY <1>1, <1>2
  <1>4. [stack[t] EXCEPT ![n] = f] \in Seq(Frames) /\ Len([stack[t] EXCEPT ![n] = f]) = n
    BY <1>1
  <1> QED
    BY <1>1, <1>2, <1>3, <1>4 DEF Top, Last

(* What is left of context i of t when the innermost one has ended.        *)
KeepsAllBut(g, h) ==
    /\ g.kind = h.kind /\ g.name = h.name /\ g.conn = h.conn /\ g.holds = h.holds
    /\ g.begins = h.begins /\ g.failed = h.failed /\ g.since = h.since /\ g.seen = h.seen

LEMMA PopFacts ==
    ASSUME TypeOK, NEW t \in Tasks, stack[t] # <<>>, stack' = Popped(t)
    PROVE  /\ stack' \in [Tasks -> Seq(Frames)]
           /\ \A u \in Tasks : u # t => stack'[u] = stack[u]
           /\ Len(stack'[t]) = Len(stack[t]) - 1
           /\ DOMAIN stack'[t] = 1 .. (Len(stack[t]) - 1)
           /\ \A i \in 1 .. (Len(stack[t]) - 1) :
                 /\ KeepsAllBut(stack'[t][i], stack[t][i])
                 /\ stack'[t][i].wrote =
                       IF i = Len(stack[t]) - 1 /\ Top(t).kind # "top" /\ ~ Top(t).failed
                       THEN stack[t][i].wrote \cup Top(t).wrote
                       ELSE stack[t][i].wrote
  <1> DEFINE n == Len(stack[t])
             f == Top(t)
             outer == SubSeq(stack[t], 1, n - 1)
             merged == [outer EXCEPT ![n - 1].wrote = @ \cup f.wrote]
             new == IF n > 1 /\ f.kind # "top" /\ ~ f.failed THEN merged ELSE outer
  <1>1. /\ stack \in [Tasks -> Seq(Frames)] /\ stack[t] \in Seq(Frames)
        /\ n \in Nat /\ n > 0 /\ f \in Frames
    BY StackFacts DEF TypeOK
  <1>2. /\ outer \in Seq(Frames) /\ Len(outer) = n - 1 /\ DOMAIN outer = 1 .. (n - 1)
        /\ \A i \in 1 .. (n - 1) : outer[i] = stack[t][i] /\ outer[i] \in Frames
    <2>0. n - 1 \in Nat /\ n - 1 <= Len(stack[t])
      BY <1>1
    <2>1. /\ outer \in Seq(Frames) /\ Len(outer) = n - 1
          /\ \A i \in 1 .. (n - 1) : outer[i] = stack[t][i]
      BY <1>1, <2>0, CutFacts
    <2> HIDE DEF outer
    <2> QED
      BY <1>1, <2>1
  <1>3. stack' = [stack EXCEPT ![t] = new]
    BY DEF Popped
  <1> HIDE DEF outer, f
  <1>4. CASE n > 1 /\ f.kind # "top" /\ ~ f.failed
    <2> DEFINE g == [outer[n - 1] EXCEPT !.wrote = @ \cup f.wrote]
    <2>1. n - 1 \in 1 .. (n - 1) /\ outer[n - 1] \in Frames
      BY <1>1, <1>2, <1>4
    <2>2. /\ g \in Frames /\ KeepsAllBut(g, outer[n - 1])
          /\ g.wrote = outer[n - 1].wrote \cup f.wrote
      BY <1>1, <2>1 DEF Frames, KeepsAllBut
    <2>3. merged = [outer EXCEPT ![n - 1] = g]
      BY <1>2, <2>1
    <2> HIDE DEF g, merged
    <2>4. /\ merged \in Seq(Frames) /\ Len(merged) = n - 1
          /\ merged[n - 1] = g /\ \A i \in 1 .. (n - 1) : i # n - 1 => merged[i] = outer[i]
      <3>1. Len(outer) = n - 1 /\ n - 1 \in 1 .. Len(outer) /\ n - 1 \in Nat
        BY <1>1, <1>2, <2>1
      <3> HIDE DEF n
      <3> QED
        BY <1>2, <2>2, <2>3, <3>1, PutFacts
    <2>5. stack'[t] = merged
      BY <1>1, <1>3, <1>4 DEF merged
    <2>6. \A i \in 1 .. (n - 1) :
                 /\ KeepsAllBut(stack'[t][i], stack[t][i])
                 /\ stack'[t][i].wrote = IF i = n - 1 THEN stack[t][i].wrote \cup f.wrote
                                         ELSE stack[t][i].wrote
      BY <1>1, <1>2, <2>2, <2>4, <2>5 DEF KeepsAllBut
    <2>7. DOMAIN stack'[t] = 1 .. (n - 1)
      BY <1>1, <2>4, <2>5
    <2>8. stack' \in [Tasks -> Seq(Frames)] /\ \A u \in Tasks : u # t => stack'[u] = stack[u]
      BY <1>1, <1>3, <1>4, <2>4, <2>5
    <2> QED
      BY <1>4, <2>4, <2>5, <2>6, <2>7, <2>8 DEF f
  <1>5. CASE ~ (n > 1 /\ f.kind # "top" /\ ~ f.failed)
    <2>1. stack'[t] = outer
      BY <1>1, <1>3, <1>5
    <2>2. ~ (f.kind # "top" /\ ~ f.failed) \/ 1 .. (n - 1) = {}
      BY <1>1, <1>5
    <2> QED
      BY <1>1, <1>2, <1>3, <1>5, <2>1, <2>2 DEF KeepsAllBut, f
  <1> QED
    BY <1>4, <1>5

LEMMA SentFacts ==
    ASSUME TypeOK, NEW c \in Conns, NEW op, NEW arg, NEW t \in Tasks,
           [op |-> op, arg |-> arg, task |-> t] \in Statements,
           queue' = Sent(c, op, arg, t)
    PROVE  /\ queue' \in [Conns -> Seq(Statements)]
           /\ \A d \in Conns : d # c => queue'[d] = queue[d]
           /\ Len(queue'[c]) = Len(queue[c]) + 1 /\ Len(queue[c]) \in Nat
           /\ DOMAIN queue'[c] = 1 .. (Len(queue[c]) + 1)
           /\ DOMAIN queue[c] = 1 .. Len(queue[c])
           /\ \A i \in 1 .. Len(queue[c]) : queue'[c][i] = queue[c][i]
           /\ queue'[c][Len(queue[c]) + 1] = [op |-> op, arg |-> arg, task |-> t]
           /\ queue'[c] # <<>>
  <1> DEFINE s == [op |-> op, arg |-> arg, task |-> t]
  <1>1. queue \in [Conns -> Seq(Statements)] /\ queue[c] \in Seq(Statements) /\ s \in Statements
    BY DEF TypeOK
  <1>2. queue' = [queue EXCEPT ![c] = Append(queue[c], s)]
    BY DEF Sent
  <1> HIDE DEF s
  <1>3. queue'[c] = Append(queue[c], s)
    BY <1>1, <1>2
  <1>4. /\ Append(queue[c], s) \in Seq(Statements)
        /\ Len(Append(queue[c], s)) = Len(queue[c]) + 1
        /\ \A i \in 1 .. Len(queue[c]) : Append(queue[c], s)[i] = queue[c][i]
        /\ Append(queue[c], s)[Len(queue[c]) + 1] = s
        /\ Append(queue[c], s) # <<>>
    BY <1>1, AppendProperties
  <1>5. queue' \in [Conns -> Seq(Statements)] /\ \A d \in Conns : d # c => queue'[d] = queue[d]
    BY <1>1, <1>2, <1>4
  <1>6. Len(queue[c]) \in Nat /\ DOMAIN queue[c] = 1 .. Len(queue[c])
        /\ DOMAIN queue'[c] = 1 .. (Len(queue[c]) + 1)
    BY <1>1, <1>3, <1>4
  <1> QED
    BY <1>3, <1>4, <1>5, <1>6 DEF s

------------------------------------------------------------------------------
(* Shape, holders, pool and lock, by what a step does to a stack.          *)

(* Statements are sent only where they belong.                             *)
LEMMA QueueSent ==
    ASSUME TypeOK, QueueInv, NEW c \in Conns, NEW op, NEW arg, NEW t \in Tasks,
           [op |-> op, arg |-> arg, task |-> t] \in Statements,
           queue' = Sent(c, op, arg, t),
           IF c = Writer THEN /\ op \in {"SAVEPOINT", "write", "ROLLBACK_TO", "RELEASE"}
                              /\ op = "write" => arg # 0
           ELSE op \in {"BEGIN", "SELECT", "ROLLBACK"}
    PROVE  QueueInv'
  <1>1. /\ \A d \in Conns : d # c => queue'[d] = queue[d]
        /\ DOMAIN queue'[c] = 1 .. (Len(queue[c]) + 1)
        /\ DOMAIN queue[c] = 1 .. Len(queue[c]) /\ Len(queue[c]) \in Nat
        /\ \A i \in 1 .. Len(queue[c]) : queue'[c][i] = queue[c][i]
        /\ queue'[c][Len(queue[c]) + 1].op = op
        /\ queue'[c][Len(queue[c]) + 1].arg = arg
    BY SentFacts
  <1>2. Writer \notin Readers /\ Conns = Readers \cup {Writer}
    BY DBAssumption DEF Conns
  <1>3. \A i \in DOMAIN queue'[c] :
          (i \in DOMAIN queue[c] /\ queue'[c][i] = queue[c][i]) \/ i = Len(queue[c]) + 1
    BY <1>1
  <1>4. CASE c = Writer
    <2>1. \A r \in Readers : queue'[r] = queue[r]
      BY <1>1, <1>2, <1>4
    <2>2. ASSUME NEW i \in DOMAIN queue'[Writer]
          PROVE  /\ queue'[Writer][i].op \in {"SAVEPOINT", "write", "ROLLBACK_TO", "RELEASE"}
                 /\ queue'[Writer][i].op = "write" => queue'[Writer][i].arg # 0
      <3>1. CASE i = Len(queue[Writer]) + 1
        BY <1>1, <1>4, <3>1
      <3>2. CASE i \in DOMAIN queue[Writer] /\ queue'[Writer][i] = queue[Writer][i]
        BY <3>2 DEF QueueInv
      <3> QED
        BY <1>3, <1>4, <3>1, <3>2
    <2> QED
      BY <2>1, <2>2 DEF QueueInv
  <1>5. CASE c # Writer
    <2>1. queue'[Writer] = queue[Writer] /\ \A r \in Readers : r # c => queue'[r] = queue[r]
      BY <1>1, <1>2, <1>5
    <2> QED
      BY <1>1, <1>2, <1>3, <1>5, <2>1 DEF QueueInv
  <1> QED
    BY <1>4, <1>5

(* The other tasks keep what concerns them alone.                          *)
LEMMA OthersKeep ==
    ASSUME Core, NEW u \in Tasks, stack'[u] = stack[u], at'[u] = at[u]
    PROVE  /\ ShapeOf(u)'
           /\ inUse'[u] = inUse[u] => HoldingOf(u)'
           /\ lock' = lock => LockedOf(u)'
           /\ lock' = lock /\ (currentWriter' = u => currentWriter = u) => WritingOf(u)'
  <1>0. Top(u)' = Top(u)
    BY DEF Top, Last
  <1>1. ShapeOf(u)'
    BY <1>0 DEF Core, Shape, ShapeOf
  <1>2. inUse'[u] = inUse[u] => HoldingOf(u)'
    BY DEF Core, Holding, HoldingOf
  <1>3. lock' = lock => LockedOf(u)'
    BY DEF Core, LockInv, LockedOf
  <1>4. lock' = lock /\ (currentWriter' = u => currentWriter = u) => WritingOf(u)'
    BY <1>0 DEF Core, LockInv, WritingOf
  <1> QED
    BY <1>1, <1>2, <1>3, <1>4

(* A task that awaits something else, or nothing.                          *)
LEMMA CoreAwait ==
    ASSUME Base, NEW t \in Tasks, NEW w,
           at' = [at EXCEPT ![t] = w],
           UNCHANGED <<stack, lock, pool, inUse>>,
           QueueInv',
           w \notin {"SAVEPOINT", "ROLLBACK", "error"},
           w = "pool" => inUse[t] = Writer,
           w = "BEGIN" => stack[t] # <<>> /\ Top(t).begins,
           w = "statement" => stack[t] # <<>>,
           w = "RELEASE" => at[t] = "ROLLBACK_TO",
           w # "ROLLBACK_TO",
           w # "RELEASE" => at[t] \notin {"ROLLBACK_TO", "RELEASE"},
           currentWriter' = currentWriter \/
               (currentWriter' = t /\ at[t] = "SAVEPOINT" /\ w = "body")
    PROVE  Core'
  <1>1. at \in [Tasks -> {"body", "lock", "pool", "error", "statement", "SAVEPOINT", "BEGIN",
                          "ROLLBACK_TO", "RELEASE", "ROLLBACK"}]
    BY DEF Base, TypeOK
  <1>2. at'[t] = w /\ \A u \in Tasks : u # t => at'[u] = at[u]
    BY <1>1
  <1>3. Shape'
    <2> SUFFICES ASSUME NEW u \in Tasks PROVE ShapeOf(u)'
      BY DEF Shape
    <2>1. CASE u # t
      BY <1>2, <2>1, OthersKeep DEF Base
    <2>2. CASE u = t
      BY <1>2, <2>2 DEF Base, Core, Shape, ShapeOf, Top, Last
    <2> QED
      BY <2>1, <2>2
  <1>4. Holding'
    <2> SUFFICES ASSUME NEW u \in Tasks PROVE HoldingOf(u)'
      BY DEF Holding
    <2>1. CASE u # t
      BY <1>2, <2>1, OthersKeep DEF Base
    <2>2. CASE u = t
      BY <1>2, <2>2 DEF Base, Core, Holding, HoldingOf
    <2> QED
      BY <2>1, <2>2
  <1>5. PoolInv'
    BY DEF Base, Core, PoolInv
  <1>6. LockInv'
    <2> SUFFICES ASSUME NEW u \in Tasks PROVE LockedOf(u)' /\ WritingOf(u)'
      BY DEF LockInv
    <2>1. LockedOf(u)'
      BY DEF Base, Core, LockInv, LockedOf
    <2>2. CASE u # t
      BY <1>2, <2>1, <2>2, OthersKeep DEF Base
    <2>3. CASE u = t /\ currentWriter' = currentWriter
      BY <1>2, <2>1, <2>3 DEF Base, Core, LockInv, WritingOf, Top, Last
    <2>4. CASE u = t /\ currentWriter' = t /\ at[t] = "SAVEPOINT" /\ w = "body"
      <3>1. stack[t] # <<>> /\ Top(t).kind \in WriterKinds
        BY <2>4 DEF Base, Core, Shape, ShapeOf
      <3>2. Len(stack[t]) \in DOMAIN stack[t] /\ Top(t) = stack[t][Len(stack[t])]
        BY <3>1, StackFacts DEF Base
      <3>3. lock = t /\ \E i \in DOMAIN stack[t] : stack[t][i].kind = "top"
        BY <3>1, <3>2 DEF Base, Core, LockInv, LockedOf, WriterKinds
      <3> QED
        BY <1>2, <2>1, <2>4, <3>3 DEF WritingOf
    <2> QED
      BY <2>1, <2>2, <2>3, <2>4
  <1> QED
    BY <1>3, <1>4, <1>5, <1>6 DEF Core

(* The pool, when a connection is taken and when it is given back.         *)
LEMMA PoolTaken ==
    ASSUME Base, NEW t \in Tasks, inUse[t] = Writer, pool # <<>>,
           pool' = Tail(pool), inUse' = [inUse EXCEPT ![t] = Head(pool)]
    PROVE  /\ PoolInv' /\ Head(pool) \in Readers /\ pool' \in Seq(Readers)
           /\ \A u \in Tasks : inUse[u] # Head(pool)
  <1>1. pool \in Seq(Readers) /\ inUse \in [Tasks -> Conns] /\ PoolInv /\ Writer \notin Readers
    BY DBAssumption DEF Base, TypeOK, Core
  <1>2. /\ Head(pool) = pool[1] /\ Head(pool) \in Readers /\ Tail(pool) \in Seq(Readers)
        /\ Len(pool) \in Nat /\ Len(pool) > 0 /\ 1 \in DOMAIN pool
        /\ DOMAIN pool = 1 .. Len(pool) /\ DOMAIN pool' = 1 .. (Len(pool) - 1)
        /\ \A i \in 1 .. (Len(pool) - 1) : pool'[i] = pool[i + 1] /\ i + 1 \in DOMAIN pool
    BY <1>1
  <1>3. inUse'[t] = pool[1] /\ \A u \in Tasks : u # t => inUse'[u] = inUse[u]
    BY <1>1, <1>2
  <1>4. \A u \in Tasks : inUse[u] # pool[1]
    BY <1>1, <1>2 DEF PoolInv
  <1>5. \A i, j \in DOMAIN pool' : pool'[i] = pool'[j] => i = j
    <2> TAKE i, j \in DOMAIN pool'
    <2>1. pool'[i] = pool'[j] => i + 1 = j + 1
      BY <1>1, <1>2 DEF PoolInv
    <2> QED
      BY <1>2, <2>1
  <1>6. \A u \in Tasks : \A i \in DOMAIN pool' : pool'[i] # inUse'[u]
    <2> TAKE u \in Tasks
    <2> TAKE i \in DOMAIN pool'
    <2>1. pool'[i] = pool[i + 1] /\ i + 1 \in DOMAIN pool /\ i + 1 # 1
      BY <1>2
    <2>2. pool[i + 1] # pool[1] /\ pool[i + 1] # inUse[u]
      BY <1>1, <1>2, <2>1 DEF PoolInv
    <2> QED
      BY <1>3, <2>1, <2>2
  <1>7. \A u, v \in Tasks : inUse'[u] = inUse'[v] => u = v \/ inUse'[u] = Writer
    BY <1>1, <1>3, <1>4 DEF PoolInv
  <1>8. \A r \in Readers : (\E i \in DOMAIN pool' : pool'[i] = r) \/ (\E u \in Tasks : inUse'[u] = r)
    <2> TAKE r \in Readers
    <2>1. CASE \E u \in Tasks : inUse[u] = r
      BY <1>1, <1>3, <2>1
    <2>2. CASE \E i \in DOMAIN pool : pool[i] = r
      <3>1. PICK i \in DOMAIN pool : pool[i] = r
        BY <2>2
      <3>2. CASE i = 1
        BY <1>3, <3>1, <3>2
      <3>3. CASE i # 1
        <4>1. i - 1 \in DOMAIN pool' /\ (i - 1) + 1 = i
          BY <1>2, <3>3
        <4> QED
          BY <1>2, <3>1, <4>1
      <3> QED
        BY <3>2, <3>3
    <2> QED
      BY <1>1, <2>1, <2>2 DEF PoolInv
  <1> QED
    BY <1>2, <1>4, <1>5, <1>6, <1>7, <1>8 DEF PoolInv

LEMMA PoolReturned ==
    ASSUME Base, NEW t \in Tasks, NEW r \in Readers, inUse[t] = r,
           pool' = Append(pool, r), inUse' = [inUse EXCEPT ![t] = Writer]
    PROVE  PoolInv' /\ pool' \in Seq(Readers)
  <1>1. pool \in Seq(Readers) /\ inUse \in [Tasks -> Conns] /\ PoolInv /\ Writer \notin Readers
    BY DBAssumption DEF Base, TypeOK, Core
  <1>2. /\ pool' \in Seq(Readers) /\ Len(pool) \in Nat
        /\ DOMAIN pool = 1 .. Len(pool) /\ DOMAIN pool' = 1 .. (Len(pool) + 1)
        /\ pool'[Len(pool) + 1] = r
        /\ \A i \in 1 .. Len(pool) : pool'[i] = pool[i] /\ pool[i] \in Readers
    BY <1>1
  <1>3. inUse'[t] = Writer /\ \A u \in Tasks : u # t => inUse'[u] = inUse[u]
    BY <1>1
  <1>4. \A i \in DOMAIN pool : pool[i] # r
    BY <1>1 DEF PoolInv
  <1>5. \A i, j \in DOMAIN pool' : pool'[i] = pool'[j] => i = j
    BY <1>1, <1>2, <1>4 DEF PoolInv
  <1>6. \A u \in Tasks : u # t => inUse[u] # r
    BY <1>1 DEF PoolInv
  <1>7. \A u \in Tasks : \A i \in DOMAIN pool' : pool'[i] # inUse'[u]
    <2> TAKE u \in Tasks
    <2> TAKE i \in DOMAIN pool'
    <2>1. CASE i = Len(pool) + 1
      BY <1>1, <1>2, <1>3, <1>6, <2>1
    <2>2. CASE i \in DOMAIN pool
      BY <1>1, <1>2, <1>3, <2>2 DEF PoolInv
    <2> QED
      BY <1>2, <2>1, <2>2
  <1>8. \A u, v \in Tasks : inUse'[u] = inUse'[v] => u = v \/ inUse'[u] = Writer
    BY <1>1, <1>3 DEF PoolInv
  <1>9. \A q \in Readers : (\E i \in DOMAIN pool' : pool'[i] = q) \/ (\E u \in Tasks : inUse'[u] = q)
    <2> TAKE q \in Readers
    <2>1. CASE q = r
      <3>1. Len(pool) + 1 \in DOMAIN pool'
        BY <1>2
      <3> QED
        BY <1>2, <2>1, <3>1
    <2>2. CASE q # r /\ \E i \in DOMAIN pool : pool[i] = q
      <3>1. \A i \in DOMAIN pool : i \in DOMAIN pool'
        BY <1>2
      <3> QED
        BY <1>2, <2>2, <3>1
    <2>3. CASE q # r /\ \E u \in Tasks : inUse[u] = q
      BY <1>1, <1>3, <2>3
    <2> QED
      BY <1>1, <2>1, <2>2, <2>3 DEF PoolInv
  <1> QED
    BY <1>2, <1>5, <1>7, <1>8, <1>9 DEF PoolInv

(* A context is entered: its manager and its connection fit the task.      *)
LEMMA CorePush ==
    ASSUME Base, NEW t \in Tasks, NEW f \in Frames, NEW w, Push(t, f),
           at' = [at EXCEPT ![t] = w], QueueInv', PoolInv',
           inUse' \in [Tasks -> Conns],
           \A u \in Tasks : u # t => inUse'[u] = inUse[u],
           at[t] \in {"body", "lock", "pool"},
           w \in {"SAVEPOINT", "BEGIN", "body"},
           w = "SAVEPOINT" => f.kind \in WriterKinds,
           w = "BEGIN" => f.begins,
           ~ f.failed,
           f.kind \in {"top", "nested", "joined"} => f.conn = Writer,
           f.begins => f.kind = "reader" /\ f.conn # Writer,
           f.holds => f.conn # Writer,
           ~ f.holds => f.since = {},
           f.conn # Writer => f.conn = inUse'[t],
           IF f.holds THEN inUse[t] = Writer ELSE inUse'[t] = inUse[t],
           CASE f.kind = "top" -> lock = NoTask /\ lock' = t
             [] f.kind \in {"nested", "joined"} -> currentWriter = t /\ lock' = lock
             [] OTHER -> lock' = lock,
           currentWriter' = currentWriter
    PROVE  Core'
  <1> DEFINE n == Len(stack[t])
  <1>1. /\ \A u \in Tasks : u # t => stack'[u] = stack[u]
        /\ stack'[t] # <<>> /\ Top(t)' = f
        /\ Len(stack'[t]) = n + 1 /\ DOMAIN stack'[t] = 1 .. (n + 1)
        /\ \A i \in 1 .. n : stack'[t][i] = stack[t][i]
        /\ stack'[t][n + 1] = f
        /\ n \in Nat /\ DOMAIN stack[t] = 1 .. n
    BY PushFacts, StackFacts DEF Base
  <1>2. at'[t] = w /\ \A u \in Tasks : u # t => at'[u] = at[u]
    BY DEF Base, TypeOK
  <1>3. Core /\ ShapeOf(t) /\ HoldingOf(t) /\ LockedOf(t) /\ WritingOf(t) /\ NoTask \notin Tasks
    BY DBAssumption DEF Base, Core, Shape, Holding, LockInv
  <1>4. \A i \in DOMAIN stack'[t] : (i \in 1 .. n /\ stack'[t][i] = stack[t][i]) \/ i = n + 1
    BY <1>1
  <1>5. ShapeOf(t)'
    <2>1. ASSUME NEW i \in DOMAIN stack'[t]
          PROVE  /\ ~ stack'[t][i].failed
                 /\ stack'[t][i].kind \in {"top", "nested", "joined"} => stack'[t][i].conn = Writer
                 /\ stack'[t][i].begins => stack'[t][i].kind = "reader" /\ stack'[t][i].conn # Writer
      <3>1. CASE i = n + 1
        BY <1>1, <3>1
      <3>2. CASE i \in 1 .. n /\ stack'[t][i] = stack[t][i]
        BY <1>1, <1>3, <3>2 DEF ShapeOf
      <3> QED
        BY <1>4, <3>1, <3>2
    <2> QED
      BY <1>1, <1>2, <2>1 DEF ShapeOf
  <1>6. HoldingOf(t)'
    <2>1. f.holds => \A i \in 1 .. n : ~ stack[t][i].holds /\ stack[t][i].conn = Writer
      BY <1>1, <1>3 DEF HoldingOf
    <2>2. ~ f.holds => \A i \in 1 .. n : stack[t][i].conn # Writer => stack[t][i].conn = inUse'[t]
      BY <1>1, <1>3 DEF HoldingOf
    <2>3. ASSUME NEW i \in DOMAIN stack'[t]
          PROVE  /\ stack'[t][i].conn # Writer => stack'[t][i].conn = inUse'[t]
                 /\ stack'[t][i].holds => stack'[t][i].conn # Writer
                 /\ ~ stack'[t][i].holds => stack'[t][i].since = {}
      <3>1. CASE i = n + 1
        BY <1>1, <3>1
      <3>2. CASE i \in 1 .. n /\ stack'[t][i] = stack[t][i]
        BY <1>1, <1>3, <2>1, <2>2, <3>2 DEF HoldingOf
      <3> QED
        BY <1>4, <3>1, <3>2
    <2>4. ASSUME NEW i \in DOMAIN stack'[t], NEW j \in DOMAIN stack'[t],
                 stack'[t][i].holds, stack'[t][j].conn # Writer
          PROVE  i <= j /\ (stack'[t][j].holds => i = j)
      <3>1. CASE i = n + 1
        BY <1>1, <1>4, <2>1, <2>4, <3>1
      <3>2. CASE i \in 1 .. n /\ stack'[t][i] = stack[t][i] /\ j = n + 1
        BY <1>1, <2>1, <2>4, <3>2
      <3>3. CASE i \in 1 .. n /\ stack'[t][i] = stack[t][i] /\ j \in 1 .. n /\ stack'[t][j] = stack[t][j]
        BY <1>1, <1>3, <2>4, <3>3 DEF HoldingOf
      <3> QED
        BY <1>4, <3>1, <3>2, <3>3
    <2> QED
      BY <1>2, <2>3, <2>4 DEF HoldingOf
  <1>7. LockedOf(t)' /\ WritingOf(t)'
    <2>1. f.kind = "top" => /\ \A i \in 1 .. n : stack[t][i].kind \notin {"top", "nested", "joined"}
                            /\ currentWriter # t
      BY <1>1, <1>3 DEF LockedOf, WritingOf
    <2>2. f.kind \in {"nested", "joined"} => lock = t /\ \E i \in 1 .. n : stack[t][i].kind = "top"
      BY <1>1, <1>3 DEF WritingOf
    <2>3. f.kind # "top" => lock' = lock
      OBVIOUS
    <2>4. LockedOf(t)'
      <3> SUFFICES ASSUME NEW i \in DOMAIN stack'[t]
                   PROVE  /\ stack'[t][i].kind \in {"top", "nested", "joined"} => lock' = t
                          /\ stack'[t][i].kind \in {"nested", "joined"} =>
                                \E j \in DOMAIN stack'[t] : j < i /\ stack'[t][j].kind = "top"
                          /\ \A j \in DOMAIN stack'[t] :
                                stack'[t][i].kind = "top" /\ stack'[t][j].kind \in {"top", "nested", "joined"}
                                    => i <= j
        BY DEF LockedOf
      <3>1. CASE i = n + 1
        <4>1. f.kind \in {"top", "nested", "joined"} => lock' = t
          BY <2>2
        <4>2. f.kind \in {"nested", "joined"} =>
                 \E j \in DOMAIN stack'[t] : j < i /\ stack'[t][j].kind = "top"
          BY <1>1, <2>2, <3>1
        <4>3. \A j \in DOMAIN stack'[t] :
                 f.kind = "top" /\ stack'[t][j].kind \in {"top", "nested", "joined"} => i <= j
          BY <1>1, <1>4, <2>1, <3>1
        <4> QED
          BY <1>1, <3>1, <4>1, <4>2, <4>3
      <3>2. CASE i \in 1 .. n /\ stack'[t][i] = stack[t][i]
        <4>1. stack[t][i].kind \in {"top", "nested", "joined"} => lock' = t
          BY <1>1, <1>3, <2>1, <2>3, <3>2 DEF LockedOf
        <4>2. stack[t][i].kind \in {"nested", "joined"} =>
                 \E j \in DOMAIN stack'[t] : j < i /\ stack'[t][j].kind = "top"
          BY <1>1, <1>3, <3>2 DEF LockedOf
        <4>3. \A j \in DOMAIN stack'[t] :
                 stack[t][i].kind = "top" /\ stack'[t][j].kind \in {"top", "nested", "joined"} => i <= j
          BY <1>1, <1>3, <1>4, <3>2 DEF LockedOf
        <4> QED
          BY <3>2, <4>1, <4>2, <4>3
      <3> QED
        BY <1>4, <3>1, <3>2
    <2>5. WritingOf(t)'
      <3> SUFFICES ASSUME currentWriter = t PROVE WritingOf(t)'
        BY DEF WritingOf
      <3>1. f.kind # "top" /\ lock' = t /\ \E i \in 1 .. n : stack[t][i].kind = "top"
        BY <1>1, <1>3, <2>1, <2>3 DEF WritingOf
      <3>2. \E i \in DOMAIN stack'[t] : stack'[t][i].kind = "top"
        BY <1>1, <3>1
      <3> QED
        BY <1>1, <3>1, <3>2 DEF WritingOf
    <2> QED
      BY <2>4, <2>5
  <1>8. ASSUME NEW u \in Tasks, u # t
        PROVE  ShapeOf(u)' /\ HoldingOf(u)' /\ LockedOf(u)' /\ WritingOf(u)'
    <2>1. ShapeOf(u)' /\ HoldingOf(u)'
      BY <1>1, <1>2, <1>3, <1>8, OthersKeep
    <2>2. CASE lock' = lock
      BY <1>1, <1>2, <1>3, <1>8, <2>1, <2>2, OthersKeep
    <2>3. CASE lock = NoTask /\ lock' = t
      <3>1. LockedOf(u) /\ WritingOf(u) /\ u # NoTask
        BY <1>3 DEF Core, LockInv
      <3>2. LockedOf(u)'
        BY <1>1, <1>8, <2>3, <3>1 DEF LockedOf
      <3>3. WritingOf(u)'
        BY <2>3, <3>1 DEF WritingOf
      <3> QED
        BY <2>1, <3>2, <3>3
    <2> QED
      BY <2>2, <2>3
  <1> QED
    BY <1>5, <1>6, <1>7, <1>8 DEF Core, Shape, Holding, LockInv

(* The innermost context ends.                                             *)
LEMMA CorePop ==
    ASSUME Base, NEW t \in Tasks, stack[t] # <<>>, stack' = Popped(t),
           at' = [at EXCEPT ![t] = "body"], QueueInv', PoolInv',
           inUse' = IF Top(t).holds THEN [inUse EXCEPT ![t] = Writer] ELSE inUse,
           IF Top(t).kind = "top" THEN lock' = NoTask /\ currentWriter # t ELSE lock' = lock,
           currentWriter' = currentWriter
    PROVE  Core'
  <1> DEFINE n == Len(stack[t])
  <1>1. /\ \A u \in Tasks : u # t => stack'[u] = stack[u]
        /\ Len(stack'[t]) = n - 1 /\ DOMAIN stack'[t] = 1 .. (n - 1)
        /\ \A i \in 1 .. (n - 1) : KeepsAllBut(stack'[t][i], stack[t][i])
    BY PopFacts DEF Base
  <1>2. /\ n \in Nat /\ n > 0 /\ DOMAIN stack[t] = 1 .. n /\ n \in DOMAIN stack[t]
        /\ Top(t) = stack[t][n]
    BY StackFacts DEF Base
  <1>3. at'[t] = "body" /\ \A u \in Tasks : u # t => at'[u] = at[u]
    BY DEF Base, TypeOK
  <1>4. Core /\ ShapeOf(t) /\ HoldingOf(t) /\ LockedOf(t) /\ WritingOf(t) /\ NoTask \notin Tasks
    BY DBAssumption DEF Base, Core, Shape, Holding, LockInv
  <1>5. \A i \in DOMAIN stack'[t] : /\ i \in DOMAIN stack[t] /\ i < n
                                    /\ KeepsAllBut(stack'[t][i], stack[t][i])
    BY <1>1, <1>2
  <1>6. /\ inUse'[t] = IF Top(t).holds THEN Writer ELSE inUse[t]
        /\ \A u \in Tasks : u # t => inUse'[u] = inUse[u]
    BY DEF Base, TypeOK
  <1>7. ShapeOf(t)'
    <2>1. \A i \in DOMAIN stack'[t] : ~ stack[t][i].failed
      BY <1>2, <1>4, <1>5 DEF ShapeOf
    <2> QED
      BY <1>3, <1>4, <1>5, <2>1 DEF ShapeOf, KeepsAllBut
  <1>8. HoldingOf(t)'
    <2>1. Top(t).holds => \A i \in DOMAIN stack'[t] : stack[t][i].conn = Writer
      BY <1>2, <1>4, <1>5 DEF HoldingOf
    <2>2. ASSUME NEW i \in DOMAIN stack'[t]
          PROVE  /\ stack'[t][i].conn # Writer => stack'[t][i].conn = inUse'[t]
                 /\ stack'[t][i].holds => stack'[t][i].conn # Writer
                 /\ ~ stack'[t][i].holds => stack'[t][i].since = {}
      BY <1>4, <1>5, <1>6, <2>1 DEF HoldingOf, KeepsAllBut
    <2>3. ASSUME NEW i \in DOMAIN stack'[t], NEW j \in DOMAIN stack'[t],
                 stack'[t][i].holds, stack'[t][j].conn # Writer
          PROVE  i <= j /\ (stack'[t][j].holds => i = j)
      BY <1>4, <1>5, <2>3 DEF HoldingOf, KeepsAllBut
    <2> QED
      BY <1>3, <2>2, <2>3 DEF HoldingOf
  <1>9. LockedOf(t)'
    <2>1. Top(t).kind = "top" =>
             \A i \in DOMAIN stack'[t] : stack[t][i].kind \notin {"top", "nested", "joined"}
      BY <1>2, <1>4, <1>5 DEF LockedOf
    <2> SUFFICES ASSUME NEW i \in DOMAIN stack'[t]
                 PROVE  /\ stack'[t][i].kind \in {"top", "nested", "joined"} => lock' = t
                        /\ stack'[t][i].kind \in {"nested", "joined"} =>
                              \E j \in DOMAIN stack'[t] : j < i /\ stack'[t][j].kind = "top"
                        /\ \A j \in DOMAIN stack'[t] :
                              stack'[t][i].kind = "top" /\ stack'[t][j].kind \in {"top", "nested", "joined"}
                                  => i <= j
      BY DEF LockedOf
    <2>2. stack'[t][i].kind = stack[t][i].kind
      BY <1>5 DEF KeepsAllBut
    <2>3. stack'[t][i].kind \in {"top", "nested", "joined"} => lock' = t
      BY <1>4, <1>5, <2>1, <2>2 DEF LockedOf
    <2>4. stack'[t][i].kind \in {"nested", "joined"} =>
              \E j \in DOMAIN stack'[t] : j < i /\ stack'[t][j].kind = "top"
      <3> SUFFICES ASSUME stack'[t][i].kind \in {"nested", "joined"}
                   PROVE  \E j \in DOMAIN stack'[t] : j < i /\ stack'[t][j].kind = "top"
        OBVIOUS
      <3>1. PICK j \in DOMAIN stack[t] : j < i /\ stack[t][j].kind = "top"
        BY <1>4, <1>5, <2>2 DEF LockedOf
      <3>2. j \in DOMAIN stack'[t]
        BY <1>1, <1>2, <3>1
      <3> QED
        BY <1>5, <3>1, <3>2 DEF KeepsAllBut
    <2>5. \A j \in DOMAIN stack'[t] :
              stack'[t][i].kind = "top" /\ stack'[t][j].kind \in {"top", "nested", "joined"} => i <= j
      BY <1>4, <1>5 DEF LockedOf, KeepsAllBut
    <2> QED
      BY <2>3, <2>4, <2>5
  <1>10. WritingOf(t)'
    <2> SUFFICES ASSUME currentWriter = t PROVE WritingOf(t)'
      BY DEF WritingOf
    <2>1. Top(t).kind # "top" /\ lock' = lock /\ lock = t
      BY <1>4 DEF WritingOf
    <2>2. PICK i \in DOMAIN stack[t] : stack[t][i].kind = "top"
      BY <1>4 DEF WritingOf
    <2>3. i \in DOMAIN stack'[t] /\ i \in 1 .. (n - 1)
      BY <1>1, <1>2, <2>1, <2>2
    <2>4. stack'[t][i].kind = "top"
      BY <1>1, <2>2, <2>3 DEF KeepsAllBut
    <2> QED
      BY <1>3, <2>1, <2>3, <2>4 DEF WritingOf
  <1>11. ASSUME NEW u \in Tasks, u # t
         PROVE  ShapeOf(u)' /\ HoldingOf(u)' /\ LockedOf(u)' /\ WritingOf(u)'
    <2>1. ShapeOf(u)' /\ HoldingOf(u)'
      BY <1>1, <1>3, <1>4, <1>6, <1>11, OthersKeep
    <2>2. CASE lock' = lock
      BY <1>1, <1>3, <1>4, <1>11, <2>1, <2>2, OthersKeep
    <2>3. CASE Top(t).kind = "top"
      <3>1. lock = t
        BY <1>2, <1>4, <2>3 DEF LockedOf
      <3>2. LockedOf(u) /\ WritingOf(u)
        BY <1>4 DEF Core, LockInv
      <3>3. LockedOf(u)'
        BY <1>1, <1>11, <3>1, <3>2 DEF LockedOf
      <3>4. WritingOf(u)'
        BY <1>11, <3>1, <3>2 DEF WritingOf
      <3> QED
        BY <2>1, <3>3, <3>4
    <2> QED
      BY <2>2, <2>3
  <1> QED
    BY <1>7, <1>8, <1>9, <1>10, <1>11 DEF Core, Shape, Holding, LockInv

(* The innermost context goes on with another await.                       *)
SameManager(g, h) ==
    /\ g.kind = h.kind /\ g.name = h.name /\ g.conn = h.conn /\ g.holds = h.holds
    /\ g.begins = h.begins /\ g.since = h.since

LEMMA CoreTop ==
    ASSUME Base, NEW t \in Tasks, stack[t] # <<>>, NEW g \in Frames,
           stack' = WithTop(t, g) \/ (stack' = stack /\ g = Top(t)),
           SameManager(g, Top(t)),
           \A u \in Tasks : u # t => at'[u] = at[u],
           QueueInv', UNCHANGED <<lock, pool, inUse>>,
           g.failed => at'[t] \in {"ROLLBACK_TO", "RELEASE"},
           at'[t] = "ROLLBACK_TO" => g.failed,
           at'[t] \in {"SAVEPOINT", "ROLLBACK_TO", "RELEASE"} => g.kind \in WriterKinds,
           at'[t] \in {"BEGIN", "ROLLBACK", "error"} => g.begins,
           at'[t] # "pool",
           at'[t] \in {"SAVEPOINT", "ROLLBACK_TO", "RELEASE"} /\ g.kind = "top" => currentWriter' # t,
           currentWriter' \in {currentWriter, NoTask}
    PROVE  Core'
  <1> DEFINE n == Len(stack[t])
  <1>0. /\ n \in Nat /\ n > 0 /\ DOMAIN stack[t] = 1 .. n /\ n \in DOMAIN stack[t]
        /\ Top(t) = stack[t][n]
    BY StackFacts DEF Base
  <1>1. /\ \A u \in Tasks : u # t => stack'[u] = stack[u]
        /\ stack'[t] # <<>> /\ Top(t)' = g
        /\ Len(stack'[t]) = n /\ DOMAIN stack'[t] = 1 .. n
        /\ \A i \in 1 .. (n - 1) : stack'[t][i] = stack[t][i]
        /\ stack'[t][n] = g
    <2>1. CASE stack' = WithTop(t, g)
      BY <2>1, WithTopFacts DEF Base
    <2>2. CASE stack' = stack /\ g = Top(t)
      BY <1>0, <2>2 DEF Top, Last
    <2> QED
      BY <2>1, <2>2
  <1>2. Core /\ ShapeOf(t) /\ HoldingOf(t) /\ LockedOf(t) /\ WritingOf(t) /\ NoTask \notin Tasks
    BY DBAssumption DEF Base, Core, Shape, Holding, LockInv
  <1>3. \A i \in DOMAIN stack'[t] :
          /\ i \in DOMAIN stack[t] /\ SameManager(stack'[t][i], stack[t][i])
          /\ i # n => stack'[t][i].failed = stack[t][i].failed
    BY <1>0, <1>1 DEF SameManager
  <1>4. DOMAIN stack'[t] = DOMAIN stack[t]
    BY <1>0, <1>1
  <1>5. ShapeOf(t)'
    <2>1. ASSUME NEW i \in DOMAIN stack'[t]
          PROVE  /\ stack'[t][i].failed => i = n /\ at'[t] \in {"ROLLBACK_TO", "RELEASE"}
                 /\ stack'[t][i].kind \in {"top", "nested", "joined"} => stack'[t][i].conn = Writer
                 /\ stack'[t][i].begins => stack'[t][i].kind = "reader" /\ stack'[t][i].conn # Writer
      BY <1>0, <1>1, <1>2, <1>3 DEF ShapeOf, SameManager
    <2> QED
      BY <1>1, <2>1 DEF ShapeOf
  <1>6. HoldingOf(t)'
    BY <1>2, <1>3, <1>4 DEF HoldingOf, SameManager
  <1>7. LockedOf(t)'
    BY <1>2, <1>3, <1>4 DEF LockedOf, SameManager
  <1>8. WritingOf(t)'
    BY <1>1, <1>2, <1>3, <1>4 DEF WritingOf, SameManager
  <1>9. ASSUME NEW u \in Tasks, u # t
        PROVE  ShapeOf(u)' /\ HoldingOf(u)' /\ LockedOf(u)' /\ WritingOf(u)'
    BY <1>1, <1>2, <1>9, OthersKeep
  <1>10. PoolInv'
    BY <1>2 DEF Core, PoolInv
  <1> QED
    BY <1>5, <1>6, <1>7, <1>8, <1>9, <1>10 DEF Core, Shape, Holding, LockInv

------------------------------------------------------------------------------
(* The base invariant, action by action.                                   *)

AtValues == {"body", "lock", "pool", "error", "statement", "SAVEPOINT", "BEGIN",
             "ROLLBACK_TO", "RELEASE", "ROLLBACK"}

(* The bounds' counters and the history keep their types.                  *)
Typed == /\ opens' \in Nat /\ statements' \in Nat /\ cancels' \in Nat
         /\ kept' \in SUBSET Rows /\ undone' \in SUBSET Rows /\ leaked' \in SUBSET Conns

(* The pool holds every read connection once when the wrapper is created.  *)
LEMMA PoolStart ==
    /\ SetToSeq(Readers) \in Seq(Readers)
    /\ \A i, j \in DOMAIN SetToSeq(Readers) : SetToSeq(Readers)[i] = SetToSeq(Readers)[j] => i = j
    /\ \A r \in Readers : \E i \in DOMAIN SetToSeq(Readers) : SetToSeq(Readers)[i] = r
  <1> DEFINE n == Cardinality(Readers)
             p == SetToSeq(Readers)
  <1>1. n \in Nat /\ ExistsBijection(1 .. n, Readers)
    BY DBAssumption, FS_CardinalityType
  <1>2. \E f \in [1 .. n -> Readers] : IsInjective(f)
    BY <1>1 DEF ExistsBijection, Bijection, Injection
  <1>3. p \in [1 .. n -> Readers] /\ IsInjective(p)
    BY <1>2 DEF SetToSeq
  <1> HIDE DEF p
  <1>4. p \in Injection(1 .. n, Readers)
    BY <1>3 DEF Injection
  <1>5. Cardinality(1 .. n) = n
    <2>1. n \in Int /\ 1 \in Int
      BY <1>1
    <2> HIDE DEF n
    <2>2. Cardinality(1 .. n) = IF 1 > n THEN 0 ELSE n - 1 + 1
      BY <2>1, FS_Interval
    <2> QED
      BY <1>1, <2>2
  <1>6. p \in Surjection(1 .. n, Readers)
    BY <1>4, <1>5, DBAssumption, FS_Injection
  <1>7. p \in Seq(Readers) /\ DOMAIN p = 1 .. n
    BY <1>1, <1>3
  <1> QED
    BY <1>3, <1>6, <1>7 DEF p, IsInjective, Surjection

LEMMA BaseInit ==
    ASSUME Init
    PROVE  Base
  <1>1. TypeOK
    BY PoolStart, DBAssumption DEF Init, TypeOK, NoRows, Conns
  <1>2. Shape /\ Holding /\ LockInv
    BY DBAssumption DEF Init, Shape, ShapeOf, Holding, HoldingOf, LockInv, LockedOf, WritingOf
  <1>3. PoolInv
    BY PoolStart, DBAssumption DEF Init, PoolInv
  <1>4. QueueInv
    BY DEF Init, QueueInv, Conns
  <1> QED
    BY <1>1, <1>2, <1>3, <1>4 DEF Base, Core

LEMMA RemoveAtType ==
    ASSUME NEW F, NEW s \in Seq(F), NEW i \in DOMAIN s
    PROVE  RemoveAt(s, i) \in Seq(F)
  <1>1. i \in Nat /\ i >= 1 /\ i <= Len(s) /\ Len(s) \in Nat
    OBVIOUS
  <1>2. SubSeq(s, 1, i - 1) \in Seq(F)
    BY <1>1
  <1>3. SubSeq(s, i + 1, Len(s)) \in Seq(F)
    BY <1>1
  <1> QED
    BY <1>2, <1>3 DEF RemoveAt

(* The outermost writer has no connection of the pool.                     *)
LEMMA WritersHoldNone ==
    ASSUME Base, NEW t \in Tasks, stack[t] # <<>>, Top(t).kind \in {"top", "nested", "joined"}
    PROVE  ~ Top(t).holds /\ ~ Top(t).begins /\ Top(t).conn = Writer /\ lock = t
  <1>1. Len(stack[t]) \in DOMAIN stack[t] /\ Top(t) = stack[t][Len(stack[t])] /\ Top(t) \in Frames
    BY StackFacts DEF Base
  <1> QED
    BY <1>1 DEF Base, Core, Shape, ShapeOf, Holding, HoldingOf, LockInv, LockedOf, Frames

LEMMA BaseEndReader ==
    ASSUME Base, NEW t \in Tasks, stack[t] # <<>>, Top(t).kind # "top",
           EndReader(t), Typed,
           UNCHANGED <<dbFile, queue, lock, lockWaiters, currentWriter, poolWaiters, nextName>>
    PROVE  Base'
  <1>1. /\ Len(stack[t]) \in DOMAIN stack[t] /\ Top(t) = stack[t][Len(stack[t])]
        /\ Top(t) \in Frames
    BY StackFacts DEF Base
  <1>2. /\ inUse' = IF Top(t).holds THEN [inUse EXCEPT ![t] = Writer] ELSE inUse
        /\ inUse' \in [Tasks -> Conns]
    BY DEF EndReader, Base, TypeOK, Conns
  <1>3. PoolInv' /\ pool' \in Seq(Readers)
    <2>1. CASE Top(t).holds
      <3>1. Top(t).conn = inUse[t] /\ Top(t).conn \in Readers
        BY <1>1, <2>1 DEF Base, Core, Holding, HoldingOf, Frames, Conns
      <3> QED
        BY <2>1, <3>1, PoolReturned DEF EndReader
    <2>2. CASE ~ Top(t).holds
      BY <2>2 DEF EndReader, Base, Core, PoolInv, TypeOK
    <2> QED
      BY <2>1, <2>2
  <1>4. stack' = Popped(t) /\ at' = [at EXCEPT ![t] = "body"]
    BY DEF EndReader
  <1>5. stack' \in [Tasks -> Seq(Frames)]
    BY <1>4, PopFacts DEF Base
  <1>6. QueueInv'
    BY DEF Base, Core, QueueInv
  <1>7. Core'
    BY <1>2, <1>3, <1>4, <1>6, CorePop
  <1>8. TypeOK'
    BY <1>2, <1>3, <1>4, <1>5 DEF Base, TypeOK, Typed, dbFile
  <1> QED
    BY <1>7, <1>8 DEF Base

LEMMA BaseEndWriter ==
    ASSUME Base, NEW t \in Tasks, at[t] \in {"SAVEPOINT", "RELEASE"},
           EndWriter(t), opens' \in Nat, statements' \in Nat, cancels' \in Nat,
           kept' \in SUBSET Rows, leaked' \in SUBSET Conns,
           UNCHANGED <<dbFile, queue, lockWaiters, currentWriter, pool, poolWaiters, inUse, nextName>>
    PROVE  Base'
  <1>1. stack[t] # <<>> /\ Top(t).kind \in WriterKinds
    BY DEF Base, Core, Shape, ShapeOf
  <1>2. ~ Top(t).holds /\ Top(t) \in Frames
    BY <1>1, WritersHoldNone, StackFacts DEF WriterKinds, Base
  <1>3. stack' = Popped(t) /\ at' = [at EXCEPT ![t] = "body"]
    BY DEF EndWriter
  <1>4. stack' \in [Tasks -> Seq(Frames)]
    BY <1>1, <1>3, PopFacts DEF Base
  <1>5. PoolInv' /\ QueueInv'
    BY DEF Base, Core, PoolInv, QueueInv
  <1>6. IF Top(t).kind = "top" THEN lock' = NoTask /\ currentWriter # t ELSE lock' = lock
    BY DEF EndWriter, Base, Core, LockInv, WritingOf
  <1>7. Core'
    BY <1>1, <1>2, <1>3, <1>5, <1>6, CorePop
  <1>8. undone' \in SUBSET Rows /\ lock' \in Tasks \cup {NoTask}
    BY <1>2, <1>6 DEF EndWriter, Base, TypeOK, Frames
  <1>9. TypeOK'
    BY <1>3, <1>4, <1>8 DEF Base, TypeOK, dbFile
  <1> QED
    BY <1>7, <1>9 DEF Base

LEMMA BaseOpenWriter ==
    ASSUME Base, NEW t \in Tasks, NEW maybe \in BOOLEAN, OpenWriter(t, maybe)
    PROVE  Base'
  <1>1. /\ at[t] = "body" /\ opens' \in Nat /\ UNCHANGED <<statements, cancels, history>>
        /\ UNCHANGED <<dbFile, lock, currentWriter, pool, poolWaiters, inUse>>
        /\ TypeOK /\ Core /\ QueueInv
    BY DEF OpenWriter, Opens, Base, TypeOK, Core
  <1>2. PoolInv' /\ inUse' \in [Tasks -> Conns] /\ Writer \in Conns
    BY <1>1 DEF Core, PoolInv, TypeOK, Conns
  <1>3. CASE currentWriter # t /\ at' = [at EXCEPT ![t] = "lock"]
             /\ lockWaiters' = Append(lockWaiters, t) /\ UNCHANGED <<queue, nextName, stack>>
    <2>1. QueueInv'
      BY <1>1, <1>3 DEF QueueInv
    <2>2. Core'
      BY <1>1, <1>3, <2>1, CoreAwait
    <2>3. TypeOK'
      BY <1>1, <1>3 DEF TypeOK, dbFile, history
    <2> QED
      BY <2>2, <2>3 DEF Base
  <1>4. CASE currentWriter = t /\ Push(t, Frame("nested", nextName, Writer, FALSE))
             /\ queue' = Sent(Writer, "SAVEPOINT", nextName, t) /\ nextName' = nextName + 1
             /\ at' = [at EXCEPT ![t] = "SAVEPOINT"] /\ UNCHANGED lockWaiters
    <2> DEFINE f == Frame("nested", nextName, Writer, FALSE)
    <2>1. /\ f \in Frames /\ f.kind = "nested" /\ f.conn = Writer /\ ~ f.holds
          /\ ~ f.begins /\ ~ f.failed /\ f.since = {}
      BY <1>1, <1>2 DEF TypeOK, Frame, Frames, NoRows
    <2>2. Push(t, f)
      BY <1>4
    <2> HIDE DEF f
    <2>3. [op |-> "SAVEPOINT", arg |-> nextName, task |-> t] \in Statements
      BY <1>1 DEF TypeOK, Statements
    <2>4. QueueInv' /\ queue' \in [Conns -> Seq(Statements)]
      BY <1>1, <1>2, <1>4, <2>3, QueueSent, SentFacts
    <2>5. Core'
      BY <1>1, <1>2, <1>4, <2>1, <2>2, <2>4, CorePush DEF WriterKinds
    <2>6. stack' \in [Tasks -> Seq(Frames)]
      BY <1>1, <2>1, <2>2, PushFacts
    <2>7. nextName' \in Nat /\ at' \in [Tasks -> AtValues] /\ lockWaiters' \in Seq(Tasks)
      BY <1>1, <1>4 DEF TypeOK, AtValues
    <2>8. TypeOK'
      BY <1>1, <2>4, <2>6, <2>7 DEF TypeOK, dbFile, history, AtValues
    <2> QED
      BY <2>5, <2>8 DEF Base
  <1>5. CASE currentWriter = t /\ Push(t, Frame("joined", 0, Writer, FALSE))
             /\ UNCHANGED <<queue, nextName, at, lockWaiters>>
    <2> DEFINE f == Frame("joined", 0, Writer, FALSE)
    <2>1. /\ f \in Frames /\ f.kind = "joined" /\ f.conn = Writer /\ ~ f.holds
          /\ ~ f.begins /\ ~ f.failed /\ f.since = {}
      BY <1>2 DEF Frame, Frames, NoRows
    <2>2. Push(t, f)
      BY <1>5
    <2> HIDE DEF f
    <2>3. QueueInv' /\ at' = [at EXCEPT ![t] = "body"]
      BY <1>1, <1>5 DEF QueueInv, TypeOK
    <2>4. Core'
      BY <1>1, <1>2, <1>5, <2>1, <2>2, <2>3, CorePush
    <2>5. stack' \in [Tasks -> Seq(Frames)]
      BY <1>1, <2>1, <2>2, PushFacts
    <2>6. TypeOK'
      BY <1>1, <1>5, <2>5 DEF TypeOK, dbFile, history
    <2> QED
      BY <2>4, <2>6 DEF Base
  <1> QED
    BY <1>3, <1>4, <1>5 DEF OpenWriter

LEMMA BaseTakeLock ==
    ASSUME Base, NEW t \in Tasks, TakeLock(t)
    PROVE  Base'
  <1>1. /\ at[t] = "lock" /\ lock = NoTask /\ lock' = t
        /\ lockWaiters # <<>> /\ lockWaiters' = Tail(lockWaiters)
        /\ queue' = Sent(Writer, "SAVEPOINT", nextName, t) /\ nextName' = nextName + 1
        /\ at' = [at EXCEPT ![t] = "SAVEPOINT"]
        /\ UNCHANGED <<dbFile, currentWriter, pool, poolWaiters, inUse, counters, history>>
        /\ TypeOK /\ Core /\ QueueInv
    BY DEF TakeLock, Base, Core
  <1>2. PoolInv' /\ inUse' \in [Tasks -> Conns] /\ Writer \in Conns
    BY <1>1 DEF Core, PoolInv, TypeOK, Conns
  <1> DEFINE f == Frame("top", nextName, Writer, FALSE)
  <1>3. /\ f \in Frames /\ f.kind = "top" /\ f.conn = Writer /\ ~ f.holds
        /\ ~ f.begins /\ ~ f.failed /\ f.since = {}
    BY <1>1, <1>2 DEF TypeOK, Frame, Frames, NoRows
  <1>4. Push(t, f)
    BY DEF TakeLock
  <1> HIDE DEF f
  <1>5. [op |-> "SAVEPOINT", arg |-> nextName, task |-> t] \in Statements
    BY <1>1 DEF TypeOK, Statements
  <1>6. QueueInv' /\ queue' \in [Conns -> Seq(Statements)]
    BY <1>1, <1>2, <1>5, QueueSent, SentFacts
  <1>7. Core'
    BY <1>1, <1>2, <1>3, <1>4, <1>6, CorePush DEF WriterKinds
  <1>8. stack' \in [Tasks -> Seq(Frames)] /\ lockWaiters' \in Seq(Tasks)
    BY <1>1, <1>3, <1>4, PushFacts DEF TypeOK
  <1>9. nextName' \in Nat /\ at' \in [Tasks -> AtValues]
    BY <1>1 DEF TypeOK, AtValues
  <1>10. TypeOK'
    BY <1>1, <1>6, <1>8, <1>9 DEF TypeOK, dbFile, history, counters, AtValues
  <1> QED
    BY <1>7, <1>10 DEF Base

(* The rest of reader and reader_no_transaction.                           *)
LEMMA BaseConnected ==
    ASSUME Base, NEW t \in Tasks, NEW kind \in {"reader", "plain"}, NEW conn \in Conns,
           NEW holds \in BOOLEAN, Connected(t, Frame(kind, 0, conn, holds)),
           at[t] \in {"body", "pool"},
           UNCHANGED <<dbFile, lock, lockWaiters, currentWriter, nextName>>, Typed,
           PoolInv', pool' \in Seq(Readers), inUse' \in [Tasks -> Conns],
           poolWaiters' \in Seq([task : Tasks, kind : {"reader", "plain"}]),
           \A u \in Tasks : u # t => inUse'[u] = inUse[u],
           conn # Writer => conn = inUse'[t],
           IF holds THEN inUse[t] = Writer /\ conn # Writer ELSE inUse'[t] = inUse[t]
    PROVE  Base'
  <1> DEFINE e == Frame(kind, 0, conn, holds)
             begins == Begins(e)
             since == IF e.holds THEN committed ELSE {}
             f == [e EXCEPT !.begins = begins, !.since = since]
  <1>1. /\ e \in Frames /\ e.kind = kind /\ e.conn = conn /\ e.holds = holds
        /\ ~ e.begins /\ ~ e.failed /\ e.since = {}
    BY DEF Frame, Frames, NoRows
  <1>2. /\ Push(t, f)
        /\ \/ begins /\ queue' = Sent(conn, "BEGIN", 0, t) /\ at' = [at EXCEPT ![t] = "BEGIN"]
           \/ ~ begins /\ queue' = queue /\ at' = [at EXCEPT ![t] = "body"]
    BY <1>1 DEF Connected
  <1> HIDE DEF e
  <1>3. begins \in BOOLEAN /\ since \in SUBSET Rows /\ (begins => kind = "reader" /\ conn # Writer)
    BY <1>1 DEF Begins, Base, TypeOK
  <1> HIDE DEF begins, since
  <1>4. /\ f \in Frames /\ f.kind = kind /\ f.conn = conn /\ f.holds = holds
        /\ f.begins = begins /\ ~ f.failed /\ f.since = since
    BY <1>1, <1>3 DEF Frames
  <1>5. ~ holds => since = {}
    BY <1>1 DEF since
  <1> HIDE DEF f
  <1>6. TypeOK /\ Core /\ QueueInv
    BY DEF Base, Core
  <1>7. QueueInv' /\ queue' \in [Conns -> Seq(Statements)]
    <2>1. CASE begins /\ queue' = Sent(conn, "BEGIN", 0, t)
      <3>1. [op |-> "BEGIN", arg |-> 0, task |-> t] \in Statements
        BY DEF Statements
      <3> QED
        BY <1>3, <1>6, <2>1, <3>1, QueueSent, SentFacts
    <2>2. CASE queue' = queue
      BY <1>6, <2>2 DEF QueueInv, TypeOK
    <2> QED
      BY <1>2, <2>1, <2>2
  <1>8. stack' \in [Tasks -> Seq(Frames)]
    BY <1>2, <1>4, <1>6, PushFacts
  <1>9. Core'
    <2>1. CASE begins /\ at' = [at EXCEPT ![t] = "BEGIN"]
      BY <1>2, <1>3, <1>4, <1>5, <1>7, <2>1, CorePush
    <2>2. CASE ~ begins /\ at' = [at EXCEPT ![t] = "body"]
      BY <1>2, <1>3, <1>4, <1>5, <1>7, <2>2, CorePush
    <2> QED
      BY <1>2, <2>1, <2>2
  <1>10. TypeOK'
    BY <1>2, <1>6, <1>7, <1>8 DEF TypeOK, dbFile, Typed
  <1> QED
    BY <1>9, <1>10 DEF Base

LEMMA BaseOpenReader ==
    ASSUME Base, NEW t \in Tasks, NEW kind \in {"reader", "plain"}, OpenReader(t, kind)
    PROVE  Base'
  <1>1. /\ at[t] = "body" /\ opens' \in Nat /\ UNCHANGED <<statements, cancels, history>>
        /\ UNCHANGED <<dbFile, lock, lockWaiters, currentWriter, pool, inUse, nextName>>
        /\ TypeOK /\ Core /\ QueueInv
    BY DEF OpenReader, Opens, Base, TypeOK, Core
  <1>2. /\ PoolInv' /\ inUse' \in [Tasks -> Conns] /\ Writer \in Conns
        /\ pool' \in Seq(Readers) /\ Typed /\ inUse[t] \in Conns
    BY <1>1 DEF Core, PoolInv, TypeOK, Conns, Typed, history
  <1>3. CASE Connected(t, Frame(kind, 0, Writer, FALSE)) /\ UNCHANGED poolWaiters
    <2>1. poolWaiters' \in Seq([task : Tasks, kind : {"reader", "plain"}])
      BY <1>1, <1>3 DEF TypeOK
    <2> QED
      BY <1>1, <1>2, <1>3, <2>1, BaseConnected
  <1>4. CASE Connected(t, Frame(kind, 0, inUse[t], FALSE)) /\ UNCHANGED poolWaiters
    <2>1. poolWaiters' \in Seq([task : Tasks, kind : {"reader", "plain"}])
      BY <1>1, <1>4 DEF TypeOK
    <2> QED
      BY <1>1, <1>2, <1>4, <2>1, BaseConnected
  <1>5. CASE inUse[t] = Writer /\ at' = [at EXCEPT ![t] = "pool"]
             /\ poolWaiters' = Append(poolWaiters, [task |-> t, kind |-> kind])
             /\ UNCHANGED <<queue, stack>>
    <2>1. QueueInv'
      BY <1>1, <1>5 DEF QueueInv
    <2>2. Core'
      BY <1>1, <1>5, <2>1, CoreAwait
    <2>3. poolWaiters' \in Seq([task : Tasks, kind : {"reader", "plain"}])
      BY <1>1, <1>5 DEF TypeOK
    <2>4. TypeOK'
      BY <1>1, <1>5, <2>3 DEF TypeOK, dbFile, history
    <2> QED
      BY <2>2, <2>4 DEF Base
  <1> QED
    BY <1>3, <1>4, <1>5 DEF OpenReader

LEMMA BaseTakeConnection ==
    ASSUME Base, NEW t \in Tasks, TakeConnection(t)
    PROVE  Base'
  <1>1. /\ at[t] = "pool" /\ pool # <<>> /\ poolWaiters # <<>>
        /\ pool' = Tail(pool) /\ poolWaiters' = Tail(poolWaiters)
        /\ inUse' = [inUse EXCEPT ![t] = Head(pool)]
        /\ Connected(t, Frame(Head(poolWaiters).kind, 0, Head(pool), TRUE))
        /\ UNCHANGED <<dbFile, lock, lockWaiters, currentWriter, nextName, counters, history>>
    BY DEF TakeConnection
  <1>2. TypeOK /\ Core /\ inUse[t] = Writer
    BY <1>1 DEF Base, Core, Holding, HoldingOf
  <1>3. PoolInv' /\ Head(pool) \in Readers /\ pool' \in Seq(Readers)
    BY <1>1, <1>2, PoolTaken
  <1>4. Head(pool) \in Conns /\ Head(pool) # Writer
    BY <1>3, DBAssumption DEF Conns
  <1>5. /\ inUse' \in [Tasks -> Conns] /\ inUse'[t] = Head(pool)
        /\ \A u \in Tasks : u # t => inUse'[u] = inUse[u]
    BY <1>1, <1>2, <1>4 DEF TypeOK
  <1>6. /\ poolWaiters' \in Seq([task : Tasks, kind : {"reader", "plain"}])
        /\ Head(poolWaiters).kind \in {"reader", "plain"}
    <2>1. poolWaiters \in Seq([task : Tasks, kind : {"reader", "plain"}])
      BY <1>2 DEF TypeOK
    <2>2. Head(poolWaiters) \in [task : Tasks, kind : {"reader", "plain"}]
      BY <1>1, <2>1, HeadTailProperties
    <2> QED
      BY <1>1, <2>1, <2>2, HeadTailProperties
  <1>7. Typed
    BY <1>1, <1>2 DEF Typed, TypeOK, counters, history
  <1> QED
    BY <1>1, <1>2, <1>3, <1>4, <1>5, <1>6, <1>7, BaseConnected

(* The actions that only change what a task awaits.                        *)
LEMMA BaseGoOn ==
    ASSUME Base, NEW t \in Tasks, EnterWriter(t) \/ EnterReader(t) \/ Continue(t)
    PROVE  Base'
  <1>1. /\ at[t] \in {"SAVEPOINT", "BEGIN", "statement"} /\ at' = [at EXCEPT ![t] = "body"]
        /\ UNCHANGED <<dbFile, queue, lock, lockWaiters, pool, poolWaiters, inUse, nextName, stack,
                       counters, history>>
        /\ currentWriter' = currentWriter \/ (currentWriter' = t /\ at[t] = "SAVEPOINT")
    BY DEF EnterWriter, EnterReader, Continue, access
  <1>2. TypeOK /\ Core /\ QueueInv
    BY DEF Base, Core
  <1>3. QueueInv'
    BY <1>1, <1>2 DEF QueueInv
  <1>4. Core'
    BY <1>1, <1>3, CoreAwait
  <1>5. TypeOK'
    BY <1>1, <1>2 DEF TypeOK, dbFile, counters, history
  <1> QED
    BY <1>4, <1>5 DEF Base

(* Away from its end no context of a task has failed.                      *)
LEMMA NoneFailed ==
    ASSUME Base, NEW t \in Tasks, at[t] \notin {"ROLLBACK_TO", "RELEASE"}
    PROVE  \A i \in DOMAIN stack[t] : stack[t][i].failed = FALSE
  <1> SUFFICES ASSUME NEW i \in DOMAIN stack[t] PROVE stack[t][i].failed = FALSE
    OBVIOUS
  <1>1. stack[t][i] \in Frames
    BY StackFacts DEF Base
  <1> QED
    BY <1>1 DEF Base, Core, Shape, ShapeOf, Frames

LEMMA BaseWrite ==
    ASSUME Base, NEW t \in Tasks, Write(t)
    PROVE  Base'
  <1> DEFINE g == [Top(t) EXCEPT !.wrote = @ \cup {statements + 1}]
  <1>1. /\ at[t] = "body" /\ stack[t] # <<>> /\ Top(t).kind \in {"top", "nested", "joined"}
        /\ statements' = statements + 1 /\ queue' = Sent(Writer, "write", statements + 1, t)
        /\ stack' = WithTop(t, g) /\ at' = [at EXCEPT ![t] = "statement"]
        /\ UNCHANGED <<dbFile, access, nextName, opens, cancels, history>>
        /\ TypeOK /\ Core /\ QueueInv
    BY DEF Write, Executes, Base, Core
  <1>2. Top(t) \in Frames /\ statements \in Nat /\ statements + 1 \in Rows /\ ~ Top(t).failed
    <2>1. statements \in Nat /\ statements + 1 \in Rows
      BY <1>1 DEF TypeOK, Rows
    <2>2. /\ Top(t) \in Frames /\ Top(t) = stack[t][Len(stack[t])]
          /\ Len(stack[t]) \in DOMAIN stack[t]
      BY <1>1, StackFacts
    <2> QED
      BY <1>1, <2>1, <2>2, NoneFailed
  <1>3. g \in Frames /\ SameManager(g, Top(t)) /\ ~ g.failed
    BY <1>2 DEF Frames, SameManager
  <1> HIDE DEF g
  <1>4. [op |-> "write", arg |-> statements + 1, task |-> t] \in Statements /\ Writer \in Conns
        /\ statements + 1 # 0
    BY <1>2 DEF Statements, Conns
  <1>5. QueueInv' /\ queue' \in [Conns -> Seq(Statements)]
    BY <1>1, <1>4, QueueSent, SentFacts
  <1>6. at'[t] = "statement" /\ at' \in [Tasks -> AtValues] /\ \A u \in Tasks : u # t => at'[u] = at[u]
    BY <1>1 DEF TypeOK, AtValues
  <1>7. Core'
    BY <1>1, <1>3, <1>5, <1>6, CoreTop DEF access
  <1>8. stack' \in [Tasks -> Seq(Frames)]
    BY <1>1, <1>3, WithTopFacts
  <1>9. statements' \in Nat
    BY <1>1, <1>2
  <1>10. UNCHANGED <<dbFile, access, nextName, opens, cancels, history>>
    BY <1>1
  <1>11. TypeOK'
    BY <1>5, <1>6, <1>8, <1>9, <1>10 DEF Base, TypeOK, dbFile, access, history, AtValues
  <1> QED
    BY <1>7, <1>11 DEF Base

LEMMA BaseSelect ==
    ASSUME Base, NEW t \in Tasks, Select(t)
    PROVE  Base'
  <1>1. /\ at[t] = "body" /\ stack[t] # <<>> /\ Top(t).conn # Writer
        /\ statements' = statements + 1 /\ queue' = Sent(Top(t).conn, "SELECT", 0, t)
        /\ at' = [at EXCEPT ![t] = "statement"]
        /\ UNCHANGED <<dbFile, access, nextName, stack, opens, cancels, history>>
        /\ TypeOK /\ Core /\ QueueInv
    BY DEF Select, Executes, Base, Core
  <1>2. Top(t) \in Frames /\ Top(t).conn \in Conns
    BY <1>1, StackFacts DEF Frames
  <1>3. [op |-> "SELECT", arg |-> 0, task |-> t] \in Statements
    BY DEF Statements
  <1>4. QueueInv' /\ queue' \in [Conns -> Seq(Statements)]
    BY <1>1, <1>2, <1>3, QueueSent, SentFacts
  <1>5. Core'
    BY <1>1, <1>4, CoreAwait DEF access
  <1>6. TypeOK'
    BY <1>1, <1>4 DEF TypeOK, dbFile, access, history
  <1> QED
    BY <1>5, <1>6 DEF Base

LEMMA BaseLeaveBody ==
    ASSUME Base, NEW t \in Tasks, NEW failing \in BOOLEAN, LeaveBody(t, failing),
           at[t] \in {"body", "statement"}, stack[t] # <<>>, Typed
    PROVE  Base'
  <1>1. TypeOK /\ Core /\ QueueInv /\ Top(t) \in Frames /\ ~ Top(t).failed
    BY StackFacts, NoneFailed DEF Base, Core
  <1>2. UNCHANGED <<dbFile, lock, lockWaiters, poolWaiters, nextName>>
    BY DEF LeaveBody
  <1>3. CASE LeaveWriter(t, failing)
    <2> DEFINE g == [Top(t) EXCEPT !.failed = failing]
               w == Ending(failing)
    <2>1. /\ Top(t).kind \in WriterKinds /\ stack' = WithTop(t, g)
          /\ queue' = Sent(Writer, w, Top(t).name, t) /\ at' = [at EXCEPT ![t] = w]
          /\ currentWriter' = IF Top(t).kind = "top" THEN NoTask ELSE currentWriter
          /\ UNCHANGED <<pool, inUse>>
      BY <1>3 DEF LeaveWriter, SavepointName, WriterKinds
    <2>2. g \in Frames /\ SameManager(g, Top(t)) /\ g.failed = failing
      BY <1>1 DEF Frames, SameManager
    <2> HIDE DEF g
    <2>3. w = IF failing THEN "ROLLBACK_TO" ELSE "RELEASE"
      BY DEF Ending
    <2> HIDE DEF w
    <2>4. [op |-> w, arg |-> Top(t).name, task |-> t] \in Statements /\ Writer \in Conns
      BY <1>1, <2>3 DEF Statements, Frames, Conns
    <2>5. QueueInv' /\ queue' \in [Conns -> Seq(Statements)]
      BY <1>1, <2>1, <2>3, <2>4, QueueSent, SentFacts
    <2>6. at'[t] = w /\ at' \in [Tasks -> AtValues] /\ \A u \in Tasks : u # t => at'[u] = at[u]
      BY <1>1, <2>1, <2>3 DEF TypeOK, AtValues
    <2>7. g.kind = Top(t).kind /\ NoTask # t
      BY <2>2, DBAssumption DEF SameManager
    <2>8. Core'
      BY <1>2, <2>1, <2>2, <2>3, <2>5, <2>6, <2>7, CoreTop
    <2>9. stack' \in [Tasks -> Seq(Frames)]
      BY <1>1, <2>1, <2>2, WithTopFacts
    <2>10. TypeOK'
      BY <1>1, <1>2, <2>1, <2>5, <2>6, <2>9 DEF TypeOK, dbFile, Typed, AtValues
    <2> QED
      BY <2>8, <2>10 DEF Base
  <1>4. CASE LeaveReader(t) /\ Top(t).begins
    <2>1. /\ queue' = Sent(Top(t).conn, "ROLLBACK", 0, t) /\ at' = [at EXCEPT ![t] = "ROLLBACK"]
          /\ UNCHANGED <<stack, currentWriter, pool, inUse>>
      BY <1>4 DEF LeaveReader
    <2>2. [op |-> "ROLLBACK", arg |-> 0, task |-> t] \in Statements
      BY DEF Statements
    <2>3. Top(t).conn \in Conns /\ Top(t).conn # Writer
      BY <1>1, <1>4, StackFacts DEF Frames, Core, Shape, ShapeOf
    <2>4. QueueInv' /\ queue' \in [Conns -> Seq(Statements)]
      BY <1>1, <2>1, <2>2, <2>3, QueueSent, SentFacts
    <2>5. at'[t] = "ROLLBACK" /\ at' \in [Tasks -> AtValues] /\ \A u \in Tasks : u # t => at'[u] = at[u]
      BY <1>1, <2>1 DEF TypeOK, AtValues
    <2>6. SameManager(Top(t), Top(t))
      BY DEF SameManager
    <2>7. Core'
      BY <1>1, <1>2, <1>4, <2>1, <2>4, <2>5, <2>6, CoreTop
    <2>8. TypeOK'
      BY <1>1, <1>2, <2>1, <2>4, <2>5 DEF TypeOK, dbFile, Typed, AtValues
    <2> QED
      BY <2>7, <2>8 DEF Base
  <1>5. CASE LeaveReader(t) /\ ~ Top(t).begins
    <2>1. Top(t).kind # "top" /\ EndReader(t) /\ UNCHANGED <<queue, currentWriter>>
      BY <1>5 DEF LeaveReader
    <2> QED
      BY <1>2, <2>1, BaseEndReader
  <1> QED
    BY <1>1, <1>3, <1>4, <1>5 DEF LeaveBody, Frames

LEMMA BaseRolledBack ==
    ASSUME Base, NEW t \in Tasks, RolledBack(t), Typed
    PROVE  Base'
  <1>1. /\ at[t] = "ROLLBACK_TO" /\ queue' = Sent(Writer, "RELEASE", Top(t).name, t)
        /\ at' = [at EXCEPT ![t] = "RELEASE"] /\ UNCHANGED <<dbFile, access, nextName, stack>>
        /\ TypeOK /\ Core /\ QueueInv
    BY DEF RolledBack, Base, Core
  <1>2. stack[t] # <<>> /\ Top(t) \in Frames
    <2>1. stack[t] # <<>>
      BY <1>1 DEF Core, Shape, ShapeOf
    <2> QED
      BY <1>1, <2>1, StackFacts
  <1>3. [op |-> "RELEASE", arg |-> Top(t).name, task |-> t] \in Statements /\ Writer \in Conns
    BY <1>2 DEF Statements, Frames, Conns
  <1>4. QueueInv' /\ queue' \in [Conns -> Seq(Statements)]
    BY <1>1, <1>3, QueueSent, SentFacts
  <1>5. Core'
    BY <1>1, <1>4, CoreAwait DEF access
  <1>6. TypeOK'
    BY <1>1, <1>4 DEF TypeOK, dbFile, access, Typed
  <1> QED
    BY <1>5, <1>6 DEF Base

(* A context of reader that awaits BEGIN or ROLLBACK.                      *)
LEMMA BeginsIsReader ==
    ASSUME Base, NEW t \in Tasks, at[t] \in {"BEGIN", "ROLLBACK", "error"}
    PROVE  /\ stack[t] # <<>> /\ Top(t) \in Frames /\ Top(t).begins
           /\ Top(t).kind = "reader" /\ Top(t).conn \in Readers
  <1>1. stack[t] # <<>> /\ Top(t).begins
    BY DEF Base, Core, Shape, ShapeOf
  <1>2. Len(stack[t]) \in DOMAIN stack[t] /\ Top(t) = stack[t][Len(stack[t])] /\ Top(t) \in Frames
    BY <1>1, StackFacts DEF Base
  <1> QED
    BY <1>1, <1>2 DEF Base, Core, Shape, ShapeOf, Frames, Conns

LEMMA BaseCancel ==
    ASSUME Base, NEW t \in Tasks, Cancel(t)
    PROVE  Base'
  <1>1. /\ TypeOK /\ Core /\ QueueInv /\ PoolInv /\ opens' \in Nat /\ statements' \in Nat
        /\ cancels' \in Nat
    <2>1. TypeOK /\ Core /\ QueueInv /\ PoolInv
      BY DEF Base, Core
    <2>2. cancels' = cancels + 1 /\ opens' = opens /\ statements' = statements
      BY DEF Cancel
    <2>3. opens \in Nat /\ statements \in Nat /\ cancels \in Nat
      BY <2>1 DEF TypeOK
    <2> QED
      BY <2>1, <2>2, <2>3
  <1>2. CASE /\ at[t] = "lock"
             /\ \E i \in DOMAIN lockWaiters :
                   lockWaiters[i] = t /\ lockWaiters' = RemoveAt(lockWaiters, i)
             /\ at' = [at EXCEPT ![t] = "body"]
             /\ UNCHANGED <<dbFile, queue, lock, currentWriter, pool, poolWaiters, inUse, nextName, stack, history>>
    <2>1. lockWaiters' \in Seq(Tasks)
      BY <1>1, <1>2, RemoveAtType DEF TypeOK
    <2>2. QueueInv'
      BY <1>1, <1>2 DEF QueueInv
    <2>3. Core'
      BY <1>2, <2>2, CoreAwait
    <2>4. TypeOK'
      BY <1>1, <1>2, <2>1 DEF TypeOK, dbFile, history
    <2> QED
      BY <2>3, <2>4 DEF Base
  <1>3. CASE /\ at[t] = "pool"
             /\ \E i \in DOMAIN poolWaiters :
                   poolWaiters[i].task = t /\ poolWaiters' = RemoveAt(poolWaiters, i)
             /\ at' = [at EXCEPT ![t] = "body"]
             /\ UNCHANGED <<dbFile, queue, lock, lockWaiters, currentWriter, pool, inUse, nextName, stack, history>>
    <2>1. poolWaiters' \in Seq([task : Tasks, kind : {"reader", "plain"}])
      BY <1>1, <1>3, RemoveAtType DEF TypeOK
    <2>2. QueueInv'
      BY <1>1, <1>3 DEF QueueInv
    <2>3. Core'
      BY <1>3, <2>2, CoreAwait
    <2>4. TypeOK'
      BY <1>1, <1>3, <2>1 DEF TypeOK, dbFile, history
    <2> QED
      BY <2>3, <2>4 DEF Base
  <1>4. CASE at[t] = "statement" /\ LeaveBody(t, TRUE) /\ UNCHANGED history
    <2>1. stack[t] # <<>> /\ Typed
      BY <1>1, <1>4 DEF Core, Shape, ShapeOf, Typed, history, TypeOK
    <2> QED
      BY <1>4, <2>1, BaseLeaveBody
  <1>5. CASE /\ at[t] = "SAVEPOINT" /\ EndWriter(t)
             /\ leaked' = IF Top(t).kind = "top" THEN leaked \cup {Writer} ELSE leaked
             /\ UNCHANGED <<dbFile, queue, lockWaiters, currentWriter, pool, poolWaiters, inUse, nextName, kept>>
    <2>1. leaked' \in SUBSET Conns /\ kept' \in SUBSET Rows
      BY <1>1, <1>5 DEF TypeOK, Conns
    <2> QED
      BY <1>1, <1>5, <2>1, BaseEndWriter
  <1>6. CASE /\ at[t] \in {"BEGIN", "ROLLBACK"} /\ EndReader(t)
             /\ leaked' = leaked \cup {Top(t).conn}
             /\ UNCHANGED <<dbFile, queue, lock, lockWaiters, currentWriter, poolWaiters, nextName, kept, undone>>
    <2>1. stack[t] # <<>> /\ Top(t).kind # "top" /\ Top(t).conn \in Readers
      BY <1>6, BeginsIsReader
    <2>2. Typed
      BY <1>1, <1>6, <2>1 DEF Typed, TypeOK, Conns
    <2> QED
      BY <1>6, <2>1, <2>2, BaseEndReader
  <1>7. CASE RolledBack(t) /\ UNCHANGED history
    <2>1. Typed
      BY <1>1, <1>7 DEF Typed, TypeOK, history
    <2> QED
      BY <1>7, <2>1, BaseRolledBack
  <1>8. CASE /\ at[t] = "RELEASE" /\ EndWriter(t)
             /\ UNCHANGED <<dbFile, queue, lockWaiters, currentWriter, pool, poolWaiters, inUse, nextName, kept, leaked>>
    <2>1. leaked' \in SUBSET Conns /\ kept' \in SUBSET Rows
      BY <1>1, <1>8 DEF TypeOK
    <2> QED
      BY <1>1, <1>8, <2>1, BaseEndWriter
  <1> QED
    BY <1>2, <1>3, <1>4, <1>5, <1>6, <1>7, <1>8 DEF Cancel

(* What the writing connection does with a statement.                      *)
WriterOps == {"SAVEPOINT", "write", "ROLLBACK_TO", "RELEASE"}

LEMMA BelowFacts ==
    ASSUME NEW S \in Seq(Savepoints), NEW name
    PROVE  /\ BelowIn(S, name) \in Nat /\ BelowIn(S, name) <= Len(S)
           /\ BelowIn(S, name) < Len(S) => BelowIn(S, name) + 1 \in DOMAIN S
                                           /\ S[BelowIn(S, name) + 1].name = name
           /\ (\E i \in DOMAIN S : S[i].name = name) => BelowIn(S, name) < Len(S)
  <1>1. CASE \E i \in DOMAIN S : S[i].name = name
    <2> DEFINE c == CHOOSE i \in DOMAIN S : S[i].name = name
    <2>1. c \in DOMAIN S /\ S[c].name = name
      BY <1>1
    <2>2. BelowIn(S, name) = c - 1
      BY <1>1 DEF BelowIn
    <2> HIDE DEF c
    <2>3. c \in 1 .. Len(S) /\ Len(S) \in Nat /\ (c - 1) + 1 = c
      BY <2>1
    <2> QED
      BY <2>1, <2>2, <2>3
  <1>2. CASE ~ \E i \in DOMAIN S : S[i].name = name
    BY <1>2 DEF BelowIn
  <1> QED
    BY <1>1, <1>2

(* The four statements, each in its own words.                             *)
LEMMA ExecCases ==
    ASSUME NEW x \in States, NEW s \in Statements, s.op \in WriterOps, NEW S, S = x.savepoints,
           NEW below, below = BelowIn(S, s.arg), NEW y, y = Exec(x, s)
    PROVE  /\ s.op = "SAVEPOINT" =>
                 LET now == IF S = <<>> THEN x.committed ELSE x.data
                 IN y.committed = x.committed /\ y.data = now
                    /\ y.savepoints = Append(S, [name |-> s.arg, rows |-> now])
           /\ s.op = "write" =>
                 y.committed = x.committed /\ y.data = x.data \cup {s.arg} /\ y.savepoints = S
           /\ s.op = "ROLLBACK_TO" =>
                 /\ y.committed = x.committed
                 /\ IF below < Len(S)
                    THEN y.data = S[below + 1].rows /\ y.savepoints = SubSeq(S, 1, below + 1)
                    ELSE y.data = x.data /\ y.savepoints = S
           /\ s.op = "RELEASE" =>
                 /\ y.data = x.data /\ y.savepoints = SubSeq(S, 1, below)
                 /\ y.committed = IF below = 0 /\ S # <<>> THEN x.data ELSE x.committed
  <1>1. CASE s.op = "SAVEPOINT"
    BY <1>1 DEF Exec, States
  <1>2. CASE s.op = "write"
    BY <1>2 DEF Exec, States
  <1>3. CASE s.op = "ROLLBACK_TO"
    BY <1>3 DEF Exec, States
  <1>4. CASE s.op = "RELEASE"
    BY <1>4 DEF Exec, States
  <1> QED
    BY <1>1, <1>2, <1>3, <1>4 DEF WriterOps

LEMMA ExecType ==
    ASSUME NEW x \in States, NEW s \in Statements, s.op \in WriterOps, s.op = "write" => s.arg # 0
    PROVE  Exec(x, s) \in States
  <1> DEFINE S == x.savepoints
             below == BelowIn(S, s.arg)
             now == IF S = <<>> THEN x.committed ELSE x.data
  <1>1. /\ S \in Seq(Savepoints) /\ x.committed \in SUBSET Rows /\ x.data \in SUBSET Rows
        /\ s.arg \in Nat
    BY DEF States, Statements
  <1>2. /\ below \in Nat /\ below <= Len(S) /\ Len(S) \in Nat
        /\ below < Len(S) => below + 1 \in DOMAIN S
    BY <1>1, BelowFacts
  <1> HIDE DEF below, S
  <1>3. CASE s.op = "SAVEPOINT"
    <2>1. now \in SUBSET Rows /\ [name |-> s.arg, rows |-> now] \in Savepoints
      BY <1>1 DEF Savepoints
    <2> HIDE DEF now
    <2>2. Append(S, [name |-> s.arg, rows |-> now]) \in Seq(Savepoints)
      BY <1>1, <2>1
    <2>3. Exec(x, s) = [committed |-> x.committed, data |-> now,
                        savepoints |-> Append(S, [name |-> s.arg, rows |-> now])]
      BY <1>3 DEF Exec, S, now
    <2> QED
      BY <1>1, <2>1, <2>2, <2>3 DEF States
  <1>4. CASE s.op = "write"
    BY <1>1, <1>4 DEF Exec, States, Rows
  <1>5. CASE s.op = "ROLLBACK_TO"
    <2>1. CASE below < Len(S)
      <3>1. S[below + 1] \in Savepoints /\ SubSeq(S, 1, below + 1) \in Seq(Savepoints)
        BY <1>1, <1>2, <2>1
      <3>2. Exec(x, s) = [x EXCEPT !.data = S[below + 1].rows, !.savepoints = SubSeq(S, 1, below + 1)]
        BY <1>5, <2>1 DEF Exec, S, below
      <3> QED
        BY <3>1, <3>2 DEF States, Savepoints
    <2>2. CASE ~ (below < Len(S))
      BY <1>5, <2>2 DEF Exec, S, below
    <2> QED
      BY <2>1, <2>2
  <1>6. CASE s.op = "RELEASE"
    <2>1. SubSeq(S, 1, below) \in Seq(Savepoints)
      BY <1>1, <1>2
    <2>2. Exec(x, s) = [x EXCEPT !.savepoints = SubSeq(S, 1, below),
                                 !.committed = IF below = 0 /\ S # <<>> THEN x.data ELSE @]
      BY <1>6 DEF Exec, S, below
    <2> QED
      BY <1>1, <2>1, <2>2 DEF States
  <1> QED
    BY <1>3, <1>4, <1>5, <1>6 DEF WriterOps

LEMMA RunIsExec ==
    ASSUME TypeOK, NEW s \in Statements, RunOnWriter(s)
    PROVE  /\ s.op \in WriterOps /\ Current \in States
           /\ Current' = Exec(Current, s)
  <1>1. Current \in States
    BY DEF TypeOK, Current, States, Savepoints
  <1> DEFINE below == Below(s.arg)
             now == IF savepoints = <<>> THEN committed ELSE data
  <1>2. below = BelowIn(savepoints, s.arg)
    BY DEF Below, BelowIn
  <1>3. s.op \in WriterOps
    BY DEF RunOnWriter, WriterOps
  <1>4. Current' = [committed |-> committed', data |-> data', savepoints |-> savepoints']
    BY DEF Current
  <1> SUFFICES [committed |-> committed', data |-> data', savepoints |-> savepoints']
                  = Exec(Current, s)
    BY <1>1, <1>3, <1>4
  <1>5. CASE s.op = "SAVEPOINT"
    <2>1. /\ savepoints' = Append(savepoints, [name |-> s.arg, rows |-> now])
          /\ data' = now /\ committed' = committed
      BY <1>5 DEF RunOnWriter
    <2> QED
      BY <1>5, <2>1 DEF Exec, Current
  <1>6. CASE s.op = "write"
    <2>1. data' = data \cup {s.arg} /\ savepoints' = savepoints /\ committed' = committed
      BY <1>6 DEF RunOnWriter
    <2> QED
      BY <1>6, <2>1 DEF Exec, Current
  <1>7. CASE s.op = "ROLLBACK_TO"
    <2>1. /\ data' = IF below < Len(savepoints) THEN savepoints[below + 1].rows ELSE data
          /\ savepoints' = IF below < Len(savepoints) THEN SubSeq(savepoints, 1, below + 1) ELSE savepoints
          /\ committed' = committed
      BY <1>7 DEF RunOnWriter
    <2> HIDE DEF below
    <2> QED
      BY <1>2, <1>7, <2>1 DEF Exec, Current
  <1>8. CASE s.op = "RELEASE"
    <2>1. /\ savepoints' = SubSeq(savepoints, 1, below)
          /\ committed' = IF below = 0 /\ savepoints # <<>> THEN data ELSE committed
          /\ data' = data
      BY <1>8 DEF RunOnWriter
    <2> HIDE DEF below
    <2> QED
      BY <1>2, <1>8, <2>1 DEF Exec, Current
  <1> QED
    BY <1>3, <1>5, <1>6, <1>7, <1>8 DEF WriterOps

LEMMA TailFacts ==
    ASSUME TypeOK, NEW c \in Conns, queue[c] # <<>>, queue' = [queue EXCEPT ![c] = Tail(@)]
    PROVE  /\ queue' \in [Conns -> Seq(Statements)]
           /\ \A d \in Conns : d # c => queue'[d] = queue[d]
           /\ Len(queue[c]) \in Nat /\ Len(queue[c]) > 0 /\ Len(queue'[c]) = Len(queue[c]) - 1
           /\ DOMAIN queue[c] = 1 .. Len(queue[c])
           /\ DOMAIN queue'[c] = 1 .. (Len(queue[c]) - 1)
           /\ \A i \in 1 .. (Len(queue[c]) - 1) : queue'[c][i] = queue[c][i + 1]
           /\ Head(queue[c]) = queue[c][1] /\ 1 \in DOMAIN queue[c]
           /\ Head(queue[c]) \in Statements
  <1>1. queue \in [Conns -> Seq(Statements)] /\ queue[c] \in Seq(Statements)
    BY DEF TypeOK
  <1>2. /\ Tail(queue[c]) \in Seq(Statements) /\ Len(Tail(queue[c])) = Len(queue[c]) - 1
        /\ \A i \in 1 .. Len(Tail(queue[c])) : Tail(queue[c])[i] = queue[c][i + 1]
        /\ Head(queue[c]) \in Statements
    BY <1>1, HeadTailProperties
  <1>3. queue'[c] = Tail(queue[c]) /\ \A d \in Conns : d # c => queue'[d] = queue[d]
    BY <1>1
  <1>4. queue' \in [Conns -> Seq(Statements)]
    BY <1>1, <1>2, <1>3
  <1>5. Len(queue[c]) \in Nat /\ Len(queue[c]) > 0 /\ DOMAIN queue[c] = 1 .. Len(queue[c])
        /\ Head(queue[c]) = queue[c][1]
    BY <1>1
  <1> QED
    BY <1>2, <1>3, <1>4, <1>5

LEMMA QueueRun ==
    ASSUME TypeOK, QueueInv, NEW c \in Conns, queue[c] # <<>>, queue' = [queue EXCEPT ![c] = Tail(@)]
    PROVE  QueueInv'
  <1>1. /\ \A d \in Conns : d # c => queue'[d] = queue[d]
        /\ DOMAIN queue'[c] = 1 .. (Len(queue[c]) - 1) /\ Len(queue[c]) \in Nat
        /\ DOMAIN queue[c] = 1 .. Len(queue[c])
        /\ \A i \in 1 .. (Len(queue[c]) - 1) : queue'[c][i] = queue[c][i + 1]
    BY TailFacts
  <1>2. Writer \notin Readers /\ Conns = Readers \cup {Writer}
    BY DBAssumption DEF Conns
  <1>3. \A i \in DOMAIN queue'[c] : i + 1 \in DOMAIN queue[c] /\ queue'[c][i] = queue[c][i + 1]
    BY <1>1
  <1> QED
    BY <1>1, <1>2, <1>3 DEF QueueInv

LEMMA BaseRunStatement ==
    ASSUME Base, NEW c \in Conns, RunStatement(c)
    PROVE  Base'
  <1>1. /\ TypeOK /\ Core /\ QueueInv /\ queue[c] # <<>>
        /\ queue' = [queue EXCEPT ![c] = Tail(@)]
        /\ UNCHANGED <<access, nextName, counters, history>>
    BY DEF RunStatement, Base, Core
  <1>2. /\ QueueInv' /\ queue' \in [Conns -> Seq(Statements)]
        /\ Head(queue[c]) = queue[c][1] /\ 1 \in DOMAIN queue[c] /\ Head(queue[c]) \in Statements
    BY <1>1, QueueRun, TailFacts
  <1> DEFINE s == Head(queue[c])
             t == s.task
  <1>3. CASE c = Writer /\ RunOnWriter(s) /\ UNCHANGED <<begun, snap, stack, at>>
    <2>1. s.op \in WriterOps /\ (s.op = "write" => s.arg # 0)
      BY <1>1, <1>2, <1>3 DEF QueueInv, WriterOps
    <2>2. Current' \in States
      BY <1>1, <1>2, <1>3, <2>1, RunIsExec, ExecType
    <2>3. /\ committed' \in SUBSET Rows /\ data' \in SUBSET Rows
          /\ savepoints' \in Seq([name : Nat, rows : SUBSET Rows])
      BY <2>2 DEF Current, States, Savepoints
    <2>4. TypeOK'
      BY <1>1, <1>2, <1>3, <2>3 DEF TypeOK, access, counters, history
    <2>5. PoolInv' /\ \A u \in Tasks : ShapeOf(u)' /\ HoldingOf(u)' /\ LockedOf(u)' /\ WritingOf(u)'
      BY <1>1, <1>3, OthersKeep DEF access, Core, PoolInv
    <2> QED
      BY <1>2, <2>4, <2>5 DEF Base, Core, Shape, Holding, LockInv
  <1>4. CASE c # Writer /\ RunOnReader(c, s) /\ UNCHANGED <<committed, data, savepoints>>
    <2> DEFINE reads == s.op = "SELECT" /\ at[t] = "statement" /\ Awaited(c)
               fails == s.op = "BEGIN" /\ begun[c] /\ at[t] = "BEGIN" /\ Awaited(c)
               g == [Top(t) EXCEPT !.seen = Visible(c)]
    <2>1. /\ stack' = IF reads THEN WithTop(t, g) ELSE stack
          /\ at' = IF fails THEN [at EXCEPT ![t] = "error"] ELSE at
      BY <1>4 DEF RunOnReader
    <2>2. t \in Tasks /\ c \in Readers /\ Visible(c) \in SUBSET Nat
      BY <1>1, <1>2, <1>4 DEF Statements, Conns, Visible, TypeOK, Rows
    <2>3. begun' \in [Readers -> BOOLEAN]
      <3>1. begun' = [begun EXCEPT ![c] = CASE s.op = "BEGIN" -> TRUE [] s.op = "ROLLBACK" -> FALSE [] OTHER -> @]
        BY <1>4 DEF RunOnReader
      <3> QED
        BY <1>1, <2>2, <3>1 DEF TypeOK
    <2>4. snap' \in [Readers -> SUBSET Nat]
      <3>1. snap' = [snap EXCEPT ![c] = CASE s.op = "SELECT" /\ begun[c] -> Visible(c)
                                        [] s.op = "ROLLBACK" -> NoRows
                                        [] OTHER -> @]
        BY <1>4 DEF RunOnReader
      <3>2. snap \in [Readers -> SUBSET Nat] /\ NoRows \in SUBSET Nat
        BY <1>1 DEF TypeOK, NoRows
      <3> QED
        BY <2>2, <3>1, <3>2
    <2> HIDE DEF s
    <2>5. CASE reads
      <3>1. stack[t] # <<>>
        BY <1>1, <2>2, <2>5 DEF Core, Shape, ShapeOf
      <3>2. Top(t) \in Frames /\ Top(t) = stack[t][Len(stack[t])] /\ Len(stack[t]) \in DOMAIN stack[t]
        BY <1>1, <2>2, <3>1, StackFacts
      <3>3. g \in Frames /\ SameManager(g, Top(t)) /\ g.failed = Top(t).failed
        BY <2>2, <3>2 DEF Frames, SameManager
      <3>4. ~ Top(t).failed
        BY <2>2, <2>5, <3>2, NoneFailed
      <3> HIDE DEF g, t
      <3>5. stack' = WithTop(t, g) /\ at' = at /\ at[t] = "statement"
        BY <2>1, <2>5
      <3>6. Core'
        BY <1>1, <1>2, <2>2, <3>1, <3>3, <3>4, <3>5, CoreTop DEF access
      <3>7. stack' \in [Tasks -> Seq(Frames)]
        BY <1>1, <2>2, <3>1, <3>3, <3>5, WithTopFacts
      <3>8. TypeOK'
        BY <1>1, <1>2, <1>4, <2>3, <2>4, <3>5, <3>7 DEF TypeOK, access, counters, history
      <3> QED
        BY <3>6, <3>8 DEF Base
    <2>6. CASE fails
      <3>1. stack[t] # <<>> /\ Top(t).begins /\ Top(t) \in Frames
        BY <2>2, <2>6, BeginsIsReader
      <3>2. Top(t) = stack[t][Len(stack[t])] /\ Len(stack[t]) \in DOMAIN stack[t]
        BY <1>1, <2>2, <3>1, StackFacts
      <3>3. ~ Top(t).failed
        BY <2>2, <2>6, <3>2, NoneFailed
      <3> HIDE DEF t
      <3>4. stack' = stack /\ at' = [at EXCEPT ![t] = "error"]
        BY <2>1, <2>6
      <3>5. at'[t] = "error" /\ at' \in [Tasks -> AtValues] /\ \A u \in Tasks : u # t => at'[u] = at[u]
        BY <1>1, <2>2, <3>4 DEF TypeOK, AtValues
      <3>6. SameManager(Top(t), Top(t))
        BY DEF SameManager
      <3>7. Core'
        BY <1>1, <1>2, <2>2, <3>1, <3>3, <3>4, <3>5, <3>6, CoreTop DEF access
      <3>8. TypeOK'
        BY <1>1, <1>2, <1>4, <2>3, <2>4, <3>4, <3>5 DEF TypeOK, access, counters, history, AtValues
      <3> QED
        BY <3>7, <3>8 DEF Base
    <2>7. CASE ~ reads /\ ~ fails
      <3>1. UNCHANGED <<stack, at>>
        BY <2>1, <2>7
      <3>2. TypeOK'
        BY <1>1, <1>2, <1>4, <2>3, <2>4, <3>1 DEF TypeOK, access, counters, history
      <3>3. PoolInv' /\ \A u \in Tasks : ShapeOf(u)' /\ HoldingOf(u)' /\ LockedOf(u)' /\ WritingOf(u)'
        BY <1>1, <3>1, OthersKeep DEF access, Core, PoolInv
      <3> QED
        BY <1>2, <3>2, <3>3 DEF Base, Core, Shape, Holding, LockInv
    <2> QED
      BY <2>5, <2>6, <2>7
  <1> QED
    BY <1>3, <1>4 DEF RunStatement

LEMMA BaseStep ==
    ASSUME Base, [Next]_vars
    PROVE  Base'
  <1>1. TypeOK /\ Core
    BY DEF Base
  <1>2. CASE UNCHANGED vars
    <2>1. UNCHANGED <<dbFile, queue, access, nextName, stack, at, counters, history>>
      BY <1>2 DEF vars
    <2>2. TypeOK' /\ PoolInv' /\ QueueInv'
      BY <1>1, <2>1 DEF TypeOK, Core, PoolInv, QueueInv, dbFile, access, counters, history
    <2>3. \A u \in Tasks : ShapeOf(u)' /\ HoldingOf(u)' /\ LockedOf(u)' /\ WritingOf(u)'
      BY <1>1, <2>1, OthersKeep DEF access
    <2> QED
      BY <2>2, <2>3 DEF Base, Core, Shape, Holding, LockInv
  <1>3. CASE \E c \in Conns : RunStatement(c)
    BY <1>3, BaseRunStatement
  <1>4. ASSUME NEW t \in Tasks, NEW maybe \in BOOLEAN, OpenWriter(t, maybe) PROVE Base'
    BY <1>4, BaseOpenWriter
  <1>5. ASSUME NEW t \in Tasks, NEW kind \in {"reader", "plain"}, OpenReader(t, kind) PROVE Base'
    BY <1>5, BaseOpenReader
  <1>6. ASSUME NEW t \in Tasks, Write(t) \/ Select(t) PROVE Base'
    BY <1>6, BaseWrite, BaseSelect
  <1>7. ASSUME NEW t \in Tasks, Cancel(t) PROVE Base'
    BY <1>7, BaseCancel
  <1>8. ASSUME NEW t \in Tasks, Step(t) PROVE Base'
    <2>1. CASE TakeLock(t) \/ EnterWriter(t) \/ TakeConnection(t) \/ EnterReader(t) \/ Continue(t)
      BY <2>1, BaseTakeLock, BaseTakeConnection, BaseGoOn
    <2>2. CASE \E failing \in BOOLEAN : Leave(t, failing)
      <3>1. PICK failing \in BOOLEAN : Leave(t, failing)
        BY <2>2
      <3>2. at[t] = "body" /\ stack[t] # <<>> /\ LeaveBody(t, failing) /\ UNCHANGED <<counters, history>>
        BY <3>1 DEF Leave
      <3>3. Typed
        BY <1>1, <3>2 DEF Typed, TypeOK, counters, history
      <3> QED
        BY <3>2, <3>3, BaseLeaveBody
    <2>3. CASE BeginFails(t) \/ ReaderEnds(t)
      <3>1. /\ at[t] \in {"error", "ROLLBACK"} /\ EndReader(t) /\ UNCHANGED <<counters, history>>
            /\ UNCHANGED <<dbFile, queue, lock, lockWaiters, currentWriter, poolWaiters, nextName>>
        BY <2>3 DEF BeginFails, ReaderEnds
      <3>2. Typed
        BY <1>1, <3>1 DEF Typed, TypeOK, counters, history
      <3>3. stack[t] # <<>> /\ Top(t).kind # "top"
        BY <3>1, BeginsIsReader
      <3> QED
        BY <3>1, <3>2, <3>3, BaseEndReader
    <2>4. CASE Finally(t)
      <3>1. RolledBack(t) /\ UNCHANGED <<counters, history>>
        BY <2>4 DEF Finally
      <3>2. Typed
        BY <1>1, <3>1 DEF Typed, TypeOK, counters, history
      <3> QED
        BY <3>1, <3>2, BaseRolledBack
    <2>5. CASE Released(t)
      <3>1. /\ at[t] = "RELEASE" /\ EndWriter(t)
            /\ kept' = IF Top(t).kind = "top" /\ ~ Top(t).failed THEN kept \cup Top(t).wrote ELSE kept
            /\ UNCHANGED <<dbFile, queue, lockWaiters, currentWriter, pool, poolWaiters, inUse, nextName>>
            /\ UNCHANGED <<counters, leaked>>
        BY <2>5 DEF Released
      <3>2. stack[t] # <<>>
        BY <1>1, <3>1 DEF Core, Shape, ShapeOf
      <3>3. Top(t) \in Frames
        BY <1>1, <3>2, StackFacts
      <3>4. /\ kept' \in SUBSET Rows /\ leaked' \in SUBSET Conns
            /\ opens' \in Nat /\ statements' \in Nat /\ cancels' \in Nat
        BY <1>1, <3>1, <3>3 DEF TypeOK, Frames, counters
      <3> QED
        BY <3>1, <3>4, BaseEndWriter
    <2> QED
      BY <1>8, <2>1, <2>2, <2>3, <2>4, <2>5 DEF Step
  <1> QED
    BY <1>2, <1>3, <1>4, <1>5, <1>6, <1>7, <1>8 DEF Next

(* In every reachable state the contexts of every task are consistent with *)
(* what it awaits, with the lock and with the connections in use.          *)
THEOREM BaseInvariance == Spec => []Base
  <1>1. Init => Base
    BY BaseInit
  <1>2. Base /\ [Next]_vars => Base'
    BY BaseStep
  <1> QED
    BY <1>1, <1>2, PTL DEF Spec

(* DBWrapper2 loses no read connection and hands none out twice: whatever  *)
(* ends a reader, an exception, a failed BEGIN or a cancellation at any    *)
(* await, each connection is in _read_connections once or in _in_use once. *)
THEOREM NoConnectionLost == Spec => []PoolConserved
  <1>1. Base => PoolConserved
    <2> SUFFICES ASSUME Base, NEW r \in Readers
                 PROVE  Cardinality({i \in DOMAIN pool : pool[i] = r})
                          + Cardinality({t \in Tasks : inUse[t] = r}) = 1
      BY DEF PoolConserved
    <2> DEFINE A == {i \in DOMAIN pool : pool[i] = r}
               B == {t \in Tasks : inUse[t] = r}
    <2>1. PoolInv /\ r # Writer
      BY DBAssumption DEF Base, Core
    <2>2. Cardinality({}) = 0 /\ \A x : Cardinality({x}) = 1
      BY FS_EmptySet, FS_Singleton
    <2>3. CASE \E i \in DOMAIN pool : pool[i] = r
      <3>1. PICK i \in DOMAIN pool : pool[i] = r
        BY <2>3
      <3>2. A = {i}
        BY <2>1, <3>1 DEF PoolInv
      <3>3. B = {}
        BY <2>1, <3>1 DEF PoolInv
      <3>4. Cardinality(A) = 1 /\ Cardinality(B) = 0
        BY <2>2, <3>2, <3>3
      <3> QED
        BY <3>4
    <2>4. CASE ~ \E i \in DOMAIN pool : pool[i] = r
      <3>1. A = {}
        BY <2>4
      <3>2. PICK t \in Tasks : inUse[t] = r
        BY <2>1, <2>4 DEF PoolInv
      <3>3. B = {t}
        BY <2>1, <3>2 DEF PoolInv
      <3>4. Cardinality(A) = 0 /\ Cardinality(B) = 1
        BY <2>2, <3>1, <3>3
      <3> QED
        BY <3>4
    <2> QED
      BY <2>3, <2>4
  <1> QED
    BY <1>1, BaseInvariance, PTL

------------------------------------------------------------------------------
(* Steps that send the writing connection nothing.                         *)

(* Of the database, of what is sent to it and of the history nothing       *)
(* changes.                                                                *)
WriterRests ==
    /\ UNCHANGED <<committed, data, savepoints, nextName>>
    /\ queue'[Writer] = queue[Writer]
    /\ statements' \in Nat /\ statements <= statements'

(* Contexts g and h are the same to the writing connection.                *)
SameWrites(g, h) == g.kind = h.kind /\ g.name = h.name /\ g.wrote = h.wrote /\ g.failed = h.failed

LEMMA GrowRange ==
    ASSUME NEW m \in Nat, NEW n \in Nat, m <= n, NEW c, c \subseteq 1 .. m
    PROVE  c \subseteq 1 .. n
  <1>1. 1 .. m \subseteq 1 .. n
    OBVIOUS
  <1> QED
    BY <1>1

LEMMA RestingTrace ==
    ASSUME WriterRests, NEW tr, NEW x, IsTrace(tr, x)
    PROVE  IsTrace(tr, x)' /\ Pending' = Pending
  BY DEF IsTrace, WriterRests, Pending, Current

LEMMA RestingRows ==
    ASSUME Base, WriterRests, NEW x \in States, RowsOK(x), undone' = undone
    PROVE  RowsOK(x)'
  <1>1. statements \in Nat
    BY DEF Base, TypeOK
  <1>2. \A c : c \subseteq 1 .. statements => c \subseteq 1 .. statements'
    BY <1>1, GrowRange DEF WriterRests
  <1> QED
    BY <1>2 DEF RowsOK, SavepointOK, WriterRests

LEMMA PendingType ==
    ASSUME Base
    PROVE  /\ Pending \in Nat /\ statements \in Nat /\ nextName \in Nat
           /\ Writer \in Conns /\ queue[Writer] \in Seq(Statements)
           /\ DOMAIN queue[Writer] = 1 .. Pending
  <1>1. queue[Writer] \in Seq(Statements) /\ statements \in Nat /\ nextName \in Nat /\ Writer \in Conns
    BY DEF Base, TypeOK, Conns
  <1> QED
    BY <1>1 DEF Pending

LEMMA WriterKeeps ==
    ASSUME Base, WriterRests, NEW tr \in [Nat -> States], NEW x \in States, WriterInvOf(tr, x),
           UNCHANGED <<undone, kept, lock>>, Writer \in leaked' <=> Writer \in leaked,
           \A t \in Tasks :
              /\ Len(stack'[t]) = Len(stack[t]) /\ DOMAIN stack'[t] = DOMAIN stack[t]
              /\ \A k \in DOMAIN stack[t] : SameWrites(stack'[t][k], stack[t][k])
              /\ at'[t] = "RELEASE" <=> at[t] = "RELEASE"
    PROVE  WriterInvOf(tr, x)'
  <1>1. /\ IsTrace(tr, x)' /\ Pending' = Pending /\ Pending \in Nat
        /\ statements \in Nat /\ statements' \in Nat /\ statements <= statements'
    BY RestingTrace, PendingType DEF WriterInvOf, WriterRests
  <1>2. \A c : c \subseteq 1 .. statements => c \subseteq 1 .. statements'
    BY <1>1, GrowRange
  <1>3. \A t \in Tasks : \A k \in DOMAIN stack[t] : Gone(t, k)' <=> Gone(t, k)
    BY DEF Gone
  <1>4. ASSUME NEW c, CommitOK(c) PROVE CommitOK(c)'
    BY <1>2, <1>3, <1>4 DEF CommitOK, SameWrites
  <1>5. CommitsOK(tr)'
    BY <1>1, <1>4 DEF CommitsOK, WriterInvOf
  <1>6. ASSUME FramesOK(x) PROVE FramesOK(x)'
    <2> SUFFICES ASSUME NEW t \in Tasks, NEW k \in DOMAIN stack'[t] PROVE FrameOK(x, t, k)'
      BY DEF FramesOK
    <2>1. k \in DOMAIN stack[t] /\ FrameOK(x, t, k) /\ SameWrites(stack'[t][k], stack[t][k])
      BY <1>6 DEF FramesOK
    <2>2. ASSUME WriterFrameOK(x, t, k) PROVE WriterFrameOK(x, t, k)'
      <3>1. Gone(t, k)' <=> Gone(t, k)
        BY <1>3, <2>1
      <3> QED
        BY <2>1, <2>2, <3>1 DEF WriterFrameOK, SameWrites, WriterRests
    <2> QED
      BY <1>2, <2>1, <2>2 DEF FrameOK, SameWrites
  <1>7. ASSUME OutermostOK(x) PROVE OutermostOK(x)'
    BY <1>3, <1>7 DEF OutermostOK, SameWrites
  <1>8. LastOK(x)'
    <2>1. LastOK(x)
      BY DEF WriterInvOf
    <2>2. RowsOK(x)'
      BY <2>1, RestingRows DEF LastOK
    <2> QED
      BY <1>4, <1>6, <1>7, <2>1, <2>2 DEF LastOK
  <1>9. KeptOK(tr)'
    <2>1. KeptOK(tr) /\ queue'[Writer] = queue[Writer] /\ committed' = committed
      BY DEF WriterInvOf, WriterRests
    <2>2. ASSUME ReleasedOK(tr) PROVE ReleasedOK(tr)'
      BY <1>1, <1>3, <2>1, <2>2 DEF ReleasedOK, SameWrites
    <2> QED
      BY <2>1, <2>2 DEF KeptOK
  <1>10. HistoryOK'
    BY <1>2 DEF WriterInvOf, HistoryOK
  <1> QED
    BY <1>1, <1>5, <1>8, <1>9, <1>10 DEF WriterInvOf

(* A context that writes through no savepoint of its own is entered.       *)
LEMMA WriterPush ==
    ASSUME Base, WriterRests, NEW tr \in [Nat -> States], NEW x \in States, WriterInvOf(tr, x),
           UNCHANGED <<undone, kept, lock>>, leaked' = leaked,
           NEW t \in Tasks, NEW f \in Frames, Push(t, f),
           f.kind \notin {"top", "nested"}, f.wrote = {}, f.failed = FALSE,
           at[t] # "RELEASE", at'[t] # "RELEASE",
           \A u \in Tasks : u # t => at'[u] = at[u]
    PROVE  WriterInvOf(tr, x)'
  <1> DEFINE n == Len(stack[t])
  <1>1. /\ IsTrace(tr, x)' /\ Pending' = Pending /\ Pending \in Nat
        /\ statements \in Nat /\ statements' \in Nat /\ statements <= statements'
    BY RestingTrace, PendingType DEF WriterInvOf, WriterRests
  <1>2. \A c : c \subseteq 1 .. statements => c \subseteq 1 .. statements'
    BY <1>1, GrowRange
  <1>3. /\ \A u \in Tasks : u # t => stack'[u] = stack[u]
        /\ Len(stack'[t]) = n + 1 /\ DOMAIN stack'[t] = 1 .. (n + 1)
        /\ \A i \in 1 .. n : stack'[t][i] = stack[t][i]
        /\ stack'[t][n + 1] = f /\ n \in Nat /\ DOMAIN stack[t] = 1 .. n
    BY PushFacts, StackFacts DEF Base
  <1>4. /\ \A k \in DOMAIN stack'[t] : ~ Gone(t, k)'
        /\ \A k \in DOMAIN stack[t] : ~ Gone(t, k)
        /\ \A u \in Tasks : u # t => \A k \in DOMAIN stack[u] : Gone(u, k)' <=> Gone(u, k)
    BY <1>3 DEF Gone
  <1>5. \A k \in DOMAIN stack'[t] : k = n + 1 \/ (k \in DOMAIN stack[t] /\ stack'[t][k] = stack[t][k])
    BY <1>3
  <1>6. ASSUME NEW c, CommitOK(c) PROVE CommitOK(c)'
    <2>1. ASSUME NEW u \in Tasks, NEW k \in DOMAIN stack'[u]
          PROVE  \/ Gone(u, k)' /\ stack'[u][k].kind = "top" /\ ~ stack'[u][k].failed
                 \/ stack'[u][k].wrote \cap c = {}
      <3>1. CASE u # t
        BY <1>3, <1>4, <1>6, <3>1 DEF CommitOK
      <3>2. CASE u = t /\ k = n + 1
        BY <1>3, <3>2
      <3>3. CASE u = t /\ k \in DOMAIN stack[t] /\ stack'[t][k] = stack[t][k]
        BY <1>4, <1>6, <3>3 DEF CommitOK
      <3> QED
        BY <1>5, <3>1, <3>2, <3>3
    <2> QED
      BY <1>2, <1>6, <2>1 DEF CommitOK
  <1>7. CommitsOK(tr)'
    BY <1>1, <1>6 DEF CommitsOK, WriterInvOf
  <1>8. LastOK(x) /\ FramesOK(x) /\ RowsOK(x)
    BY DEF WriterInvOf, LastOK
  <1>9. FramesOK(x)'
    <2> SUFFICES ASSUME NEW u \in Tasks, NEW k \in DOMAIN stack'[u] PROVE FrameOK(x, u, k)'
      BY DEF FramesOK
    <2>1. CASE u # t
      <3>1. FrameOK(x, u, k) /\ stack'[u] = stack[u] /\ (Gone(u, k)' <=> Gone(u, k))
        BY <1>3, <1>4, <1>8, <2>1 DEF FramesOK
      <3>2. ASSUME WriterFrameOK(x, u, k) PROVE WriterFrameOK(x, u, k)'
        BY <3>1, <3>2 DEF WriterFrameOK, WriterRests
      <3> QED
        BY <1>2, <3>1, <3>2 DEF FrameOK
    <2>2. CASE u = t /\ k = n + 1
      BY <1>3, <2>2 DEF FrameOK, WriterKinds
    <2>3. CASE u = t /\ k \in DOMAIN stack[t] /\ stack'[t][k] = stack[t][k]
      <3>1. FrameOK(x, t, k) /\ k \in 1 .. n
        BY <1>3, <1>8, <2>3 DEF FramesOK
      <3>2. ASSUME WriterFrameOK(x, t, k) PROVE WriterFrameOK(x, t, k)'
        <4> DEFINE g == stack[t][k]
                   S == x.savepoints
        <4>1. g.name < nextName /\ \E p \in DOMAIN S : S[p].name = g.name
          BY <1>4, <2>3, <3>2 DEF WriterFrameOK
        <4>2. ASSUME NEW j \in DOMAIN stack'[t]
              PROVE  /\ j > k /\ stack'[t][j].kind \in WriterKinds => g.name < stack'[t][j].name
                     /\ j < k => \A p \in DOMAIN S :
                                    S[p].name = g.name => stack'[t][j].wrote \subseteq S[p].rows
                     /\ j >= k => \A p \in DOMAIN S :
                                    S[p].name <= g.name => stack'[t][j].wrote \cap S[p].rows = {}
          <5>1. CASE j = n + 1
            BY <1>3, <3>1, <5>1 DEF WriterKinds
          <5>2. CASE j \in DOMAIN stack[t] /\ stack'[t][j] = stack[t][j]
            BY <3>2, <5>2 DEF WriterFrameOK
          <5> QED
            BY <1>5, <5>1, <5>2
        <4>3. nextName' = nextName
          BY DEF WriterRests
        <4> QED
          BY <2>3, <4>1, <4>2, <4>3 DEF WriterFrameOK
      <3>4. stack[t][k].wrote # {} => \E i \in DOMAIN stack'[t] : i <= k /\ stack'[t][i].kind = "top"
        BY <1>3, <3>1 DEF FrameOK
      <3> QED
        BY <1>2, <2>3, <3>1, <3>2, <3>4 DEF FrameOK
    <2> QED
      BY <1>5, <2>1, <2>2, <2>3
  <1>10. ASSUME OutermostOK(x) PROVE OutermostOK(x)'
    <2> SUFFICES ASSUME NEW u \in Tasks, NEW k \in DOMAIN stack'[u], stack'[u][k].kind = "top"
                 PROVE  IF Gone(u, k)' THEN x.savepoints = <<>>
                        ELSE x.savepoints # <<>> /\ x.savepoints[1].name = stack'[u][k].name
      BY <1>10 DEF OutermostOK
    <2>1. CASE u # t
      BY <1>3, <1>4, <1>10, <2>1 DEF OutermostOK
    <2>2. CASE u = t
      <3>1. k \in DOMAIN stack[t] /\ stack'[t][k] = stack[t][k]
        BY <1>3, <1>5, <2>2
      <3> QED
        BY <1>4, <1>10, <2>2, <3>1 DEF OutermostOK
    <2> QED
      BY <2>1, <2>2
  <1>11. LastOK(x)'
    BY <1>6, <1>8, <1>9, <1>10, RestingRows DEF LastOK
  <1>12. KeptOK(tr)'
    <2>1. KeptOK(tr) /\ queue'[Writer] = queue[Writer] /\ committed' = committed
      BY DEF WriterInvOf, WriterRests
    <2>2. ASSUME ReleasedOK(tr) PROVE ReleasedOK(tr)'
      <3> SUFFICES ASSUME NEW u \in Tasks, NEW k \in DOMAIN stack'[u],
                          stack'[u][k].kind = "top" /\ Gone(u, k)' /\ ~ stack'[u][k].failed,
                          NEW i \in 1 .. (Pending + 1),
                          \A j \in i .. Pending : queue[Writer][j].task # u
                   PROVE  stack'[u][k].wrote \subseteq tr[i].committed
        BY <1>1, <2>1 DEF ReleasedOK
      <3>1. u # t
        BY <1>4
      <3> QED
        BY <1>3, <1>4, <2>2, <3>1 DEF ReleasedOK
    <2> QED
      BY <2>1, <2>2 DEF KeptOK
  <1>13. HistoryOK'
    BY <1>2 DEF WriterInvOf, HistoryOK
  <1> QED
    BY <1>1, <1>7, <1>11, <1>12, <1>13 DEF WriterInvOf

(* A context ends: what it wrote is its parent's, or undone, or kept.      *)
LEMMA WriterPop ==
    ASSUME Base, NEW tr \in [Nat -> States], NEW x \in States, WriterInvOf(tr, x),
           NEW t \in Tasks, stack[t] # <<>>, stack' = Popped(t),
           at' = [at EXCEPT ![t] = "body"],
           UNCHANGED <<committed, data, savepoints, nextName, statements>>,
           queue'[Writer] = queue[Writer],
           undone' = IF Top(t).failed THEN undone \cup Top(t).wrote ELSE undone,
           Writer \notin leaked' =>
              /\ Writer \notin leaked
              /\ lock' = IF Top(t).kind = "top" THEN NoTask ELSE lock
              /\ Top(t).kind = "top" => at[t] = "RELEASE",
           \/ kept' = kept
           \/ /\ kept' = kept \cup Top(t).wrote
              /\ Top(t).kind = "top" /\ ~ Top(t).failed /\ at[t] = "RELEASE"
              /\ \A j \in 1 .. Pending : queue[Writer][j].task # t
    PROVE  WriterInvOf(tr, x)'
  <1> DEFINE n == Len(stack[t])
  <1>0. statements \in Nat /\ Pending \in Nat
    BY PendingType
  <1>1. IsTrace(tr, x)' /\ Pending' = Pending
    <2>1. WriterRests
      BY <1>0 DEF WriterRests
    <2> QED
      BY <2>1, RestingTrace DEF WriterInvOf
  <1>2. /\ n \in Nat /\ n > 0 /\ DOMAIN stack[t] = 1 .. n /\ n \in DOMAIN stack[t]
        /\ Top(t) = stack[t][n] /\ Top(t) \in Frames
    BY StackFacts DEF Base
  <1>3. /\ \A u \in Tasks : u # t => stack'[u] = stack[u]
        /\ Len(stack'[t]) = n - 1 /\ DOMAIN stack'[t] = 1 .. (n - 1)
        /\ \A i \in 1 .. (n - 1) : KeepsAllBut(stack'[t][i], stack[t][i])
        /\ \A i \in 1 .. (n - 1) :
              stack'[t][i].wrote = IF i = n - 1 /\ Top(t).kind # "top" /\ ~ Top(t).failed
                                   THEN stack[t][i].wrote \cup Top(t).wrote
                                   ELSE stack[t][i].wrote
    BY PopFacts DEF Base
  <1>4. at'[t] = "body" /\ \A u \in Tasks : u # t => at'[u] = at[u]
    BY DEF Base, TypeOK
  <1>5. /\ \A k \in DOMAIN stack'[t] : ~ Gone(t, k)' /\ ~ Gone(t, k) /\ k \in DOMAIN stack[t] /\ k < n
        /\ \A u \in Tasks : u # t => \A k \in DOMAIN stack[u] : Gone(u, k)' <=> Gone(u, k)
    BY <1>2, <1>3, <1>4 DEF Gone
  <1>6. LastOK(x) /\ FramesOK(x) /\ RowsOK(x) /\ CommitOK(x.committed) /\ HistoryOK
        /\ FrameOK(x, t, n)
    BY <1>2 DEF WriterInvOf, LastOK, FramesOK
  <1>7. \A k \in DOMAIN stack'[t] : ~ stack[t][k].failed /\ ~ stack'[t][k].failed
    <2> TAKE k \in DOMAIN stack'[t]
    <2>1. k \in DOMAIN stack[t] /\ k # n /\ ShapeOf(t)
      BY <1>2, <1>5 DEF Base, Core, Shape
    <2>2. stack'[t][k].failed = stack[t][k].failed
      BY <1>3 DEF KeepsAllBut
    <2> QED
      BY <2>1, <2>2 DEF ShapeOf
  <1>8. ASSUME NEW c, CommitOK(c) PROVE CommitOK(c)'
    <2>1. undone' \cap c = {}
      <3>1. Top(t).failed => Top(t).wrote \cap c = {}
        BY <1>2, <1>8 DEF CommitOK
      <3> QED
        BY <1>8, <3>1 DEF CommitOK
    <2>2. ASSUME NEW u \in Tasks, NEW k \in DOMAIN stack'[u]
          PROVE  \/ Gone(u, k)' /\ stack'[u][k].kind = "top" /\ ~ stack'[u][k].failed
                 \/ stack'[u][k].wrote \cap c = {}
      <3>1. CASE u # t
        BY <1>3, <1>5, <1>8, <3>1 DEF CommitOK
      <3>2. CASE u = t
        <4>1. stack[t][k].wrote \cap c = {}
          BY <1>5, <1>8, <3>2 DEF CommitOK
        <4>2. Top(t).kind # "top" => Top(t).wrote \cap c = {}
          BY <1>2, <1>8 DEF CommitOK
        <4> QED
          BY <1>3, <3>2, <4>1, <4>2
      <3> QED
        BY <3>1, <3>2
    <2> QED
      BY <1>8, <2>1, <2>2 DEF CommitOK
  <1>9. CommitsOK(tr)'
    BY <1>1, <1>8 DEF CommitsOK, WriterInvOf
  <1>10. RowsOK(x)'
    <2>1. undone' \cap x.data = {}
      BY <1>2, <1>6 DEF RowsOK, FrameOK
    <2>2. \A p \in DOMAIN x.savepoints : undone' \cap x.savepoints[p].rows = {}
      BY <1>2, <1>6 DEF RowsOK, FrameOK, SavepointOK
    <2> QED
      BY <1>6, <2>1, <2>2 DEF RowsOK, SavepointOK
  <1>11. FramesOK(x)'
    <2> SUFFICES ASSUME NEW u \in Tasks, NEW k \in DOMAIN stack'[u] PROVE FrameOK(x, u, k)'
      BY DEF FramesOK
    <2>1. CASE u # t
      <3>1. FrameOK(x, u, k) /\ stack'[u] = stack[u] /\ (Gone(u, k)' <=> Gone(u, k))
        BY <1>3, <1>5, <1>6, <2>1 DEF FramesOK
      <3>2. ASSUME WriterFrameOK(x, u, k) PROVE WriterFrameOK(x, u, k)'
        BY <3>1, <3>2 DEF WriterFrameOK
      <3> QED
        BY <3>1, <3>2 DEF FrameOK
    <2>2. CASE u = t
      <3> DEFINE g == stack[t][k]
                 h == stack'[t][k]
                 S == x.savepoints
      <3>1. /\ FrameOK(x, t, k) /\ k \in 1 .. (n - 1) /\ k \in DOMAIN stack[t]
            /\ KeepsAllBut(h, g)
            /\ h.wrote = IF k = n - 1 /\ Top(t).kind # "top" /\ ~ Top(t).failed
                         THEN g.wrote \cup Top(t).wrote ELSE g.wrote
        BY <1>3, <1>5, <1>6, <2>2 DEF FramesOK
      <3>2. h.wrote \subseteq 1 .. statements
        BY <1>2, <1>6, <3>1 DEF FrameOK
      <3>3. ~ g.failed /\ ~ h.failed /\ h.wrote \subseteq x.data
        BY <1>2, <1>6, <1>7, <2>2, <3>1 DEF FrameOK
      <3>4. h.wrote # {} => \E j \in DOMAIN stack'[t] : j <= k /\ stack'[t][j].kind = "top"
        <4> SUFFICES ASSUME h.wrote # {}
                     PROVE  \E j \in DOMAIN stack'[t] : j <= k /\ stack'[t][j].kind = "top"
          OBVIOUS
        <4>1. CASE g.wrote # {}
          <5>1. PICK j \in DOMAIN stack[t] : j <= k /\ stack[t][j].kind = "top"
            BY <3>1, <4>1 DEF FrameOK
          <5>2. j \in 1 .. (n - 1)
            BY <1>2, <3>1, <5>1
          <5> QED
            BY <1>3, <5>1, <5>2 DEF KeepsAllBut
        <4>2. CASE g.wrote = {}
          <5>1. k = n - 1 /\ Top(t).kind # "top" /\ Top(t).wrote # {}
            BY <3>1, <4>2
          <5>2. PICK j \in DOMAIN stack[t] : j <= n /\ stack[t][j].kind = "top"
            BY <1>2, <1>6, <5>1 DEF FrameOK
          <5>3. j # n
            BY <1>2, <5>1, <5>2
          <5>4. j \in 1 .. (n - 1)
            BY <1>2, <5>2, <5>3
          <5> QED
            BY <1>2, <1>3, <5>1, <5>2, <5>4 DEF KeepsAllBut
        <4> QED
          BY <4>1, <4>2
      <3>5. ASSUME g.kind \in WriterKinds PROVE WriterFrameOK(x, t, k)'
        <4>1. WriterFrameOK(x, t, k)
          BY <3>1, <3>5 DEF FrameOK
        <4>2. g.name < nextName /\ \E p \in DOMAIN S : S[p].name = g.name
          BY <1>5, <2>2, <4>1 DEF WriterFrameOK
        <4>3. \A p \in DOMAIN S : S[p].name <= g.name => Top(t).wrote \cap S[p].rows = {}
          BY <1>2, <3>1, <4>1 DEF WriterFrameOK
        <4>4. ASSUME NEW j \in DOMAIN stack'[t]
              PROVE  /\ j > k /\ stack'[t][j].kind \in WriterKinds => h.name < stack'[t][j].name
                     /\ j < k => \A p \in DOMAIN S :
                                    S[p].name = h.name => stack'[t][j].wrote \subseteq S[p].rows
                     /\ j >= k => \A p \in DOMAIN S :
                                    S[p].name <= h.name => stack'[t][j].wrote \cap S[p].rows = {}
          <5>1. /\ j \in DOMAIN stack[t] /\ j \in 1 .. (n - 1)
                /\ KeepsAllBut(stack'[t][j], stack[t][j]) /\ h.name = g.name
                /\ stack'[t][j].wrote = IF j = n - 1 /\ Top(t).kind # "top" /\ ~ Top(t).failed
                                        THEN stack[t][j].wrote \cup Top(t).wrote ELSE stack[t][j].wrote
            BY <1>3, <1>5, <3>1 DEF KeepsAllBut
          <5>2. j > k /\ stack'[t][j].kind \in WriterKinds => h.name < stack'[t][j].name
            BY <4>1, <5>1 DEF WriterFrameOK, KeepsAllBut
          <5>3. j < k => \A p \in DOMAIN S :
                            S[p].name = h.name => stack'[t][j].wrote \subseteq S[p].rows
            <6> SUFFICES ASSUME j < k
                         PROVE  \A p \in DOMAIN S : S[p].name = h.name => stack'[t][j].wrote \subseteq S[p].rows
              OBVIOUS
            <6>1. stack'[t][j].wrote = stack[t][j].wrote
              BY <1>2, <3>1, <5>1
            <6> QED
              BY <4>1, <5>1, <6>1 DEF WriterFrameOK
          <5>4. j >= k => \A p \in DOMAIN S :
                            S[p].name <= h.name => stack'[t][j].wrote \cap S[p].rows = {}
            <6> SUFFICES ASSUME j >= k, NEW p \in DOMAIN S, S[p].name <= h.name
                         PROVE  stack'[t][j].wrote \cap S[p].rows = {}
              OBVIOUS
            <6>1. stack[t][j].wrote \cap S[p].rows = {} /\ Top(t).wrote \cap S[p].rows = {}
              BY <4>1, <4>3, <5>1 DEF WriterFrameOK
            <6> QED
              BY <5>1, <6>1
          <5> QED
            BY <5>2, <5>3, <5>4
        <4>5. h.name = g.name
          BY <3>1 DEF KeepsAllBut
        <4> QED
          BY <4>2, <4>4, <4>5 DEF WriterFrameOK
      <3>6. h.kind = g.kind
        BY <3>1 DEF KeepsAllBut
      <3> QED
        BY <2>2, <3>2, <3>3, <3>4, <3>5, <3>6 DEF FrameOK
    <2> QED
      BY <2>1, <2>2
  <1>12. ASSUME Writer \notin leaked' PROVE OutermostOK(x)'
    <2>1. OutermostOK(x)
      BY <1>6, <1>12 DEF LastOK
    <2>2. lock' = NoTask => x.savepoints = <<>>
      BY <1>2, <1>12, <2>1 DEF OutermostOK, Gone
    <2> SUFFICES ASSUME NEW u \in Tasks, NEW k \in DOMAIN stack'[u], stack'[u][k].kind = "top"
                 PROVE  IF Gone(u, k)' THEN x.savepoints = <<>>
                        ELSE x.savepoints # <<>> /\ x.savepoints[1].name = stack'[u][k].name
      BY <2>2 DEF OutermostOK
    <2>3. CASE u # t
      BY <1>3, <1>5, <2>1, <2>3 DEF OutermostOK
    <2>4. CASE u = t
      <3>1. /\ k \in DOMAIN stack[t] /\ ~ Gone(t, k) /\ ~ Gone(t, k)'
            /\ stack'[t][k].kind = stack[t][k].kind /\ stack'[t][k].name = stack[t][k].name
        BY <1>3, <1>5, <2>4 DEF KeepsAllBut
      <3> QED
        BY <2>1, <2>4, <3>1 DEF OutermostOK
    <2> QED
      BY <2>3, <2>4
  <1>13. LastOK(x)'
    BY <1>6, <1>8, <1>10, <1>11, <1>12 DEF LastOK
  <1>14. KeptOK(tr)'
    <2> SUFFICES ASSUME Writer \notin leaked' PROVE kept' \subseteq committed /\ ReleasedOK(tr)'
      BY DEF KeptOK
    <2>1. kept \subseteq committed /\ ReleasedOK(tr) /\ committed = tr[1].committed
      BY DEF WriterInvOf, KeptOK, IsTrace, Current
    <2>2. kept' \subseteq committed
      <3>1. CASE kept' = kept
        BY <2>1, <3>1
      <3>2. CASE /\ kept' = kept \cup Top(t).wrote
                 /\ Top(t).kind = "top" /\ ~ Top(t).failed /\ at[t] = "RELEASE"
                 /\ \A j \in 1 .. Pending : queue[Writer][j].task # t
        <4>1. Gone(t, n) /\ 1 \in 1 .. (Pending + 1)
          BY <1>0, <3>2 DEF Gone
        <4>2. Top(t).wrote \subseteq tr[1].committed
          BY <1>2, <2>1, <3>2, <4>1 DEF ReleasedOK
        <4> QED
          BY <2>1, <3>2, <4>2
      <3> QED
        BY <3>1, <3>2
    <2>3. ReleasedOK(tr)'
      <3> SUFFICES ASSUME NEW u \in Tasks, NEW k \in DOMAIN stack'[u],
                          stack'[u][k].kind = "top" /\ Gone(u, k)' /\ ~ stack'[u][k].failed,
                          NEW i \in 1 .. (Pending + 1),
                          \A j \in i .. Pending : queue[Writer][j].task # u
                   PROVE  stack'[u][k].wrote \subseteq tr[i].committed
        BY <1>1 DEF ReleasedOK
      <3>1. u # t
        BY <1>5
      <3> QED
        BY <1>3, <1>5, <2>1, <3>1 DEF ReleasedOK
    <2> QED
      BY <2>2, <2>3
  <1>15. HistoryOK'
    BY <1>2, <1>6 DEF HistoryOK, FrameOK
  <1> QED
    BY <1>1, <1>9, <1>13, <1>14, <1>15 DEF WriterInvOf

(* The thread of the writing connection runs a statement: the trace is the *)
(* same, one state shorter.                                                *)
LEMMA WriterRuns ==
    ASSUME Base, NEW tr \in [Nat -> States], NEW x \in States, WriterInvOf(tr, x),
           RunStatement(Writer)
    PROVE  WriterInv'
  <1> DEFINE s == Head(queue[Writer])
             t2 == [i \in Nat |-> tr[i + 1]]
  <1>1. /\ queue[Writer] # <<>> /\ queue' = [queue EXCEPT ![Writer] = Tail(@)] /\ RunOnWriter(s)
        /\ UNCHANGED <<stack, at, access, nextName, counters, history>>
    BY DBAssumption DEF RunStatement
  <1>2. /\ Pending \in Nat /\ Pending > 0 /\ Pending' = Pending - 1
        /\ \A i \in 1 .. (Pending - 1) : queue'[Writer][i] = queue[Writer][i + 1]
        /\ s = queue[Writer][1] /\ s \in Statements /\ TypeOK
    <2>1. TypeOK /\ Writer \in Conns
      BY DEF Base, Conns
    <2> QED
      BY <1>1, <2>1, TailFacts DEF Pending
  <1> HIDE DEF s
  <1>3. /\ tr[1] = Current /\ tr[Pending + 1] = x
        /\ \A i \in 1 .. Pending : tr[i + 1] = Exec(tr[i], queue[Writer][i])
    BY DEF WriterInvOf, IsTrace
  <1>4. Current' = tr[2]
    <2>1. Current' = Exec(Current, s)
      BY <1>1, <1>2, RunIsExec
    <2>2. 1 \in 1 .. Pending /\ 1 + 1 = 2
      BY <1>2
    <2> QED
      BY <1>2, <1>3, <2>1, <2>2
  <1>5. t2 \in [Nat -> States] /\ \A i \in Nat : t2[i] = tr[i + 1]
    OBVIOUS
  <1> HIDE DEF t2
  <1>6. IsTrace(t2, x)'
    <2>1. t2[1] = Current'
      BY <1>4, <1>5
    <2>2. t2[Pending' + 1] = x
      BY <1>2, <1>3, <1>5
    <2>3. ASSUME NEW i \in 1 .. Pending' PROVE t2[i + 1] = Exec(t2[i], queue'[Writer][i])
      <3>1. i \in Nat /\ i + 1 \in Nat /\ i + 1 \in 1 .. Pending /\ i \in 1 .. (Pending - 1)
        BY <1>2
      <3>2. tr[(i + 1) + 1] = Exec(tr[i + 1], queue[Writer][i + 1])
        BY <1>3, <3>1
      <3> QED
        BY <1>2, <1>5, <3>1, <3>2
    <2> QED
      BY <2>1, <2>2, <2>3 DEF IsTrace
  <1>7. \A t \in Tasks : \A k \in DOMAIN stack[t] : Gone(t, k)' <=> Gone(t, k)
    BY <1>1 DEF Gone
  <1>8. /\ UNCHANGED <<stack, at, lock, undone, kept, leaked, statements, nextName>>
    BY <1>1 DEF access, counters, history
  <1>9. ASSUME NEW c, CommitOK(c) PROVE CommitOK(c)'
    BY <1>7, <1>8, <1>9 DEF CommitOK
  <1>10. CommitsOK(t2)'
    <2> SUFFICES ASSUME NEW i \in 1 .. (Pending' + 1)
                 PROVE  CommitOK(t2[i].committed)' /\ \A j \in 1 .. i : t2[j].committed \subseteq t2[i].committed
      BY DEF CommitsOK
    <2>1. i + 1 \in 1 .. (Pending + 1) /\ i \in Nat
      BY <1>2
    <2>2. CommitOK(t2[i].committed)'
      BY <1>5, <1>9, <2>1 DEF WriterInvOf, CommitsOK
    <2>3. ASSUME NEW j \in 1 .. i PROVE t2[j].committed \subseteq t2[i].committed
      <3>1. j + 1 \in 1 .. (i + 1) /\ j \in Nat
        BY <2>1
      <3> QED
        BY <1>5, <2>1, <3>1 DEF WriterInvOf, CommitsOK
    <2> QED
      BY <2>2, <2>3
  <1>11. LastOK(x)'
    <2>1. LastOK(x)
      BY DEF WriterInvOf
    <2>2. RowsOK(x)'
      BY <1>8, <2>1 DEF LastOK, RowsOK, SavepointOK
    <2>3. FramesOK(x)'
      BY <1>7, <1>8, <2>1 DEF LastOK, FramesOK, FrameOK, WriterFrameOK
    <2>4. Writer \notin leaked' => OutermostOK(x)'
      BY <1>7, <1>8, <2>1 DEF LastOK, OutermostOK
    <2> QED
      BY <1>9, <2>1, <2>2, <2>3, <2>4 DEF LastOK
  <1>12. KeptOK(t2)'
    <2> SUFFICES ASSUME Writer \notin leaked PROVE kept \subseteq committed' /\ ReleasedOK(t2)'
      BY <1>8 DEF KeptOK
    <2>1. kept \subseteq committed /\ ReleasedOK(tr)
      BY DEF WriterInvOf, KeptOK
    <2>2. kept \subseteq committed'
      <3>1. 2 \in 1 .. (Pending + 1) /\ 1 \in 1 .. 2
        BY <1>2
      <3>2. tr[1].committed \subseteq tr[2].committed
        BY <3>1 DEF WriterInvOf, CommitsOK
      <3>3. committed = tr[1].committed /\ committed' = tr[2].committed
        <4>1. Current.committed = committed /\ Current'.committed = committed'
          BY DEF Current
        <4> QED
          BY <1>3, <1>4, <4>1
      <3> QED
        BY <2>1, <3>2, <3>3
    <2>3. ReleasedOK(t2)'
      <3> SUFFICES ASSUME NEW u \in Tasks, NEW k \in DOMAIN stack[u],
                          stack[u][k].kind = "top" /\ Gone(u, k) /\ ~ stack[u][k].failed,
                          NEW i \in 1 .. (Pending' + 1),
                          \A j \in i .. Pending' : queue'[Writer][j].task # u
                   PROVE  stack[u][k].wrote \subseteq t2[i].committed
        BY <1>7, <1>8 DEF ReleasedOK
      <3>1. i \in Nat /\ i + 1 \in 1 .. (Pending + 1)
        BY <1>2
      <3>2. ASSUME NEW j \in (i + 1) .. Pending PROVE queue[Writer][j].task # u
        <4>1. j - 1 \in i .. Pending' /\ j - 1 \in 1 .. (Pending - 1) /\ (j - 1) + 1 = j
          BY <1>2, <3>1
        <4> QED
          BY <1>2, <4>1
      <3> QED
        BY <1>5, <2>1, <3>1, <3>2 DEF ReleasedOK
    <2> QED
      BY <2>2, <2>3
  <1>13. HistoryOK'
    BY <1>8 DEF WriterInvOf, HistoryOK
  <1>14. WriterInvOf(t2, x)'
    BY <1>6, <1>10, <1>11, <1>12, <1>13 DEF WriterInvOf
  <1> QED
    BY <1>5, <1>14 DEF WriterInv

------------------------------------------------------------------------------
(* Steps that send the writing connection a statement: the trace has one   *)
(* state more.                                                             *)
LEMMA WriterSends ==
    ASSUME Base, NEW tr \in [Nat -> States], NEW x \in States, WriterInvOf(tr, x),
           NEW t \in Tasks, NEW op \in WriterOps, NEW arg \in Nat, op = "write" => arg # 0,
           NEW s, s = [op |-> op, arg |-> arg, task |-> t],
           queue' = Sent(Writer, op, arg, t),
           UNCHANGED <<committed, data, savepoints, undone, kept, leaked>>,
           statements' \in Nat, statements <= statements',
           NEW y, y = Exec(x, s),
           \A c : CommitOK(c) => CommitOK(c)',
           x.committed \subseteq y.committed, LastOK(y)',
           Writer \notin leaked =>
              \A u \in Tasks : \A k \in DOMAIN stack'[u] :
                 stack'[u][k].kind = "top" /\ Gone(u, k)' /\ ~ stack'[u][k].failed =>
                    u = t /\ stack'[u][k].wrote \subseteq y.committed
    PROVE  WriterInv'
  <1>0. PICK P \in Nat : P = Pending
    BY PendingType
  <1>1. s \in Statements /\ s.op = op /\ s.arg = arg /\ s.task = t
    BY DEF Statements, WriterOps
  <1>2. y \in States
    BY <1>1, ExecType
  <1>3. statements \in Nat /\ TypeOK /\ Writer \in Conns
    BY PendingType DEF Base
  <1>4. /\ Pending' = P + 1 /\ \A i \in 1 .. P : queue'[Writer][i] = queue[Writer][i]
        /\ queue'[Writer][P + 1] = s
    BY <1>0, <1>1, <1>3, SentFacts DEF Pending
  <1>5. /\ tr[1] = Current /\ tr[P + 1] = x
        /\ \A i \in 1 .. P : tr[i + 1] = Exec(tr[i], queue[Writer][i])
    BY <1>0 DEF WriterInvOf, IsTrace
  <1>6. PICK t2 \in [Nat -> States] : t2[P + 2] = y /\ \A i \in 1 .. (P + 1) : t2[i] = tr[i]
    <2> DEFINE ext == [tr EXCEPT ![P + 2] = y]
    <2>1. ext \in [Nat -> States] /\ ext[P + 2] = y
      BY <1>2
    <2>2. \A i \in 1 .. (P + 1) : ext[i] = tr[i]
      OBVIOUS
    <2> HIDE DEF ext
    <2> QED
      BY <2>1, <2>2
  <1>7. IsTrace(t2, y)'
    <2>1. t2[1] = Current'
      <3>1. Current' = Current
        BY DEF Current
      <3> QED
        BY <1>3, <1>5, <1>6, <3>1
    <2>2. t2[Pending' + 1] = y
      BY <1>3, <1>4, <1>6
    <2>3. ASSUME NEW i \in 1 .. Pending' PROVE t2[i + 1] = Exec(t2[i], queue'[Writer][i])
      <3>1. CASE i = P + 1
        <4>1. t2[i] = x /\ t2[i + 1] = y
          BY <1>3, <1>5, <1>6, <3>1
        <4> QED
          BY <1>4, <3>1, <4>1
      <3>2. CASE i \in 1 .. P
        <4>1. i \in 1 .. (P + 1) /\ i + 1 \in 1 .. (P + 1)
          BY <1>3, <3>2
        <4> QED
          BY <1>4, <1>5, <1>6, <3>2, <4>1
      <3> QED
        BY <1>3, <1>4, <3>1, <3>2
    <2> QED
      BY <2>1, <2>2, <2>3 DEF IsTrace
  <1>8. CommitsOK(t2)'
    <2> SUFFICES ASSUME NEW i \in 1 .. (Pending' + 1)
                 PROVE  CommitOK(t2[i].committed)' /\ \A j \in 1 .. i : t2[j].committed \subseteq t2[i].committed
      BY DEF CommitsOK
    <2>0. CommitsOK(tr)
      BY DEF WriterInvOf
    <2>1. CASE i = P + 2
      <3>1. CommitOK(t2[i].committed)'
        BY <1>6, <2>1 DEF LastOK
      <3>2. ASSUME NEW j \in 1 .. i PROVE t2[j].committed \subseteq t2[i].committed
        <4>1. CASE j = P + 2
          BY <2>1, <4>1
        <4>2. CASE j \in 1 .. (P + 1)
          <5>1. P + 1 \in 1 .. (P + 1)
            BY <1>3
          <5>2. tr[j].committed \subseteq tr[P + 1].committed
            BY <1>0, <2>0, <4>2, <5>1 DEF CommitsOK
          <5> QED
            BY <1>5, <1>6, <2>1, <4>2, <5>2
        <4> QED
          BY <1>3, <2>1, <4>1, <4>2
      <3> QED
        BY <3>1, <3>2
    <2>2. CASE i \in 1 .. (P + 1)
      <3>1. CommitOK(t2[i].committed)'
        BY <1>0, <1>6, <2>0, <2>2 DEF CommitsOK
      <3>2. ASSUME NEW j \in 1 .. i PROVE t2[j].committed \subseteq t2[i].committed
        <4>1. j \in 1 .. (P + 1)
          BY <1>3, <2>2
        <4> QED
          BY <1>0, <1>6, <2>0, <2>2, <4>1 DEF CommitsOK
      <3> QED
        BY <3>1, <3>2
    <2> QED
      BY <1>3, <1>4, <2>1, <2>2
  <1>9. KeptOK(t2)'
    <2> SUFFICES ASSUME Writer \notin leaked PROVE kept \subseteq committed /\ ReleasedOK(t2)'
      BY DEF KeptOK
    <2>1. kept \subseteq committed
      BY DEF WriterInvOf, KeptOK
    <2>2. ReleasedOK(t2)'
      <3> SUFFICES ASSUME NEW u \in Tasks, NEW k \in DOMAIN stack'[u],
                          stack'[u][k].kind = "top" /\ Gone(u, k)' /\ ~ stack'[u][k].failed,
                          NEW i \in 1 .. (Pending' + 1),
                          \A j \in i .. Pending' : queue'[Writer][j].task # u
                   PROVE  stack'[u][k].wrote \subseteq t2[i].committed
        BY DEF ReleasedOK
      <3>1. u = t /\ stack'[u][k].wrote \subseteq y.committed
        OBVIOUS
      <3>2. i = P + 2
        <4> SUFFICES ASSUME i \in 1 .. (P + 1) PROVE FALSE
          BY <1>3, <1>4
        <4>1. P + 1 \in i .. Pending'
          BY <1>3, <1>4
        <4> QED
          BY <1>1, <1>4, <3>1, <4>1
      <3> QED
        BY <1>6, <3>1, <3>2
    <2> QED
      BY <2>1, <2>2
  <1>10. HistoryOK'
    BY <1>3, GrowRange DEF WriterInvOf, HistoryOK
  <1>11. WriterInvOf(t2, y)'
    BY <1>7, <1>8, <1>9, <1>10 DEF WriterInvOf
  <1> QED
    BY <1>2, <1>6, <1>11 DEF WriterInv

(* While one task has the lock, or none, the others have written nothing.  *)
Bystander(u) ==
    /\ at[u] \notin {"SAVEPOINT", "ROLLBACK_TO", "RELEASE"}
    /\ \A k \in DOMAIN stack[u] :
          /\ stack[u][k].kind \notin {"top", "nested", "joined"}
          /\ stack[u][k].failed = FALSE /\ stack[u][k].wrote = {}

LEMMA Bystanders ==
    ASSUME Base, NEW x \in States, FramesOK(x), NEW t \in Tasks, lock \in {t, NoTask}
    PROVE  \A u \in Tasks : u # t => Bystander(u)
  <1> SUFFICES ASSUME NEW u \in Tasks, u # t PROVE Bystander(u)
    OBVIOUS
  <1>1. lock # u /\ LockedOf(u) /\ ShapeOf(u)
    BY DBAssumption DEF Base, Core, LockInv, Shape
  <1>2. \A k \in DOMAIN stack[u] : stack[u][k].kind \notin {"top", "nested", "joined"}
    BY <1>1 DEF LockedOf
  <1>3. at[u] \notin {"SAVEPOINT", "ROLLBACK_TO", "RELEASE"}
    <2> SUFFICES ASSUME at[u] \in {"SAVEPOINT", "ROLLBACK_TO", "RELEASE"} PROVE FALSE
      OBVIOUS
    <2>1. stack[u] # <<>> /\ Top(u).kind \in WriterKinds
      BY <1>1 DEF ShapeOf
    <2>2. Len(stack[u]) \in DOMAIN stack[u] /\ Top(u) = stack[u][Len(stack[u])]
      BY <2>1, StackFacts DEF Base
    <2> QED
      BY <1>2, <2>1, <2>2 DEF WriterKinds
  <1>4. \A k \in DOMAIN stack[u] : stack[u][k].failed = FALSE
    BY <1>3, NoneFailed
  <1>5. \A k \in DOMAIN stack[u] : stack[u][k].wrote = {}
    <2> TAKE k \in DOMAIN stack[u]
    <2>1. FrameOK(x, u, k)
      BY DEF FramesOK
    <2> QED
      BY <1>2, <2>1 DEF FrameOK
  <1> QED
    BY <1>2, <1>3, <1>4, <1>5 DEF Bystander

LEMMA BystanderFrames ==
    ASSUME NEW u \in Tasks, Bystander(u), stack'[u] = stack[u], NEW y \in States
    PROVE  \A k \in DOMAIN stack'[u] : FrameOK(y, u, k)'
  BY DEF Bystander, FrameOK, WriterKinds

(* Names increase along the savepoints, so that a name is set once.        *)
LEMMA OneSavepoint ==
    ASSUME NEW S \in Seq(Savepoints), NEW q \in DOMAIN S,
           \A i, j \in DOMAIN S : i < j => S[i].name < S[j].name
    PROVE  BelowIn(S, S[q].name) = q - 1
  <1> DEFINE b == BelowIn(S, S[q].name)
  <1>1. /\ b \in Nat /\ b < Len(S) /\ b + 1 \in DOMAIN S /\ S[b + 1].name = S[q].name
    BY BelowFacts
  <1> HIDE DEF b
  <1>2. S[b + 1].name \in Nat /\ S[q].name \in Nat /\ q \in Nat /\ b + 1 \in Nat
    <2>1. \A i \in DOMAIN S : S[i] \in Savepoints /\ i \in Nat
      OBVIOUS
    <2> QED
      BY <1>1, <2>1 DEF Savepoints
  <1>3. ~ (b + 1 < q) /\ ~ (q < b + 1)
    BY <1>1, <1>2
  <1>4. b = q - 1
    BY <1>1, <1>2, <1>3
  <1> QED
    BY <1>4 DEF b

(* writer sets a savepoint, of a name no other has had.                    *)
LEMMA WriterSavepoint ==
    ASSUME Base, NEW tr \in [Nat -> States], NEW x \in States, WriterInvOf(tr, x),
           NEW t \in Tasks, NEW f \in Frames, Push(t, f), f.kind \in WriterKinds,
           f.name = nextName, f.wrote = {}, f.failed = FALSE,
           queue' = Sent(Writer, "SAVEPOINT", nextName, t), nextName' = nextName + 1,
           at[t] # "RELEASE", at[t] # "ROLLBACK_TO", at' = [at EXCEPT ![t] = "SAVEPOINT"],
           IF f.kind = "top" THEN lock = NoTask ELSE lock = t /\ \E k \in DOMAIN stack[t] : stack[t][k].kind = "top",
           lock' = t,
           UNCHANGED <<committed, data, savepoints, undone, kept, leaked, statements>>
    PROVE  WriterInv'
  <1> DEFINE n == Len(stack[t])
             S == x.savepoints
             now == IF S = <<>> THEN x.committed ELSE x.data
             m == Len(S)
  <1>1. statements \in Nat /\ nextName \in Nat /\ NoTask \notin Tasks
    BY PendingType, DBAssumption
  <1>2. PICK s : s = [op |-> "SAVEPOINT", arg |-> nextName, task |-> t]
    OBVIOUS
  <1>3. s \in Statements /\ s.op = "SAVEPOINT" /\ s.arg = nextName
    BY <1>1, <1>2 DEF Statements
  <1>4. PICK y : y = Exec(x, s)
    OBVIOUS
  <1>5. /\ y.committed = x.committed /\ y.data = now
        /\ y.savepoints = Append(S, [name |-> nextName, rows |-> now])
    BY <1>3, <1>4, ExecCases DEF WriterOps
  <1>6. /\ y \in States /\ S \in Seq(Savepoints) /\ m \in Nat
        /\ x.committed \in SUBSET Rows /\ x.data \in SUBSET Rows
    <2>1. y \in States
      BY <1>3, <1>4, ExecType DEF WriterOps
    <2>2. S \in Seq(Savepoints) /\ x.committed \in SUBSET Rows /\ x.data \in SUBSET Rows
      BY DEF States
    <2> QED
      BY <2>1, <2>2
  <1>7. /\ DOMAIN S = 1 .. m /\ DOMAIN y.savepoints = 1 .. (m + 1)
        /\ \A p \in 1 .. m : y.savepoints[p] = S[p] /\ S[p] \in Savepoints /\ S[p].name \in Nat
        /\ y.savepoints[m + 1].name = nextName /\ y.savepoints[m + 1].rows = now
        /\ \A p \in DOMAIN y.savepoints : (p \in DOMAIN S /\ y.savepoints[p] = S[p]) \/ p = m + 1
        /\ S # <<>> => m > 0
    <2>1. now \in SUBSET Rows /\ [name |-> nextName, rows |-> now] \in Savepoints
      BY <1>1, <1>6 DEF Savepoints
    <2> HIDE DEF now
    <2>2. \A p \in 1 .. m : S[p] \in Savepoints
      BY <1>6
    <2> QED
      BY <1>5, <1>6, <2>1, <2>2 DEF Savepoints
  <1>8. /\ RowsOK(x) /\ FramesOK(x) /\ CommitOK(x.committed)
        /\ Writer \notin leaked => OutermostOK(x)
    BY DEF WriterInvOf, LastOK
  <1>9. /\ \A u \in Tasks : u # t => stack'[u] = stack[u]
        /\ Len(stack'[t]) = n + 1 /\ DOMAIN stack'[t] = 1 .. (n + 1)
        /\ \A i \in 1 .. n : stack'[t][i] = stack[t][i]
        /\ stack'[t][n + 1] = f /\ n \in Nat /\ DOMAIN stack[t] = 1 .. n
    BY PushFacts, StackFacts DEF Base
  <1>10. at'[t] = "SAVEPOINT" /\ \A u \in Tasks : u # t => at'[u] = at[u]
    BY DEF Base, TypeOK
  <1>11. \A u \in Tasks : u # t => Bystander(u)
    BY <1>8, Bystanders
  <1>12. \A k \in DOMAIN stack[t] : stack[t][k].failed = FALSE /\ ~ Gone(t, k)
    BY NoneFailed DEF Gone
  <1>13. \A u \in Tasks : \A k : ~ Gone(u, k)'
    BY <1>10, <1>11 DEF Gone, Bystander
  <1>14. \A k \in DOMAIN stack'[t] : k = n + 1 \/ (k \in DOMAIN stack[t] /\ stack'[t][k] = stack[t][k])
    BY <1>9
  <1>15. ASSUME NEW c, CommitOK(c) PROVE CommitOK(c)'
    <2>1. ASSUME NEW u \in Tasks, NEW k \in DOMAIN stack'[u] PROVE stack'[u][k].wrote \cap c = {}
      <3>1. CASE u # t
        BY <1>9, <1>11, <3>1 DEF Bystander
      <3>2. CASE u = t
        BY <1>9, <1>12, <1>14, <1>15, <3>2 DEF CommitOK
      <3> QED
        BY <3>1, <3>2
    <2> QED
      BY <1>15, <2>1 DEF CommitOK
  <1>16. now \subseteq 1 .. statements /\ undone \cap now = {} /\ x.committed \subseteq now
    BY <1>8 DEF RowsOK, CommitOK
  <1>17. \A k \in DOMAIN stack[t] : stack[t][k].wrote \subseteq now
    <2> TAKE k \in DOMAIN stack[t]
    <2>1. FrameOK(x, t, k)
      BY <1>8 DEF FramesOK
    <2>2. CASE S # <<>>
      BY <1>12, <2>1, <2>2 DEF FrameOK
    <2>3. CASE S = <<>>
      <3>1. ASSUME NEW j \in DOMAIN stack[t], stack[t][j].kind = "top" PROVE FALSE
        <4>1. FrameOK(x, t, j)
          BY <1>8 DEF FramesOK
        <4>2. WriterFrameOK(x, t, j)
          BY <3>1, <4>1 DEF FrameOK, WriterKinds
        <4>3. \E p \in DOMAIN S : S[p].name = stack[t][j].name
          BY <1>12, <4>2 DEF WriterFrameOK
        <4> QED
          BY <2>3, <4>3
      <3> QED
        BY <2>1, <3>1 DEF FrameOK
    <2> QED
      BY <2>2, <2>3
  <1> HIDE DEF now, S, m, n
  <1>18. RowsOK(y)'
    <2>1. y.data \subseteq 1 .. statements /\ undone \cap y.data = {} /\ y.committed \subseteq y.data
      BY <1>5, <1>16
    <2>2. ASSUME NEW p \in DOMAIN y.savepoints PROVE SavepointOK(y, p)'
      <3>1. CASE p \in DOMAIN S /\ y.savepoints[p] = S[p]
        <4>1. SavepointOK(x, p) /\ S[p].name \in Nat
          BY <1>7, <1>8, <3>1 DEF RowsOK, S
        <4>2. S[p].name < nextName + 1
          BY <1>1, <4>1 DEF SavepointOK, S
        <4> QED
          BY <1>5, <3>1, <4>1, <4>2 DEF SavepointOK, S
      <3>2. CASE p = m + 1
        <4>1. nextName < nextName + 1
          BY <1>1
        <4> QED
          BY <1>5, <1>7, <1>16, <3>2, <4>1 DEF SavepointOK
      <3> QED
        BY <1>7, <3>1, <3>2
    <2>3. ASSUME NEW p \in DOMAIN y.savepoints, NEW q \in DOMAIN y.savepoints, p < q
          PROVE  y.savepoints[p].name < y.savepoints[q].name
      <3>1. p \in DOMAIN S /\ y.savepoints[p] = S[p]
        BY <1>6, <1>7, <2>3
      <3>2. CASE q = m + 1
        <4>1. SavepointOK(x, p)
          BY <1>8, <3>1 DEF RowsOK, S
        <4> QED
          BY <1>7, <3>1, <3>2, <4>1 DEF SavepointOK, S
      <3>3. CASE q \in DOMAIN S /\ y.savepoints[q] = S[q]
        BY <1>8, <2>3, <3>1, <3>3 DEF RowsOK, S
      <3> QED
        BY <1>7, <3>2, <3>3
    <2> QED
      BY <2>1, <2>2, <2>3 DEF RowsOK
  <1>19. FramesOK(y)'
    <2> SUFFICES ASSUME NEW u \in Tasks, NEW k \in DOMAIN stack'[u] PROVE FrameOK(y, u, k)'
      BY DEF FramesOK
    <2>1. CASE u # t
      BY <1>6, <1>9, <1>11, <2>1, BystanderFrames
    <2>2. CASE u = t /\ k = n + 1
      <3>1. WriterFrameOK(y, t, k)'
        <4>1. f.name < nextName + 1
          BY <1>1
        <4>2. \E p \in DOMAIN y.savepoints : y.savepoints[p].name = f.name
          <5>1. m + 1 \in DOMAIN y.savepoints
            BY <1>6, <1>7
          <5> QED
            BY <1>7, <5>1
        <4>3. ASSUME NEW j \in DOMAIN stack'[t]
              PROVE  /\ ~ (j > k)
                     /\ j < k => \A p \in DOMAIN y.savepoints :
                            y.savepoints[p].name = f.name => stack'[t][j].wrote \subseteq y.savepoints[p].rows
                     /\ j >= k => stack'[t][j].wrote = {}
          <5>1. ~ (j > k) /\ (j >= k => j = n + 1)
            BY <1>9, <2>2
          <5>2. ASSUME j < k, NEW p \in DOMAIN y.savepoints, y.savepoints[p].name = f.name
                PROVE  stack'[t][j].wrote \subseteq y.savepoints[p].rows
            <6>1. j \in DOMAIN stack[t] /\ stack'[t][j] = stack[t][j]
              BY <1>9, <2>2, <5>2
            <6>2. p = m + 1
              <7> SUFFICES ASSUME p \in DOMAIN S, y.savepoints[p] = S[p] PROVE FALSE
                BY <1>7
              <7>1. SavepointOK(x, p) /\ S[p].name \in Nat
                BY <1>7, <1>8 DEF RowsOK, S
              <7> QED
                BY <1>1, <5>2, <7>1 DEF SavepointOK, S
            <6> QED
              BY <1>7, <1>17, <6>1, <6>2
          <5> QED
            BY <1>9, <5>1, <5>2
        <4> QED
          BY <1>9, <2>2, <4>1, <4>2, <4>3 DEF WriterFrameOK
      <3> QED
        BY <1>9, <2>2, <3>1 DEF FrameOK
    <2>3. CASE u = t /\ k \in DOMAIN stack[t] /\ stack'[t][k] = stack[t][k]
      <3> DEFINE g == stack[t][k]
      <3>1. FrameOK(x, t, k) /\ g.failed = FALSE /\ k \in 1 .. n
        BY <1>8, <1>9, <1>12, <2>3 DEF FramesOK
      <3>2. g.wrote # {} => \E j \in DOMAIN stack'[t] : j <= k /\ stack'[t][j].kind = "top"
        BY <1>9, <3>1 DEF FrameOK
      <3>3. ASSUME g.kind \in WriterKinds PROVE WriterFrameOK(y, t, k)'
        <4>1. WriterFrameOK(x, t, k) /\ g.name \in Nat
          BY <2>3, <3>1, <3>3, StackFacts DEF FrameOK, Base, Frames
        <4>2. g.name < nextName /\ g.name < nextName + 1
          BY <1>1, <4>1 DEF WriterFrameOK
        <4>3. \E p \in DOMAIN y.savepoints : y.savepoints[p].name = g.name
          <5>1. PICK p \in DOMAIN S : S[p].name = g.name
            BY <1>12, <2>3, <4>1 DEF WriterFrameOK, S
          <5>2. p \in DOMAIN y.savepoints /\ y.savepoints[p] = S[p]
            BY <1>6, <1>7
          <5> QED
            BY <5>1, <5>2
        <4>4. ASSUME NEW j \in DOMAIN stack'[t]
              PROVE  /\ j > k /\ stack'[t][j].kind \in WriterKinds => g.name < stack'[t][j].name
                     /\ j < k => \A p \in DOMAIN y.savepoints :
                            y.savepoints[p].name = g.name => stack'[t][j].wrote \subseteq y.savepoints[p].rows
                     /\ j >= k => \A p \in DOMAIN y.savepoints :
                            y.savepoints[p].name <= g.name => stack'[t][j].wrote \cap y.savepoints[p].rows = {}
          <5>1. ASSUME NEW p \in DOMAIN y.savepoints, y.savepoints[p].name <= g.name
                PROVE  p \in DOMAIN S /\ y.savepoints[p] = S[p]
            BY <1>1, <1>7, <4>1, <4>2, <5>1
          <5>2. CASE j = n + 1
            BY <1>9, <3>1, <4>2, <5>2
          <5>3. CASE j \in DOMAIN stack[t] /\ stack'[t][j] = stack[t][j]
            <6>1. j > k /\ stack'[t][j].kind \in WriterKinds => g.name < stack'[t][j].name
              BY <4>1, <5>3 DEF WriterFrameOK
            <6>2. ASSUME j < k, NEW p \in DOMAIN y.savepoints, y.savepoints[p].name = g.name
                  PROVE  stack'[t][j].wrote \subseteq y.savepoints[p].rows
              <7>1. p \in DOMAIN S /\ y.savepoints[p] = S[p]
                BY <4>1, <5>1, <6>2
              <7> QED
                BY <4>1, <5>3, <6>2, <7>1 DEF WriterFrameOK, S
            <6>3. ASSUME j >= k, NEW p \in DOMAIN y.savepoints, y.savepoints[p].name <= g.name
                  PROVE  stack'[t][j].wrote \cap y.savepoints[p].rows = {}
              <7>1. p \in DOMAIN S /\ y.savepoints[p] = S[p]
                BY <5>1, <6>3
              <7> QED
                BY <4>1, <5>3, <6>3, <7>1 DEF WriterFrameOK, S
            <6> QED
              BY <6>1, <6>2, <6>3
          <5> QED
            BY <1>14, <5>2, <5>3
        <4> QED
          BY <2>3, <4>2, <4>3, <4>4 DEF WriterFrameOK
      <3>4. g.wrote \subseteq y.data /\ g.wrote \subseteq 1 .. statements
        BY <1>5, <1>17, <2>3, <3>1 DEF FrameOK
      <3> QED
        BY <2>3, <3>1, <3>2, <3>3, <3>4 DEF FrameOK
    <2> QED
      BY <1>14, <2>1, <2>2, <2>3
  <1>20. ASSUME Writer \notin leaked PROVE OutermostOK(y)'
    <2>1. OutermostOK(x)
      BY <1>8, <1>20
    <2>2. y.savepoints # <<>> /\ 1 \in DOMAIN y.savepoints
      BY <1>6, <1>7
    <2> SUFFICES ASSUME NEW u \in Tasks, NEW k \in DOMAIN stack'[u], stack'[u][k].kind = "top"
                 PROVE  y.savepoints[1].name = stack'[u][k].name
      BY <1>1, <1>13, <2>2 DEF OutermostOK
    <2>3. u = t
      BY <1>9, <1>11 DEF Bystander
    <2>4. CASE k = n + 1
      <3>1. f.kind = "top" /\ S = <<>>
        BY <1>9, <2>1, <2>3, <2>4 DEF OutermostOK, S
      <3>2. m = 0
        BY <3>1 DEF m
      <3> QED
        BY <1>7, <1>9, <2>3, <2>4, <3>2
    <2>5. CASE k \in DOMAIN stack[t] /\ stack'[t][k] = stack[t][k]
      <3>1. S # <<>> /\ S[1].name = stack[t][k].name
        BY <1>12, <2>1, <2>3, <2>5 DEF OutermostOK, S
      <3>2. 1 \in 1 .. m
        BY <1>6, <1>7, <3>1
      <3> QED
        BY <1>7, <2>3, <2>5, <3>1, <3>2
    <2> QED
      BY <1>14, <2>3, <2>4, <2>5
  <1>21. LastOK(y)'
    BY <1>5, <1>8, <1>15, <1>18, <1>19, <1>20 DEF LastOK
  <1>22. \A c : CommitOK(c) => CommitOK(c)'
    BY <1>15
  <1>23. \A u \in Tasks : \A k \in DOMAIN stack'[u] :
           stack'[u][k].kind = "top" /\ Gone(u, k)' /\ ~ stack'[u][k].failed =>
              u = t /\ stack'[u][k].wrote \subseteq y.committed
    BY <1>13
  <1>24. "SAVEPOINT" \in WriterOps /\ statements' \in Nat /\ statements <= statements'
    BY <1>1 DEF WriterOps
  <1>25. x.committed \subseteq y.committed
    BY <1>5
  <1> QED
    BY <1>1, <1>2, <1>4, <1>21, <1>22, <1>23, <1>24, <1>25, WriterSends

(* The stacks when only the innermost context of t becomes g.              *)
TopBecomes(t, g) ==
    /\ \A u \in Tasks : u # t => stack'[u] = stack[u]
    /\ Len(stack'[t]) = Len(stack[t]) /\ DOMAIN stack'[t] = DOMAIN stack[t]
    /\ \A i \in DOMAIN stack[t] : i # Len(stack[t]) => stack'[t][i] = stack[t][i]
    /\ stack'[t][Len(stack[t])] = g

LEMMA TopFacts ==
    ASSUME Base, NEW t \in Tasks, stack[t] # <<>>, NEW g \in Frames,
           stack' = WithTop(t, g) \/ (stack' = stack /\ g = Top(t))
    PROVE  TopBecomes(t, g)
  <1>1. /\ Len(stack[t]) \in Nat /\ DOMAIN stack[t] = 1 .. Len(stack[t])
        /\ Top(t) = stack[t][Len(stack[t])]
    BY StackFacts DEF Base
  <1>2. CASE stack' = WithTop(t, g)
    BY <1>1, <1>2, WithTopFacts DEF TopBecomes, Base
  <1>3. CASE stack' = stack /\ g = Top(t)
    BY <1>1, <1>3 DEF TopBecomes
  <1> QED
    BY <1>2, <1>3

(* A row that was never there before is written.                           *)
LEMMA WriterWrites ==
    ASSUME Base, NEW tr \in [Nat -> States], NEW x \in States, WriterInvOf(tr, x),
           NEW t \in Tasks, stack[t] # <<>>, NEW g \in Frames, TopBecomes(t, g),
           Top(t).kind \in {"top", "nested", "joined"},
           g.kind = Top(t).kind, g.name = Top(t).name, g.failed = Top(t).failed,
           g.wrote = Top(t).wrote \cup {statements + 1},
           queue' = Sent(Writer, "write", statements + 1, t), statements' = statements + 1,
           at[t] = "body", at' = [at EXCEPT ![t] = "statement"],
           UNCHANGED <<committed, data, savepoints, undone, kept, leaked, lock, nextName>>
    PROVE  WriterInv'
  <1> DEFINE n == Len(stack[t])
             S == x.savepoints
             row == statements + 1
  <1>1. statements \in Nat /\ NoTask \notin Tasks
    BY PendingType, DBAssumption
  <1>2. PICK s : s = [op |-> "write", arg |-> row, task |-> t]
    OBVIOUS
  <1>3. s \in Statements /\ s.op = "write" /\ s.arg = row /\ s.arg # 0
    BY <1>1, <1>2 DEF Statements
  <1> HIDE DEF row
  <1>4. PICK y : y = Exec(x, s)
    OBVIOUS
  <1>5. y.committed = x.committed /\ y.data = x.data \cup {row} /\ y.savepoints = S
    BY <1>3, <1>4 DEF Exec, States
  <1>6. y \in States
    BY <1>3, <1>4, ExecType DEF WriterOps
  <1>7. /\ RowsOK(x) /\ FramesOK(x) /\ CommitOK(x.committed) /\ HistoryOK
        /\ Writer \notin leaked => OutermostOK(x)
    BY DEF WriterInvOf, LastOK
  <1>8. /\ n \in Nat /\ DOMAIN stack[t] = 1 .. n /\ n \in DOMAIN stack[t] /\ Top(t) = stack[t][n]
    BY StackFacts DEF Base
  <1>9. at'[t] = "statement" /\ \A u \in Tasks : u # t => at'[u] = at[u]
    BY DEF Base, TypeOK
  <1>10. lock = t
    BY WritersHoldNone
  <1>11. \A u \in Tasks : u # t => Bystander(u)
    BY <1>7, <1>10, Bystanders
  <1>12. \A k \in DOMAIN stack[t] : stack[t][k].failed = FALSE /\ ~ Gone(t, k)
    BY NoneFailed DEF Gone
  <1>13. \A u \in Tasks : \A k : ~ Gone(u, k)'
    BY <1>9, <1>11 DEF Gone, Bystander
  <1>14. \A c : c \subseteq 1 .. statements => c \subseteq 1 .. statements' /\ row \notin c
    BY <1>1 DEF row
  <1>15. \A k \in DOMAIN stack'[t] :
            /\ k \in DOMAIN stack[t] /\ stack'[t][k].kind = stack[t][k].kind
            /\ stack'[t][k].name = stack[t][k].name /\ stack'[t][k].failed = FALSE
            /\ stack'[t][k].wrote = IF k = n THEN stack[t][k].wrote \cup {row} ELSE stack[t][k].wrote
    BY <1>8, <1>12 DEF TopBecomes, row
  <1>16. ASSUME NEW c, CommitOK(c) PROVE CommitOK(c)'
    <2>1. row \notin c /\ c \subseteq 1 .. statements'
      BY <1>14, <1>16 DEF CommitOK
    <2>2. ASSUME NEW u \in Tasks, NEW k \in DOMAIN stack'[u] PROVE stack'[u][k].wrote \cap c = {}
      <3>1. CASE u # t
        BY <1>11, <3>1 DEF Bystander, TopBecomes
      <3>2. CASE u = t
        <4>1. k \in DOMAIN stack[t] /\ stack[t][k].wrote \cap c = {}
          BY <1>12, <1>15, <1>16, <3>2 DEF CommitOK
        <4> QED
          BY <1>15, <2>1, <3>2, <4>1
      <3> QED
        BY <3>1, <3>2
    <2> QED
      BY <1>16, <2>1, <2>2 DEF CommitOK
  <1>17. RowsOK(y)'
    <2>1. row \notin undone /\ row \in 1 .. statements'
      BY <1>1, <1>7, <1>14 DEF HistoryOK, row
    <2>2. y.data \subseteq 1 .. statements' /\ undone \cap y.data = {}
      BY <1>5, <1>7, <1>14, <2>1 DEF RowsOK
    <2> QED
      BY <1>5, <1>7, <1>14, <2>2 DEF RowsOK, SavepointOK
  <1>18. FramesOK(y)'
    <2> SUFFICES ASSUME NEW u \in Tasks, NEW k \in DOMAIN stack'[u] PROVE FrameOK(y, u, k)'
      BY DEF FramesOK
    <2>1. CASE u # t
      BY <1>6, <1>11, <2>1, BystanderFrames DEF TopBecomes
    <2>2. CASE u = t
      <3> DEFINE h == stack'[t][k]
                 e == stack[t][k]
      <3>1. /\ FrameOK(x, t, k) /\ k \in DOMAIN stack[t] /\ h.kind = e.kind /\ h.name = e.name
            /\ h.failed = FALSE /\ e.failed = FALSE
            /\ h.wrote = IF k = n THEN e.wrote \cup {row} ELSE e.wrote
        BY <1>7, <1>12, <1>15, <2>2 DEF FramesOK
      <3>2. h.wrote \subseteq 1 .. statements' /\ h.wrote \subseteq y.data
        <4>1. row \in 1 .. statements'
          BY <1>1 DEF row
        <4> QED
          BY <1>5, <1>14, <3>1, <4>1 DEF FrameOK
      <3>3. h.wrote # {} => \E j \in DOMAIN stack'[t] : j <= k /\ stack'[t][j].kind = "top"
        <4>1. \E j \in DOMAIN stack[t] : j <= n /\ stack[t][j].kind = "top"
          <5>1. LockedOf(t)
            BY DEF Base, Core, LockInv
          <5> QED
            BY <1>8, <5>1 DEF LockedOf
        <4>2. k # n /\ e.wrote # {} => \E j \in DOMAIN stack[t] : j <= k /\ stack[t][j].kind = "top"
          BY <3>1 DEF FrameOK
        <4>3. DOMAIN stack'[t] = DOMAIN stack[t]
          BY DEF TopBecomes
        <4> QED
          BY <1>15, <3>1, <4>1, <4>2, <4>3
      <3>4. ASSUME e.kind \in WriterKinds PROVE WriterFrameOK(y, t, k)'
        <4>1. WriterFrameOK(x, t, k)
          BY <3>1, <3>4 DEF FrameOK
        <4>2. h.name < nextName /\ \E p \in DOMAIN S : S[p].name = h.name
          BY <1>12, <3>1, <4>1 DEF WriterFrameOK
        <4>3. \A p \in DOMAIN S : row \notin S[p].rows
          BY <1>7, <1>14 DEF RowsOK, SavepointOK
        <4>4. ASSUME NEW j \in DOMAIN stack'[t]
              PROVE  /\ j > k /\ stack'[t][j].kind \in WriterKinds => h.name < stack'[t][j].name
                     /\ j < k => \A p \in DOMAIN S :
                                    S[p].name = h.name => stack'[t][j].wrote \subseteq S[p].rows
                     /\ j >= k => \A p \in DOMAIN S :
                                    S[p].name <= h.name => stack'[t][j].wrote \cap S[p].rows = {}
          <5>1. /\ j \in DOMAIN stack[t] /\ stack'[t][j].kind = stack[t][j].kind
                /\ stack'[t][j].name = stack[t][j].name
                /\ stack'[t][j].wrote = IF j = n THEN stack[t][j].wrote \cup {row} ELSE stack[t][j].wrote
            BY <1>15
          <5>2. j > k /\ stack'[t][j].kind \in WriterKinds => h.name < stack'[t][j].name
            BY <3>1, <4>1, <5>1 DEF WriterFrameOK
          <5>3. j < k => \A p \in DOMAIN S :
                            S[p].name = h.name => stack'[t][j].wrote \subseteq S[p].rows
            <6>1. j < k => stack'[t][j].wrote = stack[t][j].wrote
              BY <1>8, <3>1, <5>1
            <6> QED
              BY <3>1, <4>1, <5>1, <6>1 DEF WriterFrameOK
          <5>4. j >= k => \A p \in DOMAIN S :
                            S[p].name <= h.name => stack'[t][j].wrote \cap S[p].rows = {}
            BY <3>1, <4>1, <4>3, <5>1 DEF WriterFrameOK
          <5> QED
            BY <5>2, <5>3, <5>4
        <4> QED
          BY <1>5, <4>2, <4>4 DEF WriterFrameOK
      <3> QED
        BY <2>2, <3>1, <3>2, <3>3, <3>4 DEF FrameOK
    <2> QED
      BY <2>1, <2>2
  <1>19. ASSUME Writer \notin leaked PROVE OutermostOK(y)'
    <2>1. OutermostOK(x)
      BY <1>7, <1>19
    <2>2. ASSUME NEW u \in Tasks, NEW k \in DOMAIN stack'[u], stack'[u][k].kind = "top"
          PROVE  y.savepoints # <<>> /\ y.savepoints[1].name = stack'[u][k].name
      <3>1. u = t
        BY <1>11, <2>2 DEF Bystander, TopBecomes
      <3> QED
        <4>1. /\ k \in DOMAIN stack[t] /\ stack[t][k].kind = "top" /\ ~ Gone(t, k)
              /\ stack'[t][k].name = stack[t][k].name
          BY <1>12, <1>15, <2>2, <3>1
        <4> QED
          BY <1>5, <2>1, <3>1, <4>1 DEF OutermostOK
    <2> QED
      BY <1>1, <1>10, <1>13, <2>2 DEF OutermostOK
  <1>20. LastOK(y)'
    BY <1>5, <1>7, <1>16, <1>17, <1>18, <1>19 DEF LastOK
  <1>21. \A c : CommitOK(c) => CommitOK(c)'
    BY <1>16
  <1>22. \A u \in Tasks : \A k \in DOMAIN stack'[u] :
           stack'[u][k].kind = "top" /\ Gone(u, k)' /\ ~ stack'[u][k].failed =>
              u = t /\ stack'[u][k].wrote \subseteq y.committed
    BY <1>13
  <1>23. /\ "write" \in WriterOps /\ row \in Nat /\ row # 0
         /\ statements' \in Nat /\ statements <= statements'
    BY <1>1 DEF WriterOps, row
  <1>24. x.committed \subseteq y.committed /\ queue' = Sent(Writer, "write", row, t)
    BY <1>5 DEF row
  <1> QED
    BY <1>2, <1>4, <1>20, <1>21, <1>22, <1>23, <1>24, WriterSends

(* The savepoint of the innermost writer of t, and those of the writers    *)
(* around it, which come before.                                           *)
LEMMA TopSavepoint ==
    ASSUME Base, NEW x \in States, RowsOK(x), FramesOK(x), NEW t \in Tasks, stack[t] # <<>>,
           Top(t).kind \in WriterKinds, at[t] # "RELEASE"
    PROVE  \E q \in DOMAIN x.savepoints :
              /\ x.savepoints[q].name = Top(t).name
              /\ BelowIn(x.savepoints, Top(t).name) = q - 1
              /\ \A p \in DOMAIN x.savepoints : p <= q => x.savepoints[p].name <= Top(t).name
              /\ \A k \in DOMAIN stack[t] : k # Len(stack[t]) /\ stack[t][k].kind \in WriterKinds =>
                    \E p \in DOMAIN x.savepoints : p < q /\ x.savepoints[p].name = stack[t][k].name
              /\ Top(t).kind = "nested" => q > 1
  <1> DEFINE n == Len(stack[t])
             S == x.savepoints
  <1>1. /\ n \in Nat /\ DOMAIN stack[t] = 1 .. n /\ n \in DOMAIN stack[t] /\ Top(t) = stack[t][n]
        /\ \A k \in DOMAIN stack[t] : stack[t][k] \in Frames
    BY StackFacts DEF Base
  <1>2. S \in Seq(Savepoints)
    BY DEF States
  <1>3. \A p \in DOMAIN S : S[p] \in Savepoints /\ S[p].name \in Nat /\ p \in Nat
    <2>1. \A p \in DOMAIN S : S[p] \in Savepoints /\ p \in Nat
      BY <1>2
    <2> QED
      BY <2>1 DEF Savepoints
  <1>4. \A p, q \in DOMAIN S : p < q => S[p].name < S[q].name
    BY DEF RowsOK
  <1>5. \A k \in DOMAIN stack[t] : stack[t][k].kind \in WriterKinds => WriterFrameOK(x, t, k)
    BY DEF FramesOK, FrameOK
  <1>6. PICK q \in DOMAIN S : S[q].name = Top(t).name
    BY <1>1, <1>5 DEF WriterFrameOK, Gone
  <1>7. BelowIn(S, Top(t).name) = q - 1
    BY <1>2, <1>4, <1>6, OneSavepoint
  <1>8. \A p \in DOMAIN S : p <= q => S[p].name <= Top(t).name
    BY <1>3, <1>4, <1>6
  <1>9. ASSUME NEW k \in DOMAIN stack[t], k # n, stack[t][k].kind \in WriterKinds
        PROVE  \E p \in DOMAIN S : p < q /\ S[p].name = stack[t][k].name
    <2>1. k < n /\ WriterFrameOK(x, t, k)
      BY <1>1, <1>5, <1>9
    <2>2. stack[t][k].name < Top(t).name
      BY <1>1, <2>1 DEF WriterFrameOK
    <2>3. PICK p \in DOMAIN S : S[p].name = stack[t][k].name
      BY <1>9, <2>1 DEF WriterFrameOK, Gone
    <2>4. p < q
      <3> SUFFICES ASSUME ~ (p < q) PROVE FALSE
        OBVIOUS
      <3>1. q = p \/ q < p
        BY <1>3
      <3>2. S[q].name <= S[p].name
        BY <1>3, <1>4, <3>1
      <3> QED
        BY <1>3, <1>6, <2>2, <2>3, <3>2
    <2> QED
      BY <2>3, <2>4
  <1>10. Top(t).kind = "nested" => q > 1
    <2> SUFFICES ASSUME Top(t).kind = "nested" PROVE q > 1
      OBVIOUS
    <2>1. PICK j \in DOMAIN stack[t] : j < n /\ stack[t][j].kind = "top"
      BY <1>1 DEF Base, Core, LockInv, LockedOf
    <2>2. j # n
      BY <1>1, <2>1
    <2>3. PICK p \in DOMAIN S : p < q
      BY <1>9, <2>1, <2>2 DEF WriterKinds
    <2> QED
      BY <1>2, <2>3
  <1> QED
    BY <1>6, <1>7, <1>8, <1>9, <1>10

(* RELEASE: the savepoint and all above it are gone, and if it was the     *)
(* first, the rows are committed.                                          *)
LEMMA WriterReleases ==
    ASSUME Base, NEW tr \in [Nat -> States], NEW x \in States, WriterInvOf(tr, x),
           NEW t \in Tasks, stack[t] # <<>>, NEW g \in Frames, TopBecomes(t, g),
           Top(t).kind \in WriterKinds, SameWrites(g, Top(t)),
           queue' = Sent(Writer, "RELEASE", Top(t).name, t),
           at[t] # "RELEASE", at' = [at EXCEPT ![t] = "RELEASE"],
           UNCHANGED <<committed, data, savepoints, undone, kept, leaked, lock, nextName>>,
           statements' = statements
    PROVE  WriterInv'
  <1> DEFINE n == Len(stack[t])
             S == x.savepoints
             name == Top(t).name
  <1>1. statements \in Nat /\ NoTask \notin Tasks
    BY PendingType, DBAssumption
  <1>2. /\ n \in Nat /\ DOMAIN stack[t] = 1 .. n /\ n \in DOMAIN stack[t] /\ Top(t) = stack[t][n]
        /\ Top(t) \in Frames /\ name \in Nat
    BY StackFacts DEF Base, Frames
  <1>3. /\ RowsOK(x) /\ FramesOK(x) /\ CommitOK(x.committed) /\ HistoryOK
        /\ Writer \notin leaked => OutermostOK(x)
    BY DEF WriterInvOf, LastOK
  <1>4. PICK q \in DOMAIN S :
              /\ S[q].name = name
              /\ BelowIn(S, name) = q - 1
              /\ \A k \in DOMAIN stack[t] : k # n /\ stack[t][k].kind \in WriterKinds =>
                    \E p \in DOMAIN S : p < q /\ S[p].name = stack[t][k].name
              /\ Top(t).kind = "nested" => q > 1
    BY <1>3, TopSavepoint
  <1>5. /\ S \in Seq(Savepoints) /\ Len(S) \in Nat /\ DOMAIN S = 1 .. Len(S) /\ q \in 1 .. Len(S)
        /\ S # <<>>
    <2>1. S \in Seq(Savepoints)
      BY DEF States
    <2> QED
      BY <2>1
  <1> HIDE DEF name
  <1>6. PICK s : s = [op |-> "RELEASE", arg |-> name, task |-> t]
    OBVIOUS
  <1>7. s \in Statements /\ s.op = "RELEASE" /\ s.arg = name
    BY <1>2, <1>6 DEF Statements
  <1>8. PICK y : y = Exec(x, s)
    OBVIOUS
  <1>9. /\ y.data = x.data /\ y.savepoints = SubSeq(S, 1, q - 1)
        /\ y.committed = IF q = 1 THEN x.data ELSE x.committed
    <2>1. /\ y.data = x.data /\ y.savepoints = SubSeq(S, 1, BelowIn(S, name))
          /\ y.committed = IF BelowIn(S, name) = 0 /\ S # <<>> THEN x.data ELSE x.committed
      BY <1>7, <1>8 DEF Exec, States
    <2>2. q - 1 = 0 <=> q = 1
      BY <1>5
    <2> QED
      BY <1>4, <1>5, <2>1, <2>2
  <1>10. y \in States
    BY <1>7, <1>8, ExecType DEF WriterOps
  <1>11. /\ DOMAIN y.savepoints = 1 .. (q - 1) /\ Len(y.savepoints) = q - 1
         /\ \A p \in 1 .. (q - 1) : y.savepoints[p] = S[p] /\ p \in DOMAIN S
    <2>1. q - 1 \in Nat /\ q - 1 <= Len(S)
      BY <1>5
    <2>2. /\ SubSeq(S, 1, q - 1) \in Seq(Savepoints) /\ Len(SubSeq(S, 1, q - 1)) = q - 1
          /\ \A p \in 1 .. (q - 1) : SubSeq(S, 1, q - 1)[p] = S[p]
      BY <1>5, <2>1, CutFacts
    <2> QED
      BY <1>5, <1>9, <2>1, <2>2
  <1> HIDE DEF S
  <1>12. at'[t] = "RELEASE" /\ \A u \in Tasks : u # t => at'[u] = at[u]
    BY DEF Base, TypeOK
  <1>13. lock = t
    BY WritersHoldNone DEF WriterKinds
  <1>14. \A u \in Tasks : u # t => Bystander(u)
    BY <1>3, <1>13, Bystanders
  <1>15. /\ \A u \in Tasks : u # t => \A k : ~ Gone(u, k)'
         /\ \A k \in DOMAIN stack[t] : ~ Gone(t, k) /\ (Gone(t, k)' <=> k = n)
    BY <1>2, <1>12, <1>14 DEF Gone, Bystander, TopBecomes
  <1>16. \A k \in DOMAIN stack'[t] : k \in DOMAIN stack[t] /\ SameWrites(stack'[t][k], stack[t][k])
    BY <1>2 DEF TopBecomes, SameWrites
  <1>17. ASSUME NEW c, CommitOK(c) PROVE CommitOK(c)'
    <2>1. ASSUME NEW u \in Tasks, NEW k \in DOMAIN stack'[u] PROVE stack'[u][k].wrote \cap c = {}
      <3>1. CASE u # t
        BY <1>14, <3>1 DEF Bystander, TopBecomes
      <3>2. CASE u = t
        BY <1>15, <1>16, <1>17, <3>2 DEF CommitOK, SameWrites
      <3> QED
        BY <3>1, <3>2
    <2> QED
      BY <1>17, <2>1 DEF CommitOK
  <1>18. x.committed \subseteq x.data /\ x.committed \subseteq y.committed
    BY <1>3, <1>5, <1>9 DEF RowsOK, S
  <1>19. q = 1 => Top(t).kind = "top"
    BY <1>4 DEF WriterKinds
  <1>20. CommitOK(y.committed)'
    <2>1. CASE q # 1
      BY <1>3, <1>9, <1>17, <2>1
    <2>2. CASE q = 1
      <3>1. y.committed = x.data /\ Top(t).kind = "top"
        BY <1>9, <1>19, <2>2
      <3>2. x.data \subseteq 1 .. statements /\ undone \cap x.data = {}
        BY <1>3 DEF RowsOK
      <3>3. ASSUME NEW u \in Tasks, NEW k \in DOMAIN stack'[u]
            PROVE  \/ Gone(u, k)' /\ stack'[u][k].kind = "top" /\ ~ stack'[u][k].failed
                   \/ stack'[u][k].wrote \cap x.data = {}
        <4>1. CASE u # t
          BY <1>14, <4>1 DEF Bystander, TopBecomes
        <4>2. CASE u = t /\ k = n
          <5>1. /\ FrameOK(x, t, k) /\ SameWrites(stack'[t][k], stack[t][k]) /\ Gone(t, k)'
                /\ stack[t][k] = Top(t)
            BY <1>2, <1>3, <1>15, <1>16, <4>2 DEF FramesOK
          <5> QED
            BY <3>1, <4>2, <5>1 DEF FrameOK, SameWrites
        <4>3. CASE u = t /\ k # n
          <5>1. k \in DOMAIN stack[t] /\ k < n /\ SameWrites(stack'[t][k], stack[t][k])
            BY <1>2, <1>16, <4>3
          <5>2. FrameOK(x, t, k) /\ LockedOf(t)
            BY <1>3, <5>1 DEF FramesOK, Base, Core, LockInv
          <5>3. ASSUME NEW j \in DOMAIN stack[t], j <= k, stack[t][j].kind = "top" PROVE FALSE
            <6>1. n <= j
              BY <1>2, <3>1, <5>2, <5>3 DEF LockedOf
            <6> QED
              BY <1>2, <5>1, <5>3, <6>1
          <5>4. stack[t][k].wrote = {}
            BY <5>2, <5>3 DEF FrameOK
          <5> QED
            BY <4>3, <5>1, <5>4 DEF SameWrites
        <4> QED
          BY <4>1, <4>2, <4>3
      <3> QED
        BY <3>1, <3>2, <3>3 DEF CommitOK
    <2> QED
      BY <2>1, <2>2
  <1>21. RowsOK(y)'
    <2>1. y.data \subseteq 1 .. statements /\ undone \cap y.data = {} /\ y.committed \subseteq y.data
      BY <1>3, <1>9, <1>18 DEF RowsOK
    <2>2. ASSUME NEW p \in DOMAIN y.savepoints PROVE SavepointOK(y, p)'
      <3>1. p \in DOMAIN S /\ y.savepoints[p] = S[p] /\ q # 1
        BY <1>5, <1>11
      <3>2. SavepointOK(x, p)
        BY <1>3, <3>1 DEF RowsOK, S
      <3> QED
        BY <1>9, <3>1, <3>2 DEF SavepointOK, S
    <2>3. ASSUME NEW p \in DOMAIN y.savepoints, NEW r \in DOMAIN y.savepoints, p < r
          PROVE  y.savepoints[p].name < y.savepoints[r].name
      BY <1>3, <1>11, <2>3 DEF RowsOK, S
    <2> QED
      BY <2>1, <2>2, <2>3 DEF RowsOK
  <1>22. FramesOK(y)'
    <2> SUFFICES ASSUME NEW u \in Tasks, NEW k \in DOMAIN stack'[u] PROVE FrameOK(y, u, k)'
      BY DEF FramesOK
    <2>1. CASE u # t
      BY <1>10, <1>14, <2>1, BystanderFrames DEF TopBecomes
    <2>2. CASE u = t
      <3> DEFINE h == stack'[t][k]
                 e == stack[t][k]
      <3>1. FrameOK(x, t, k) /\ k \in DOMAIN stack[t] /\ SameWrites(h, e)
        BY <1>3, <1>16, <2>2 DEF FramesOK
      <3>2. h.wrote # {} => \E j \in DOMAIN stack'[t] : j <= k /\ stack'[t][j].kind = "top"
        <4>1. DOMAIN stack'[t] = DOMAIN stack[t]
          BY DEF TopBecomes
        <4> QED
          BY <1>16, <3>1, <4>1 DEF FrameOK, SameWrites
      <3>3. h.failed => /\ h.wrote \cap y.data = {}
                        /\ \A p \in DOMAIN y.savepoints : h.wrote \cap y.savepoints[p].rows = {}
        BY <1>9, <1>11, <3>1 DEF FrameOK, SameWrites, S
      <3>4. ASSUME e.kind \in WriterKinds PROVE WriterFrameOK(y, t, k)'
        <4>1. WriterFrameOK(x, t, k) /\ h.name = e.name
          BY <3>1, <3>4 DEF FrameOK, SameWrites
        <4>2. h.name < nextName
          BY <4>1 DEF WriterFrameOK
        <4>3. Gone(t, k)' \/ \E p \in DOMAIN y.savepoints : y.savepoints[p].name = h.name
          <5>1. CASE k = n
            BY <1>2, <1>15, <5>1
          <5>2. CASE k # n
            <6>1. PICK p \in DOMAIN S : p < q /\ S[p].name = e.name
              BY <1>4, <3>1, <3>4, <5>2
            <6>2. p \in 1 .. (q - 1)
              BY <1>5, <6>1
            <6> QED
              BY <1>11, <4>1, <6>1, <6>2
          <5> QED
            BY <5>1, <5>2
        <4>4. ASSUME NEW j \in DOMAIN stack'[t]
              PROVE  /\ j > k /\ stack'[t][j].kind \in WriterKinds => h.name < stack'[t][j].name
                     /\ j < k => \A p \in DOMAIN y.savepoints :
                            y.savepoints[p].name = h.name => stack'[t][j].wrote \subseteq y.savepoints[p].rows
                     /\ j >= k => \A p \in DOMAIN y.savepoints :
                            y.savepoints[p].name <= h.name => stack'[t][j].wrote \cap y.savepoints[p].rows = {}
          <5>1. j \in DOMAIN stack[t] /\ SameWrites(stack'[t][j], stack[t][j])
            BY <1>16
          <5>2. \A p \in DOMAIN y.savepoints : p \in DOMAIN S /\ y.savepoints[p] = S[p]
            BY <1>11
          <5> QED
            BY <4>1, <5>1, <5>2 DEF WriterFrameOK, SameWrites, S
        <4> QED
          BY <4>2, <4>3, <4>4 DEF WriterFrameOK
      <3>5. h.wrote \subseteq 1 .. statements /\ (~ h.failed => h.wrote \subseteq y.data)
        BY <1>9, <3>1 DEF FrameOK, SameWrites
      <3>6. h.kind = e.kind
        BY <3>1 DEF SameWrites
      <3> QED
        BY <2>2, <3>2, <3>3, <3>4, <3>5, <3>6 DEF FrameOK
    <2> QED
      BY <2>1, <2>2
  <1>23. ASSUME Writer \notin leaked PROVE OutermostOK(y)'
    <2>1. OutermostOK(x)
      BY <1>3, <1>23
    <2> SUFFICES ASSUME NEW u \in Tasks, NEW k \in DOMAIN stack'[u], stack'[u][k].kind = "top"
                 PROVE  IF Gone(u, k)' THEN y.savepoints = <<>>
                        ELSE y.savepoints # <<>> /\ y.savepoints[1].name = stack'[u][k].name
      BY <1>1, <1>13 DEF OutermostOK
    <2>2. u = t
      BY <1>14 DEF Bystander, TopBecomes
    <2>3. /\ k \in DOMAIN stack[t] /\ stack[t][k].kind = "top" /\ stack'[t][k].name = stack[t][k].name
          /\ ~ Gone(t, k) /\ (Gone(t, k)' <=> k = n)
      BY <1>15, <1>16, <2>2 DEF SameWrites
    <2>4. S # <<>> /\ S[1].name = stack[t][k].name
      BY <2>1, <2>3 DEF OutermostOK, S
    <2>5. CASE k = n
      <3>1. S[1].name = S[q].name /\ 1 \in DOMAIN S
        BY <1>2, <1>4, <1>5, <2>4, <2>5 DEF name
      <3>2. q = 1
        <4>1. S[1].name \in Nat
          <5>1. S[1] \in Savepoints
            BY <1>5, <3>1
          <5> QED
            BY <5>1 DEF Savepoints
        <4>2. ~ (1 < q)
          BY <1>3, <3>1, <4>1 DEF RowsOK, S
        <4> QED
          BY <1>5, <4>2
      <3>3. y.savepoints = <<>>
        BY <1>10, <1>11, <3>2 DEF States
      <3> QED
        BY <2>2, <2>3, <2>5, <3>3
    <2>6. CASE k # n
      <3>1. PICK p \in DOMAIN S : p < q
        BY <1>4, <2>3, <2>6 DEF WriterKinds
      <3>2. 1 \in 1 .. (q - 1)
        BY <1>5, <3>1
      <3>3. y.savepoints # <<>> /\ y.savepoints[1] = S[1]
        BY <1>11, <3>2
      <3> QED
        BY <2>2, <2>3, <2>4, <2>6, <3>3
    <2> QED
      BY <2>5, <2>6
  <1>24. LastOK(y)'
    BY <1>20, <1>21, <1>22, <1>23 DEF LastOK
  <1>25. \A c : CommitOK(c) => CommitOK(c)'
    BY <1>17
  <1>26. ASSUME Writer \notin leaked, NEW u \in Tasks, NEW k \in DOMAIN stack'[u],
                stack'[u][k].kind = "top", Gone(u, k)', ~ stack'[u][k].failed
         PROVE  u = t /\ stack'[u][k].wrote \subseteq y.committed
    <2>1. u = t
      BY <1>15, <1>26
    <2>2. /\ k = n /\ Top(t).kind = "top" /\ ~ Top(t).failed
          /\ stack'[t][k].wrote = Top(t).wrote
      BY <1>2, <1>15, <1>16, <1>26, <2>1 DEF SameWrites
    <2>3. y.savepoints = <<>>
      BY <1>23, <1>26 DEF OutermostOK
    <2>4. q = 1
      BY <1>5, <1>11, <2>3
    <2>5. FrameOK(x, t, n)
      BY <1>2, <1>3 DEF FramesOK
    <2>6. Top(t).wrote \subseteq x.data
      BY <1>2, <2>2, <2>5 DEF FrameOK
    <2> QED
      BY <1>9, <2>1, <2>2, <2>4, <2>6
  <1>27. Writer \notin leaked =>
            \A u \in Tasks : \A k \in DOMAIN stack'[u] :
               stack'[u][k].kind = "top" /\ Gone(u, k)' /\ ~ stack'[u][k].failed =>
                  u = t /\ stack'[u][k].wrote \subseteq y.committed
    BY <1>26
  <1>28. "RELEASE" \in WriterOps /\ statements' \in Nat /\ statements <= statements'
    BY <1>1 DEF WriterOps
  <1>29. queue' = Sent(Writer, "RELEASE", name, t)
    BY DEF name
  <1> QED
    BY <1>2, <1>6, <1>8, <1>18, <1>24, <1>25, <1>27, <1>28, <1>29, WriterSends

(* ROLLBACK TO: the rows are those of the savepoint, which stays set; all  *)
(* above it are gone.                                                      *)
LEMMA WriterRollsBack ==
    ASSUME Base, NEW tr \in [Nat -> States], NEW x \in States, WriterInvOf(tr, x),
           NEW t \in Tasks, stack[t] # <<>>, NEW g \in Frames, TopBecomes(t, g),
           Top(t).kind \in WriterKinds, g.kind = Top(t).kind, g.name = Top(t).name,
           g.wrote = Top(t).wrote, g.failed = TRUE,
           queue' = Sent(Writer, "ROLLBACK_TO", Top(t).name, t),
           at[t] \notin {"ROLLBACK_TO", "RELEASE"}, at' = [at EXCEPT ![t] = "ROLLBACK_TO"],
           UNCHANGED <<committed, data, savepoints, undone, kept, leaked, lock, nextName>>,
           statements' = statements
    PROVE  WriterInv'
  <1> DEFINE n == Len(stack[t])
             S == x.savepoints
             name == Top(t).name
  <1>1. statements \in Nat /\ NoTask \notin Tasks
    BY PendingType, DBAssumption
  <1>2. /\ n \in Nat /\ DOMAIN stack[t] = 1 .. n /\ n \in DOMAIN stack[t] /\ Top(t) = stack[t][n]
        /\ Top(t) \in Frames /\ name \in Nat
    BY StackFacts DEF Base, Frames
  <1>3. /\ RowsOK(x) /\ FramesOK(x) /\ CommitOK(x.committed) /\ HistoryOK
        /\ Writer \notin leaked => OutermostOK(x)
    BY DEF WriterInvOf, LastOK
  <1>4. PICK q \in DOMAIN S :
              /\ S[q].name = name
              /\ BelowIn(S, name) = q - 1
              /\ \A p \in DOMAIN S : p <= q => S[p].name <= name
              /\ \A k \in DOMAIN stack[t] : k # n /\ stack[t][k].kind \in WriterKinds =>
                    \E p \in DOMAIN S : p < q /\ S[p].name = stack[t][k].name
    BY <1>3, TopSavepoint
  <1>5. /\ S \in Seq(Savepoints) /\ Len(S) \in Nat /\ DOMAIN S = 1 .. Len(S) /\ q \in 1 .. Len(S)
        /\ S # <<>>
    <2>1. S \in Seq(Savepoints)
      BY DEF States
    <2> QED
      BY <2>1
  <1>6. PICK s : s = [op |-> "ROLLBACK_TO", arg |-> name, task |-> t]
    OBVIOUS
  <1>7. s \in Statements /\ s.op = "ROLLBACK_TO" /\ s.arg = name
    BY <1>2, <1>6 DEF Statements
  <1>8. PICK y : y = Exec(x, s)
    OBVIOUS
  <1>9. y.committed = x.committed /\ y.data = S[q].rows /\ y.savepoints = SubSeq(S, 1, q)
    <2>1. /\ y.committed = x.committed
          /\ IF BelowIn(S, name) < Len(S)
             THEN /\ y.data = S[BelowIn(S, name) + 1].rows
                  /\ y.savepoints = SubSeq(S, 1, BelowIn(S, name) + 1)
             ELSE y.data = x.data /\ y.savepoints = S
      BY <1>7, <1>8 DEF Exec, States
    <2>2. q - 1 < Len(S) /\ (q - 1) + 1 = q
      BY <1>5
    <2> QED
      BY <1>4, <2>1, <2>2
  <1>10. y \in States
    BY <1>7, <1>8, ExecType DEF WriterOps
  <1>11. /\ DOMAIN y.savepoints = 1 .. q /\ Len(y.savepoints) = q
         /\ \A p \in 1 .. q : y.savepoints[p] = S[p] /\ p \in DOMAIN S /\ p <= q
    <2>1. q \in Nat /\ q <= Len(S)
      BY <1>5
    <2>2. /\ SubSeq(S, 1, q) \in Seq(Savepoints) /\ Len(SubSeq(S, 1, q)) = q
          /\ \A p \in 1 .. q : SubSeq(S, 1, q)[p] = S[p]
      BY <1>5, <2>1, CutFacts
    <2> QED
      BY <1>5, <1>9, <2>1, <2>2
  <1> HIDE DEF S, name
  <1>12. at'[t] = "ROLLBACK_TO" /\ \A u \in Tasks : u # t => at'[u] = at[u]
    BY DEF Base, TypeOK
  <1>13. lock = t
    BY WritersHoldNone DEF WriterKinds
  <1>14. \A u \in Tasks : u # t => Bystander(u)
    BY <1>3, <1>13, Bystanders
  <1>15. /\ \A u \in Tasks : \A k : ~ Gone(u, k)'
         /\ \A k \in DOMAIN stack[t] : ~ Gone(t, k) /\ stack[t][k].failed = FALSE
    BY <1>12, <1>14, NoneFailed DEF Gone, Bystander
  <1>16. \A k \in DOMAIN stack'[t] :
            /\ k \in DOMAIN stack[t] /\ stack'[t][k].kind = stack[t][k].kind
            /\ stack'[t][k].name = stack[t][k].name /\ stack'[t][k].wrote = stack[t][k].wrote
            /\ stack'[t][k].failed = IF k = n THEN TRUE ELSE FALSE
    BY <1>2, <1>15 DEF TopBecomes
  <1>17. ASSUME NEW c, CommitOK(c) PROVE CommitOK(c)'
    <2>1. ASSUME NEW u \in Tasks, NEW k \in DOMAIN stack'[u] PROVE stack'[u][k].wrote \cap c = {}
      <3>1. CASE u # t
        BY <1>14, <3>1 DEF Bystander, TopBecomes
      <3>2. CASE u = t
        BY <1>15, <1>16, <1>17, <3>2 DEF CommitOK
      <3> QED
        BY <3>1, <3>2
    <2> QED
      BY <1>17, <2>1 DEF CommitOK
  <1>18. RowsOK(y)'
    <2>1. SavepointOK(x, q)
      BY <1>3, <1>4 DEF RowsOK, S
    <2>2. y.data \subseteq 1 .. statements /\ undone \cap y.data = {} /\ y.committed \subseteq y.data
      BY <1>9, <2>1 DEF SavepointOK, S
    <2>3. ASSUME NEW p \in DOMAIN y.savepoints PROVE SavepointOK(y, p)'
      <3>1. p \in DOMAIN S /\ y.savepoints[p] = S[p]
        BY <1>11
      <3>2. SavepointOK(x, p)
        BY <1>3, <3>1 DEF RowsOK, S
      <3> QED
        BY <1>9, <3>1, <3>2 DEF SavepointOK, S
    <2>4. ASSUME NEW p \in DOMAIN y.savepoints, NEW r \in DOMAIN y.savepoints, p < r
          PROVE  y.savepoints[p].name < y.savepoints[r].name
      BY <1>3, <1>11, <2>4 DEF RowsOK, S
    <2> QED
      BY <2>2, <2>3, <2>4 DEF RowsOK
  <1>19. WriterFrameOK(x, t, n)
    BY <1>2, <1>3 DEF FramesOK, FrameOK
  <1>20. FramesOK(y)'
    <2> SUFFICES ASSUME NEW u \in Tasks, NEW k \in DOMAIN stack'[u] PROVE FrameOK(y, u, k)'
      BY DEF FramesOK
    <2>1. CASE u # t
      BY <1>10, <1>14, <2>1, BystanderFrames DEF TopBecomes
    <2>2. CASE u = t
      <3> DEFINE h == stack'[t][k]
                 e == stack[t][k]
      <3>1. /\ FrameOK(x, t, k) /\ k \in DOMAIN stack[t] /\ h.kind = e.kind /\ h.name = e.name
            /\ h.wrote = e.wrote /\ h.failed = IF k = n THEN TRUE ELSE FALSE
        BY <1>3, <1>16, <2>2 DEF FramesOK
      <3>2. h.wrote # {} => \E j \in DOMAIN stack'[t] : j <= k /\ stack'[t][j].kind = "top"
        <4>1. DOMAIN stack'[t] = DOMAIN stack[t]
          BY DEF TopBecomes
        <4> QED
          BY <1>16, <3>1, <4>1 DEF FrameOK
      <3>3. h.failed => /\ h.wrote \cap y.data = {}
                        /\ \A p \in DOMAIN y.savepoints : h.wrote \cap y.savepoints[p].rows = {}
        <4>1. k = n => \A p \in DOMAIN S : S[p].name <= name => e.wrote \cap S[p].rows = {}
          BY <1>2, <1>19 DEF WriterFrameOK, S, name
        <4>2. k = n => \A p \in DOMAIN S : p <= q => e.wrote \cap S[p].rows = {}
          BY <1>4, <4>1
        <4>3. q \in DOMAIN S /\ q <= q
          BY <1>5
        <4>4. k = n => e.wrote \cap y.data = {}
          BY <1>9, <4>2, <4>3
        <4>5. k = n => \A p \in DOMAIN y.savepoints : e.wrote \cap y.savepoints[p].rows = {}
          BY <1>11, <4>2
        <4> QED
          BY <3>1, <4>4, <4>5
      <3>4. ASSUME e.kind \in WriterKinds PROVE WriterFrameOK(y, t, k)'
        <4>1. WriterFrameOK(x, t, k) /\ h.name = e.name
          BY <3>1, <3>4 DEF FrameOK
        <4>2. h.name < nextName
          BY <4>1 DEF WriterFrameOK
        <4>3. \E p \in DOMAIN y.savepoints : y.savepoints[p].name = h.name
          <5>1. PICK p \in DOMAIN S : p <= q /\ S[p].name = e.name
            <6>1. CASE k = n
              BY <1>2, <1>4, <1>5, <6>1 DEF name
            <6>2. CASE k # n
              <7>1. PICK p \in DOMAIN S : p < q /\ S[p].name = e.name
                BY <1>4, <3>1, <3>4, <6>2
              <7> QED
                BY <1>5, <7>1
            <6> QED
              BY <6>1, <6>2
          <5>2. p \in 1 .. q
            BY <1>5, <5>1
          <5> QED
            BY <1>11, <4>1, <5>1, <5>2
        <4>4. ASSUME NEW j \in DOMAIN stack'[t]
              PROVE  /\ j > k /\ stack'[t][j].kind \in WriterKinds => h.name < stack'[t][j].name
                     /\ j < k => \A p \in DOMAIN y.savepoints :
                            y.savepoints[p].name = h.name => stack'[t][j].wrote \subseteq y.savepoints[p].rows
                     /\ j >= k => \A p \in DOMAIN y.savepoints :
                            y.savepoints[p].name <= h.name => stack'[t][j].wrote \cap y.savepoints[p].rows = {}
          <5>1. /\ j \in DOMAIN stack[t] /\ stack'[t][j].kind = stack[t][j].kind
                /\ stack'[t][j].name = stack[t][j].name /\ stack'[t][j].wrote = stack[t][j].wrote
            BY <1>16
          <5>2. \A p \in DOMAIN y.savepoints : p \in DOMAIN S /\ y.savepoints[p] = S[p]
            BY <1>11
          <5> QED
            BY <4>1, <5>1, <5>2 DEF WriterFrameOK, S
        <4> QED
          BY <4>2, <4>3, <4>4 DEF WriterFrameOK
      <3>5. h.wrote \subseteq 1 .. statements
        BY <3>1 DEF FrameOK
      <3>6. ~ h.failed => h.wrote \subseteq y.data
        <4> SUFFICES ASSUME ~ h.failed PROVE e.wrote \subseteq S[q].rows
          BY <1>9, <3>1
        <4>1. k < n
          BY <1>2, <3>1
        <4> QED
          BY <1>2, <1>4, <1>19, <3>1, <4>1 DEF WriterFrameOK, S, name
      <3> QED
        BY <2>2, <3>1, <3>2, <3>3, <3>4, <3>5, <3>6 DEF FrameOK
    <2> QED
      BY <2>1, <2>2
  <1>21. ASSUME Writer \notin leaked PROVE OutermostOK(y)'
    <2>1. OutermostOK(x)
      BY <1>3, <1>21
    <2> SUFFICES ASSUME NEW u \in Tasks, NEW k \in DOMAIN stack'[u], stack'[u][k].kind = "top"
                 PROVE  y.savepoints # <<>> /\ y.savepoints[1].name = stack'[u][k].name
      BY <1>1, <1>13, <1>15 DEF OutermostOK
    <2>2. u = t
      BY <1>14 DEF Bystander, TopBecomes
    <2>3. /\ k \in DOMAIN stack[t] /\ stack[t][k].kind = "top" /\ stack'[t][k].name = stack[t][k].name
          /\ ~ Gone(t, k)
      BY <1>15, <1>16, <2>2
    <2>4. S[1].name = stack[t][k].name
      BY <2>1, <2>3 DEF OutermostOK, S
    <2>5. 1 \in 1 .. q
      BY <1>5
    <2>6. y.savepoints # <<>> /\ y.savepoints[1] = S[1]
      BY <1>11, <2>5
    <2> QED
      BY <2>2, <2>3, <2>4, <2>6
  <1>22. LastOK(y)'
    BY <1>3, <1>9, <1>17, <1>18, <1>20, <1>21 DEF LastOK
  <1>23. \A c : CommitOK(c) => CommitOK(c)'
    BY <1>17
  <1>24. \A u \in Tasks : \A k \in DOMAIN stack'[u] :
            stack'[u][k].kind = "top" /\ Gone(u, k)' /\ ~ stack'[u][k].failed =>
               u = t /\ stack'[u][k].wrote \subseteq y.committed
    BY <1>15
  <1>25. "ROLLBACK_TO" \in WriterOps /\ statements' \in Nat /\ statements <= statements'
    BY <1>1 DEF WriterOps
  <1>26. queue' = Sent(Writer, "ROLLBACK_TO", name, t) /\ x.committed \subseteq y.committed
    BY <1>9 DEF name
  <1> QED
    BY <1>2, <1>6, <1>8, <1>22, <1>23, <1>24, <1>25, <1>26, WriterSends

------------------------------------------------------------------------------
(* What every step does to the writing connection.                         *)

LEMMA WriterInit ==
    ASSUME Init
    PROVE  WriterInv
  <1>1. PICK x : x = Current
    OBVIOUS
  <1>2. PICK tr : tr = [i \in Nat |-> x]
    OBVIOUS
  <1>3. x \in States /\ x.committed = {} /\ x.data = {} /\ x.savepoints = <<>>
    BY <1>1 DEF Init, Current, States, Savepoints
  <1>4. tr \in [Nat -> States] /\ \A i \in Nat : tr[i] = x
    BY <1>2, <1>3
  <1>5. Pending = 0 /\ queue[Writer] = <<>>
    BY DEF Init, Conns, Pending
  <1>6. IsTrace(tr, x)
    BY <1>1, <1>4, <1>5 DEF IsTrace
  <1>7. \A t \in Tasks : stack[t] = <<>> /\ DOMAIN stack[t] = {}
    BY DEF Init
  <1>8. CommitOK({})
    BY <1>7 DEF CommitOK
  <1>9. CommitsOK(tr)
    <2>1. \A i \in 1 .. (Pending + 1) : i \in Nat /\ tr[i].committed = {}
      BY <1>3, <1>4, <1>5
    <2>2. \A i \in 1 .. (Pending + 1) : \A j \in 1 .. i : j \in 1 .. (Pending + 1)
      BY <1>5
    <2> QED
      BY <1>8, <2>1, <2>2 DEF CommitsOK
  <1>10. LastOK(x)
    <2>1. RowsOK(x)
      BY <1>3 DEF RowsOK
    <2>2. FramesOK(x) /\ OutermostOK(x)
      BY <1>3, <1>7 DEF FramesOK, OutermostOK
    <2> QED
      BY <1>3, <1>8, <2>1, <2>2 DEF LastOK
  <1>11. KeptOK(tr) /\ HistoryOK
    BY <1>7 DEF Init, KeptOK, ReleasedOK, HistoryOK
  <1>12. WriterInvOf(tr, x)
    BY <1>6, <1>9, <1>10, <1>11 DEF WriterInvOf
  <1> QED
    BY <1>3, <1>4, <1>12 DEF WriterInv

(* A step that sends the writing connection nothing, with its contexts as  *)
(* they are.                                                               *)
LEMMA WriterIdle ==
    ASSUME Base, WriterInv, WriterRests, UNCHANGED <<undone, kept, lock, leaked, stack>>,
           \A t \in Tasks : at'[t] = "RELEASE" <=> at[t] = "RELEASE"
    PROVE  WriterInv'
  <1>1. PICK tr \in [Nat -> States], x \in States : WriterInvOf(tr, x)
    BY DEF WriterInv
  <1>2. \A t \in Tasks :
          /\ Len(stack'[t]) = Len(stack[t]) /\ DOMAIN stack'[t] = DOMAIN stack[t]
          /\ \A k \in DOMAIN stack[t] : SameWrites(stack'[t][k], stack[t][k])
    BY DEF SameWrites
  <1>3. WriterInvOf(tr, x)'
    BY <1>1, <1>2, WriterKeeps
  <1> QED
    BY <1>3 DEF WriterInv

LEMMA WriterOpens ==
    ASSUME Base, WriterInv, NEW t \in Tasks, NEW maybe \in BOOLEAN, OpenWriter(t, maybe)
    PROVE  WriterInv'
  <1>1. /\ at[t] = "body" /\ statements' = statements
        /\ UNCHANGED <<undone, kept, leaked, lock, committed, data, savepoints>>
    BY DEF OpenWriter, Opens, dbFile, history
  <1>2. statements \in Nat /\ nextName \in Nat /\ Writer \in Conns /\ statements <= statements
    BY PendingType
  <1>3. PICK tr \in [Nat -> States], x \in States : WriterInvOf(tr, x)
    BY DEF WriterInv
  <1>4. CASE at' = [at EXCEPT ![t] = "lock"] /\ UNCHANGED <<queue, nextName, stack>>
    <2>1. \A u \in Tasks : at'[u] = "RELEASE" <=> at[u] = "RELEASE"
      BY <1>1, <1>4 DEF Base, TypeOK
    <2>2. WriterRests
      BY <1>1, <1>2, <1>4 DEF WriterRests
    <2> QED
      BY <1>1, <1>4, <2>1, <2>2, WriterIdle
  <1>5. CASE /\ currentWriter = t /\ Push(t, Frame("nested", nextName, Writer, FALSE))
             /\ queue' = Sent(Writer, "SAVEPOINT", nextName, t) /\ nextName' = nextName + 1
             /\ at' = [at EXCEPT ![t] = "SAVEPOINT"]
    <2> DEFINE f == Frame("nested", nextName, Writer, FALSE)
    <2>1. /\ f \in Frames /\ f.kind = "nested" /\ f.name = nextName /\ f.wrote = {} /\ f.failed = FALSE
      BY <1>2 DEF Frame, Frames, NoRows
    <2> HIDE DEF f
    <2>2. lock = t /\ \E k \in DOMAIN stack[t] : stack[t][k].kind = "top"
      BY <1>5 DEF Base, Core, LockInv, WritingOf
    <2>3. Push(t, f) /\ f.kind \in WriterKinds /\ f.kind # "top" /\ lock' = t
      BY <1>1, <1>5, <2>1, <2>2 DEF f, WriterKinds
    <2>4. at[t] # "RELEASE" /\ at[t] # "ROLLBACK_TO"
      BY <1>1
    <2> QED
      BY <1>1, <1>3, <1>5, <2>1, <2>2, <2>3, <2>4, WriterSavepoint
  <1>6. CASE /\ Push(t, Frame("joined", 0, Writer, FALSE))
             /\ UNCHANGED <<queue, nextName, at>>
    <2> DEFINE f == Frame("joined", 0, Writer, FALSE)
    <2>1. f \in Frames /\ f.kind = "joined" /\ f.wrote = {} /\ f.failed = FALSE
      BY <1>2 DEF Frame, Frames, NoRows
    <2> HIDE DEF f
    <2>2. WriterRests
      BY <1>1, <1>2, <1>6 DEF WriterRests
    <2>3. /\ Push(t, f) /\ at[t] # "RELEASE" /\ at'[t] # "RELEASE"
          /\ f.kind \notin {"top", "nested"}
          /\ \A u \in Tasks : u # t => at'[u] = at[u]
      BY <1>1, <1>6, <2>1 DEF f
    <2>4. WriterInvOf(tr, x)'
      BY <1>1, <1>3, <2>1, <2>2, <2>3, WriterPush
    <2> QED
      BY <2>4 DEF WriterInv
  <1> QED
    BY <1>4, <1>5, <1>6 DEF OpenWriter

LEMMA WriterTakesLock ==
    ASSUME Base, WriterInv, NEW t \in Tasks, TakeLock(t)
    PROVE  WriterInv'
  <1>1. /\ at[t] = "lock" /\ lock = NoTask /\ lock' = t
        /\ Push(t, Frame("top", nextName, Writer, FALSE))
        /\ queue' = Sent(Writer, "SAVEPOINT", nextName, t) /\ nextName' = nextName + 1
        /\ at' = [at EXCEPT ![t] = "SAVEPOINT"]
        /\ UNCHANGED <<committed, data, savepoints, undone, kept, leaked, statements>>
    BY DEF TakeLock, dbFile, history, counters
  <1>2. statements \in Nat /\ nextName \in Nat /\ Writer \in Conns
    BY PendingType
  <1>3. PICK tr \in [Nat -> States], x \in States : WriterInvOf(tr, x)
    BY DEF WriterInv
  <1> DEFINE f == Frame("top", nextName, Writer, FALSE)
  <1>4. f \in Frames /\ f.kind = "top" /\ f.name = nextName /\ f.wrote = {} /\ f.failed = FALSE
    BY <1>2 DEF Frame, Frames, NoRows
  <1>5. Push(t, f)
    BY <1>1
  <1> HIDE DEF f
  <1>6. f.kind \in WriterKinds /\ at[t] # "RELEASE" /\ at[t] # "ROLLBACK_TO"
    BY <1>1, <1>4 DEF WriterKinds
  <1> QED
    BY <1>1, <1>3, <1>4, <1>5, <1>6, WriterSavepoint

(* A reader is entered.                                                    *)
LEMMA WriterConnected ==
    ASSUME Base, WriterInv, NEW t \in Tasks, NEW kind \in {"reader", "plain"}, NEW conn \in Conns,
           NEW holds \in BOOLEAN, Connected(t, Frame(kind, 0, conn, holds)),
           at[t] # "RELEASE", UNCHANGED <<dbFile, lock, nextName, statements, history>>
    PROVE  WriterInv'
  <1> DEFINE e == Frame(kind, 0, conn, holds)
             begins == Begins(e)
             since == IF e.holds THEN committed ELSE {}
             f == [e EXCEPT !.begins = begins, !.since = since]
  <1>1. /\ e \in Frames /\ e.kind = kind /\ e.conn = conn /\ e.wrote = {} /\ e.failed = FALSE
    BY DEF Frame, Frames, NoRows
  <1>2. /\ Push(t, f)
        /\ \/ begins /\ queue' = Sent(conn, "BEGIN", 0, t) /\ at' = [at EXCEPT ![t] = "BEGIN"]
           \/ ~ begins /\ queue' = queue /\ at' = [at EXCEPT ![t] = "body"]
    BY <1>1 DEF Connected
  <1> HIDE DEF e
  <1>3. begins \in BOOLEAN /\ (begins => conn # Writer) /\ since \in SUBSET Rows
    <2>1. committed \in SUBSET Rows /\ begun \in [Readers -> BOOLEAN]
      BY DEF Base, TypeOK
    <2> QED
      BY <1>1, <2>1 DEF Begins
  <1> HIDE DEF begins, since
  <1>4. f \in Frames /\ f.kind = kind /\ f.wrote = {} /\ f.failed = FALSE
    BY <1>1, <1>3 DEF Frames
  <1> HIDE DEF f
  <1>5. queue'[Writer] = queue[Writer]
    <2>1. CASE begins
      <3>1. [op |-> "BEGIN", arg |-> 0, task |-> t] \in Statements /\ Writer \in Conns /\ TypeOK
        BY DEF Statements, Conns, Base
      <3> QED
        BY <1>2, <1>3, <2>1, <3>1, SentFacts
    <2>2. CASE ~ begins
      BY <1>2, <2>2
    <2> QED
      BY <2>1, <2>2
  <1>6. at'[t] # "RELEASE" /\ \A u \in Tasks : u # t => at'[u] = at[u]
    BY <1>2 DEF Base, TypeOK
  <1>7. WriterRests
    BY <1>5, PendingType DEF WriterRests, dbFile
  <1>8. PICK tr \in [Nat -> States], x \in States : WriterInvOf(tr, x)
    BY DEF WriterInv
  <1>9. f.kind \notin {"top", "nested"}
    BY <1>4
  <1>10. UNCHANGED <<undone, kept, lock>> /\ leaked' = leaked
    BY DEF history
  <1>11. WriterInvOf(tr, x)'
    BY <1>2, <1>4, <1>6, <1>7, <1>8, <1>9, <1>10, WriterPush
  <1> QED
    BY <1>11 DEF WriterInv

LEMMA WriterOpensReader ==
    ASSUME Base, WriterInv, NEW t \in Tasks, NEW kind \in {"reader", "plain"}, OpenReader(t, kind)
    PROVE  WriterInv'
  <1>1. /\ at[t] = "body" /\ UNCHANGED <<dbFile, lock, nextName, statements, history>>
    BY DEF OpenReader, Opens
  <1>2. Writer \in Conns /\ inUse[t] \in Conns /\ statements \in Nat
    BY PendingType DEF Base, TypeOK
  <1>3. CASE Connected(t, Frame(kind, 0, Writer, FALSE))
    BY <1>1, <1>2, <1>3, WriterConnected
  <1>4. CASE Connected(t, Frame(kind, 0, inUse[t], FALSE))
    BY <1>1, <1>2, <1>4, WriterConnected
  <1>5. CASE at' = [at EXCEPT ![t] = "pool"] /\ UNCHANGED <<queue, stack>>
    <2>1. \A u \in Tasks : at'[u] = "RELEASE" <=> at[u] = "RELEASE"
      BY <1>1, <1>5 DEF Base, TypeOK
    <2>2. WriterRests
      BY <1>1, <1>2, <1>5 DEF WriterRests, dbFile
    <2> QED
      BY <1>1, <1>5, <2>1, <2>2, WriterIdle DEF history
  <1> QED
    BY <1>3, <1>4, <1>5 DEF OpenReader

LEMMA WriterTakesConnection ==
    ASSUME Base, WriterInv, NEW t \in Tasks, TakeConnection(t)
    PROVE  WriterInv'
  <1>1. /\ at[t] = "pool" /\ pool # <<>> /\ poolWaiters # <<>>
        /\ Connected(t, Frame(Head(poolWaiters).kind, 0, Head(pool), TRUE))
        /\ UNCHANGED <<dbFile, lock, nextName, statements, history>>
    BY DEF TakeConnection, counters
  <1>2. Head(pool) \in Conns
    <2>1. pool \in Seq(Readers)
      BY DEF Base, TypeOK
    <2> QED
      BY <1>1, <2>1 DEF Conns
  <1>3. Head(poolWaiters).kind \in {"reader", "plain"}
    <2>1. poolWaiters \in Seq([task : Tasks, kind : {"reader", "plain"}])
      BY DEF Base, TypeOK
    <2>2. Head(poolWaiters) \in [task : Tasks, kind : {"reader", "plain"}]
      BY <1>1, <2>1, HeadTailProperties
    <2> QED
      BY <2>2
  <1> QED
    BY <1>1, <1>2, <1>3, WriterConnected

LEMMA WriterGoesOn ==
    ASSUME Base, WriterInv, NEW t \in Tasks, EnterWriter(t) \/ EnterReader(t) \/ Continue(t)
    PROVE  WriterInv'
  <1>1. /\ at[t] \in {"SAVEPOINT", "BEGIN", "statement"} /\ at' = [at EXCEPT ![t] = "body"]
        /\ UNCHANGED <<dbFile, queue, lock, nextName, stack, counters, history>>
    BY DEF EnterWriter, EnterReader, Continue, access
  <1>2. \A u \in Tasks : at'[u] = "RELEASE" <=> at[u] = "RELEASE"
    BY <1>1 DEF Base, TypeOK
  <1>3. WriterRests
    BY <1>1, PendingType DEF WriterRests, dbFile, counters
  <1> QED
    BY <1>1, <1>2, <1>3, WriterIdle DEF history

LEMMA WriterStatement ==
    ASSUME Base, WriterInv, NEW t \in Tasks, Write(t)
    PROVE  WriterInv'
  <1> DEFINE g == [Top(t) EXCEPT !.wrote = @ \cup {statements + 1}]
  <1>1. /\ at[t] = "body" /\ stack[t] # <<>> /\ Top(t).kind \in {"top", "nested", "joined"}
        /\ statements' = statements + 1 /\ queue' = Sent(Writer, "write", statements + 1, t)
        /\ stack' = WithTop(t, g) /\ at' = [at EXCEPT ![t] = "statement"]
        /\ UNCHANGED <<committed, data, savepoints, undone, kept, leaked, lock, nextName>>
    BY DEF Write, Executes, dbFile, access, history
  <1>2. Top(t) \in Frames /\ statements + 1 \in Rows
    BY <1>1, StackFacts, PendingType DEF Base, Rows
  <1>3. /\ g \in Frames /\ g.kind = Top(t).kind /\ g.name = Top(t).name /\ g.failed = Top(t).failed
        /\ g.wrote = Top(t).wrote \cup {statements + 1}
    BY <1>2 DEF Frames
  <1> HIDE DEF g
  <1>4. TopBecomes(t, g)
    BY <1>1, <1>3, TopFacts
  <1>5. PICK tr \in [Nat -> States], x \in States : WriterInvOf(tr, x)
    BY DEF WriterInv
  <1> QED
    BY <1>1, <1>3, <1>4, <1>5, WriterWrites

(* A statement of a reader goes to another connection.                     *)
LEMMA ReaderSends ==
    ASSUME Base, WriterInv, NEW t \in Tasks, NEW c \in Readers, NEW op \in {"SELECT", "ROLLBACK"},
           queue' = Sent(c, op, 0, t), NEW w \in {"statement", "ROLLBACK"},
           at[t] # "RELEASE", at' = [at EXCEPT ![t] = w],
           UNCHANGED <<committed, data, savepoints, undone, kept, leaked, lock, nextName, stack>>,
           statements' \in Nat, statements <= statements'
    PROVE  WriterInv'
  <1>1. [op |-> op, arg |-> 0, task |-> t] \in Statements /\ Writer \in Conns /\ c \in Conns
        /\ c # Writer /\ TypeOK
    BY DBAssumption DEF Statements, Conns, Base
  <1>2. queue'[Writer] = queue[Writer]
    BY <1>1, SentFacts
  <1>3. WriterRests
    BY <1>2 DEF WriterRests
  <1>4. \A u \in Tasks : at'[u] = "RELEASE" <=> at[u] = "RELEASE"
    BY DEF Base, TypeOK
  <1> QED
    BY <1>3, <1>4, WriterIdle

LEMMA WriterSelect ==
    ASSUME Base, WriterInv, NEW t \in Tasks, Select(t)
    PROVE  WriterInv'
  <1>1. /\ at[t] = "body" /\ stack[t] # <<>> /\ Top(t).conn # Writer
        /\ statements' = statements + 1 /\ queue' = Sent(Top(t).conn, "SELECT", 0, t)
        /\ at' = [at EXCEPT ![t] = "statement"]
        /\ UNCHANGED <<committed, data, savepoints, undone, kept, leaked, lock, nextName, stack>>
    BY DEF Select, Executes, dbFile, access, history
  <1>2. Top(t).conn \in Readers
    <2>1. Top(t) \in Frames
      BY <1>1, StackFacts DEF Base
    <2> QED
      BY <1>1, <2>1 DEF Frames, Conns
  <1>3. statements' \in Nat /\ statements <= statements'
    BY <1>1, PendingType
  <1> QED
    BY <1>1, <1>2, <1>3, ReaderSends

(* A context of a reader, or one that joined a writer, ends.               *)
LEMMA WriterEndReader ==
    ASSUME Base, WriterInv, NEW t \in Tasks, stack[t] # <<>>, EndReader(t),
           at[t] \notin {"ROLLBACK_TO", "RELEASE"}, Top(t).kind \notin WriterKinds,
           UNCHANGED <<dbFile, queue, lock, nextName, statements, undone, kept>>,
           Writer \in leaked' <=> Writer \in leaked
    PROVE  WriterInv'
  <1>1. PICK tr \in [Nat -> States], x \in States : WriterInvOf(tr, x)
    BY DEF WriterInv
  <1>2. Top(t).failed = FALSE /\ Top(t).kind # "top"
    <2>1. Len(stack[t]) \in DOMAIN stack[t] /\ Top(t) = stack[t][Len(stack[t])]
      BY StackFacts DEF Base
    <2> QED
      BY <2>1, NoneFailed DEF WriterKinds
  <1>3. stack' = Popped(t) /\ at' = [at EXCEPT ![t] = "body"]
    BY DEF EndReader
  <1>4. UNCHANGED <<committed, data, savepoints, nextName, statements>> /\ queue'[Writer] = queue[Writer]
    BY DEF dbFile
  <1>5. WriterInvOf(tr, x)'
    BY <1>1, <1>2, <1>3, <1>4, WriterPop
  <1> QED
    BY <1>5 DEF WriterInv

(* A context with a savepoint ends.                                        *)
LEMMA WriterEndWriter ==
    ASSUME Base, WriterInv, NEW t \in Tasks, EndWriter(t),
           UNCHANGED <<dbFile, queue, nextName, statements>>,
           \/ /\ at[t] = "SAVEPOINT" /\ kept' = kept
              /\ leaked' = IF Top(t).kind = "top" THEN leaked \cup {Writer} ELSE leaked
           \/ /\ at[t] = "RELEASE" /\ leaked' = leaked
              /\ \/ kept' = kept
                 \/ /\ kept' = kept \cup Top(t).wrote /\ Top(t).kind = "top" /\ ~ Top(t).failed
                    /\ Done(t)
    PROVE  WriterInv'
  <1>1. PICK tr \in [Nat -> States], x \in States : WriterInvOf(tr, x)
    BY DEF WriterInv
  <1>2. stack[t] # <<>> /\ Top(t).kind \in WriterKinds
    BY DEF Base, Core, Shape, ShapeOf
  <1>3. Top(t).conn = Writer
    BY <1>2, WritersHoldNone DEF WriterKinds
  <1>4. /\ stack' = Popped(t) /\ at' = [at EXCEPT ![t] = "body"]
        /\ lock' = IF Top(t).kind = "top" THEN NoTask ELSE lock
        /\ undone' = IF Top(t).failed THEN undone \cup Top(t).wrote ELSE undone
    BY DEF EndWriter
  <1>5. UNCHANGED <<committed, data, savepoints, nextName, statements>> /\ queue'[Writer] = queue[Writer]
    BY DEF dbFile
  <1>6. Done(t) => \A j \in 1 .. Pending : queue[Writer][j].task # t
    BY <1>3, PendingType DEF Done
  <1>7. Writer \notin leaked' =>
              /\ Writer \notin leaked
              /\ lock' = IF Top(t).kind = "top" THEN NoTask ELSE lock
              /\ Top(t).kind = "top" => at[t] = "RELEASE"
    BY <1>4
  <1>8. \/ kept' = kept
        \/ /\ kept' = kept \cup Top(t).wrote
           /\ Top(t).kind = "top" /\ ~ Top(t).failed /\ at[t] = "RELEASE"
           /\ \A j \in 1 .. Pending : queue[Writer][j].task # t
    BY <1>6
  <1>9. WriterInvOf(tr, x)'
    BY <1>1, <1>2, <1>4, <1>5, <1>7, <1>8, WriterPop
  <1> QED
    BY <1>9 DEF WriterInv

LEMMA WriterLeaves ==
    ASSUME Base, WriterInv, NEW t \in Tasks, NEW failing \in BOOLEAN, LeaveBody(t, failing),
           at[t] \in {"body", "statement"}, stack[t] # <<>>, UNCHANGED <<history, statements>>
    PROVE  WriterInv'
  <1>1. PICK tr \in [Nat -> States], x \in States : WriterInvOf(tr, x)
    BY DEF WriterInv
  <1>2. /\ UNCHANGED <<dbFile, lock, nextName>> /\ statements \in Nat
        /\ UNCHANGED <<committed, data, savepoints, undone, kept, leaked, lock, nextName>>
    BY PendingType DEF LeaveBody, dbFile, history
  <1>3. /\ Top(t) \in Frames /\ Top(t).failed = FALSE
        /\ Len(stack[t]) \in DOMAIN stack[t] /\ Top(t) = stack[t][Len(stack[t])]
    BY StackFacts, NoneFailed DEF Base
  <1>4. at[t] \notin {"ROLLBACK_TO", "RELEASE"} /\ at[t] # "RELEASE"
    OBVIOUS
  <1>5. CASE LeaveWriter(t, failing)
    <2> DEFINE g == [Top(t) EXCEPT !.failed = failing]
    <2>1. /\ Top(t).kind \in WriterKinds /\ stack' = WithTop(t, g)
          /\ queue' = Sent(Writer, Ending(failing), Top(t).name, t)
          /\ at' = [at EXCEPT ![t] = Ending(failing)]
      BY <1>5 DEF LeaveWriter, SavepointName, WriterKinds
    <2>2. /\ g \in Frames /\ g.failed = failing /\ g.kind = Top(t).kind /\ g.name = Top(t).name
          /\ g.wrote = Top(t).wrote
      BY <1>3 DEF Frames
    <2> HIDE DEF g
    <2>3. TopBecomes(t, g)
      BY <2>1, <2>2, TopFacts
    <2>4. CASE failing = FALSE
      <3>1. SameWrites(g, Top(t)) /\ Ending(failing) = "RELEASE"
        BY <1>3, <2>2, <2>4 DEF SameWrites, Ending
      <3> QED
        BY <1>1, <1>2, <1>4, <2>1, <2>2, <2>3, <3>1, WriterReleases
    <2>5. CASE failing = TRUE
      <3>1. Ending(failing) = "ROLLBACK_TO" /\ g.failed = TRUE
        BY <2>2, <2>5 DEF Ending
      <3> QED
        BY <1>1, <1>2, <1>4, <2>1, <2>2, <2>3, <3>1, WriterRollsBack
    <2> QED
      BY <2>4, <2>5
  <1>6. CASE LeaveReader(t)
    <2>1. Top(t).kind \notin WriterKinds
      BY <1>6 DEF LeaveReader, WriterKinds
    <2>2. CASE /\ Top(t).begins /\ queue' = Sent(Top(t).conn, "ROLLBACK", 0, t)
               /\ at' = [at EXCEPT ![t] = "ROLLBACK"] /\ stack' = stack
      <3>1. Top(t).conn \in Readers
        <4>1. Top(t).conn # Writer
          BY <1>3, <2>2 DEF Base, Core, Shape, ShapeOf
        <4> QED
          BY <1>3, <4>1 DEF Frames, Conns
      <3>2. statements' \in Nat /\ statements <= statements'
        BY <1>2
      <3> QED
        BY <1>2, <1>4, <2>2, <3>1, <3>2, ReaderSends
    <2>3. CASE EndReader(t) /\ queue' = queue
      BY <1>2, <1>4, <2>1, <2>3, WriterEndReader
    <2> QED
      BY <1>6, <2>2, <2>3 DEF LeaveReader
  <1> QED
    BY <1>5, <1>6 DEF LeaveBody

LEMMA WriterRolledBack ==
    ASSUME Base, WriterInv, NEW t \in Tasks, RolledBack(t), UNCHANGED <<history, statements>>
    PROVE  WriterInv'
  <1>1. /\ at[t] = "ROLLBACK_TO" /\ queue' = Sent(Writer, "RELEASE", Top(t).name, t)
        /\ at' = [at EXCEPT ![t] = "RELEASE"] /\ stack' = stack
        /\ UNCHANGED <<committed, data, savepoints, undone, kept, leaked, lock, nextName>>
    BY DEF RolledBack, dbFile, access, history
  <1>2. stack[t] # <<>> /\ Top(t).kind \in WriterKinds
    BY <1>1 DEF Base, Core, Shape, ShapeOf
  <1>3. Top(t) \in Frames
    BY <1>2, StackFacts DEF Base
  <1>4. TopBecomes(t, Top(t)) /\ SameWrites(Top(t), Top(t))
    BY <1>1, <1>2, <1>3, TopFacts DEF SameWrites
  <1>5. PICK tr \in [Nat -> States], x \in States : WriterInvOf(tr, x)
    BY DEF WriterInv
  <1>6. PICK g \in Frames : g = Top(t)
    BY <1>3
  <1>7. TopBecomes(t, g) /\ SameWrites(g, Top(t)) /\ at[t] # "RELEASE"
    BY <1>1, <1>4, <1>6
  <1> QED
    BY <1>1, <1>2, <1>5, <1>7, WriterReleases

LEMMA WriterCancel ==
    ASSUME Base, WriterInv, NEW t \in Tasks, Cancel(t)
    PROVE  WriterInv'
  <1>1. UNCHANGED statements /\ statements \in Nat
    BY PendingType DEF Cancel
  <1>2. CASE /\ at[t] \in {"lock", "pool"} /\ at' = [at EXCEPT ![t] = "body"]
             /\ UNCHANGED <<dbFile, queue, lock, nextName, stack, history>>
    <2>1. \A u \in Tasks : at'[u] = "RELEASE" <=> at[u] = "RELEASE"
      BY <1>2 DEF Base, TypeOK
    <2>2. WriterRests
      BY <1>1, <1>2 DEF WriterRests, dbFile
    <2> QED
      BY <1>2, <2>1, <2>2, WriterIdle DEF history
  <1>3. CASE at[t] = "statement" /\ LeaveBody(t, TRUE) /\ UNCHANGED history
    <2>1. stack[t] # <<>>
      BY <1>3 DEF Base, Core, Shape, ShapeOf
    <2> QED
      BY <1>1, <1>3, <2>1, WriterLeaves
  <1>4. CASE /\ at[t] = "SAVEPOINT" /\ EndWriter(t)
             /\ leaked' = IF Top(t).kind = "top" THEN leaked \cup {Writer} ELSE leaked
             /\ UNCHANGED <<dbFile, queue, nextName, kept>>
    BY <1>1, <1>4, WriterEndWriter
  <1>5. CASE /\ at[t] \in {"BEGIN", "ROLLBACK"} /\ EndReader(t)
             /\ leaked' = leaked \cup {Top(t).conn}
             /\ UNCHANGED <<dbFile, queue, lock, nextName, kept, undone>>
    <2>1. /\ stack[t] # <<>> /\ Top(t).kind = "reader" /\ Top(t).conn \in Readers
      BY <1>5, BeginsIsReader
    <2>2. Top(t).kind \notin WriterKinds /\ Writer # Top(t).conn
      BY <2>1, DBAssumption DEF WriterKinds
    <2>3. Writer \in leaked' <=> Writer \in leaked
      BY <1>5, <2>2
    <2>4. at[t] \notin {"ROLLBACK_TO", "RELEASE"}
      BY <1>5
    <2> QED
      BY <1>1, <1>5, <2>1, <2>2, <2>3, <2>4, WriterEndReader
  <1>6. CASE RolledBack(t) /\ UNCHANGED history
    BY <1>1, <1>6, WriterRolledBack
  <1>7. CASE /\ at[t] = "RELEASE" /\ EndWriter(t)
             /\ UNCHANGED <<dbFile, queue, nextName, kept, leaked>>
    BY <1>1, <1>7, WriterEndWriter
  <1> QED
    BY <1>2, <1>3, <1>4, <1>5, <1>6, <1>7 DEF Cancel

(* The threads of the readers.                                             *)
LEMMA WriterIgnores ==
    ASSUME Base, WriterInv, NEW c \in Readers, RunStatement(c)
    PROVE  WriterInv'
  <1> DEFINE s == Head(queue[c])
             t == s.task
             reads == s.op = "SELECT" /\ at[t] = "statement" /\ Awaited(c)
  <1>1. /\ queue[c] # <<>> /\ queue' = [queue EXCEPT ![c] = Tail(@)] /\ RunOnReader(c, s)
        /\ UNCHANGED <<committed, data, savepoints, access, nextName, counters, history>>
    BY DBAssumption DEF RunStatement
  <1>2. Writer \in Conns /\ c \in Conns /\ c # Writer /\ TypeOK
    BY DBAssumption DEF Conns, Base
  <1>3. queue'[Writer] = queue[Writer] /\ s \in Statements
    BY <1>1, <1>2, TailFacts
  <1>4. t \in Tasks
    BY <1>3 DEF Statements
  <1>5. PICK tr \in [Nat -> States], x \in States : WriterInvOf(tr, x)
    BY DEF WriterInv
  <1>6. WriterRests /\ UNCHANGED <<undone, kept, lock, leaked>>
    BY <1>1, <1>3, PendingType DEF WriterRests, access, counters, history
  <1>7. /\ (at' = [at EXCEPT ![t] = "error"] /\ at[t] = "BEGIN") \/ at' = at
        /\ stack' = IF reads THEN WithTop(t, [Top(t) EXCEPT !.seen = Visible(c)]) ELSE stack
    BY <1>1 DEF RunOnReader
  <1> HIDE DEF s, t
  <1>8. \A u \in Tasks : at'[u] = "RELEASE" <=> at[u] = "RELEASE"
    BY <1>4, <1>7 DEF Base, TypeOK
  <1>9. \A u \in Tasks :
          /\ Len(stack'[u]) = Len(stack[u]) /\ DOMAIN stack'[u] = DOMAIN stack[u]
          /\ \A k \in DOMAIN stack[u] : SameWrites(stack'[u][k], stack[u][k])
    <2>1. CASE ~ reads
      <3>1. stack' = stack
        BY <1>7, <2>1
      <3> QED
        BY <3>1 DEF SameWrites
    <2>2. CASE reads
      <3> DEFINE g == [Top(t) EXCEPT !.seen = Visible(c)]
      <3>1. stack[t] # <<>>
        BY <1>4, <2>2 DEF Base, Core, Shape, ShapeOf
      <3>2. Top(t) \in Frames /\ Top(t) = stack[t][Len(stack[t])]
        BY <1>4, <3>1, StackFacts DEF Base
      <3>3. Visible(c) \in SUBSET Nat
        BY <1>2 DEF Visible, TypeOK, Rows
      <3>4. g \in Frames /\ SameWrites(g, Top(t))
        BY <3>2, <3>3 DEF Frames, SameWrites
      <3>5. stack' = WithTop(t, g)
        BY <1>7, <2>2
      <3> HIDE DEF g
      <3>6. TopBecomes(t, g)
        BY <1>4, <3>1, <3>4, <3>5, TopFacts
      <3>7. ASSUME NEW u \in Tasks, NEW k \in DOMAIN stack[u]
            PROVE  SameWrites(stack'[u][k], stack[u][k])
        <4>1. CASE u = t /\ k = Len(stack[t])
          BY <3>2, <3>4, <3>6, <4>1 DEF TopBecomes
        <4>2. CASE ~ (u = t /\ k = Len(stack[t]))
          <5>1. stack'[u][k] = stack[u][k]
            BY <3>6, <3>7, <4>2 DEF TopBecomes
          <5> QED
            BY <5>1 DEF SameWrites
        <4> QED
          BY <4>1, <4>2
      <3> QED
        BY <3>6, <3>7 DEF TopBecomes
    <2> QED
      BY <2>1, <2>2
  <1>10. WriterInvOf(tr, x)'
    BY <1>5, <1>6, <1>8, <1>9, WriterKeeps
  <1> QED
    BY <1>10 DEF WriterInv

LEMMA WriterStep ==
    ASSUME Base, WriterInv, [Next]_vars
    PROVE  WriterInv'
  <1>1. CASE UNCHANGED vars
    <2>1. /\ WriterRests /\ UNCHANGED <<undone, kept, lock, leaked, stack, at>>
      BY <1>1, PendingType DEF vars, dbFile, access, counters, history, WriterRests
    <2> QED
      BY <2>1, WriterIdle
  <1>2. ASSUME NEW c \in Conns, RunStatement(c) PROVE WriterInv'
    <2>1. CASE c = Writer
      BY <1>2, <2>1, WriterRuns DEF WriterInv
    <2>2. CASE c # Writer
      BY <1>2, <2>2, WriterIgnores DEF Conns
    <2> QED
      BY <2>1, <2>2
  <1>3. ASSUME NEW t \in Tasks, Step(t) PROVE WriterInv'
    <2>1. CASE TakeLock(t)
      BY <2>1, WriterTakesLock
    <2>2. CASE TakeConnection(t)
      BY <2>2, WriterTakesConnection
    <2>3. CASE EnterWriter(t) \/ EnterReader(t) \/ Continue(t)
      BY <2>3, WriterGoesOn
    <2>4. CASE \E failing \in BOOLEAN : Leave(t, failing)
      BY <2>4, WriterLeaves DEF Leave, counters
    <2>5. CASE BeginFails(t) \/ ReaderEnds(t)
      <3>1. /\ at[t] \in {"error", "ROLLBACK"} /\ EndReader(t)
            /\ UNCHANGED <<dbFile, queue, lock, nextName, statements, undone, kept, leaked>>
        BY <2>5 DEF BeginFails, ReaderEnds, counters, history
      <3>2. stack[t] # <<>> /\ Top(t).kind \notin WriterKinds
        BY <3>1, BeginsIsReader DEF WriterKinds
      <3>3. at[t] \notin {"ROLLBACK_TO", "RELEASE"}
        BY <3>1
      <3> QED
        BY <3>1, <3>2, <3>3, WriterEndReader
    <2>6. CASE Finally(t)
      BY <2>6, WriterRolledBack DEF Finally, counters
    <2>7. CASE Released(t)
      <3>1. /\ at[t] = "RELEASE" /\ Done(t) /\ EndWriter(t) /\ leaked' = leaked
            /\ UNCHANGED <<dbFile, queue, nextName, statements>>
            /\ kept' = IF Top(t).kind = "top" /\ ~ Top(t).failed THEN kept \cup Top(t).wrote ELSE kept
        BY <2>7 DEF Released, counters
      <3> QED
        BY <3>1, WriterEndWriter
    <2> QED
      BY <1>3, <2>1, <2>2, <2>3, <2>4, <2>5, <2>6, <2>7 DEF Step
  <1>4. ASSUME NEW t \in Tasks, NEW maybe \in BOOLEAN, OpenWriter(t, maybe) PROVE WriterInv'
    BY <1>4, WriterOpens
  <1>5. ASSUME NEW t \in Tasks, NEW kind \in {"reader", "plain"}, OpenReader(t, kind) PROVE WriterInv'
    BY <1>5, WriterOpensReader
  <1>6. ASSUME NEW t \in Tasks, Write(t) \/ Select(t) \/ Cancel(t) PROVE WriterInv'
    BY <1>6, WriterStatement, WriterSelect, WriterCancel
  <1> QED
    BY <1>1, <1>2, <1>3, <1>4, <1>5, <1>6 DEF Next

------------------------------------------------------------------------------
(* Atomicity.                                                              *)

(* Tasks and connections stay as Base has them, and the writing connection *)
(* as WriterInv has it: every state its thread will go through has only    *)
(* rows that may be committed.                                             *)
THEOREM WriterInvariance == Spec => [](Base /\ WriterInv)
  <1>1. Init => Base /\ WriterInv
    BY BaseInit, WriterInit
  <1>2. Base /\ WriterInv /\ [Next]_vars => (Base /\ WriterInv)'
    BY BaseStep, WriterStep
  <1> QED
    BY <1>1, <1>2, PTL DEF Spec

(* The state the connection is in is the first of the trace.               *)
LEMMA CommittedOK ==
    ASSUME Base, WriterInv
    PROVE  CommitOK(committed) /\ KeptIsCommitted
  <1>1. PICK tr \in [Nat -> States], x \in States : WriterInvOf(tr, x)
    BY DEF WriterInv
  <1>2. 1 \in 1 .. (Pending + 1)
    BY PendingType
  <1>3. CommitOK(tr[1].committed) /\ tr[1] = Current /\ KeptOK(tr)
    BY <1>1, <1>2 DEF WriterInvOf, CommitsOK, IsTrace
  <1>4. tr[1].committed = committed
    BY <1>3 DEF Current
  <1> QED
    BY <1>3, <1>4 DEF KeptOK, KeptIsCommitted

(* What a context wrote before an exception or a cancellation ended it is  *)
(* never in the database: neither its own RELEASE in _savepoint_ctx        *)
(* commits it, nor that of a writer around it.                             *)
THEOREM RollbackHolds == Spec => []UndoneNeverCommitted
  <1>1. Base /\ WriterInv => UndoneNeverCommitted
    BY CommittedOK DEF CommitOK, UndoneNeverCommitted
  <1> QED
    BY <1>1, WriterInvariance, PTL

(* What an outermost writer wrote is in the database once it has ended     *)
(* without an exception, unless the await of an outermost SAVEPOINT was    *)
(* cancelled before.                                                       *)
THEOREM CommitHolds == Spec => []KeptIsCommitted
  <1>1. Base /\ WriterInv => KeptIsCommitted
    BY CommittedOK
  <1> QED
    BY <1>1, WriterInvariance, PTL

(* No reader of another connection sees a row before the outermost writer  *)
(* of it has sent RELEASE.                                                 *)
THEOREM OpenTransactionsHidden == Spec => []OpenIsHidden
  <1>1. Base /\ WriterInv => OpenIsHidden
    <2> SUFFICES ASSUME Base, WriterInv, NEW t \in Tasks, NEW i \in DOMAIN stack[t]
                 PROVE  \/ at[t] = "RELEASE" /\ stack[t][i].kind = "top"
                        \/ stack[t][i].wrote \cap committed = {}
      BY DEF OpenIsHidden
    <2> QED
      BY CommittedOK DEF CommitOK, Gone
  <1> QED
    BY <1>1, WriterInvariance, PTL

(* Rows stay in the database.                                              *)
LEMMA CommittedGrows ==
    ASSUME Base, WriterInv, [Next]_vars
    PROVE  committed \subseteq committed'
  <1>1. CASE RunStatement(Writer)
    <2> DEFINE s == Head(queue[Writer])
    <2>1. /\ queue[Writer] # <<>> /\ queue' = [queue EXCEPT ![Writer] = Tail(@)] /\ RunOnWriter(s)
      BY <1>1, DBAssumption DEF RunStatement
    <2>2. Pending \in Nat /\ Pending > 0 /\ s = queue[Writer][1] /\ s \in Statements /\ TypeOK
      <3>1. TypeOK /\ Writer \in Conns
        BY DEF Base, Conns
      <3> QED
        BY <2>1, <3>1, TailFacts DEF Pending
    <2>3. PICK tr \in [Nat -> States], x \in States : WriterInvOf(tr, x)
      BY DEF WriterInv
    <2>4. 1 \in 1 .. Pending /\ 2 \in 1 .. (Pending + 1) /\ 1 \in 1 .. 2 /\ 1 + 1 = 2
      BY <2>2
    <2>5. tr[1] = Current /\ tr[2] = Exec(Current, s)
      BY <2>2, <2>3, <2>4 DEF WriterInvOf, IsTrace
    <2>6. tr[1].committed \subseteq tr[2].committed
      BY <2>3, <2>4 DEF WriterInvOf, CommitsOK
    <2>7. Current' = tr[2]
      BY <2>1, <2>2, <2>5, RunIsExec
    <2>8. Current'.committed = committed' /\ Current.committed = committed
      BY DEF Current
    <2> QED
      BY <2>5, <2>6, <2>7, <2>8
  <1>2. ASSUME NEW c \in Conns, RunStatement(c), c # Writer PROVE committed' = committed
    BY <1>2 DEF RunStatement
  <1>3. ASSUME NEW t \in Tasks, Step(t) PROVE committed' = committed
    BY <1>3 DEF Step, TakeLock, EnterWriter, TakeConnection, EnterReader, Continue, Leave, LeaveBody,
                BeginFails, Finally, RolledBack, Released, ReaderEnds, dbFile
  <1>4. ASSUME NEW t \in Tasks, Cancel(t) PROVE committed' = committed
    BY <1>4 DEF Cancel, LeaveBody, RolledBack, dbFile
  <1>5. ASSUME NEW t \in Tasks, \/ \E maybe \in BOOLEAN : OpenWriter(t, maybe)
                                \/ \E kind \in {"reader", "plain"} : OpenReader(t, kind)
                                \/ Write(t) \/ Select(t)
        PROVE  committed' = committed
    BY <1>5 DEF OpenWriter, OpenReader, Write, Select, dbFile
  <1>6. CASE UNCHANGED vars
    BY <1>6 DEF vars, dbFile
  <1> QED
    BY <1>1, <1>2, <1>3, <1>4, <1>5, <1>6 DEF Next

------------------------------------------------------------------------------
(* Isolation: what every step does to the reading connections.             *)

LEMMA ReaderInit ==
    ASSUME Init
    PROVE  ReaderInv
  <1>1. \A t \in Tasks : DOMAIN stack[t] = {} /\ at[t] = "body"
    BY DEF Init
  <1>2. \A r \in Readers : ~ begun[r] /\ snap[r] = NoRows /\ DOMAIN queue[r] = {}
    BY DEF Init, Conns
  <1>3. IdleOK
    BY <1>2 DEF IdleOK, Quiet, OnlySelects
  <1>4. \A t \in Tasks : ReaderOf(t)
    BY <1>1 DEF ReaderOf, BeginsOf
  <1> QED
    BY <1>3, <1>4 DEF ReaderInv

(* A read connection is used by the contexts of one task.                  *)
LEMMA OneUser ==
    ASSUME Base, NEW t \in Tasks, NEW i \in DOMAIN stack[t]
    PROVE  /\ stack[t][i] \in Frames /\ i \in 1 .. Len(stack[t]) /\ Len(stack[t]) \in Nat
           /\ stack[t][i].begins => stack[t][i].kind = "reader" /\ stack[t][i].conn \in Readers
           /\ stack[t][i].conn \in Readers => stack[t][i].conn = inUse[t]
           /\ stack[t][i].conn \in Readers =>
                 \A u \in Tasks : \A j \in DOMAIN stack[u] : stack[u][j].conn = stack[t][i].conn => u = t
  <1>1. \A u \in Tasks : \A j \in DOMAIN stack[u] :
          /\ stack[u][j] \in Frames /\ j \in 1 .. Len(stack[u]) /\ Len(stack[u]) \in Nat
    BY StackFacts DEF Base
  <1>2. \A u \in Tasks : \A j \in DOMAIN stack[u] :
          /\ stack[u][j].begins => stack[u][j].kind = "reader" /\ stack[u][j].conn # Writer
          /\ stack[u][j].conn # Writer => stack[u][j].conn = inUse[u]
    BY DEF Base, Core, Shape, ShapeOf, Holding, HoldingOf
  <1>3. \A u \in Tasks : \A j \in DOMAIN stack[u] : stack[u][j].conn \in Conns
    BY <1>1 DEF Frames
  <1>4. \A u, v \in Tasks : inUse[u] = inUse[v] => u = v \/ inUse[u] = Writer
    BY DEF Base, Core, PoolInv
  <1> QED
    BY <1>1, <1>2, <1>3, <1>4, DBAssumption DEF Conns

(* Contexts g and h are the same to the reading connections.               *)
SameReads(g, h) ==
    g.kind = h.kind /\ g.conn = h.conn /\ g.begins = h.begins /\ g.since = h.since /\ g.seen = h.seen

(* Of connection r nothing changes.                                        *)
ConnRests(r) == queue'[r] = queue[r] /\ begun'[r] = begun[r] /\ snap'[r] = snap[r]

(* BEGIN and ROLLBACK are awaited as before, or not.                       *)
AwaitsRest(u) ==
    \/ at'[u] = at[u]
    \/ /\ at[u] \notin {"BEGIN", "ROLLBACK", "error"}
       /\ at'[u] \notin {"BEGIN", "ROLLBACK", "error"}

LEMMA ConnFacts ==
    ASSUME NEW r, ConnRests(r)
    PROVE  /\ OnlySelects(r)' <=> OnlySelects(r)
           /\ Quiet(r)' <=> Quiet(r)
           /\ \A op, t : LastSent(r, op, t)' <=> LastSent(r, op, t)
  <1>1. OnlySelects(r)' <=> OnlySelects(r)
    BY DEF OnlySelects, ConnRests
  <1> QED
    BY <1>1 DEF Quiet, LastSent, ConnRests

LEMMA ReaderOfRests ==
    ASSUME Base, NEW u \in Tasks, ReaderOf(u),
           Len(stack'[u]) = Len(stack[u]), DOMAIN stack'[u] = DOMAIN stack[u],
           \A k \in DOMAIN stack[u] : SameReads(stack'[u][k], stack[u][k]),
           AwaitsRest(u), committed \subseteq committed', leaked \subseteq leaked',
           \A k \in DOMAIN stack[u] : stack[u][k].conn \in Readers => ConnRests(stack[u][k].conn)
    PROVE  ReaderOf(u)'
  <1>1. BeginsOf(u)'
    <2> SUFFICES ASSUME NEW i \in DOMAIN stack'[u], NEW r \in Readers \ leaked',
                        stack'[u][i].begins, stack'[u][i].conn = r
                 PROVE  Began(u, i, r)' /\ \A j \in DOMAIN stack'[u] : stack'[u][j].begins => i = j
      BY DEF BeginsOf
    <2>1. /\ i \in DOMAIN stack[u] /\ stack[u][i].begins /\ BeginsOf(u)
          /\ r \in Readers \ leaked /\ stack[u][i].conn = r
      BY DEF SameReads, ReaderOf
    <2>2. \A j \in DOMAIN stack'[u] : stack'[u][j].begins => i = j
      BY <2>1 DEF BeginsOf, SameReads
    <2>3. Began(u, i, r) /\ ConnRests(r)
      BY <2>1 DEF BeginsOf
    <2>4. /\ OnlySelects(r)' <=> OnlySelects(r)
          /\ Quiet(r)' <=> Quiet(r)
          /\ \A op, t : LastSent(r, op, t)' <=> LastSent(r, op, t)
          /\ begun'[r] = begun[r] /\ snap'[r] = snap[r]
      BY <2>3, ConnFacts DEF ConnRests
    <2>5. (at'[u] = "BEGIN" <=> at[u] = "BEGIN") /\ (at'[u] = "ROLLBACK" <=> at[u] = "ROLLBACK")
      BY DEF AwaitsRest
    <2>6. Began(u, i, r)'
      BY <2>3, <2>4, <2>5 DEF Began
    <2> QED
      BY <2>2, <2>6
  <1>2. at'[u] = "error" => Top(u)'.conn \in leaked'
    <2> SUFFICES ASSUME at'[u] = "error" PROVE Top(u)'.conn \in leaked'
      OBVIOUS
    <2>1. at[u] = "error" /\ Top(u).conn \in leaked
      BY DEF AwaitsRest, ReaderOf
    <2>2. stack[u] # <<>>
      BY <2>1 DEF Base, Core, Shape, ShapeOf
    <2>3. Len(stack[u]) \in DOMAIN stack[u] /\ Top(u) = stack[u][Len(stack[u])]
      BY <2>2, StackFacts DEF Base
    <2>4. Top(u)' = stack'[u][Len(stack[u])]
      BY DEF Top, Last
    <2> QED
      BY <2>1, <2>3, <2>4 DEF SameReads
  <1>3. ASSUME NEW i \in DOMAIN stack'[u] PROVE ReadsOK(u, i)'
    <2>1. i \in DOMAIN stack[u] /\ ReadsOK(u, i) /\ SameReads(stack'[u][i], stack[u][i])
      BY DEF ReaderOf
    <2>2. at'[u] = "ROLLBACK" <=> at[u] = "ROLLBACK"
      BY DEF AwaitsRest
    <2>3. \A j \in DOMAIN stack[u] : j \in DOMAIN stack'[u] /\ stack'[u][j].begins = stack[u][j].begins
      BY DEF SameReads
    <2>4. stack[u][i].conn \in Readers => snap'[stack[u][i].conn] = snap[stack[u][i].conn]
      BY <2>1 DEF ConnRests
    <2> QED
      BY <2>1, <2>2, <2>3, <2>4 DEF ReadsOK, SameReads
  <1> QED
    BY <1>1, <1>2, <1>3 DEF ReaderOf

(* Steps that leave the reading connections and their contexts alone.      *)
LEMMA ReaderRests ==
    ASSUME Base, ReaderInv, committed \subseteq committed', leaked \subseteq leaked',
           \A r \in Readers : ConnRests(r),
           \A u \in Tasks :
              /\ Len(stack'[u]) = Len(stack[u]) /\ DOMAIN stack'[u] = DOMAIN stack[u]
              /\ \A k \in DOMAIN stack[u] : SameReads(stack'[u][k], stack[u][k])
              /\ AwaitsRest(u)
    PROVE  ReaderInv'
  <1>1. \A u \in Tasks : ReaderOf(u)'
    BY ReaderOfRests DEF ReaderInv
  <1>2. IdleOK'
    <2> SUFFICES ASSUME NEW r \in Readers \ leaked', Unused(r)' PROVE Quiet(r)'
      BY DEF IdleOK
    <2>1. r \in Readers \ leaked /\ Unused(r)
      BY DEF Unused, SameReads
    <2>2. Quiet(r) /\ ConnRests(r)
      BY <2>1 DEF ReaderInv, IdleOK
    <2> QED
      BY <2>2, ConnFacts
  <1> QED
    BY <1>1, <1>2 DEF ReaderInv

(* BEGIN returns, so the connection is in a transaction.                   *)
LEMMA ReaderEnters ==
    ASSUME Base, ReaderInv, NEW t \in Tasks, EnterReader(t)
    PROVE  ReaderInv'
  <1>1. /\ at[t] = "BEGIN" /\ Done(t) /\ at' = [at EXCEPT ![t] = "body"]
        /\ UNCHANGED <<committed, begun, snap, queue, stack, leaked>>
    BY DEF EnterReader, dbFile, history
  <1>2. at'[t] = "body" /\ \A u \in Tasks : u # t => at'[u] = at[u]
    BY <1>1 DEF Base, TypeOK
  <1>3. \A r \in Readers : ConnRests(r)
    BY <1>1 DEF ConnRests
  <1>4. \A u \in Tasks : u # t => ReaderOf(u)'
    BY <1>1, <1>2, <1>3, ReaderOfRests DEF ReaderInv, SameReads, AwaitsRest
  <1>5. ReaderOf(t)'
    <2>1. BeginsOf(t)'
      <3> SUFFICES ASSUME NEW i \in DOMAIN stack[t], NEW r \in Readers \ leaked,
                          stack[t][i].begins, stack[t][i].conn = r
                   PROVE  Began(t, i, r)' /\ \A j \in DOMAIN stack[t] : stack[t][j].begins => i = j
        BY <1>1 DEF BeginsOf
      <3>1. Began(t, i, r) /\ \A j \in DOMAIN stack[t] : stack[t][j].begins => i = j
        BY DEF ReaderInv, ReaderOf, BeginsOf
      <3>2. Len(stack[t]) \in DOMAIN stack[t] /\ Top(t) = stack[t][Len(stack[t])] /\ Top(t).begins
        BY <1>1, BeginsIsReader, StackFacts DEF Base
      <3>3. i = Len(stack[t]) /\ Top(t).conn = r
        BY <3>1, <3>2
      <3>4. ~ LastSent(r, "BEGIN", t)
        <4>1. queue[r] \in Seq(Statements)
          BY DEF Base, TypeOK, Conns
        <4> QED
          BY <1>1, <3>3, <4>1 DEF LastSent, Done
      <3>5. OnlySelects(r) /\ begun[r]
        BY <1>1, <3>1, <3>3, <3>4 DEF Began
      <3>6. OnlySelects(r)' /\ begun'[r]
        BY <1>3, <3>5, ConnFacts DEF ConnRests
      <3> QED
        BY <1>2, <3>1, <3>6 DEF Began
    <2>2. ASSUME NEW i \in DOMAIN stack'[t] PROVE ReadsOK(t, i)'
      <3>1. i \in DOMAIN stack[t] /\ ReadsOK(t, i)
        BY <1>1 DEF ReaderInv, ReaderOf
      <3> QED
        BY <1>1, <1>2, <3>1 DEF ReadsOK
    <2> QED
      BY <1>2, <2>1, <2>2 DEF ReaderOf
  <1>6. IdleOK'
    <2> SUFFICES ASSUME NEW r \in Readers \ leaked', Unused(r)' PROVE Quiet(r)'
      BY DEF IdleOK
    <2>1. r \in Readers \ leaked /\ Unused(r)
      BY <1>1 DEF Unused
    <2>2. Quiet(r) /\ ConnRests(r)
      BY <1>3, <2>1 DEF ReaderInv, IdleOK
    <2> QED
      BY <2>2, ConnFacts
  <1> QED
    BY <1>4, <1>5, <1>6 DEF ReaderInv

LEMMA IdleRests ==
    ASSUME ReaderInv, leaked \subseteq leaked', NEW r \in Readers \ leaked', Unused(r), ConnRests(r)
    PROVE  Quiet(r)'
  <1>1. Quiet(r)
    BY DEF ReaderInv, IdleOK
  <1> QED
    BY <1>1, ConnFacts

(* A context ends; if it sent BEGIN, its transaction has ended too, or the *)
(* connection has been left with it.                                       *)
LEMMA ReaderPops ==
    ASSUME Base, ReaderInv, NEW t \in Tasks, stack[t] # <<>>, stack' = Popped(t),
           at' = [at EXCEPT ![t] = "body"], committed' = committed, leaked \subseteq leaked',
           \A r \in Readers : ConnRests(r),
           \A r \in Readers : Top(t).begins /\ Top(t).conn = r => r \in leaked' \/ Quiet(r)
    PROVE  ReaderInv'
  <1> DEFINE n == Len(stack[t])
  <1>1. /\ n \in Nat /\ n > 0 /\ DOMAIN stack[t] = 1 .. n /\ n \in DOMAIN stack[t]
        /\ Top(t) = stack[t][n]
    BY StackFacts DEF Base
  <1>2. /\ \A u \in Tasks : u # t => stack'[u] = stack[u]
        /\ Len(stack'[t]) = n - 1 /\ DOMAIN stack'[t] = 1 .. (n - 1)
        /\ \A i \in 1 .. (n - 1) : SameReads(stack'[t][i], stack[t][i])
    BY PopFacts DEF Base, KeepsAllBut, SameReads
  <1>3. at'[t] = "body" /\ \A u \in Tasks : u # t => at'[u] = at[u]
    BY DEF Base, TypeOK
  <1>4. \A i \in DOMAIN stack'[t] : /\ i \in DOMAIN stack[t] /\ i < n /\ i # n
                                    /\ SameReads(stack'[t][i], stack[t][i])
    BY <1>1, <1>2
  <1>5. \A u \in Tasks : u # t => ReaderOf(u)'
    BY <1>2, <1>3, ReaderOfRests DEF ReaderInv, SameReads, AwaitsRest
  <1>6. ReaderOf(t)'
    <2>1. ReaderOf(t) /\ BeginsOf(t)
      BY DEF ReaderInv, ReaderOf
    <2>2. BeginsOf(t)'
      <3> SUFFICES ASSUME NEW i \in DOMAIN stack'[t], NEW r \in Readers \ leaked',
                          stack'[t][i].begins, stack'[t][i].conn = r
                   PROVE  Began(t, i, r)' /\ \A j \in DOMAIN stack'[t] : stack'[t][j].begins => i = j
        BY DEF BeginsOf
      <3>1. /\ i \in DOMAIN stack[t] /\ i # n /\ stack[t][i].begins /\ stack[t][i].conn = r
            /\ r \in Readers \ leaked
        BY <1>4 DEF SameReads
      <3>2. Began(t, i, r) /\ \A j \in DOMAIN stack'[t] : stack'[t][j].begins => i = j
        BY <1>4, <2>1, <3>1 DEF BeginsOf, SameReads
      <3>3. OnlySelects(r) /\ begun[r]
        BY <3>1, <3>2 DEF Began
      <3>4. OnlySelects(r)' /\ begun'[r]
        BY <3>3, ConnFacts DEF ConnRests
      <3> QED
        BY <1>3, <3>2, <3>4 DEF Began
    <2>3. ASSUME NEW i \in DOMAIN stack'[t] PROVE ReadsOK(t, i)'
      <3>1. /\ i \in DOMAIN stack[t] /\ i # n /\ i < n /\ ReadsOK(t, i)
            /\ SameReads(stack'[t][i], stack[t][i])
        BY <1>4, <2>1 DEF ReaderOf
      <3>2. ASSUME NEW j \in DOMAIN stack[t], j <= i, stack[t][j].begins
            PROVE  j \in DOMAIN stack'[t] /\ stack'[t][j].begins
        <4>1. j \in 1 .. (n - 1)
          BY <1>1, <3>1, <3>2
        <4> QED
          BY <1>2, <3>2, <4>1 DEF SameReads
      <3>3. stack[t][i].conn \in Readers => snap'[stack[t][i].conn] = snap[stack[t][i].conn]
        BY DEF ConnRests
      <3> QED
        BY <3>1, <3>2, <3>3 DEF ReadsOK, SameReads
    <2> QED
      BY <1>3, <2>2, <2>3 DEF ReaderOf
  <1>7. IdleOK'
    <2> SUFFICES ASSUME NEW r \in Readers \ leaked', Unused(r)' PROVE Quiet(r)'
      BY DEF IdleOK
    <2>1. CASE Top(t).begins /\ Top(t).conn = r
      BY <2>1, ConnFacts
    <2>2. CASE ~ (Top(t).begins /\ Top(t).conn = r)
      <3>1. ASSUME NEW u \in Tasks, NEW i \in DOMAIN stack[u], stack[u][i].begins
            PROVE  stack[u][i].conn # r
        <4>1. CASE u # t
          BY <1>2, <3>1, <4>1 DEF Unused
        <4>2. CASE u = t /\ i = n
          BY <1>1, <2>2, <3>1, <4>2
        <4>3. CASE u = t /\ i # n
          <5>1. i \in 1 .. (n - 1)
            BY <1>1, <4>3
          <5> QED
            BY <1>2, <3>1, <4>3, <5>1 DEF Unused, SameReads
        <4> QED
          BY <4>1, <4>2, <4>3
      <3> QED
        BY <3>1, IdleRests DEF Unused
    <2> QED
      BY <2>1, <2>2
  <1> QED
    BY <1>5, <1>6, <1>7 DEF ReaderInv

(* A context is entered.  A reader sends BEGIN if its connection is not in *)
(* a transaction, and then no reader around it has sent one.               *)
LEMMA ReaderPushes ==
    ASSUME Base, ReaderInv, NEW t \in Tasks, NEW f \in Frames, Push(t, f),
           at[t] \in {"body", "lock", "pool"}, NEW w \in {"SAVEPOINT", "BEGIN", "body"},
           at' = [at EXCEPT ![t] = w], UNCHANGED <<committed, leaked, begun, snap>>,
           f.seen = NoRows, f.since = {} \/ (f.holds /\ f.since = committed),
           f.holds => f.conn # Writer,
           f.conn # Writer => IF f.holds THEN inUse[t] = Writer /\ \A u \in Tasks : inUse[u] # f.conn
                              ELSE f.conn = inUse[t],
           f.begins => f.kind = "reader" /\ f.conn # Writer,
           f.kind = "reader" /\ f.conn # Writer => (f.begins <=> ~ begun[f.conn]),
           IF f.begins THEN queue' = Sent(f.conn, "BEGIN", 0, t) /\ w = "BEGIN"
           ELSE w # "BEGIN" /\ \A r \in Readers : queue'[r] = queue[r]
    PROVE  ReaderInv'
  <1> DEFINE n == Len(stack[t])
             c == f.conn
  <1>1. /\ \A u \in Tasks : u # t => stack'[u] = stack[u]
        /\ Len(stack'[t]) = n + 1 /\ DOMAIN stack'[t] = 1 .. (n + 1)
        /\ \A i \in 1 .. n : stack'[t][i] = stack[t][i]
        /\ stack'[t][n + 1] = f /\ n \in Nat /\ DOMAIN stack[t] = 1 .. n
    BY PushFacts, StackFacts DEF Base
  <1>2. at'[t] = w /\ \A u \in Tasks : u # t => at'[u] = at[u]
    BY DEF Base, TypeOK
  <1>3. c \in Conns /\ (c # Writer <=> c \in Readers)
    BY DBAssumption DEF Frames, Conns
  <1>4. \A u \in Tasks : \A i \in DOMAIN stack[u] : stack[u][i].conn \in Readers /\ stack[u][i].conn = c =>
           u = t /\ ~ f.holds
    BY <1>3, OneUser DEF Base, Core, PoolInv
  <1>5. f.begins => /\ queue'[c] # <<>> /\ Len(queue'[c]) = Len(queue[c]) + 1 /\ Len(queue[c]) \in Nat
                    /\ \A i \in 1 .. Len(queue[c]) : queue'[c][i] = queue[c][i]
                    /\ DOMAIN queue[c] = 1 .. Len(queue[c])
                    /\ queue'[c][Len(queue[c]) + 1].op = "BEGIN"
                    /\ queue'[c][Len(queue[c]) + 1].task = t
                    /\ \A d \in Conns : d # c => queue'[d] = queue[d]
    <2>1. [op |-> "BEGIN", arg |-> 0, task |-> t] \in Statements /\ TypeOK
      BY DEF Statements, Base
    <2> QED
      BY <1>3, <2>1, SentFacts
  <1>6. \A r \in Readers : ~ (f.begins /\ r = c) => ConnRests(r)
    BY <1>5 DEF ConnRests, Conns
  <1>7. \A u \in Tasks : ReaderOf(u) /\ BeginsOf(u)
    BY DEF ReaderInv, ReaderOf
  <1>8. \A i \in DOMAIN stack[t] : \A r \in Readers \ leaked :
           stack[t][i].begins /\ stack[t][i].conn = r => OnlySelects(r) /\ begun[r]
    BY <1>7 DEF BeginsOf, Began
  <1>9. c \in Readers \ leaked /\ (f.begins \/ f.holds) => Unused(c) /\ Quiet(c)
    <2> SUFFICES ASSUME c \in Readers \ leaked, f.begins \/ f.holds PROVE Unused(c)
      BY DEF ReaderInv, IdleOK
    <2> SUFFICES ASSUME NEW u \in Tasks, NEW i \in DOMAIN stack[u], stack[u][i].begins,
                        stack[u][i].conn = c
                 PROVE  FALSE
      BY DEF Unused
    <2>1. u = t /\ ~ f.holds
      BY <1>4
    <2>2. begun[c]
      BY <1>8, <2>1
    <2> QED
      BY <1>3, <2>1, <2>2
  <1>10. ASSUME NEW u \in Tasks, u # t PROVE ReaderOf(u)'
    <2>1. \A k \in DOMAIN stack[u] : stack[u][k].conn \in Readers => ConnRests(stack[u][k].conn)
      BY <1>4, <1>6, <1>10
    <2>2. /\ Len(stack'[u]) = Len(stack[u]) /\ DOMAIN stack'[u] = DOMAIN stack[u]
          /\ \A k \in DOMAIN stack[u] : SameReads(stack'[u][k], stack[u][k])
          /\ AwaitsRest(u)
      BY <1>1, <1>2, <1>10 DEF SameReads, AwaitsRest
    <2> QED
      BY <1>7, <2>1, <2>2, ReaderOfRests
  <1>11. \A i \in DOMAIN stack'[t] :
            \/ i \in DOMAIN stack[t] /\ stack'[t][i] = stack[t][i]
            \/ i = n + 1 /\ stack'[t][i] = f
    BY <1>1
  <1>12. BeginsOf(t)'
    <2> SUFFICES ASSUME NEW i \in DOMAIN stack'[t], NEW r \in Readers \ leaked,
                        stack'[t][i].begins, stack'[t][i].conn = r
                 PROVE  Began(t, i, r)' /\ \A j \in DOMAIN stack'[t] : stack'[t][j].begins => i = j
      BY DEF BeginsOf
    <2>1. CASE f.begins
      <3>1. ASSUME NEW j \in DOMAIN stack'[t], stack'[t][j].begins PROVE j = n + 1
        <4> SUFFICES ASSUME j \in DOMAIN stack[t], stack'[t][j] = stack[t][j] PROVE FALSE
          BY <1>11
        <4>1. stack[t][j].conn \in Readers /\ stack[t][j].conn = inUse[t]
          BY <3>1, OneUser
        <4>2. c = inUse[t] /\ c \in Readers
          BY <1>3, <2>1, <4>1, DBAssumption
        <4>3. r = c
          BY <1>11, <4>2, OneUser
        <4> QED
          BY <1>9, <2>1, <3>1, <4>1, <4>2, <4>3 DEF Unused
      <3>2. i = n + 1 /\ r = c /\ \A j \in DOMAIN stack'[t] : stack'[t][j].begins => i = j
        <4>1. i = n + 1
          BY <3>1
        <4> QED
          BY <1>1, <3>1, <4>1
      <3>3. Quiet(c) /\ OnlySelects(c)
        BY <1>9, <2>1, <3>2 DEF Quiet
      <3>4. LastSent(c, "BEGIN", t)'
        <4>1. \A k \in 1 .. (Len(queue'[c]) - 1) : queue'[c][k].op = "SELECT"
          BY <1>5, <2>1, <3>3 DEF OnlySelects
        <4> QED
          BY <1>5, <2>1, <4>1 DEF LastSent
      <3>5. ~ begun'[c] /\ snap'[c] = NoRows
        BY <3>3 DEF Quiet
      <3>6. at'[t] = "BEGIN" /\ i = Len(stack'[t])
        BY <1>1, <1>2, <2>1, <3>2
      <3> QED
        BY <3>2, <3>4, <3>5, <3>6 DEF Began
    <2>2. CASE ~ f.begins
      <3>1. i \in DOMAIN stack[t] /\ stack'[t][i] = stack[t][i]
        BY <1>11, <2>2
      <3>2. OnlySelects(r) /\ begun[r] /\ \A j \in DOMAIN stack'[t] : stack'[t][j].begins => i = j
        BY <1>7, <1>8, <1>11, <2>2, <3>1 DEF BeginsOf
      <3>3. OnlySelects(r)' /\ begun'[r]
        BY <1>6, <2>2, <3>2, ConnFacts
      <3> QED
        BY <1>2, <2>2, <3>2, <3>3 DEF Began
    <2> QED
      BY <2>1, <2>2
  <1>13. ASSUME NEW i \in DOMAIN stack'[t] PROVE ReadsOK(t, i)'
    <2>1. CASE i \in DOMAIN stack[t] /\ stack'[t][i] = stack[t][i]
      <3>1. ReadsOK(t, i) /\ at[t] # "ROLLBACK"
        BY <1>7, <2>1 DEF ReaderOf
      <3>2. \A j \in DOMAIN stack[t] : j \in DOMAIN stack'[t] /\ stack'[t][j] = stack[t][j]
        BY <1>1
      <3> QED
        BY <2>1, <3>1, <3>2 DEF ReadsOK
    <2>2. CASE i = n + 1 /\ stack'[t][i] = f
      <3>1. f.since \subseteq committed'
        OBVIOUS
      <3>2. ASSUME c \in Readers \ leaked, snap[c] # NoRows PROVE f.since \subseteq snap[c]
        BY <1>9, <3>2 DEF Quiet
      <3>3. ASSUME c \in Readers \ leaked, f.kind = "reader"
            PROVE  \E j \in DOMAIN stack'[t] : j <= i /\ stack'[t][j].begins
        <4>1. CASE f.begins
          <5>1. i <= i
            BY <1>1, <2>2
          <5> QED
            BY <2>2, <4>1, <5>1
        <4>2. CASE ~ f.begins
          <5>1. begun[c] /\ ~ Unused(c)
            BY <1>3, <3>3, <4>2 DEF ReaderInv, IdleOK, Quiet
          <5>2. PICK u \in Tasks : \E j \in DOMAIN stack[u] : stack[u][j].begins /\ stack[u][j].conn = c
            BY <5>1 DEF Unused
          <5>3. PICK j \in DOMAIN stack[u] : stack[u][j].begins /\ stack[u][j].conn = c
            BY <5>2
          <5>4. u = t
            BY <1>4, <3>3, <5>3
          <5> QED
            BY <1>1, <2>2, <5>3, <5>4
        <4> QED
          BY <4>1, <4>2
      <3> QED
        BY <2>2, <3>1, <3>2, <3>3 DEF ReadsOK
    <2> QED
      BY <1>11, <2>1, <2>2
  <1>14. ReaderOf(t)'
    BY <1>2, <1>12, <1>13 DEF ReaderOf
  <1>15. IdleOK'
    <2> SUFFICES ASSUME NEW r \in Readers \ leaked', Unused(r)' PROVE Quiet(r)'
      BY DEF IdleOK
    <2>1. Unused(r)
      <3> SUFFICES ASSUME NEW u \in Tasks, NEW i \in DOMAIN stack[u], stack[u][i].begins
                   PROVE  stack[u][i].conn # r
        BY DEF Unused
      <3>1. i \in DOMAIN stack'[u] /\ stack'[u][i] = stack[u][i]
        BY <1>1
      <3> QED
        BY <3>1 DEF Unused
    <2>2. ~ (f.begins /\ r = c)
      <3>1. n + 1 \in DOMAIN stack'[t]
        BY <1>1
      <3> QED
        BY <1>1, <3>1 DEF Unused
    <2> QED
      BY <1>6, <2>1, <2>2, IdleRests
  <1> QED
    BY <1>10, <1>14, <1>15 DEF ReaderInv

(* A reader sends SELECT, or the ROLLBACK that ends its transaction.       *)
LEMMA ReaderAsks ==
    ASSUME Base, ReaderInv, NEW t \in Tasks, stack[t] # <<>>, at[t] \in {"body", "statement"},
           NEW c \in Readers, c = Top(t).conn, NEW op, NEW w,
           \/ op = "SELECT" /\ w = "statement"
           \/ op = "ROLLBACK" /\ w = "ROLLBACK" /\ Top(t).begins,
           queue' = Sent(c, op, 0, t), at' = [at EXCEPT ![t] = w],
           UNCHANGED <<committed, leaked, begun, snap, stack>>
    PROVE  ReaderInv'
  <1> DEFINE n == Len(stack[t])
  <1>1. /\ n \in DOMAIN stack[t] /\ Top(t) = stack[t][n]
    BY StackFacts DEF Base
  <1>2. at'[t] = w /\ \A u \in Tasks : u # t => at'[u] = at[u]
    BY DEF Base, TypeOK
  <1>3. /\ queue'[c] # <<>> /\ Len(queue'[c]) = Len(queue[c]) + 1 /\ Len(queue[c]) \in Nat
        /\ \A i \in 1 .. Len(queue[c]) : queue'[c][i] = queue[c][i]
        /\ DOMAIN queue[c] = 1 .. Len(queue[c]) /\ DOMAIN queue'[c] = 1 .. (Len(queue[c]) + 1)
        /\ queue'[c][Len(queue[c]) + 1].op = op /\ queue'[c][Len(queue[c]) + 1].task = t
        /\ \A d \in Conns : d # c => queue'[d] = queue[d]
    <2>1. [op |-> op, arg |-> 0, task |-> t] \in Statements /\ TypeOK /\ c \in Conns
      BY DEF Statements, Base, Conns
    <2> QED
      BY <2>1, SentFacts
  <1>4. \A r \in Readers : r # c => ConnRests(r)
    BY <1>3 DEF ConnRests, Conns
  <1>5. ReaderOf(t) /\ BeginsOf(t)
    BY DEF ReaderInv, ReaderOf
  <1>6. OnlySelects(c) /\ op = "SELECT" => OnlySelects(c)'
    <2>1. \A k \in DOMAIN queue'[c] :
             (k \in DOMAIN queue[c] /\ queue'[c][k] = queue[c][k]) \/ queue'[c][k].op = op
      BY <1>3
    <2> QED
      BY <2>1 DEF OnlySelects
  <1>7. OnlySelects(c) /\ op = "ROLLBACK" => LastSent(c, "ROLLBACK", t)'
    <2> SUFFICES ASSUME OnlySelects(c), op = "ROLLBACK" PROVE LastSent(c, "ROLLBACK", t)'
      OBVIOUS
    <2>1. \A k \in 1 .. (Len(queue'[c]) - 1) : queue'[c][k].op = "SELECT"
      <3>1. \A k \in 1 .. (Len(queue'[c]) - 1) : k \in DOMAIN queue[c] /\ queue'[c][k] = queue[c][k]
        BY <1>3
      <3> QED
        BY <3>1 DEF OnlySelects
    <2> QED
      BY <1>3, <2>1 DEF LastSent
  <1>8. ASSUME NEW u \in Tasks, u # t PROVE ReaderOf(u)'
    <2>1. \A k \in DOMAIN stack[u] : stack[u][k].conn \in Readers => ConnRests(stack[u][k].conn)
      BY <1>1, <1>4, <1>8, OneUser
    <2>2. /\ \A k \in DOMAIN stack[u] : SameReads(stack'[u][k], stack[u][k])
          /\ AwaitsRest(u) /\ ReaderOf(u)
      BY <1>2, <1>8 DEF SameReads, AwaitsRest, ReaderInv
    <2> QED
      BY <2>1, <2>2, ReaderOfRests
  <1>9. BeginsOf(t)'
    <2> SUFFICES ASSUME NEW i \in DOMAIN stack[t], NEW r \in Readers \ leaked,
                        stack[t][i].begins, stack[t][i].conn = r
                 PROVE  Began(t, i, r)' /\ \A j \in DOMAIN stack[t] : stack[t][j].begins => i = j
      BY DEF BeginsOf
    <2>1. r = c
      BY <1>1, OneUser
    <2>2. Began(t, i, r) /\ \A j \in DOMAIN stack[t] : stack[t][j].begins => i = j
      BY <1>5 DEF BeginsOf
    <2>3. OnlySelects(c) /\ begun[c] /\ begun'[c]
      BY <2>1, <2>2 DEF Began
    <2>4. CASE op = "SELECT" /\ w = "statement"
      BY <1>2, <1>6, <2>1, <2>2, <2>3, <2>4 DEF Began
    <2>5. CASE op = "ROLLBACK" /\ w = "ROLLBACK" /\ Top(t).begins
      <3>1. i = n
        BY <1>1, <2>2, <2>5
      <3> QED
        BY <1>2, <1>7, <2>1, <2>2, <2>3, <2>5, <3>1 DEF Began
    <2> QED
      BY <2>4, <2>5
  <1>10. ASSUME NEW i \in DOMAIN stack'[t] PROVE ReadsOK(t, i)'
    <2>1. i \in DOMAIN stack[t] /\ ReadsOK(t, i) /\ at[t] # "ROLLBACK"
      BY <1>5 DEF ReaderOf
    <2> QED
      BY <2>1 DEF ReadsOK
  <1>11. ReaderOf(t)'
    BY <1>2, <1>9, <1>10 DEF ReaderOf
  <1>12. IdleOK'
    <2> SUFFICES ASSUME NEW r \in Readers \ leaked', Unused(r)' PROVE Quiet(r)'
      BY DEF IdleOK
    <2>1. Unused(r)
      BY DEF Unused
    <2>2. CASE r # c
      BY <1>4, <2>1, <2>2, IdleRests
    <2>3. CASE r = c
      <3>1. op = "SELECT"
        BY <1>1, <2>1, <2>3 DEF Unused
      <3>2. Quiet(c)
        BY <2>1, <2>3 DEF ReaderInv, IdleOK
      <3> QED
        BY <1>6, <2>3, <3>1, <3>2 DEF Quiet
    <2> QED
      BY <2>2, <2>3
  <1> QED
    BY <1>8, <1>11, <1>12 DEF ReaderInv

(* What is left in the queue of c when its thread has run one statement.   *)
LEMMA ReaderQueue ==
    ASSUME Base, NEW c \in Readers, queue[c] # <<>>, queue' = [queue EXCEPT ![c] = Tail(@)],
           NEW s, s = Head(queue[c])
    PROVE  /\ s \in Statements /\ s.op \in {"BEGIN", "SELECT", "ROLLBACK"}
           /\ \A d \in Conns : d # c => queue'[d] = queue[d]
           /\ OnlySelects(c) => s.op = "SELECT" /\ OnlySelects(c)'
           /\ \A op, u : LastSent(c, op, u) =>
                 \/ s.op = op /\ OnlySelects(c)'
                 \/ s.op = "SELECT" /\ LastSent(c, op, u)'
  <1>1. /\ \A d \in Conns : d # c => queue'[d] = queue[d]
        /\ Len(queue[c]) \in Nat /\ Len(queue[c]) > 0 /\ Len(queue'[c]) = Len(queue[c]) - 1
        /\ DOMAIN queue[c] = 1 .. Len(queue[c]) /\ DOMAIN queue'[c] = 1 .. (Len(queue[c]) - 1)
        /\ \A i \in 1 .. (Len(queue[c]) - 1) : queue'[c][i] = queue[c][i + 1]
        /\ s = queue[c][1] /\ 1 \in DOMAIN queue[c] /\ s \in Statements
        /\ queue'[c] \in Seq(Statements)
    <2>1. TypeOK /\ c \in Conns
      BY DEF Base, Conns
    <2>2. queue' \in [Conns -> Seq(Statements)]
      BY <2>1, TailFacts
    <2> QED
      BY <2>1, <2>2, TailFacts
  <1>2. s.op \in {"BEGIN", "SELECT", "ROLLBACK"}
    BY <1>1 DEF Base, Core, QueueInv
  <1>3. \A i \in DOMAIN queue'[c] : i + 1 \in DOMAIN queue[c] /\ queue'[c][i] = queue[c][i + 1]
    BY <1>1
  <1>4. OnlySelects(c) => s.op = "SELECT" /\ OnlySelects(c)'
    BY <1>1, <1>3 DEF OnlySelects
  <1>5. ASSUME NEW op, NEW u, LastSent(c, op, u)
        PROVE  \/ s.op = op /\ OnlySelects(c)'
               \/ s.op = "SELECT" /\ LastSent(c, op, u)'
    <2>1. CASE Len(queue[c]) = 1
      BY <1>1, <1>5, <2>1 DEF LastSent, OnlySelects
    <2>2. CASE Len(queue[c]) # 1
      <3>0. PICK m \in Nat : m = Len(queue[c])
        BY <1>1
      <3>1. /\ m > 1 /\ 1 \in 1 .. (m - 1) /\ m - 1 \in 1 .. (m - 1) /\ (m - 1) + 1 = m
            /\ Len(queue'[c]) = m - 1 /\ m - 1 # 0
        <4>1. m > 0 /\ m # 1 /\ Len(queue'[c]) = m - 1
          BY <1>1, <2>2, <3>0
        <4>2. /\ m > 1 /\ 1 \in 1 .. (m - 1) /\ m - 1 \in 1 .. (m - 1) /\ (m - 1) + 1 = m
              /\ m - 1 # 0
          BY <4>1
        <4> QED
          BY <4>1, <4>2
      <3>2. s.op = "SELECT"
        BY <1>1, <1>5, <3>0, <3>1 DEF LastSent
      <3>3. \A k \in 1 .. ((m - 1) - 1) : k + 1 \in 1 .. (m - 1) /\ k \in 1 .. (m - 1)
        OBVIOUS
      <3>4. \A k \in 1 .. (Len(queue'[c]) - 1) : queue'[c][k].op = "SELECT"
        BY <1>1, <1>5, <3>0, <3>1, <3>3 DEF LastSent
      <3>5. queue'[c][Len(queue'[c])] = queue[c][Len(queue[c])] /\ queue'[c] # <<>>
        <4>1. queue'[c][m - 1] = queue[c][(m - 1) + 1]
          BY <1>1, <3>0, <3>1
        <4>2. Len(queue'[c]) # 0
          BY <3>1
        <4> QED
          BY <3>0, <3>1, <4>1, <4>2
      <3>6. LastSent(c, op, u)'
        BY <1>5, <3>4, <3>5 DEF LastSent
      <3> QED
        BY <3>2, <3>6
    <2> QED
      BY <2>1, <2>2
  <1> QED
    BY <1>1, <1>2, <1>4, <1>5

(* What RunOnReader does to its connection.                                *)
LEMMA ReaderEffect ==
    ASSUME Base, NEW c \in Readers, NEW s \in Statements, RunOnReader(c, s)
    PROVE  /\ \A r \in Readers : r # c => begun'[r] = begun[r] /\ snap'[r] = snap[r]
           /\ s.op = "BEGIN" => begun'[c] /\ snap'[c] = snap[c]
           /\ s.op = "ROLLBACK" => ~ begun'[c] /\ snap'[c] = NoRows
           /\ s.op = "SELECT" => /\ begun'[c] = begun[c]
                                 /\ snap'[c] = IF begun[c] THEN Visible(c) ELSE snap[c]
           /\ committed # NoRows
           /\ \/ Visible(c) = committed /\ (begun[c] => snap[c] = NoRows)
              \/ Visible(c) = snap[c] /\ snap[c] # NoRows
  <1>1. begun \in [Readers -> BOOLEAN] /\ snap \in [Readers -> SUBSET Nat] /\ committed \in SUBSET Rows
    BY DEF Base, TypeOK
  <1>2. /\ begun' = [begun EXCEPT ![c] = CASE s.op = "BEGIN" -> TRUE [] s.op = "ROLLBACK" -> FALSE [] OTHER -> @]
        /\ snap' = [snap EXCEPT ![c] = CASE s.op = "SELECT" /\ begun[c] -> Visible(c)
                                         [] s.op = "ROLLBACK" -> NoRows
                                         [] OTHER -> @]
    BY DEF RunOnReader
  <1>3. committed # NoRows
    BY <1>1 DEF NoRows, Rows
  <1>4. \A r \in Readers : r # c => begun'[r] = begun[r] /\ snap'[r] = snap[r]
    BY <1>1, <1>2
  <1>5. s.op = "BEGIN" => begun'[c] /\ snap'[c] = snap[c]
    BY <1>1, <1>2
  <1>6. s.op = "ROLLBACK" => ~ begun'[c] /\ snap'[c] = NoRows
    BY <1>1, <1>2
  <1>7. s.op = "SELECT" => begun'[c] = begun[c] /\ snap'[c] = IF begun[c] THEN Visible(c) ELSE snap[c]
    BY <1>1, <1>2
  <1>8. \/ Visible(c) = committed /\ (begun[c] => snap[c] = NoRows)
        \/ Visible(c) = snap[c] /\ snap[c] # NoRows
    BY DEF Visible
  <1> QED
    BY <1>3, <1>4, <1>5, <1>6, <1>7, <1>8

(* Running a statement changes nothing of the contexts but what the one    *)
(* that awaits a SELECT has seen.                                          *)
LEMMA ReaderSees ==
    ASSUME Base, NEW c \in Readers, RunStatement(c), NEW s, s = Head(queue[c])
    PROVE  /\ \A u \in Tasks : Len(stack'[u]) = Len(stack[u]) /\ DOMAIN stack'[u] = DOMAIN stack[u]
           /\ \A u \in Tasks : \A i \in DOMAIN stack[u] :
                 /\ stack'[u][i].kind = stack[u][i].kind /\ stack'[u][i].conn = stack[u][i].conn
                 /\ stack'[u][i].begins = stack[u][i].begins /\ stack'[u][i].since = stack[u][i].since
                 /\ stack'[u][i].seen # stack[u][i].seen =>
                       /\ u = s.task /\ i = Len(stack[u]) /\ s.op = "SELECT" /\ at[u] = "statement"
                       /\ stack[u][i].conn = c /\ stack'[u][i].seen = Visible(c)
  <1>1. /\ queue[c] # <<>> /\ RunOnReader(c, s)
    BY DBAssumption DEF RunStatement
  <1>2. s \in Statements
    <2>1. queue[c] \in Seq(Statements)
      BY DEF Base, TypeOK, Conns
    <2> QED
      BY <1>1, <2>1, HeadTailProperties
  <1>3. PICK t \in Tasks : t = s.task
    BY <1>2 DEF Statements
  <1>4. PICK vis : vis = Visible(c)
    OBVIOUS
  <1> DEFINE n == Len(stack[t])
  <1>5. \/ stack' = stack
        \/ /\ s.op = "SELECT" /\ at[t] = "statement" /\ Top(t).conn = c
           /\ stack' = WithTop(t, [Top(t) EXCEPT !.seen = vis])
    BY <1>1, <1>3, <1>4 DEF RunOnReader, Awaited
  <1>6. /\ vis \in SUBSET Nat
        /\ stack[t] # <<>> => n \in DOMAIN stack[t] /\ Top(t) = stack[t][n] /\ Top(t) \in Frames
    BY <1>4, StackFacts DEF Visible, Base, TypeOK, Rows
  <1>7. /\ \A u \in Tasks : Len(stack'[u]) = Len(stack[u]) /\ DOMAIN stack'[u] = DOMAIN stack[u]
        /\ \A u \in Tasks : \A i \in DOMAIN stack[u] :
              \/ stack'[u][i] = stack[u][i]
              \/ /\ u = t /\ i = n /\ s.op = "SELECT" /\ at[t] = "statement"
                 /\ stack[t][n].conn = c /\ stack'[t][n] = [stack[t][n] EXCEPT !.seen = vis]
    <2>1. CASE stack' = stack
      BY <2>1
    <2>2. CASE /\ s.op = "SELECT" /\ at[t] = "statement" /\ Top(t).conn = c
               /\ stack' = WithTop(t, [Top(t) EXCEPT !.seen = vis])
      <3> DEFINE g == [Top(t) EXCEPT !.seen = vis]
      <3>1. stack[t] # <<>>
        BY <2>2 DEF Base, Core, Shape, ShapeOf
      <3>2. g \in Frames
        BY <1>6, <3>1 DEF Frames
      <3>3. stack' = WithTop(t, g) /\ g = [stack[t][n] EXCEPT !.seen = vis]
        BY <1>6, <2>2, <3>1
      <3> HIDE DEF g
      <3>4. TopBecomes(t, g)
        BY <3>1, <3>2, <3>3, TopFacts
      <3> QED
        BY <1>6, <2>2, <3>1, <3>3, <3>4 DEF TopBecomes
    <2> QED
      BY <1>5, <2>1, <2>2
  <1>8. \A u \in Tasks : \A i \in DOMAIN stack[u] :
            /\ stack'[u][i].kind = stack[u][i].kind /\ stack'[u][i].conn = stack[u][i].conn
            /\ stack'[u][i].begins = stack[u][i].begins /\ stack'[u][i].since = stack[u][i].since
            /\ stack'[u][i].seen # stack[u][i].seen =>
                  /\ u = t /\ i = n /\ s.op = "SELECT" /\ at[t] = "statement"
                  /\ stack[u][i].conn = c /\ stack'[u][i].seen = vis
    <2> SUFFICES ASSUME NEW u \in Tasks, NEW i \in DOMAIN stack[u]
                 PROVE  /\ stack'[u][i].kind = stack[u][i].kind /\ stack'[u][i].conn = stack[u][i].conn
                        /\ stack'[u][i].begins = stack[u][i].begins
                        /\ stack'[u][i].since = stack[u][i].since
                        /\ stack'[u][i].seen # stack[u][i].seen =>
                              /\ u = t /\ i = n /\ s.op = "SELECT" /\ at[t] = "statement"
                              /\ stack[u][i].conn = c /\ stack'[u][i].seen = vis
      OBVIOUS
    <2>1. stack[u][i] \in Frames
      BY OneUser
    <2>2. \/ stack'[u][i] = stack[u][i]
          \/ /\ u = t /\ i = n /\ s.op = "SELECT" /\ at[t] = "statement"
             /\ stack[t][n].conn = c /\ stack'[t][n] = [stack[t][n] EXCEPT !.seen = vis]
      BY <1>7
    <2> QED
      BY <2>1, <2>2 DEF Frames
  <1> QED
    BY <1>3, <1>4, <1>7, <1>8

(* The thread of connection c runs a statement.                            *)
LEMMA ReaderRuns ==
    ASSUME Base, ReaderInv, NEW c \in Readers, RunStatement(c)
    PROVE  ReaderInv'
  <1>1. PICK s : s = Head(queue[c])
    OBVIOUS
  <1>2. /\ queue[c] # <<>> /\ queue' = [queue EXCEPT ![c] = Tail(@)] /\ RunOnReader(c, s)
        /\ UNCHANGED <<committed, leaked>>
    BY <1>1, DBAssumption DEF RunStatement, history
  <1>3. /\ s \in Statements /\ s.op \in {"BEGIN", "SELECT", "ROLLBACK"}
        /\ \A d \in Conns : d # c => queue'[d] = queue[d]
        /\ OnlySelects(c) => s.op = "SELECT" /\ OnlySelects(c)'
        /\ \A op, u : LastSent(c, op, u) =>
              \/ s.op = op /\ OnlySelects(c)'
              \/ s.op = "SELECT" /\ LastSent(c, op, u)'
    BY <1>1, <1>2, ReaderQueue
  <1>4. /\ \A r \in Readers : r # c => begun'[r] = begun[r] /\ snap'[r] = snap[r]
        /\ s.op = "BEGIN" => begun'[c] /\ snap'[c] = snap[c]
        /\ s.op = "ROLLBACK" => ~ begun'[c] /\ snap'[c] = NoRows
        /\ s.op = "SELECT" => /\ begun'[c] = begun[c]
                              /\ snap'[c] = IF begun[c] THEN Visible(c) ELSE snap[c]
        /\ committed # NoRows
        /\ \/ Visible(c) = committed /\ (begun[c] => snap[c] = NoRows)
           \/ Visible(c) = snap[c] /\ snap[c] # NoRows
    BY <1>2, <1>3, ReaderEffect
  <1>5. PICK t \in Tasks : t = s.task
    BY <1>3 DEF Statements
  <1>6. PICK vis : vis = Visible(c)
    OBVIOUS
  <1> DEFINE n == Len(stack[t])
  <1>8. \/ at' = at
        \/ /\ s.op = "BEGIN" /\ begun[c] /\ at[t] = "BEGIN" /\ Top(t).conn = c
           /\ at' = [at EXCEPT ![t] = "error"]
    BY <1>1, <1>2, <1>5 DEF RunOnReader, Awaited
  <1>9. \A u \in Tasks : ReaderOf(u) /\ BeginsOf(u)
    BY DEF ReaderInv, ReaderOf
  <1>10. \A r \in Readers : r # c => ConnRests(r)
    BY <1>3, <1>4 DEF ConnRests, Conns
  <1>11. /\ vis \in SUBSET Nat
         /\ stack[t] # <<>> => n \in DOMAIN stack[t] /\ Top(t) = stack[t][n] /\ Top(t) \in Frames
    BY <1>6, StackFacts DEF Visible, Base, TypeOK, Rows
  <1>12. \A u \in Tasks : Len(stack'[u]) = Len(stack[u]) /\ DOMAIN stack'[u] = DOMAIN stack[u]
    BY <1>1, ReaderSees
  <1>13. \A u \in Tasks : \A i \in DOMAIN stack[u] :
            /\ stack'[u][i].kind = stack[u][i].kind /\ stack'[u][i].conn = stack[u][i].conn
            /\ stack'[u][i].begins = stack[u][i].begins /\ stack'[u][i].since = stack[u][i].since
            /\ stack'[u][i].seen # stack[u][i].seen =>
                  /\ u = t /\ i = n /\ s.op = "SELECT" /\ at[t] = "statement"
                  /\ stack[u][i].conn = c /\ stack'[u][i].seen = vis
    BY <1>1, <1>5, <1>6, ReaderSees
  (* BEGIN fails only where an earlier one was left behind.                *)
  <1>14. at' # at => c \in leaked
    <2> SUFFICES ASSUME s.op = "BEGIN", begun[c], at[t] = "BEGIN", Top(t).conn = c, c \notin leaked
                 PROVE  FALSE
      BY <1>8
    <2>1. stack[t] # <<>> /\ Top(t).begins
      BY BeginsIsReader
    <2>2. Began(t, n, c)
      BY <1>9, <1>11, <2>1 DEF BeginsOf
    <2> QED
      BY <1>3, <2>2 DEF Began
  <1>15. /\ \A u \in Tasks : at'[u] = at[u] \/ (u = t /\ at[t] = "BEGIN" /\ at'[t] = "error" /\ Top(t).conn = c)
         /\ c \notin leaked => \A u \in Tasks : at'[u] = at[u]
    BY <1>8, <1>14 DEF Base, TypeOK
  <1>16. ASSUME NEW u \in Tasks PROVE BeginsOf(u)'
    <2> SUFFICES ASSUME NEW i \in DOMAIN stack'[u], NEW r \in Readers \ leaked,
                        stack'[u][i].begins, stack'[u][i].conn = r
                 PROVE  Began(u, i, r)' /\ \A j \in DOMAIN stack'[u] : stack'[u][j].begins => i = j
      BY <1>2 DEF BeginsOf
    <2>1. i \in DOMAIN stack[u] /\ stack[u][i].begins /\ stack[u][i].conn = r
      BY <1>12, <1>13
    <2>2. Began(u, i, r) /\ \A j \in DOMAIN stack'[u] : stack'[u][j].begins => i = j
      BY <1>9, <1>12, <1>13, <2>1 DEF BeginsOf
    <2>3. at'[u] = at[u]
      <3>1. CASE c \notin leaked
        BY <1>15, <3>1
      <3>2. CASE c \in leaked
        <4> SUFFICES ASSUME u = t, at[t] = "BEGIN", Top(t).conn = c PROVE FALSE
          BY <1>15
        <4>1. stack[t] # <<>>
          BY BeginsIsReader
        <4>2. stack[t][n].conn = c /\ n \in DOMAIN stack[t]
          BY <1>11, <4>1
        <4>3. r = c
          BY <2>1, <4>2, OneUser
        <4> QED
          BY <3>2, <4>3
      <3> QED
        BY <3>1, <3>2
    <2>4. Len(stack'[u]) = Len(stack[u])
      BY <1>12
    <2>5. CASE r # c
      <3>1. ConnRests(r)
        BY <1>10, <2>5
      <3>2. /\ OnlySelects(r)' <=> OnlySelects(r)
            /\ Quiet(r)' <=> Quiet(r)
            /\ \A op, v : LastSent(r, op, v)' <=> LastSent(r, op, v)
            /\ begun'[r] = begun[r] /\ snap'[r] = snap[r]
        BY <3>1, ConnFacts DEF ConnRests
      <3>3. Began(u, i, r)'
        BY <2>2, <2>3, <2>4, <3>2 DEF Began
      <3> QED
        BY <2>2, <3>3
    <2>6. CASE r = c
      <3>1. CASE i = Len(stack[u]) /\ at[u] = "BEGIN"
        <4>1. \/ OnlySelects(c) /\ begun[c]
              \/ LastSent(c, "BEGIN", u) /\ ~ begun[c] /\ snap[c] = NoRows
          BY <2>2, <2>6, <3>1 DEF Began
        <4>2. \/ OnlySelects(c)' /\ begun'[c]
              \/ LastSent(c, "BEGIN", u)' /\ ~ begun'[c] /\ snap'[c] = NoRows
          BY <1>3, <1>4, <4>1
        <4> QED
          BY <2>2, <2>3, <2>4, <2>6, <3>1, <4>2 DEF Began
      <3>2. CASE i = Len(stack[u]) /\ at[u] = "ROLLBACK"
        <4>1. \/ Quiet(c)
              \/ LastSent(c, "ROLLBACK", u) /\ begun[c]
          BY <2>2, <2>6, <3>2 DEF Began
        <4>2. \/ Quiet(c)'
              \/ LastSent(c, "ROLLBACK", u)' /\ begun'[c]
          BY <1>3, <1>4, <4>1 DEF Quiet
        <4> QED
          BY <2>2, <2>3, <2>4, <2>6, <3>2, <4>2 DEF Began
      <3>3. CASE ~ (i = Len(stack[u]) /\ at[u] \in {"BEGIN", "ROLLBACK"})
        <4>1. OnlySelects(c) /\ begun[c]
          BY <2>2, <2>6, <3>3 DEF Began
        <4>2. OnlySelects(c)' /\ begun'[c]
          BY <1>3, <1>4, <4>1
        <4> QED
          BY <2>2, <2>3, <2>4, <2>6, <3>3, <4>2 DEF Began
      <3> QED
        BY <3>1, <3>2, <3>3
    <2> QED
      BY <2>5, <2>6
  <1>17. ASSUME NEW u \in Tasks, at'[u] = "error" PROVE Top(u)'.conn \in leaked
    <2>1. at[u] \in {"error", "BEGIN"} /\ Top(u).conn \in leaked
      <3>1. CASE at[u] = "error"
        BY <1>9, <3>1 DEF ReaderOf
      <3>2. CASE at[u] # "error"
        BY <1>14, <1>15, <1>17, <3>2
      <3> QED
        BY <3>1, <3>2
    <2>2. stack[u] # <<>>
      BY <2>1, BeginsIsReader
    <2>3. Len(stack[u]) \in DOMAIN stack[u] /\ Top(u) = stack[u][Len(stack[u])]
      BY <2>2, StackFacts DEF Base
    <2>4. Top(u)' = stack'[u][Len(stack[u])]
      BY <1>12 DEF Top, Last
    <2> QED
      BY <1>13, <2>1, <2>3, <2>4
  <1>18. ASSUME NEW u \in Tasks, NEW i \in DOMAIN stack'[u] PROVE ReadsOK(u, i)'
    <2> DEFINE f == stack[u][i]
               g == stack'[u][i]
    <2>1. /\ i \in DOMAIN stack[u] /\ ReadsOK(u, i) /\ g.kind = f.kind /\ g.conn = f.conn
          /\ g.since = f.since
          /\ g.seen # f.seen => /\ u = t /\ i = n /\ s.op = "SELECT" /\ at[t] = "statement"
                                /\ f.conn = c /\ g.seen = vis
      BY <1>9, <1>12, <1>13 DEF ReaderOf
    <2>2. f.since \subseteq committed /\ (f.conn = Writer => f.seen = NoRows)
      BY <2>1 DEF ReadsOK
    <2>3. g.conn = Writer => g.seen = NoRows
      BY <2>1, <2>2, DBAssumption
    <2>4. ASSUME f.kind = "reader", f.conn \in Readers \ leaked
          PROVE  \E j \in DOMAIN stack'[u] : j <= i /\ stack'[u][j].begins
      <3>1. PICK j \in DOMAIN stack[u] : j <= i /\ stack[u][j].begins
        BY <2>1, <2>4 DEF ReadsOK
      <3> QED
        BY <1>12, <1>13, <3>1
    <2>5. CASE f.conn \notin Readers \ leaked
      BY <1>2, <2>1, <2>2, <2>3, <2>5 DEF ReadsOK
    <2>6. CASE f.conn \in Readers \ leaked /\ f.conn # c
      <3>1. g.seen = f.seen /\ snap'[f.conn] = snap[f.conn]
        BY <1>4, <2>1, <2>6
      <3>2. at[u] = "ROLLBACK" => at'[u] = "ROLLBACK"
        BY <1>15
      <3>3. Len(stack'[u]) = Len(stack[u])
        BY <1>12
      <3> QED
        BY <1>2, <2>1, <2>2, <2>3, <2>4, <2>6, <3>1, <3>2, <3>3 DEF ReadsOK
    <2>7. CASE f.conn = c /\ c \notin leaked
      <3>1. at'[u] = at[u] /\ Len(stack'[u]) = Len(stack[u])
        BY <1>12, <1>15, <2>7
      <3>2. /\ snap[c] # NoRows => f.since \subseteq snap[c]
            /\ f.seen # NoRows => f.since \subseteq f.seen
            /\ f.kind = "reader" => \/ f.seen = NoRows \/ f.seen = snap[c]
                                    \/ i = Len(stack[u]) /\ at[u] = "ROLLBACK"
        BY <2>1, <2>7 DEF ReadsOK
      <3>3. f.since \subseteq vis
        BY <1>4, <1>6, <2>2, <3>2
      <3>4. snap'[c] # NoRows => f.since \subseteq snap'[c]
        BY <1>3, <1>4, <1>6, <3>2, <3>3
      <3>5. g.seen # NoRows => f.since \subseteq g.seen
        BY <2>1, <3>2, <3>3
      <3>6. ASSUME f.kind = "reader"
            PROVE  \/ g.seen = NoRows \/ g.seen = snap'[c]
                   \/ i = Len(stack[u]) /\ at[u] = "ROLLBACK"
        <4>1. PICK j \in DOMAIN stack[u] : j <= i /\ stack[u][j].begins
          BY <2>1, <2>7, <3>6 DEF ReadsOK
        <4>2. stack[u][j].conn = c
          BY <2>1, <2>7, <4>1, OneUser
        <4>3. Began(u, j, c)
          BY <1>9, <2>7, <4>1, <4>2 DEF BeginsOf
        <4>4. CASE g.seen # f.seen
          <5>1. OnlySelects(c) /\ begun[c]
            BY <2>1, <4>3, <4>4 DEF Began
          <5> QED
            BY <1>4, <1>6, <2>1, <4>4, <5>1
        <4>5. CASE g.seen = f.seen /\ f.seen = snap[c] /\ snap[c] # NoRows
          <5>1. CASE s.op # "ROLLBACK"
            BY <1>3, <1>4, <4>5, <5>1
          <5>2. CASE s.op = "ROLLBACK"
            <6>1. j = Len(stack[u]) /\ at[u] = "ROLLBACK"
              BY <1>3, <4>3, <5>2 DEF Began
            <6>2. i = Len(stack[u])
              BY <2>1, <4>1, <6>1, OneUser
            <6> QED
              BY <6>1, <6>2
          <5> QED
            BY <5>1, <5>2
        <4> QED
          BY <3>2, <3>6, <4>4, <4>5
      <3> QED
        BY <1>2, <2>1, <2>2, <2>3, <2>4, <2>7, <3>1, <3>4, <3>5, <3>6 DEF ReadsOK
    <2> QED
      BY <2>5, <2>6, <2>7
  <1>19. IdleOK'
    <2> SUFFICES ASSUME NEW r \in Readers \ leaked', Unused(r)' PROVE Quiet(r)'
      BY DEF IdleOK
    <2>1. Unused(r)
      BY <1>12, <1>13 DEF Unused
    <2>2. CASE r # c
      BY <1>2, <1>10, <2>1, <2>2, IdleRests
    <2>3. CASE r = c
      <3>1. Quiet(c)
        BY <1>2, <2>1, <2>3 DEF ReaderInv, IdleOK
      <3> QED
        BY <1>3, <1>4, <2>3, <3>1 DEF Quiet
    <2> QED
      BY <2>2, <2>3
  <1> QED
    BY <1>2, <1>16, <1>17, <1>18, <1>19 DEF ReaderInv, ReaderOf

(* Steps that send the reading connections nothing and at most change what *)
(* the innermost context of t wrote, or that it failed.                    *)
LEMMA ReaderIdle ==
    ASSUME Base, ReaderInv, NEW t \in Tasks, NEW w,
           \/ stack' = stack
           \/ /\ stack[t] # <<>>
              /\ \E g \in Frames : SameReads(g, Top(t)) /\ stack' = WithTop(t, g),
           at' = [at EXCEPT ![t] = w],
           at[t] \notin {"BEGIN", "ROLLBACK", "error"}, w \notin {"BEGIN", "ROLLBACK", "error"},
           UNCHANGED <<committed, begun, snap, leaked>>, \A r \in Readers : queue'[r] = queue[r]
    PROVE  ReaderInv'
  <1>1. \A u \in Tasks : AwaitsRest(u)
    BY DEF AwaitsRest, Base, TypeOK
  <1>2. \A r \in Readers : ConnRests(r)
    BY DEF ConnRests
  <1>3. \A u \in Tasks :
          /\ Len(stack'[u]) = Len(stack[u]) /\ DOMAIN stack'[u] = DOMAIN stack[u]
          /\ \A k \in DOMAIN stack[u] : SameReads(stack'[u][k], stack[u][k])
    <2>1. CASE stack' = stack
      BY <2>1 DEF SameReads
    <2>2. ASSUME stack[t] # <<>>, NEW g \in Frames, SameReads(g, Top(t)), stack' = WithTop(t, g)
          PROVE  \A u \in Tasks :
                    /\ Len(stack'[u]) = Len(stack[u]) /\ DOMAIN stack'[u] = DOMAIN stack[u]
                    /\ \A k \in DOMAIN stack[u] : SameReads(stack'[u][k], stack[u][k])
      <3>1. TopBecomes(t, g) /\ Top(t) = stack[t][Len(stack[t])]
        BY <2>2, TopFacts, StackFacts DEF Base
      <3> QED
        BY <2>2, <3>1 DEF TopBecomes, SameReads
    <2> QED
      BY <2>1, <2>2
  <1> QED
    BY <1>1, <1>2, <1>3, ReaderRests

LEMMA SentToWriter ==
    ASSUME Base, NEW op \in WriterOps, NEW arg \in Nat, NEW t \in Tasks,
           queue' = Sent(Writer, op, arg, t)
    PROVE  \A r \in Readers : queue'[r] = queue[r]
  <1>1. [op |-> op, arg |-> arg, task |-> t] \in Statements /\ TypeOK /\ Writer \in Conns
    BY DEF Statements, WriterOps, Base, Conns
  <1> QED
    BY <1>1, SentFacts, DBAssumption DEF Conns

LEMMA ReaderOpensWriter ==
    ASSUME Base, ReaderInv, NEW t \in Tasks,
           TakeLock(t) \/ \E maybe \in BOOLEAN : OpenWriter(t, maybe)
    PROVE  ReaderInv'
  <1>1. /\ at[t] \in {"body", "lock"}
        /\ UNCHANGED <<committed, leaked, begun, snap>>
    BY DEF TakeLock, OpenWriter, Opens, dbFile, history
  <1>2. nextName \in Nat /\ Writer \in Conns
    BY PendingType
  <1>3. CASE at' = [at EXCEPT ![t] = "lock"] /\ UNCHANGED <<queue, stack>>
    BY <1>1, <1>3, ReaderIdle
  <1>4. ASSUME NEW kind \in {"top", "nested", "joined"}, NEW name \in Nat,
               Push(t, Frame(kind, name, Writer, FALSE)), NEW w \in {"SAVEPOINT", "body"},
               at' = [at EXCEPT ![t] = w], \A r \in Readers : queue'[r] = queue[r]
        PROVE  ReaderInv'
    <2> DEFINE f == Frame(kind, name, Writer, FALSE)
    <2>1. /\ f \in Frames /\ f.kind # "reader" /\ f.conn = Writer /\ f.begins = FALSE /\ f.holds = FALSE
          /\ f.seen = NoRows /\ f.since = {}
      BY <1>2 DEF Frame, Frames, NoRows
    <2>2. Push(t, f)
      BY <1>4
    <2> HIDE DEF f
    <2>3. w \in {"SAVEPOINT", "BEGIN", "body"} /\ w # "BEGIN" /\ at[t] \in {"body", "lock", "pool"}
      BY <1>1, <1>4
    <2> QED
      BY <1>1, <1>4, <2>1, <2>2, <2>3, ReaderPushes
  <1>5. CASE /\ Push(t, Frame("nested", nextName, Writer, FALSE))
             /\ queue' = Sent(Writer, "SAVEPOINT", nextName, t)
             /\ at' = [at EXCEPT ![t] = "SAVEPOINT"]
    <2>1. \A r \in Readers : queue'[r] = queue[r]
      BY <1>2, <1>5, SentToWriter DEF WriterOps
    <2> QED
      BY <1>2, <1>4, <1>5, <2>1
  <1>6. CASE /\ Push(t, Frame("top", nextName, Writer, FALSE))
             /\ queue' = Sent(Writer, "SAVEPOINT", nextName, t)
             /\ at' = [at EXCEPT ![t] = "SAVEPOINT"]
    <2>1. \A r \in Readers : queue'[r] = queue[r]
      BY <1>2, <1>6, SentToWriter DEF WriterOps
    <2> QED
      BY <1>2, <1>4, <1>6, <2>1
  <1>7. CASE /\ Push(t, Frame("joined", 0, Writer, FALSE)) /\ queue' = queue /\ at' = at /\ at[t] = "body"
    <2>1. at' = [at EXCEPT ![t] = "body"]
      BY <1>7 DEF Base, TypeOK
    <2> QED
      BY <1>4, <1>7, <2>1
  <1> QED
    BY <1>3, <1>5, <1>6, <1>7 DEF TakeLock, OpenWriter, Opens

LEMMA ReaderConnected ==
    ASSUME Base, ReaderInv, NEW t \in Tasks, NEW kind \in {"reader", "plain"}, NEW conn \in Conns,
           NEW holds \in BOOLEAN, Connected(t, Frame(kind, 0, conn, holds)),
           at[t] \in {"body", "pool"}, UNCHANGED <<dbFile, leaked>>, holds => conn # Writer,
           conn # Writer => IF holds THEN inUse[t] = Writer /\ \A u \in Tasks : inUse[u] # conn
                            ELSE conn = inUse[t]
    PROVE  ReaderInv'
  <1> DEFINE e == Frame(kind, 0, conn, holds)
             begins == Begins(e)
             since == IF e.holds THEN committed ELSE {}
             f == [e EXCEPT !.begins = begins, !.since = since]
  <1>1. /\ e \in Frames /\ e.kind = kind /\ e.conn = conn /\ e.holds = holds /\ e.seen = NoRows
    BY DEF Frame, Frames, NoRows
  <1>2. /\ Push(t, f)
        /\ \/ begins /\ queue' = Sent(conn, "BEGIN", 0, t) /\ at' = [at EXCEPT ![t] = "BEGIN"]
           \/ ~ begins /\ queue' = queue /\ at' = [at EXCEPT ![t] = "body"]
    BY <1>1 DEF Connected
  <1> HIDE DEF e
  <1>3. /\ begins \in BOOLEAN /\ (begins <=> kind = "reader" /\ conn # Writer /\ ~ begun[conn])
        /\ since \in SUBSET Rows /\ since = IF holds THEN committed ELSE {}
    <2>1. committed \in SUBSET Rows
      BY DEF Base, TypeOK
    <2> QED
      BY <1>1, <2>1 DEF Begins
  <1> HIDE DEF begins, since
  <1>4. /\ f \in Frames /\ f.kind = kind /\ f.conn = conn /\ f.holds = holds /\ f.seen = NoRows
        /\ f.begins = begins /\ f.since = since
    BY <1>1, <1>3 DEF Frames
  <1> HIDE DEF f
  <1>5. PICK w \in {"SAVEPOINT", "BEGIN", "body"} :
           /\ at' = [at EXCEPT ![t] = w]
           /\ IF f.begins THEN queue' = Sent(f.conn, "BEGIN", 0, t) /\ w = "BEGIN"
              ELSE w # "BEGIN" /\ \A r \in Readers : queue'[r] = queue[r]
    BY <1>2, <1>4
  <1>6. /\ f.begins => f.kind = "reader" /\ f.conn # Writer
        /\ f.kind = "reader" /\ f.conn # Writer => (f.begins <=> ~ begun[f.conn])
        /\ f.since = {} \/ (f.holds /\ f.since = committed)
        /\ f.holds => f.conn # Writer
    BY <1>3, <1>4
  <1>7. /\ UNCHANGED <<committed, leaked, begun, snap>> /\ at[t] \in {"body", "lock", "pool"}
        /\ f.conn # Writer => IF f.holds THEN inUse[t] = Writer /\ \A u \in Tasks : inUse[u] # f.conn
                              ELSE f.conn = inUse[t]
    BY <1>4 DEF dbFile
  <1> QED
    BY <1>2, <1>4, <1>5, <1>6, <1>7, ReaderPushes

LEMMA ReaderOpens ==
    ASSUME Base, ReaderInv, NEW t \in Tasks, NEW kind \in {"reader", "plain"}, OpenReader(t, kind)
    PROVE  ReaderInv'
  <1>1. at[t] = "body" /\ UNCHANGED <<dbFile, leaked>>
    BY DEF OpenReader, Opens, history
  <1>2. Writer \in Conns /\ inUse[t] \in Conns
    BY PendingType DEF Base, TypeOK
  <1>3. CASE Connected(t, Frame(kind, 0, Writer, FALSE))
    BY <1>1, <1>2, <1>3, ReaderConnected
  <1>4. CASE Connected(t, Frame(kind, 0, inUse[t], FALSE))
    BY <1>1, <1>2, <1>4, ReaderConnected
  <1>5. CASE at' = [at EXCEPT ![t] = "pool"] /\ UNCHANGED <<queue, stack>>
    BY <1>1, <1>5, ReaderIdle DEF dbFile
  <1> QED
    BY <1>3, <1>4, <1>5 DEF OpenReader

LEMMA ReaderTakesConnection ==
    ASSUME Base, ReaderInv, NEW t \in Tasks, TakeConnection(t)
    PROVE  ReaderInv'
  <1>1. /\ at[t] = "pool" /\ pool # <<>> /\ poolWaiters # <<>>
        /\ Connected(t, Frame(Head(poolWaiters).kind, 0, Head(pool), TRUE))
        /\ UNCHANGED <<dbFile, leaked>>
    BY DEF TakeConnection, history
  <1>2. Head(pool) \in Readers /\ Head(pool) \in Conns /\ Head(pool) = pool[1] /\ 1 \in DOMAIN pool
    <2>1. pool \in Seq(Readers)
      BY DEF Base, TypeOK
    <2> QED
      BY <1>1, <2>1 DEF Conns
  <1>3. Head(poolWaiters).kind \in {"reader", "plain"}
    <2>1. poolWaiters \in Seq([task : Tasks, kind : {"reader", "plain"}])
      BY DEF Base, TypeOK
    <2>2. Head(poolWaiters) \in [task : Tasks, kind : {"reader", "plain"}]
      BY <1>1, <2>1, HeadTailProperties
    <2> QED
      BY <2>2
  <1>4. inUse[t] = Writer /\ Head(pool) # Writer
    BY <1>1, <1>2, DBAssumption DEF Base, Core, Holding, HoldingOf
  <1>5. \A u \in Tasks : inUse[u] # Head(pool)
    BY <1>2 DEF Base, Core, PoolInv
  <1> QED
    BY <1>1, <1>2, <1>3, <1>4, <1>5, ReaderConnected

LEMMA ReaderEndWriter ==
    ASSUME Base, ReaderInv, NEW t \in Tasks, at[t] \in {"SAVEPOINT", "RELEASE"}, EndWriter(t),
           UNCHANGED <<dbFile, queue>>, leaked \subseteq leaked'
    PROVE  ReaderInv'
  <1>1. stack[t] # <<>> /\ Top(t).kind \in WriterKinds
    BY DEF Base, Core, Shape, ShapeOf
  <1>2. ~ Top(t).begins
    BY <1>1, WritersHoldNone DEF WriterKinds
  <1>3. stack' = Popped(t) /\ at' = [at EXCEPT ![t] = "body"]
    BY DEF EndWriter
  <1>4. committed' = committed /\ \A r \in Readers : ConnRests(r)
    BY DEF dbFile, ConnRests
  <1> QED
    BY <1>1, <1>2, <1>3, <1>4, ReaderPops

LEMMA ReaderEndReader ==
    ASSUME Base, ReaderInv, NEW t \in Tasks, stack[t] # <<>>, EndReader(t),
           UNCHANGED <<dbFile, queue>>, leaked \subseteq leaked',
           \A r \in Readers : Top(t).begins /\ Top(t).conn = r => r \in leaked' \/ Quiet(r)
    PROVE  ReaderInv'
  <1>1. stack' = Popped(t) /\ at' = [at EXCEPT ![t] = "body"]
    BY DEF EndReader
  <1>2. committed' = committed /\ \A r \in Readers : ConnRests(r)
    BY DEF dbFile, ConnRests
  <1> QED
    BY <1>1, <1>2, ReaderPops

LEMMA ReaderLeaves ==
    ASSUME Base, ReaderInv, NEW t \in Tasks, NEW failing \in BOOLEAN, LeaveBody(t, failing),
           at[t] \in {"body", "statement"}, stack[t] # <<>>, UNCHANGED leaked
    PROVE  ReaderInv'
  <1>1. UNCHANGED <<committed, begun, snap, leaked, dbFile>>
    BY DEF LeaveBody, dbFile
  <1>2. /\ Top(t) \in Frames /\ Len(stack[t]) \in DOMAIN stack[t] /\ Top(t) = stack[t][Len(stack[t])]
    BY StackFacts DEF Base
  <1>3. CASE LeaveWriter(t, failing)
    <2> DEFINE g == [Top(t) EXCEPT !.failed = failing]
    <2>1. /\ stack' = WithTop(t, g) /\ queue' = Sent(Writer, Ending(failing), Top(t).name, t)
          /\ at' = [at EXCEPT ![t] = Ending(failing)]
      BY <1>3 DEF LeaveWriter, SavepointName
    <2>2. g \in Frames /\ SameReads(g, Top(t)) /\ Top(t).name \in Nat
      BY <1>2 DEF Frames, SameReads
    <2> HIDE DEF g
    <2>3. PICK w : w = Ending(failing)
      OBVIOUS
    <2>4. w \in {"ROLLBACK_TO", "RELEASE"} /\ w \in WriterOps
      BY <2>3 DEF Ending, WriterOps
    <2>5. \A r \in Readers : queue'[r] = queue[r]
      BY <2>1, <2>2, <2>3, <2>4, SentToWriter
    <2>6. at' = [at EXCEPT ![t] = w] /\ w \notin {"BEGIN", "ROLLBACK", "error"}
      BY <2>1, <2>3, <2>4
    <2> QED
      BY <1>1, <2>1, <2>2, <2>5, <2>6, ReaderIdle
  <1>4. CASE LeaveReader(t)
    <2>1. CASE /\ Top(t).begins /\ queue' = Sent(Top(t).conn, "ROLLBACK", 0, t)
               /\ at' = [at EXCEPT ![t] = "ROLLBACK"] /\ stack' = stack
      <3>1. PICK c \in Readers : c = Top(t).conn
        BY <1>2, <2>1, OneUser
      <3> QED
        BY <1>1, <2>1, <3>1, ReaderAsks
    <2>2. CASE ~ Top(t).begins /\ EndReader(t) /\ queue' = queue
      BY <1>1, <2>2, ReaderEndReader
    <2> QED
      BY <1>4, <2>1, <2>2 DEF LeaveReader
  <1> QED
    BY <1>3, <1>4 DEF LeaveBody

LEMMA ReaderRolledBack ==
    ASSUME Base, ReaderInv, NEW t \in Tasks, RolledBack(t), UNCHANGED leaked
    PROVE  ReaderInv'
  <1>1. /\ at[t] = "ROLLBACK_TO" /\ queue' = Sent(Writer, "RELEASE", Top(t).name, t)
        /\ at' = [at EXCEPT ![t] = "RELEASE"] /\ stack' = stack
        /\ UNCHANGED <<committed, begun, snap>>
    BY DEF RolledBack, dbFile
  <1>2. Top(t) \in Frames
    <2>1. stack[t] # <<>>
      BY <1>1 DEF Base, Core, Shape, ShapeOf
    <2> QED
      BY <2>1, StackFacts DEF Base
  <1>3. \A r \in Readers : queue'[r] = queue[r]
    BY <1>1, <1>2, SentToWriter DEF WriterOps, Frames
  <1> QED
    BY <1>1, <1>3, ReaderIdle

LEMMA ReaderCancel ==
    ASSUME Base, ReaderInv, NEW t \in Tasks, Cancel(t)
    PROVE  ReaderInv'
  <1>1. CASE /\ at[t] \in {"lock", "pool"} /\ at' = [at EXCEPT ![t] = "body"]
             /\ UNCHANGED <<dbFile, queue, stack, history>>
    BY <1>1, ReaderIdle DEF dbFile, history
  <1>2. CASE at[t] = "statement" /\ LeaveBody(t, TRUE) /\ UNCHANGED history
    <2>1. stack[t] # <<>>
      BY <1>2 DEF Base, Core, Shape, ShapeOf
    <2> QED
      BY <1>2, <2>1, ReaderLeaves DEF history
  <1>3. CASE /\ at[t] \in {"SAVEPOINT", "RELEASE"} /\ EndWriter(t) /\ leaked \subseteq leaked'
             /\ UNCHANGED <<dbFile, queue>>
    BY <1>3, ReaderEndWriter
  <1>4. CASE /\ at[t] \in {"BEGIN", "ROLLBACK"} /\ EndReader(t)
             /\ leaked' = leaked \cup {Top(t).conn} /\ UNCHANGED <<dbFile, queue>>
    <2>1. stack[t] # <<>>
      BY <1>4, BeginsIsReader
    <2> QED
      BY <1>4, <2>1, ReaderEndReader
  <1>5. CASE RolledBack(t) /\ UNCHANGED history
    BY <1>5, ReaderRolledBack DEF history
  <1> QED
    BY <1>1, <1>2, <1>3, <1>4, <1>5 DEF Cancel

LEMMA ReaderStep ==
    ASSUME Base, WriterInv, ReaderInv, [Next]_vars
    PROVE  ReaderInv'
  <1>1. CASE UNCHANGED vars
    <2>1. UNCHANGED <<committed, begun, snap, leaked, queue, stack, at>>
      BY <1>1 DEF vars, dbFile, history
    <2> QED
      BY <2>1, ReaderRests DEF ConnRests, SameReads, AwaitsRest
  <1>2. ASSUME NEW c \in Conns, RunStatement(c) PROVE ReaderInv'
    <2>1. CASE c = Writer
      <3>1. /\ queue[Writer] # <<>> /\ queue' = [queue EXCEPT ![Writer] = Tail(@)]
            /\ UNCHANGED <<begun, snap, stack, at, leaked>>
        BY <1>2, <2>1, DBAssumption DEF RunStatement, history
      <3>2. \A r \in Readers : queue'[r] = queue[r]
        BY <3>1, DBAssumption DEF Base, TypeOK, Conns
      <3>3. committed \subseteq committed'
        BY CommittedGrows
      <3> QED
        BY <3>1, <3>2, <3>3, ReaderRests DEF ConnRests, SameReads, AwaitsRest
    <2>2. CASE c # Writer
      BY <1>2, <2>2, ReaderRuns DEF Conns
    <2> QED
      BY <2>1, <2>2
  <1>3. ASSUME NEW t \in Tasks, Step(t) PROVE ReaderInv'
    <2>1. CASE TakeLock(t)
      BY <2>1, ReaderOpensWriter
    <2>2. CASE TakeConnection(t)
      BY <2>2, ReaderTakesConnection
    <2>3. CASE EnterWriter(t) \/ Continue(t)
      <3>1. /\ at[t] \in {"SAVEPOINT", "statement"} /\ at' = [at EXCEPT ![t] = "body"]
            /\ UNCHANGED <<committed, begun, snap, leaked, queue, stack>>
        BY <2>3 DEF EnterWriter, Continue, dbFile, history
      <3> QED
        BY <3>1, ReaderIdle
    <2>4. CASE EnterReader(t)
      BY <2>4, ReaderEnters
    <2>5. CASE \E failing \in BOOLEAN : Leave(t, failing)
      BY <2>5, ReaderLeaves DEF Leave, history
    <2>6. CASE BeginFails(t) \/ ReaderEnds(t)
      <3>1. /\ at[t] \in {"error", "ROLLBACK"} /\ EndReader(t) /\ UNCHANGED <<dbFile, queue, leaked>>
            /\ at[t] = "ROLLBACK" => Done(t)
        BY <2>6 DEF BeginFails, ReaderEnds, history
      <3>2. stack[t] # <<>> /\ Top(t).begins /\ ReaderOf(t) /\ BeginsOf(t)
        BY <3>1, BeginsIsReader DEF ReaderInv, ReaderOf
      <3>3. Len(stack[t]) \in DOMAIN stack[t] /\ Top(t) = stack[t][Len(stack[t])]
        BY <3>2, StackFacts DEF Base
      <3>4. ASSUME NEW r \in Readers, Top(t).conn = r, r \notin leaked PROVE Quiet(r)
        <4>1. at[t] = "ROLLBACK" /\ Done(t)
          BY <3>1, <3>2, <3>4 DEF ReaderOf
        <4>2. Began(t, Len(stack[t]), r)
          BY <3>2, <3>3, <3>4 DEF BeginsOf
        <4>3. ~ LastSent(r, "ROLLBACK", t)
          <5>1. queue[r] \in Seq(Statements)
            BY DEF Base, TypeOK, Conns
          <5> QED
            BY <3>4, <4>1, <5>1 DEF LastSent, Done
        <4> QED
          BY <4>1, <4>2, <4>3 DEF Began
      <3> QED
        BY <3>1, <3>2, <3>4, ReaderEndReader
    <2>7. CASE Finally(t)
      BY <2>7, ReaderRolledBack DEF Finally, history
    <2>8. CASE Released(t)
      BY <2>8, ReaderEndWriter DEF Released
    <2> QED
      BY <1>3, <2>1, <2>2, <2>3, <2>4, <2>5, <2>6, <2>7, <2>8 DEF Step
  <1>4. ASSUME NEW t \in Tasks, NEW maybe \in BOOLEAN, OpenWriter(t, maybe) PROVE ReaderInv'
    BY <1>4, ReaderOpensWriter
  <1>5. ASSUME NEW t \in Tasks, NEW kind \in {"reader", "plain"}, OpenReader(t, kind) PROVE ReaderInv'
    BY <1>5, ReaderOpens
  <1>6. ASSUME NEW t \in Tasks, Write(t) PROVE ReaderInv'
    <2> DEFINE g == [Top(t) EXCEPT !.wrote = @ \cup {statements + 1}]
    <2>1. /\ at[t] = "body" /\ stack[t] # <<>> /\ queue' = Sent(Writer, "write", statements + 1, t)
          /\ stack' = WithTop(t, g) /\ at' = [at EXCEPT ![t] = "statement"]
          /\ UNCHANGED <<committed, begun, snap, leaked>>
      BY <1>6 DEF Write, Executes, dbFile, history
    <2>2. Top(t) \in Frames /\ statements + 1 \in Rows /\ statements + 1 \in Nat
      BY <2>1, StackFacts, PendingType DEF Base, Rows
    <2>3. g \in Frames /\ SameReads(g, Top(t))
      BY <2>2 DEF Frames, SameReads
    <2> HIDE DEF g
    <2>4. \A r \in Readers : queue'[r] = queue[r]
      BY <2>1, <2>2, SentToWriter DEF WriterOps
    <2> QED
      BY <2>1, <2>3, <2>4, ReaderIdle
  <1>7. ASSUME NEW t \in Tasks, Select(t) PROVE ReaderInv'
    <2>1. /\ at[t] = "body" /\ stack[t] # <<>> /\ Top(t).conn # Writer
          /\ queue' = Sent(Top(t).conn, "SELECT", 0, t) /\ at' = [at EXCEPT ![t] = "statement"]
          /\ UNCHANGED <<committed, begun, snap, leaked, stack>>
      BY <1>7 DEF Select, Executes, dbFile, history
    <2>2. Top(t) \in Frames
      BY <2>1, StackFacts DEF Base
    <2>3. PICK c \in Readers : c = Top(t).conn
      BY <2>1, <2>2 DEF Frames, Conns
    <2> QED
      BY <2>1, <2>3, ReaderAsks
  <1>8. ASSUME NEW t \in Tasks, Cancel(t) PROVE ReaderInv'
    BY <1>8, ReaderCancel
  <1> QED
    BY <1>1, <1>2, <1>3, <1>4, <1>5, <1>6, <1>7, <1>8 DEF Next

(* A connection of the pool is in a transaction exactly while a reader     *)
(* that sent BEGIN is open, unless the await of a BEGIN or ROLLBACK was    *)
(* cancelled.                                                              *)
THEOREM ReaderInvariance == Spec => []ReaderInv
  <1>1. Init => ReaderInv
    BY ReaderInit
  <1>2. (Base /\ WriterInv) /\ ReaderInv /\ [Next]_vars => ReaderInv'
    BY ReaderStep
  <1> QED
    BY <1>1, <1>2, WriterInvariance, PTL DEF Spec

(* What a context of reader or reader_no_transaction has read holds all    *)
(* that was committed before it took its connection, unless a BEGIN or     *)
(* ROLLBACK of that connection was cancelled.                              *)
THEOREM ReadsFresh == Spec => []ReadsAreFresh
  <1>1. Base /\ ReaderInv => ReadsAreFresh
    <2> SUFFICES ASSUME Base, ReaderInv, NEW t \in Tasks, NEW i \in DOMAIN stack[t],
                        stack[t][i].seen # NoRows, stack[t][i].conn \notin leaked
                 PROVE  stack[t][i].since \subseteq stack[t][i].seen
      BY DEF ReadsAreFresh
    <2>1. ReadsOK(t, i) /\ stack[t][i].conn \in Conns
      BY OneUser DEF ReaderInv, ReaderOf, Frames
    <2> QED
      BY <2>1 DEF ReadsOK, Conns
  <1> QED
    BY <1>1, BaseInvariance, ReaderInvariance, PTL

------------------------------------------------------------------------------
(* What the contexts that stay have seen stays the same.                   *)
SeenRests ==
    \A u \in Tasks : \A i \in DOMAIN stack[u] \cap DOMAIN stack'[u] :
        stack'[u][i].seen = stack[u][i].seen

LEMMA SeenPush ==
    ASSUME Base, NEW t \in Tasks, NEW f \in Frames, Push(t, f)
    PROVE  SeenRests
  <1>1. /\ \A u \in Tasks : u # t => stack'[u] = stack[u]
        /\ \A i \in 1 .. Len(stack[t]) : stack'[t][i] = stack[t][i]
    BY PushFacts DEF Base
  <1>2. DOMAIN stack[t] = 1 .. Len(stack[t])
    BY StackFacts DEF Base
  <1> QED
    BY <1>1, <1>2 DEF SeenRests

LEMMA SeenPop ==
    ASSUME Base, NEW t \in Tasks, stack[t] # <<>>, stack' = Popped(t)
    PROVE  SeenRests
  <1>1. /\ \A u \in Tasks : u # t => stack'[u] = stack[u]
        /\ DOMAIN stack'[t] = 1 .. (Len(stack[t]) - 1)
        /\ \A i \in 1 .. (Len(stack[t]) - 1) : KeepsAllBut(stack'[t][i], stack[t][i])
    BY PopFacts DEF Base
  <1> QED
    BY <1>1 DEF SeenRests, KeepsAllBut

LEMMA SeenTop ==
    ASSUME Base, NEW t \in Tasks, stack[t] # <<>>, NEW g \in Frames, g.seen = Top(t).seen,
           stack' = WithTop(t, g)
    PROVE  SeenRests
  <1>1. TopBecomes(t, g) /\ Top(t) = stack[t][Len(stack[t])]
    BY TopFacts, StackFacts DEF Base
  <1> QED
    BY <1>1 DEF TopBecomes, SeenRests

LEMMA SeenUnchanged ==
    ASSUME UNCHANGED stack
    PROVE  SeenRests
  BY DEF SeenRests

LEMMA SeenConnected ==
    ASSUME Base, NEW t \in Tasks, NEW kind \in {"reader", "plain"}, NEW conn \in Conns,
           NEW holds \in BOOLEAN, Connected(t, Frame(kind, 0, conn, holds))
    PROVE  SeenRests
  <1> DEFINE e == Frame(kind, 0, conn, holds)
             begins == Begins(e)
             since == IF e.holds THEN committed ELSE {}
             f == [e EXCEPT !.begins = begins, !.since = since]
  <1>1. e \in Frames /\ Push(t, f)
    BY DEF Frame, Frames, NoRows, Connected
  <1>2. begins \in BOOLEAN /\ since \in SUBSET Rows
    BY DEF Begins, Base, TypeOK
  <1> HIDE DEF e, begins, since
  <1>3. f \in Frames
    BY <1>1, <1>2 DEF Frames
  <1> HIDE DEF f
  <1> QED
    BY <1>1, <1>3, SeenPush

LEMMA SeenLeaves ==
    ASSUME Base, NEW t \in Tasks, NEW failing \in BOOLEAN, LeaveBody(t, failing), stack[t] # <<>>
    PROVE  SeenRests
  <1>1. Top(t) \in Frames
    BY StackFacts DEF Base
  <1>2. CASE LeaveWriter(t, failing)
    <2> DEFINE g == [Top(t) EXCEPT !.failed = failing]
    <2>1. stack' = WithTop(t, g) /\ g \in Frames /\ g.seen = Top(t).seen
      BY <1>1, <1>2 DEF LeaveWriter, Frames
    <2> HIDE DEF g
    <2> QED
      BY <2>1, SeenTop
  <1>3. CASE LeaveReader(t)
    BY <1>3, SeenPop, SeenUnchanged DEF LeaveReader, EndReader
  <1> QED
    BY <1>2, <1>3 DEF LeaveBody

LEMMA SeenStep ==
    ASSUME Base, [Next]_vars, ~ \E c \in Readers : RunStatement(c)
    PROVE  SeenRests
  <1>1. ASSUME NEW t \in Tasks, Step(t) PROVE SeenRests
    <2>1. CASE TakeLock(t)
      <3>1. Frame("top", nextName, Writer, FALSE) \in Frames
        BY PendingType DEF Frame, Frames, NoRows
      <3> QED
        BY <2>1, <3>1, SeenPush DEF TakeLock
    <2>2. CASE TakeConnection(t)
      <3>1. pool # <<>> /\ poolWaiters # <<>> /\ Connected(t, Frame(Head(poolWaiters).kind, 0, Head(pool), TRUE))
        BY <2>2 DEF TakeConnection
      <3>2. Head(pool) \in Conns
        BY <3>1 DEF Base, TypeOK, Conns
      <3>3. Head(poolWaiters).kind \in {"reader", "plain"}
        <4>1. poolWaiters \in Seq([task : Tasks, kind : {"reader", "plain"}])
          BY DEF Base, TypeOK
        <4>2. Head(poolWaiters) \in [task : Tasks, kind : {"reader", "plain"}]
          BY <3>1, <4>1, HeadTailProperties
        <4> QED
          BY <4>2
      <3> QED
        BY <3>1, <3>2, <3>3, SeenConnected
    <2>3. CASE EnterWriter(t) \/ Continue(t) \/ EnterReader(t) \/ Finally(t)
      BY <2>3, SeenUnchanged DEF EnterWriter, Continue, EnterReader, Finally, RolledBack
    <2>4. CASE \E failing \in BOOLEAN : Leave(t, failing)
      BY <2>4, SeenLeaves DEF Leave
    <2>5. CASE BeginFails(t) \/ ReaderEnds(t) \/ Released(t)
      <3>1. at[t] \in {"error", "ROLLBACK", "RELEASE"} /\ stack' = Popped(t)
        BY <2>5 DEF BeginFails, ReaderEnds, Released, EndReader, EndWriter
      <3>2. stack[t] # <<>>
        BY <3>1 DEF Base, Core, Shape, ShapeOf
      <3> QED
        BY <3>1, <3>2, SeenPop
    <2> QED
      BY <1>1, <2>1, <2>2, <2>3, <2>4, <2>5 DEF Step
  <1>2. ASSUME NEW t \in Tasks, NEW maybe \in BOOLEAN, OpenWriter(t, maybe) PROVE SeenRests
    <2>1. /\ Frame("nested", nextName, Writer, FALSE) \in Frames
          /\ Frame("joined", 0, Writer, FALSE) \in Frames
      BY PendingType DEF Frame, Frames, NoRows
    <2>2. \/ UNCHANGED stack
          \/ Push(t, Frame("nested", nextName, Writer, FALSE))
          \/ Push(t, Frame("joined", 0, Writer, FALSE))
      BY <1>2 DEF OpenWriter
    <2> QED
      BY <2>1, <2>2, SeenPush, SeenUnchanged
  <1>3. ASSUME NEW t \in Tasks, NEW kind \in {"reader", "plain"}, OpenReader(t, kind) PROVE SeenRests
    <2>1. Writer \in Conns /\ inUse[t] \in Conns
      BY PendingType DEF Base, TypeOK
    <2>2. \/ UNCHANGED stack
          \/ Connected(t, Frame(kind, 0, Writer, FALSE))
          \/ Connected(t, Frame(kind, 0, inUse[t], FALSE))
      BY <1>3 DEF OpenReader
    <2> QED
      BY <2>1, <2>2, SeenConnected, SeenUnchanged
  <1>4. ASSUME NEW t \in Tasks, Write(t) PROVE SeenRests
    <2> DEFINE g == [Top(t) EXCEPT !.wrote = @ \cup {statements + 1}]
    <2>1. stack[t] # <<>> /\ stack' = WithTop(t, g)
      BY <1>4 DEF Write, Executes
    <2>2. Top(t) \in Frames /\ statements + 1 \in Rows
      BY <2>1, StackFacts, PendingType DEF Base, Rows
    <2>3. g \in Frames /\ g.seen = Top(t).seen
      BY <2>2 DEF Frames
    <2> HIDE DEF g
    <2> QED
      BY <2>1, <2>3, SeenTop
  <1>5. ASSUME NEW t \in Tasks, Cancel(t) PROVE SeenRests
    <2>1. CASE UNCHANGED stack
      BY <2>1, SeenUnchanged
    <2>2. CASE at[t] = "statement" /\ LeaveBody(t, TRUE)
      <3>1. stack[t] # <<>>
        BY <2>2 DEF Base, Core, Shape, ShapeOf
      <3> QED
        BY <2>2, <3>1, SeenLeaves
    <2>3. CASE at[t] \in {"SAVEPOINT", "BEGIN", "ROLLBACK", "RELEASE"} /\ stack' = Popped(t)
      <3>1. stack[t] # <<>>
        BY <2>3 DEF Base, Core, Shape, ShapeOf
      <3> QED
        BY <2>3, <3>1, SeenPop
    <2> QED
      BY <1>5, <2>1, <2>2, <2>3 DEF Cancel, EndWriter, EndReader, RolledBack
  <1>6. CASE RunStatement(Writer)
    BY <1>6, SeenUnchanged, DBAssumption DEF RunStatement
  <1>7. CASE UNCHANGED vars
    BY <1>7, SeenUnchanged DEF vars
  <1>8. ASSUME NEW t \in Tasks, Select(t) PROVE SeenRests
    BY <1>8, SeenUnchanged DEF Select
  <1> QED
    BY <1>1, <1>2, <1>3, <1>4, <1>5, <1>6, <1>7, <1>8 DEF Next, Conns

(* The thread of a reading connection runs a SELECT: a reader that has     *)
(* read before sees the snapshot of its transaction again.                 *)
LEMMA SnapshotRead ==
    ASSUME Base, ReaderInv, NEW c \in Readers, RunStatement(c),
           NEW t \in Tasks, NEW i \in DOMAIN stack[t], stack[t][i].kind = "reader",
           stack[t][i].seen # NoRows, stack[t][i].conn \notin leaked
    PROVE  stack'[t][i].seen = stack[t][i].seen
  <1> SUFFICES ASSUME stack'[t][i].seen # stack[t][i].seen PROVE FALSE
    OBVIOUS
  <1>1. /\ at[t] = "statement" /\ i = Len(stack[t])
        /\ stack[t][i].conn = c /\ stack'[t][i].seen = Visible(c)
    BY ReaderSees
  <1>2. /\ \E j \in DOMAIN stack[t] : j <= i /\ stack[t][j].begins
        /\ stack[t][i].seen = snap[c]
    BY <1>1 DEF ReaderInv, ReaderOf, ReadsOK
  <1>3. PICK j \in DOMAIN stack[t] : stack[t][j].begins
    BY <1>2
  <1>4. stack[t][j].conn = c
    BY <1>1, <1>3, OneUser
  <1>5. Began(t, j, c)
    BY <1>1, <1>3, <1>4 DEF ReaderInv, ReaderOf, BeginsOf
  <1>6. begun[c]
    BY <1>1, <1>5 DEF Began
  <1> QED
    BY <1>1, <1>2, <1>6 DEF Visible

(* Every SELECT of one reader sees the same rows, whatever writers commit  *)
(* in between, unless a BEGIN or ROLLBACK of its connection was cancelled: *)
(* what reader of db_wrapper.py sends BEGIN for.                           *)
THEOREM SnapshotsStable == Spec => SnapshotStable
  <1> DEFINE Stable ==
        \A t \in Tasks : \A i \in DOMAIN stack[t] \cap DOMAIN stack'[t] :
            LET f == stack[t][i]
            IN f.kind = "reader" /\ f.seen # NoRows /\ f.conn \notin leaked'
               /\ stack'[t][i].since = f.since /\ stack'[t][i].kind = "reader"
               => stack'[t][i].seen = f.seen
  <1>1. ASSUME Base, ReaderInv, [Next]_vars PROVE Stable
    <2>1. CASE ~ \E c \in Readers : RunStatement(c)
      <3>1. SeenRests
        BY <1>1, <2>1, SeenStep
      <3> QED
        BY <3>1 DEF SeenRests
    <2>2. ASSUME NEW c \in Readers, RunStatement(c) PROVE Stable
      <3>1. leaked' = leaked
        BY <2>2 DEF RunStatement, history
      <3> QED
        BY <1>1, <2>2, <3>1, SnapshotRead
    <2> QED
      BY <2>1, <2>2
  <1>2. Base /\ ReaderInv /\ [Next]_vars => [Stable]_vars
    BY <1>1
  <1> HIDE DEF Stable
  <1>3. Spec => [][Stable]_vars
    BY <1>2, BaseInvariance, ReaderInvariance, PTL DEF Spec
  <1> QED
    BY <1>3 DEF SnapshotStable, Stable
==============================================================================
