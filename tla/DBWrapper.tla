------------------------------ MODULE DBWrapper ------------------------------
(***************************************************************************)
(* DBWrapper2 (util/db_wrapper.py): one connection that writes, guarded by *)
(* a lock and by savepoints that nest within a task, and a pool of         *)
(* connections that read.                                                  *)
(*                                                                         *)
(* The database is the set of the rows written to it.  Every connection    *)
(* belongs to a thread of aiosqlite that runs the statements it is sent in *)
(* their order; a task that is cancelled while it awaits a statement goes  *)
(* on at once, and the statement is run all the same.                      *)
(***************************************************************************)
EXTENDS Naturals, Sequences, SequencesExt, FiniteSets

CONSTANTS Tasks, Readers,  \* tasks; connections that read
          NoTask, Writer,  \* no task; the connection that writes
          MaxDepth,        \* bound: contexts of one task open at a time
          MaxOpens,        \* bound: contexts opened in all
          MaxStatements,   \* bound: statements of the contexts' bodies
          MaxCancels       \* bound: cancellations

Conns == Readers \cup {Writer}

ASSUME DBAssumption ==
    /\ NoTask \notin Tasks
    /\ Writer \notin Readers
    /\ IsFiniteSet(Readers) /\ Readers # {}
    /\ {MaxDepth, MaxOpens, MaxStatements, MaxCancels} \subseteq Nat

VARIABLES
    committed,     \* rows in the database file
    data,          \* rows as the open transaction of Writer sees them
    savepoints,    \* its savepoints: name, and the rows when it was set
    begun, snap,   \* of each reader: in a transaction; the rows it sees
    queue,         \* of each connection: statements its thread has to run
    lock, lockWaiters,          \* _lock
    currentWriter, nextName,    \* _current_writer, _savepoint_name
    pool, poolWaiters, inUse,   \* _read_connections, _in_use
    stack,         \* of each task: the contexts it has entered
    at,            \* of each task: what it awaits, or body
    opens, statements, cancels, \* counters for the bounds
    kept, undone,  \* history: rows of transactions that ended well, and of
                   \* contexts left by an exception
    leaked         \* history: connections with a BEGIN, ROLLBACK or outermost
                   \* SAVEPOINT whose await was cancelled

dbFile   == <<committed, data, savepoints, begun, snap>>
access   == <<lock, lockWaiters, currentWriter, pool, poolWaiters, inUse>>
counters == <<opens, statements, cancels>>
history  == <<kept, undone, leaked>>
vars == <<dbFile, queue, access, nextName, stack, at, counters, history>>

NoRows == {0}    \* no snapshot, nothing read yet: rows are 1, 2, ...

(* A context: which manager it is, the name of its savepoint, its          *)
(* connection, whether it took that from the pool and whether it sent      *)
(* BEGIN, the rows it wrote, whether an exception ends it, and the rows    *)
(* there were when it began and that it read.                              *)
Frame(kind, name, conn, holds) ==
    [kind |-> kind, name |-> name, conn |-> conn, holds |-> holds, begins |-> FALSE,
     wrote |-> {}, failed |-> FALSE, since |-> {}, seen |-> NoRows]

Init ==
    /\ committed = {} /\ data = {} /\ savepoints = <<>>
    /\ begun = [r \in Readers |-> FALSE]
    /\ snap = [r \in Readers |-> NoRows]
    /\ queue = [c \in Conns |-> <<>>]
    /\ lock = NoTask /\ lockWaiters = <<>>
    /\ currentWriter = NoTask /\ nextName = 0
    /\ pool = SetToSeq(Readers) /\ poolWaiters = <<>>
    /\ inUse = [t \in Tasks |-> Writer]    \* Writer: the task is no key of _in_use
    /\ stack = [t \in Tasks |-> <<>>]
    /\ at = [t \in Tasks |-> "body"]
    /\ opens = 0 /\ statements = 0 /\ cancels = 0
    /\ kept = {} /\ undone = {} /\ leaked = {}

-----------------------------------------------------------------------------
Top(t) == Last(stack[t])

WithTop(t, f) == [stack EXCEPT ![t][Len(stack[t])] = f]

(* The connections: what SQLite does with a statement.                     *)

(* The savepoints below the one of that name, and the rows when it was     *)
(* set.  SQLite refuses a name that is not set, and changes nothing.       *)
Below(name) ==
    IF \E i \in DOMAIN savepoints : savepoints[i].name = name
    THEN (CHOOSE i \in DOMAIN savepoints : savepoints[i].name = name) - 1
    ELSE Len(savepoints)

RunOnWriter(s) ==
    LET below == Below(s.arg)
        now   == IF savepoints = <<>> THEN committed ELSE data
    IN \/ /\ s.op = "SAVEPOINT"
          /\ savepoints' = Append(savepoints, [name |-> s.arg, rows |-> now])
          /\ data' = now
          /\ UNCHANGED committed
       \/ /\ s.op = "write"
          /\ data' = data \cup {s.arg}
          /\ UNCHANGED <<savepoints, committed>>
       \/ /\ s.op = "ROLLBACK_TO"
          /\ data' = IF below < Len(savepoints) THEN savepoints[below + 1].rows ELSE data
          /\ savepoints' = IF below < Len(savepoints) THEN SubSeq(savepoints, 1, below + 1) ELSE savepoints
          /\ UNCHANGED committed
       \/ /\ s.op = "RELEASE"
          /\ savepoints' = SubSeq(savepoints, 1, below)
          /\ committed' = IF below = 0 /\ savepoints # <<>> THEN data ELSE committed
          /\ UNCHANGED data

(* What a SELECT of reader r returns.                                      *)
Visible(r) == IF begun[r] /\ snap[r] # NoRows THEN snap[r] ELSE committed

(* The statement reader r runs next is the last that its task sent to the  *)
(* connection it now uses: not one whose await was cancelled.              *)
Awaited(r) ==
    LET t == Head(queue[r]).task
    IN Top(t).conn = r /\ \A i \in 2 .. Len(queue[r]) : queue[r][i].task # t

(* BEGIN within a transaction is an error; SELECT fixes the snapshot of a  *)
(* deferred transaction.                                                   *)
RunOnReader(r, s) ==
    LET reads == s.op = "SELECT" /\ at[s.task] = "statement" /\ Awaited(r)
        fails == s.op = "BEGIN" /\ begun[r] /\ at[s.task] = "BEGIN" /\ Awaited(r)
    IN /\ begun' = [begun EXCEPT ![r] = CASE s.op = "BEGIN" -> TRUE [] s.op = "ROLLBACK" -> FALSE [] OTHER -> @]
       /\ snap' = [snap EXCEPT ![r] = CASE s.op = "SELECT" /\ begun[r] -> Visible(r)
                                        [] s.op = "ROLLBACK" -> NoRows
                                        [] OTHER -> @]
       /\ stack' = IF reads THEN WithTop(s.task, [Top(s.task) EXCEPT !.seen = Visible(r)]) ELSE stack
       /\ at' = IF fails THEN [at EXCEPT ![s.task] = "error"] ELSE at

(* The thread of connection c runs its next statement.                     *)
RunStatement(c) ==
    /\ queue[c] # <<>>
    /\ queue' = [queue EXCEPT ![c] = Tail(@)]
    /\ \/ c = Writer /\ RunOnWriter(Head(queue[c])) /\ UNCHANGED <<begun, snap, stack, at>>
       \/ c # Writer /\ RunOnReader(c, Head(queue[c])) /\ UNCHANGED <<committed, data, savepoints>>
    /\ UNCHANGED <<access, nextName, counters, history>>

-----------------------------------------------------------------------------
Push(t, f) == stack' = [stack EXCEPT ![t] = Append(@, f)]

Sent(c, op, arg, t) == [queue EXCEPT ![c] = Append(@, [op |-> op, arg |-> arg, task |-> t])]

(* The statement that t awaits has been run.                               *)
Done(t) == \A i \in DOMAIN queue[Top(t).conn] : queue[Top(t).conn][i].task # t

Opens(t) ==
    /\ at[t] = "body"
    /\ Len(stack[t]) < MaxDepth
    /\ opens < MaxOpens
    /\ opens' = opens + 1
    /\ UNCHANGED <<statements, cancels, history>>

(* writer, and writer_maybe_transaction when maybe is TRUE: a task that is *)
(* not the writer waits for the lock, one that is sets a savepoint of its  *)
(* own, or just goes on.                                                   *)
OpenWriter(t, maybe) ==
    /\ Opens(t)
    /\ \/ /\ currentWriter # t
          /\ at' = [at EXCEPT ![t] = "lock"]
          /\ lockWaiters' = Append(lockWaiters, t)
          /\ UNCHANGED <<queue, nextName, stack>>
       \/ /\ currentWriter = t /\ ~maybe
          /\ Push(t, Frame("nested", nextName, Writer, FALSE))
          /\ queue' = Sent(Writer, "SAVEPOINT", nextName, t)
          /\ nextName' = nextName + 1
          /\ at' = [at EXCEPT ![t] = "SAVEPOINT"]
          /\ UNCHANGED lockWaiters
       \/ /\ currentWriter = t /\ maybe
          /\ Push(t, Frame("joined", 0, Writer, FALSE))
          /\ UNCHANGED <<queue, nextName, at, lockWaiters>>
    /\ UNCHANGED <<dbFile, lock, currentWriter, pool, poolWaiters, inUse>>

(* The lock is free and t is the first to wait for it.                     *)
TakeLock(t) ==
    /\ at[t] = "lock" /\ lock = NoTask
    /\ lockWaiters # <<>> /\ Head(lockWaiters) = t
    /\ lock' = t
    /\ lockWaiters' = Tail(lockWaiters)
    /\ Push(t, Frame("top", nextName, Writer, FALSE))
    /\ queue' = Sent(Writer, "SAVEPOINT", nextName, t)
    /\ nextName' = nextName + 1
    /\ at' = [at EXCEPT ![t] = "SAVEPOINT"]
    /\ UNCHANGED <<dbFile, currentWriter, pool, poolWaiters, inUse, counters, history>>

(* SAVEPOINT returns, and the body begins.                                 *)
EnterWriter(t) ==
    /\ at[t] = "SAVEPOINT" /\ Done(t)
    /\ currentWriter' = t
    /\ at' = [at EXCEPT ![t] = "body"]
    /\ UNCHANGED <<dbFile, queue, lock, lockWaiters, pool, poolWaiters, inUse, nextName, stack, counters, history>>

(* Mutant: no transaction around the reads.                                *)
NoBegin(f) == FALSE

(* connection.in_transaction; a writer's connection always is in one.      *)
Begins(f) == f.kind = "reader" /\ f.conn # Writer /\ ~begun[f.conn]

(* The rest of reader once its connection is known, which may be BEGIN,    *)
(* and of reader_no_transaction, kind plain, which sends none.             *)
Connected(t, f) ==
    LET begins == Begins(f)
        since  == IF f.holds THEN committed ELSE {}
    IN /\ Push(t, [f EXCEPT !.begins = begins, !.since = since])
       /\ \/ begins /\ queue' = Sent(f.conn, "BEGIN", 0, t) /\ at' = [at EXCEPT ![t] = "BEGIN"]
          \/ ~begins /\ UNCHANGED queue /\ at' = [at EXCEPT ![t] = "body"]

(* reader and reader_no_transaction: the writer reads through its own      *)
(* connection, a task that has one in use takes the same again, any other  *)
(* waits for one of the pool.                                              *)
OpenReader(t, kind) ==
    /\ Opens(t)
    /\ \/ currentWriter = t /\ Connected(t, Frame(kind, 0, Writer, FALSE)) /\ UNCHANGED poolWaiters
       \/ /\ currentWriter # t /\ inUse[t] # Writer
          /\ Connected(t, Frame(kind, 0, inUse[t], FALSE))
          /\ UNCHANGED poolWaiters
       \/ /\ currentWriter # t /\ inUse[t] = Writer
          /\ at' = [at EXCEPT ![t] = "pool"]
          /\ poolWaiters' = Append(poolWaiters, [task |-> t, kind |-> kind])
          /\ UNCHANGED <<queue, stack>>
    /\ UNCHANGED <<dbFile, lock, lockWaiters, currentWriter, pool, inUse, nextName>>

TakeConnection(t) ==
    /\ at[t] = "pool" /\ pool # <<>>
    /\ poolWaiters # <<>> /\ Head(poolWaiters).task = t
    /\ pool' = Tail(pool)
    /\ poolWaiters' = Tail(poolWaiters)
    /\ inUse' = [inUse EXCEPT ![t] = Head(pool)]
    /\ Connected(t, Frame(Head(poolWaiters).kind, 0, Head(pool), TRUE))
    /\ UNCHANGED <<dbFile, lock, lockWaiters, currentWriter, nextName, counters, history>>

EnterReader(t) ==
    /\ at[t] = "BEGIN" /\ Done(t)
    /\ at' = [at EXCEPT ![t] = "body"]
    /\ UNCHANGED <<dbFile, queue, access, nextName, stack, counters, history>>

-----------------------------------------------------------------------------
(* The body of a context executes a statement of its own.                  *)

Executes(t) == at[t] = "body" /\ stack[t] # <<>> /\ statements < MaxStatements

Write(t) ==
    /\ Executes(t)
    /\ Top(t).kind \in {"top", "nested", "joined"}
    /\ statements' = statements + 1
    /\ queue' = Sent(Writer, "write", statements + 1, t)
    /\ stack' = WithTop(t, [Top(t) EXCEPT !.wrote = @ \cup {statements + 1}])
    /\ at' = [at EXCEPT ![t] = "statement"]
    /\ UNCHANGED <<dbFile, access, nextName, opens, cancels, history>>

Select(t) ==
    /\ Executes(t)
    /\ Top(t).kind \in {"reader", "plain"} /\ Top(t).conn # Writer
    /\ statements' = statements + 1
    /\ queue' = Sent(Top(t).conn, "SELECT", 0, t)
    /\ at' = [at EXCEPT ![t] = "statement"]
    /\ UNCHANGED <<dbFile, access, nextName, stack, opens, cancels, history>>

Continue(t) ==
    /\ at[t] = "statement" /\ Done(t)
    /\ at' = [at EXCEPT ![t] = "body"]
    /\ UNCHANGED <<dbFile, queue, access, nextName, stack, counters, history>>

-----------------------------------------------------------------------------
(* How contexts end.                                                       *)

(* Control returns to the context around the innermost one of t.  What a   *)
(* context wrote counts as its parent's, unless it was rolled back.        *)
Popped(t) ==
    LET n     == Len(stack[t])
        outer == SubSeq(stack[t], 1, n - 1)
        f     == Top(t)
    IN [stack EXCEPT ![t] =
            IF n > 1 /\ f.kind # "top" /\ ~f.failed
            THEN [outer EXCEPT ![n - 1].wrote = @ \cup f.wrote]
            ELSE outer]

(* Mutant: a nested reader gives the connection back too.                  *)
EndNestedReader(t) ==
    /\ stack' = Popped(t)
    /\ at' = [at EXCEPT ![t] = "body"]
    /\ inUse' = [inUse EXCEPT ![t] = Writer]
    /\ pool' = Append(pool, Top(t).conn)

(* The end of reader_no_transaction: the connection goes back to the pool. *)
EndReader(t) ==
    /\ stack' = Popped(t)
    /\ at' = [at EXCEPT ![t] = "body"]
    /\ IF Top(t).holds
       THEN inUse' = [inUse EXCEPT ![t] = Writer] /\ pool' = Append(pool, Top(t).conn)
       ELSE UNCHANGED <<inUse, pool>>

(* Mutant: the lock is not released when the context fails.                *)
EndWriterLocked(t) ==
    /\ stack' = Popped(t)
    /\ at' = [at EXCEPT ![t] = "body"]
    /\ lock' = IF Top(t).kind = "top" /\ ~Top(t).failed THEN NoTask ELSE lock
    /\ undone' = IF Top(t).failed THEN undone \cup Top(t).wrote ELSE undone

(* The end of a savepoint, and of the lock around the outermost one.       *)
EndWriter(t) ==
    /\ stack' = Popped(t)
    /\ at' = [at EXCEPT ![t] = "body"]
    /\ lock' = IF Top(t).kind = "top" THEN NoTask ELSE lock
    /\ undone' = IF Top(t).failed THEN undone \cup Top(t).wrote ELSE undone

(* Mutant: no ROLLBACK TO before the RELEASE.                              *)
EndingReleases(failing) == "RELEASE"

(* What _savepoint_ctx sends when its body ends, by an exception or not.   *)
Ending(failing) == IF failing THEN "ROLLBACK_TO" ELSE "RELEASE"

(* Mutant: the end of a nested writer commits the whole transaction.       *)
OutermostName(t) == IF savepoints = <<>> THEN Top(t).name ELSE savepoints[1].name

SavepointName(t) == Top(t).name

LeaveWriter(t, failing) ==
    /\ Top(t).kind \in {"top", "nested"}
    /\ stack' = WithTop(t, [Top(t) EXCEPT !.failed = failing])
    /\ queue' = Sent(Writer, Ending(failing), SavepointName(t), t)
    /\ at' = [at EXCEPT ![t] = Ending(failing)]
    /\ currentWriter' = IF Top(t).kind = "top" THEN NoTask ELSE currentWriter
    /\ UNCHANGED <<pool, inUse>>

(* Mutant: the connection goes back to the pool within its transaction.    *)
LeaveReaderOpen(t) ==
    /\ Top(t).kind \in {"joined", "reader", "plain"}
    /\ EndReader(t)
    /\ UNCHANGED <<queue, currentWriter>>

(* reader ends the transaction it began; the other managers only return.   *)
LeaveReader(t) ==
    /\ Top(t).kind \in {"joined", "reader", "plain"}
    /\ \/ /\ Top(t).begins
          /\ queue' = Sent(Top(t).conn, "ROLLBACK", 0, t)
          /\ at' = [at EXCEPT ![t] = "ROLLBACK"]
          /\ UNCHANGED <<stack, currentWriter, pool, inUse>>
       \/ ~Top(t).begins /\ EndReader(t) /\ UNCHANGED <<queue, currentWriter>>

(* The body of the innermost context ends, by an exception or not.         *)
LeaveBody(t, failing) ==
    /\ LeaveWriter(t, failing) \/ LeaveReader(t)
    /\ UNCHANGED <<dbFile, lock, lockWaiters, poolWaiters, nextName>>

Leave(t, failing) ==
    /\ at[t] = "body" /\ stack[t] # <<>>
    /\ LeaveBody(t, failing)
    /\ UNCHANGED <<counters, history>>

(* BEGIN failed: the exception leaves reader before its try block.         *)
BeginFails(t) ==
    /\ at[t] = "error"
    /\ EndReader(t)
    /\ UNCHANGED <<dbFile, queue, lock, lockWaiters, currentWriter, poolWaiters, nextName, counters, history>>

(* ROLLBACK TO returns, and the finally block sends RELEASE.               *)
RolledBack(t) ==
    /\ at[t] = "ROLLBACK_TO"
    /\ queue' = Sent(Writer, "RELEASE", Top(t).name, t)
    /\ at' = [at EXCEPT ![t] = "RELEASE"]
    /\ UNCHANGED <<dbFile, access, nextName, stack>>

(* Mutant: the transaction is left open after the rollback.                *)
FinallyNoRelease(t) ==
    /\ at[t] = "ROLLBACK_TO" /\ Done(t)
    /\ EndWriter(t)
    /\ UNCHANGED <<dbFile, queue, lockWaiters, currentWriter, pool, poolWaiters, inUse, nextName, counters, kept, leaked>>

Finally(t) == RolledBack(t) /\ Done(t) /\ UNCHANGED <<counters, history>>

(* RELEASE returns.                                                        *)
Released(t) ==
    /\ at[t] = "RELEASE" /\ Done(t)
    /\ EndWriter(t)
    /\ kept' = IF Top(t).kind = "top" /\ ~Top(t).failed THEN kept \cup Top(t).wrote ELSE kept
    /\ UNCHANGED <<dbFile, queue, lockWaiters, currentWriter, pool, poolWaiters, inUse, nextName, counters, leaked>>

(* ROLLBACK of a reader returns.                                           *)
ReaderEnds(t) ==
    /\ at[t] = "ROLLBACK" /\ Done(t)
    /\ EndReader(t)
    /\ UNCHANGED <<dbFile, queue, lock, lockWaiters, currentWriter, poolWaiters, nextName, counters, history>>

(* The task is cancelled at an await.  The statement it awaits stays with  *)
(* the thread; the task goes on with the exception.                        *)
Cancel(t) ==
    /\ cancels < MaxCancels
    /\ cancels' = cancels + 1
    /\ \/ /\ at[t] = "lock"
          /\ \E i \in DOMAIN lockWaiters :
                lockWaiters[i] = t /\ lockWaiters' = RemoveAt(lockWaiters, i)
          /\ at' = [at EXCEPT ![t] = "body"]
          /\ UNCHANGED <<dbFile, queue, lock, currentWriter, pool, poolWaiters, inUse, nextName, stack, history>>
       \/ /\ at[t] = "pool"
          /\ \E i \in DOMAIN poolWaiters :
                poolWaiters[i].task = t /\ poolWaiters' = RemoveAt(poolWaiters, i)
          /\ at' = [at EXCEPT ![t] = "body"]
          /\ UNCHANGED <<dbFile, queue, lock, lockWaiters, currentWriter, pool, inUse, nextName, stack, history>>
       \/ /\ at[t] = "statement"
          /\ LeaveBody(t, TRUE)
          /\ UNCHANGED history
       \/ /\ at[t] = "SAVEPOINT"
          /\ EndWriter(t)
          /\ leaked' = IF Top(t).kind = "top" THEN leaked \cup {Writer} ELSE leaked
          /\ UNCHANGED <<dbFile, queue, lockWaiters, currentWriter, pool, poolWaiters, inUse, nextName, kept>>
       \/ /\ at[t] \in {"BEGIN", "ROLLBACK"}
          /\ EndReader(t)
          /\ leaked' = leaked \cup {Top(t).conn}
          /\ UNCHANGED <<dbFile, queue, lock, lockWaiters, currentWriter, poolWaiters, nextName, kept, undone>>
       \/ RolledBack(t) /\ UNCHANGED history
       \/ /\ at[t] = "RELEASE"
          /\ EndWriter(t)
          /\ UNCHANGED <<dbFile, queue, lockWaiters, currentWriter, pool, poolWaiters, inUse, nextName, kept, leaked>>
    /\ UNCHANGED <<opens, statements>>

Step(t) ==
    \/ TakeLock(t) \/ EnterWriter(t) \/ TakeConnection(t) \/ EnterReader(t)
    \/ Continue(t)
    \/ \E failing \in BOOLEAN : Leave(t, failing)
    \/ BeginFails(t) \/ Finally(t) \/ Released(t) \/ ReaderEnds(t)

Next ==
    \/ \E t \in Tasks :
        \/ \E maybe \in BOOLEAN : OpenWriter(t, maybe)
        \/ \E kind \in {"reader", "plain"} : OpenReader(t, kind)
        \/ Write(t) \/ Select(t)
        \/ Step(t)
        \/ Cancel(t)
    \/ \E c \in Conns : RunStatement(c)

(* The event loop resumes every task that can go on, the threads run what  *)
(* they are sent, and bodies come to an end.                               *)
Fairness ==
    /\ \A t \in Tasks : WF_vars(Step(t))
    /\ \A c \in Conns : WF_vars(RunStatement(c))

Spec == Init /\ [][Next]_vars /\ Fairness

-----------------------------------------------------------------------------
Rows == Nat \ {0}

Frames == [kind : {"top", "nested", "joined", "reader", "plain"}, name : Nat, conn : Conns,
           holds : BOOLEAN, begins : BOOLEAN, wrote : SUBSET Rows, failed : BOOLEAN,
           since : SUBSET Rows, seen : SUBSET Nat]

Statements == [op : {"SAVEPOINT", "write", "ROLLBACK_TO", "RELEASE", "BEGIN", "SELECT", "ROLLBACK"},
               arg : Nat, task : Tasks]

TypeOK ==
    /\ committed \in SUBSET Rows /\ data \in SUBSET Rows
    /\ savepoints \in Seq([name : Nat, rows : SUBSET Rows])
    /\ begun \in [Readers -> BOOLEAN]
    /\ snap \in [Readers -> SUBSET Nat]
    /\ queue \in [Conns -> Seq(Statements)]
    /\ lock \in Tasks \cup {NoTask} /\ lockWaiters \in Seq(Tasks)
    /\ currentWriter \in Tasks \cup {NoTask} /\ nextName \in Nat
    /\ pool \in Seq(Readers)
    /\ poolWaiters \in Seq([task : Tasks, kind : {"reader", "plain"}])
    /\ inUse \in [Tasks -> Conns]
    /\ stack \in [Tasks -> Seq(Frames)]
    /\ at \in [Tasks -> {"body", "lock", "pool", "error", "statement", "SAVEPOINT", "BEGIN",
                          "ROLLBACK_TO", "RELEASE", "ROLLBACK"}]
    /\ opens \in Nat /\ statements \in Nat /\ cancels \in Nat
    /\ kept \in SUBSET Rows /\ undone \in SUBSET Rows /\ leaked \in SUBSET Conns

(* What a context wrote before an exception ended it is never committed,   *)
(* neither by itself nor by a context around it that ends well.            *)
UndoneNeverCommitted == undone \cap committed = {}

(* The rows of an outermost writer are in the database once it has ended   *)
(* well, whatever was cancelled before it, except the await of an          *)
(* outermost SAVEPOINT.                                                    *)
KeptIsCommitted == Writer \in leaked \/ kept \subseteq committed

(* As the comment of writer_maybe_transaction has it, without exception.   *)
KeptIsAlwaysCommitted == kept \subseteq committed

(* No row is in the database before its outermost writer sends RELEASE.    *)
OpenIsHidden ==
    \A t \in Tasks : \A i \in DOMAIN stack[t] :
        (at[t] = "RELEASE" /\ stack[t][i].kind = "top") \/ stack[t][i].wrote \cap committed = {}

(* Every read connection is in the pool once, or in use by one task; a     *)
(* connection goes back on every way out of a reader.                      *)
PoolConserved ==
    LET users(r) == {t \in Tasks : inUse[t] = r}
    IN \A r \in Readers : Cardinality({i \in DOMAIN pool : pool[i] = r}) + Cardinality(users(r)) = 1

(* What a reader reads holds all that was committed before it began, as    *)
(* long as no BEGIN or ROLLBACK of its connection was cancelled.           *)
ReadsAreFresh ==
    \A t \in Tasks : \A i \in DOMAIN stack[t] :
        LET f == stack[t][i]
        IN f.seen # NoRows /\ f.conn \notin leaked => f.since \subseteq f.seen

(* Within one reader every SELECT sees the same rows, though writers       *)
(* commit in between.                                                      *)
SnapshotStable ==
    [][\A t \in Tasks : \A i \in DOMAIN stack[t] \cap DOMAIN stack'[t] :
        LET f == stack[t][i]
        IN f.kind = "reader" /\ f.seen # NoRows /\ f.conn \notin leaked'
           /\ stack'[t][i].since = f.since /\ stack'[t][i].kind = "reader"
           => stack'[t][i].seen = f.seen]_vars

(* Whoever waits for the lock or for a connection gets it or is cancelled. *)
WaitersServed == \A t \in Tasks : at[t] \in {"lock", "pool"} ~> at[t] \notin {"lock", "pool"}
==============================================================================
