--------------------------- MODULE PlotSync_proofs ---------------------------
(***************************************************************************)
(* Proofs about PlotSync for any number of files, refreshes, time-outs,    *)
(* changes of the disk, failures and connections.                          *)
(*                                                                         *)
(* Everything rests on one fact: whatever is on the way is a copy of the   *)
(* message the sender will send next, and only the last copy can still be  *)
(* answered in time.  So the receiver has either still to accept that      *)
(* message or has just accepted it, and when the sender moves on nothing   *)
(* is left on the way.                                                     *)
(***************************************************************************)
EXTENDS PlotSync, TLAPS, FiniteSetTheorems, SequenceTheorems

------------------------------------------------------------------------------
(* Types.                                                                  *)

ListTypes == {"loaded", "removed", "invalid", "keys_missing", "duplicates"}

MessageTypes == ListTypes \cup {"start", "done"}

Bodies ==
    [type : {"start"}, initial : BOOLEAN, last_sync_id : Nat]
    \cup [type : ListTypes, data : Seq(Files), final : BOOLEAN]
    \cup [type : {"done"}]

Messages == [sync_id : Nat, message_id : Nat, body : Bodies]

Senders == [sync_id : Nat, next_message_id : Nat, messages : Seq(Messages), last_sync_id : Nat]

PlotManagers ==
    [plots : SUBSET Files, failed : SUBSET Files, no_key : SUBSET Files,
     duplicates : SUBSET Files, initial : BOOLEAN, enabled : BOOLEAN]

Threads ==
    [pc : {"dead", "sleep", "start", "drop", "batch", "report", "done"}, paths : SUBSET Files,
     batches : Seq(Seq(Files)), loaded : Seq(Files), removed : Seq(Files)]

States == {"idle", "loaded", "removed", "invalid", "keys_missing", "duplicates", "done"}

Syncs ==
    [state : States, sync_id : Nat, next_message_id : Nat,
     added : SUBSET Files, removed : SUBSET Files, invalid : SUBSET Files,
     keys_missing : SUBSET Files, duplicates : SUBSET Files]

Receivers ==
    [current : Syncs, last_sync_id : Nat, plots : SUBSET Files, invalid : SUBSET Files,
     keys_missing : SUBSET Files, duplicates : SUBSET Files]

Errors == {"none", "fatal", "identifier"}

Parcels == [expired : BOOLEAN, message : Messages]

Responses ==
    [sync_id : Nat, message_id : Nat, type : MessageTypes, expired : BOOLEAN,
     error : Errors, expected : Nat \X Nat]

Typed ==
    /\ disk \in [Files -> DiskStates]
    /\ pm \in PlotManagers
    /\ thread \in Threads
    /\ thread.pc \in {"batch", "report"} => thread.batches # <<>>
    /\ sender \in Senders
    /\ task \in {"none", "ready", "wait", "reset"}
    /\ closing \in {"no", "join", "close"}
    /\ connected \in BOOLEAN /\ disturbed \in BOOLEAN
    /\ toFarmer \in Seq(Parcels)
    /\ toHarvester \in Seq(Responses)
    /\ receiver \in Receivers
    /\ clock \in Nat /\ clock > 0

------------------------------------------------------------------------------
(* The protocol.                                                           *)

(* The messages of a sync are numbered, and the first alone starts it.     *)
Queued(s) ==
    IF s.sync_id = 0 THEN s.messages = <<>> /\ s.next_message_id = 0
    ELSE /\ s.messages # <<>> /\ s.next_message_id <= Len(s.messages)
         /\ \A i \in DOMAIN s.messages :
               /\ s.messages[i].sync_id = s.sync_id /\ s.messages[i].message_id = i - 1
               /\ s.messages[i].body.type = "start" <=> i = 1
         /\ s.messages[1].body.last_sync_id = s.last_sync_id

(* What the sender's task, the connection and the thread are doing.        *)
Links ==
    /\ ~ connected => toFarmer = <<>> /\ toHarvester = <<>>
    /\ connected => closing = "no" /\ task # "none" /\ pm.enabled
    /\ task = "none" => thread.pc = "dead" /\ sender = NewSender /\ closing = "no"
    /\ closing = "close" => thread.pc = "dead"
    /\ closing # "no" => task \in {"ready", "wait"}
    /\ task = "reset" => toFarmer = <<>> /\ toHarvester = <<>>
    /\ task = "wait" =>
          /\ HasNextMessage(sender)
          /\ awaited = <<sender.sync_id, sender.next_message_id, NextMessage(sender).body.type>>

(* Receiver r has still to accept the next message of sender s.            *)
AtNext(r, s) ==
    IF s.next_message_id = 0
    THEN \/ s.messages[1].body.initial
         \/ r.current.sync_id = 0 /\ r.last_sync_id = s.last_sync_id
    ELSE r.current.sync_id = s.sync_id /\ r.current.next_message_id = s.next_message_id

(* It has accepted it already.                                             *)
PastNext(r, s) ==
    /\ HasNextMessage(s)
    /\ IF NextMessage(s).body.type = "done"
       THEN r.current.sync_id = 0 /\ r.last_sync_id = s.sync_id
       ELSE r.current.sync_id = s.sync_id /\ r.current.next_message_id = s.next_message_id + 1

ReceiverOK(r) == r.current.sync_id = 0 <=> r.current.next_message_id = 0

(* The two sides, while the sender's task is at work on a connection.      *)
InStep ==
    connected /\ task \in {"ready", "wait"} =>
        IF SyncActive(sender) THEN AtNext(receiver, sender) \/ PastNext(receiver, sender)
        ELSE receiver.current.sync_id = 0 /\ receiver.last_sync_id = sender.last_sync_id

(* An answer in time tells what the receiver did with the next message.    *)
Answers(a) ==
    /\ a.type = NextMessage(sender).body.type
    /\ a.error # "fatal" => PastNext(receiver, sender)
    /\ a.error = "identifier" =>
          a.expected = <<receiver.current.sync_id, receiver.current.next_message_id>>

OnTheWay ==
    /\ \A i \in DOMAIN toFarmer :
          /\ HasNextMessage(sender) /\ toFarmer[i].message = NextMessage(sender)
          /\ ~ toFarmer[i].expired => task = "wait" /\ i = Len(toFarmer)
    /\ \A i \in DOMAIN toHarvester :
          ~ toHarvester[i].expired =>
              /\ task = "wait" /\ i = Len(toHarvester) /\ toFarmer = <<>>
              /\ Answers(toHarvester[i])

Protocol == Queued(sender) /\ Links /\ ReceiverOK(receiver) /\ InStep /\ OnTheWay

------------------------------------------------------------------------------
(* What the messages say.                                                  *)

(* The files that the first n messages of s name in lists of this type.    *)
Named(s, type, n) ==
    {f \in Files : \E i \in DOMAIN s.messages :
        i <= n /\ s.messages[i].body.type = type /\ f \in ToSet(s.messages[i].body.data)}

All(s, type) == Named(s, type, Len(s.messages))

(* Where the receiver's current sync notes the lists of each type.         *)
Field == [type \in ListTypes |-> IF type = "loaded" THEN "added" ELSE type]

Fields == {"added", "removed", "invalid", "keys_missing", "duplicates"}

Noted(r, type) == r.current[Field[type]]

(* Receiver r knows what the first n messages of s said, and no more.      *)
Tracks(r, s, n) ==
    /\ s.messages[1].body.initial => r.plots = {}
    /\ \A type \in ListTypes : Noted(r, type) = Named(s, type, n)

(* The items that r refuses in a list.                                     *)
Refused(r, body) ==
    Noted(r, body.type) \cup
        CASE body.type = "loaded"  -> r.plots
          [] body.type = "removed" -> ToSet(body.data) \ r.plots
          [] OTHER                 -> {}

(* r will refuse the next message of s for ever.                           *)
Refuses(r, s) ==
    /\ HasNextMessage(s)
    /\ NextMessage(s).body.type \in ListTypes
    /\ ToSet(NextMessage(s).body.data) \cap Refused(r, NextMessage(s).body) # {}

(* The next message of s makes the receiver forget all it knew: its state  *)
(* tells nothing until the message is answered.                            *)
Restarts(s) == s.next_message_id = 0 /\ s.messages[1].body.initial

Knows(r, s) ==
    /\ AtNext(r, s) /\ s.next_message_id > 0 => Tracks(r, s, s.next_message_id) \/ Refuses(r, s)
    /\ PastNext(r, s) /\ NextMessage(s).body.type # "done" /\ ~ Restarts(s) =>
          Tracks(r, s, s.next_message_id + 1)

(* The plots the farmer had before the sync of s.                          *)
Before(s) == IF s.messages[1].body.initial THEN {} ELSE receiver.plots

DoneIsLast(s) ==
    \A i \in DOMAIN s.messages : s.messages[i].body.type = "done" <=> i = Len(s.messages)

(* In a refresh the messages so far tell of the plots loaded so far.       *)
Reporting(s) ==
    /\ \A i \in DOMAIN s.messages : s.messages[i].body.type \in {"start", "loaded"}
    /\ thread.pc = "drop" => Len(s.messages) = 1 /\ pm.plots = Before(s)
    /\ thread.pc \in {"batch", "done"} =>
          pm.plots = (Before(s) \cup All(s, "loaded")) \ ToSet(thread.removed)
    /\ thread.pc = "report" =>
          pm.plots = ((Before(s) \cup All(s, "loaded")) \ ToSet(thread.removed)) \cup ToSet(thread.loaded)

(* Outside a refresh they tell all.                                        *)
Reported(s) ==
    /\ pm.plots = (Before(s) \cup All(s, "loaded")) \ All(s, "removed")
    /\ pm.failed = All(s, "invalid")
    /\ pm.no_key = All(s, "keys_missing")
    /\ pm.duplicates = All(s, "duplicates")

Promise ==
    connected /\ task \in {"ready", "wait"} /\ ~ disturbed =>
        IF ~ SyncActive(sender) THEN ~ InRefresh /\ (pm.initial \/ FarmerMatches)
        ELSE IF InRefresh THEN Reporting(sender)
        ELSE /\ DoneIsLast(sender)
             /\ \/ pm.initial
                \/ IF PastNext(receiver, sender) /\ NextMessage(sender).body.type = "done"
                   THEN FarmerMatches
                   ELSE Reported(sender)

(* The refresh thread.                                                     *)
ThreadOK ==
    /\ \A i \in DOMAIN thread.batches : ToSet(thread.batches[i]) \subseteq thread.paths
    /\ ToSet(thread.loaded) \subseteq thread.paths
    /\ ToSet(thread.removed) \cap thread.paths = {}
    /\ pm.initial /\ ~ InRefresh => pm.plots = {}
    /\ task = "reset" /\ InRefresh => disturbed

(* An answer that did not fail tells that the message was taken up.        *)
Told ==
    \A i \in DOMAIN toHarvester :
        ~ toHarvester[i].expired /\ toHarvester[i].error # "fatal"
            /\ NextMessage(sender).body.type # "done" =>
                Tracks(receiver, sender, sender.next_message_id + 1)

Knowing ==
    connected /\ task \in {"ready", "wait"} /\ SyncActive(sender) => Knows(receiver, sender)

Content == ThreadOK /\ Promise /\ Told /\ Knowing

------------------------------------------------------------------------------
(* Files in their order, in batches, and in messages.                      *)

(* An injective ranking of n things into n places leaves no place empty.   *)
LEMMA RanksFull ==
    ASSUME NEW S, IsFiniteSet(S), NEW n \in Nat, n = Cardinality(S),
           NEW R \in [S -> 0 .. (n - 1)], \A f, h \in S : R[f] = R[h] => f = h,
           NEW i \in 1 .. n
    PROVE  \E f \in S : R[f] = i - 1
  <1>1. R \in Injection(S, 0 .. (n - 1))
    BY DEF Injection, IsInjective
  <1>2. IsFiniteSet(0 .. (n - 1)) /\ Cardinality(0 .. (n - 1)) = n
    <2>1. 0 \in Int /\ n - 1 \in Int
      OBVIOUS
    <2>2. /\ IsFiniteSet(0 .. (n - 1))
          /\ Cardinality(0 .. (n - 1)) = IF 0 > n - 1 THEN 0 ELSE (n - 1) - 0 + 1
      BY <2>1, FS_Interval
    <2>3. (IF 0 > n - 1 THEN 0 ELSE (n - 1) - 0 + 1) = n
      OBVIOUS
    <2> QED
      BY <2>2, <2>3
  <1>3. R \in Surjection(S, 0 .. (n - 1))
    BY <1>1, <1>2, FS_Injection
  <1>4. i - 1 \in 0 .. (n - 1)
    OBVIOUS
  <1> QED
    BY <1>3, <1>4 DEF Surjection

LEMMA SortedFacts ==
    ASSUME NEW S \in SUBSET Files
    PROVE  /\ Sorted(S) \in Seq(S) /\ Sorted(S) \in Seq(Files)
           /\ ToSet(Sorted(S)) = S
  <1>1. IsFiniteSet(S) /\ \A f \in S : f \in Nat
    BY PlotSyncAssumption, FS_Subset
  <1>2. PICK n \in Nat : n = Cardinality(S)
    BY <1>1, FS_CardinalityType
  <1>3. PICK L \in [S -> SUBSET S] : \A f \in S : L[f] = {g \in S : g < f}
    <2>1. [f \in S |-> {g \in S : g < f}] \in [S -> SUBSET S]
      OBVIOUS
    <2> QED
      BY <2>1
  <1>4. PICK R : R = [f \in S |-> Cardinality(L[f])]
    OBVIOUS
  <1>5. ASSUME NEW f \in S PROVE IsFiniteSet(L[f]) /\ R[f] = Cardinality(L[f]) /\ R[f] \in 0 .. (n - 1)
    <2>1. f \notin L[f] /\ L[f] \in SUBSET S
      BY <1>1, <1>3
    <2>2. IsFiniteSet(L[f]) /\ Cardinality(L[f]) <= n /\ n # Cardinality(L[f])
      BY <1>1, <1>2, <2>1, FS_Subset
    <2>3. Cardinality(L[f]) \in Nat
      BY <2>2, FS_CardinalityType
    <2>4. R[f] = Cardinality(L[f])
      BY <1>4
    <2> QED
      BY <1>2, <2>2, <2>3, <2>4
  <1>6. ASSUME NEW f \in S, NEW h \in S, f < h PROVE R[f] # R[h]
    <2>1. \A g \in L[f] : g \in L[h]
      <3> SUFFICES ASSUME NEW g \in L[f] PROVE g \in L[h]
        OBVIOUS
      <3>1. g \in S /\ g < f
        BY <1>3
      <3>2. g \in Nat /\ f \in Nat /\ h \in Nat
        BY <1>1, <3>1
      <3>3. g < h
        BY <1>6, <3>1, <3>2
      <3> QED
        BY <1>3, <3>1, <3>3
    <2>2. f \in L[h] /\ f \notin L[f]
      BY <1>1, <1>3, <1>6
    <2>3. L[f] \in SUBSET L[h] /\ L[f] # L[h]
      BY <2>1, <2>2
    <2> QED
      BY <1>5, <2>3, FS_Subset
  <1>7. ASSUME NEW f \in S, NEW h \in S, R[f] = R[h] PROVE f = h
    <2>1. ~ (f < h) /\ ~ (h < f)
      BY <1>6, <1>7
    <2>2. f \in Nat /\ h \in Nat
      BY <1>1
    <2> QED
      BY <2>1, <2>2
  <1>8. R \in [S -> 0 .. (n - 1)]
    BY <1>4, <1>5
  <1>9. \A i \in 1 .. n : \E f \in S : R[f] = i - 1
    BY <1>1, <1>2, <1>7, <1>8, RanksFull
  <1>10. \A f \in S : Cardinality({g \in S : g < f}) = R[f]
    BY <1>3, <1>5
  <1>11. DOMAIN Sorted(S) = 1 .. n /\ \A i \in 1 .. n : Sorted(S)[i] \in S /\ R[Sorted(S)[i]] = i - 1
    <2>1. DOMAIN Sorted(S) = 1 .. n
      BY <1>2 DEF Sorted
    <2>2. ASSUME NEW i \in 1 .. n PROVE Sorted(S)[i] \in S /\ R[Sorted(S)[i]] = i - 1
      <3>1. Sorted(S)[i] = CHOOSE f \in S : Cardinality({g \in S : g < f}) = i - 1
        BY <1>2 DEF Sorted
      <3>2. \E f \in S : Cardinality({g \in S : g < f}) = i - 1
        BY <1>9, <1>10
      <3>3. Sorted(S)[i] \in S /\ Cardinality({g \in S : g < Sorted(S)[i]}) = i - 1
        BY <3>1, <3>2
      <3> QED
        BY <1>10, <3>3
    <2> QED
      BY <2>1, <2>2
  <1>12. Sorted(S) \in Seq(S)
    <2> DEFINE e(i) == CHOOSE f \in S : Cardinality({g \in S : g < f}) = i - 1
    <2>1. Sorted(S) = [i \in 1 .. n |-> e(i)]
      BY <1>2 DEF Sorted
    <2> HIDE DEF e
    <2>2. \A i \in 1 .. n : e(i) \in S
      BY <1>11, <2>1
    <2> QED
      BY <2>1, <2>2
  <1>13. ASSUME NEW f \in S PROVE f \in ToSet(Sorted(S))
    <2>1. PICK i \in 1 .. n : R[f] = i - 1
      <3>1. R[f] \in 0 .. (n - 1)
        BY <1>8
      <3>2. R[f] + 1 \in 1 .. n /\ R[f] = (R[f] + 1) - 1
        BY <3>1
      <3> QED
        BY <3>2
    <2>2. Sorted(S)[i] \in S /\ R[Sorted(S)[i]] = R[f]
      BY <1>11, <2>1
    <2>3. Sorted(S)[i] = f
      BY <1>7, <2>2
    <2> QED
      BY <1>11, <2>3 DEF ToSet
  <1>14. ToSet(Sorted(S)) \subseteq S
    BY <1>11 DEF ToSet
  <1>15. Sorted(S) \in Seq(Files)
    BY <1>12, SeqMonotonic
  <1> QED
    BY <1>12, <1>13, <1>14, <1>15

(* The last batch is the one that holds the last file.                     *)
LEMMA BatchCount ==
    ASSUME NEW n \in Nat, NEW k, k = (n + BatchSize - 1) \div BatchSize
    PROVE  /\ k \in Nat /\ (n > 0 <=> k > 0)
           /\ n <= k * BatchSize
           /\ \A i \in 1 .. k : (i - 1) * BatchSize < n
  <1>1. BatchSize \in Nat /\ BatchSize > 0 /\ n + BatchSize - 1 \in Nat
    BY BatchAssumption
  <1>2. k \in Nat
    BY <1>1
  <1>3. BatchSize * k <= n + BatchSize - 1
    BY <1>1
  <1>4. n + BatchSize - 1 < BatchSize * k + BatchSize
    BY <1>1
  <1>5. n <= k * BatchSize
    BY <1>1, <1>2, <1>4
  <1>6. ASSUME NEW i \in 1 .. k PROVE (i - 1) * BatchSize < n
    <2>1. (i - 1) * BatchSize + BatchSize <= k * BatchSize
      <3>1. i * BatchSize <= k * BatchSize
        BY <1>1, <1>2
      <3>2. i * BatchSize = (i - 1) * BatchSize + BatchSize
        BY <1>1
      <3> QED
        BY <3>1, <3>2
    <2>2. (i - 1) * BatchSize \in Nat /\ k * BatchSize \in Nat /\ BatchSize * k = k * BatchSize
      BY <1>1, <1>2
    <2> QED
      BY <1>1, <1>3, <2>1, <2>2
  <1>7. n = 0 => k = 0
    <2> SUFFICES ASSUME n = 0, k >= 1 PROVE FALSE
      BY <1>2
    <2>1. BatchSize <= BatchSize * k
      BY <1>1, <1>2
    <2> QED
      BY <1>1, <1>2, <1>3, <2>1
  <1>8. k = 0 => n = 0
    <2> SUFFICES ASSUME k = 0 PROVE n = 0
      OBVIOUS
    <2>1. k * BatchSize = 0
      BY <1>1
    <2> QED
      BY <1>5, <2>1
  <1> QED
    BY <1>2, <1>5, <1>6, <1>7, <1>8

(* Every file is in a batch.                                               *)
LEMMA BatchesFacts ==
    ASSUME NEW files \in Seq(Files)
    PROVE  /\ Batches(files) \in Seq(Seq(Files))
           /\ Batches(files) = <<>> <=> files = <<>>
           /\ \A i \in DOMAIN Batches(files) : ToSet(Batches(files)[i]) \subseteq ToSet(files)
           /\ \A f \in ToSet(files) : \E i \in DOMAIN Batches(files) : f \in ToSet(Batches(files)[i])
  <1>1. PICK n \in Nat : n = Len(files) /\ DOMAIN files = 1 .. n /\ (files = <<>> <=> n = 0)
    OBVIOUS
  <1>2. PICK k \in Nat : /\ k = (n + BatchSize - 1) \div BatchSize /\ (n > 0 <=> k > 0)
                         /\ n <= k * BatchSize
                         /\ \A i \in 1 .. k : (i - 1) * BatchSize < n
    BY BatchCount
  <1>3. BatchSize \in Nat /\ BatchSize > 0
    BY BatchAssumption
  <1> DEFINE hi(i) == IF i * BatchSize < n THEN i * BatchSize ELSE n
             b(i) == SubSeq(files, (i - 1) * BatchSize + 1, hi(i))
  <1>4. Batches(files) = [i \in 1 .. k |-> b(i)]
    BY <1>1, <1>2 DEF Batches
  <1>5. ASSUME NEW i \in 1 .. k
        PROVE  /\ b(i) \in Seq(Files)
               /\ \A j \in DOMAIN b(i) : b(i)[j] \in ToSet(files)
               /\ \A h \in ((i - 1) * BatchSize + 1) .. hi(i) : files[h] \in ToSet(b(i))
    <2>1. PICK low \in Nat, high \in Nat : low = (i - 1) * BatchSize + 1 /\ high = hi(i) /\ low >= 1 /\ high <= n
      <3>1. (i - 1) * BatchSize \in Nat /\ i * BatchSize \in Nat
        BY <1>3
      <3> QED
        BY <3>1
    <2>2. b(i) = SubSeq(files, low, high)
      BY <2>1
    <2> HIDE DEF b, hi
    <2>3. \A h \in low .. high : h \in 1 .. n /\ files[h] \in Files /\ files[h] \in ToSet(files)
      BY <1>1, <2>1 DEF ToSet
    <2>4. /\ b(i) \in Seq(Files)
          /\ Len(b(i)) = IF low <= high THEN high - low + 1 ELSE 0
          /\ \A j \in 1 .. (high - low + 1) : b(i)[j] = files[low + j - 1]
      BY <2>1, <2>2, <2>3, SubSeqProperties
    <2>5. DOMAIN b(i) = 1 .. (high - low + 1)
      BY <2>1, <2>4, LenProperties
    <2>6. ASSUME NEW j \in DOMAIN b(i) PROVE b(i)[j] \in ToSet(files)
      <3>1. low + j - 1 \in low .. high
        BY <2>1, <2>5
      <3> QED
        BY <2>3, <2>4, <2>5, <3>1
    <2>7. ASSUME NEW h \in low .. high PROVE files[h] \in ToSet(b(i))
      <3>1. (h - low) + 1 \in 1 .. (high - low + 1) /\ low + ((h - low) + 1) - 1 = h
        BY <2>1
      <3>2. b(i)[(h - low) + 1] = files[h]
        BY <2>4, <3>1
      <3> QED
        BY <2>5, <3>1, <3>2 DEF ToSet
    <2> QED
      BY <2>1, <2>4, <2>6, <2>7
  <1>6. ASSUME NEW f \in ToSet(files)
        PROVE  \E i \in 1 .. k : f \in ToSet(b(i))
    <2>1. PICK h \in 1 .. n : files[h] = f
      BY <1>1 DEF ToSet
    <2>2. PICK i : i = ((h - 1) \div BatchSize) + 1
      OBVIOUS
    <2>3. /\ (h - 1) \div BatchSize \in Nat
          /\ BatchSize * ((h - 1) \div BatchSize) <= h - 1
          /\ h - 1 < BatchSize * ((h - 1) \div BatchSize) + BatchSize
      BY <1>3
    <2>4. PICK q \in Nat : q = (h - 1) \div BatchSize /\ i = q + 1 /\ BatchSize * q <= h - 1 /\ h - 1 < BatchSize * q + BatchSize
      BY <2>2, <2>3
    <2>5. (i - 1) * BatchSize = BatchSize * q /\ i * BatchSize = BatchSize * q + BatchSize
      BY <1>3, <2>4
    <2>6. q < k
      <3> SUFFICES ASSUME k <= q PROVE FALSE
        BY <2>4
      <3>1. k * BatchSize <= BatchSize * q
        BY <1>3, <2>4
      <3>2. k * BatchSize \in Nat /\ BatchSize * q \in Nat
        BY <1>3, <2>4
      <3> QED
        BY <1>2, <2>4, <3>1, <3>2
    <2>7. i \in 1 .. k
      BY <2>4, <2>6
    <2>8. h \in ((i - 1) * BatchSize + 1) .. hi(i)
      <3>1. BatchSize * q \in Nat
        BY <1>3, <2>4
      <3> QED
        BY <1>3, <2>4, <2>5, <3>1
    <2> HIDE DEF b, hi
    <2> QED
      BY <1>5, <2>1, <2>7, <2>8
  <1> HIDE DEF b
  <1>7. DOMAIN Batches(files) = 1 .. k /\ \A i \in 1 .. k : Batches(files)[i] = b(i)
    BY <1>4
  <1>8. Batches(files) \in Seq(Seq(Files))
    BY <1>4, <1>5
  <1>9. Batches(files) = <<>> <=> files = <<>>
    BY <1>1, <1>2, <1>4
  <1>10. \A i \in 1 .. k : ToSet(b(i)) \subseteq ToSet(files)
    BY <1>5 DEF ToSet
  <1> QED
    BY <1>6, <1>7, <1>8, <1>9, <1>10

(* The files that a sequence of bodies names in lists of this type.        *)
Lists(new, type) ==
    {f \in Files : \E i \in DOMAIN new : new[i].type = type /\ f \in ToSet(new[i].data)}

LEMMA ListFacts ==
    ASSUME NEW type \in ListTypes, NEW files \in Seq(Files)
    PROVE  /\ ListMessages(type, files) \in Seq(Bodies) /\ ListMessages(type, files) # <<>>
           /\ \A i \in DOMAIN ListMessages(type, files) : ListMessages(type, files)[i].type = type
           /\ Lists(ListMessages(type, files), type) = ToSet(files)
  <1> DEFINE b == Batches(files)
  <1>1. CASE files = <<>>
    <2>1. PICK body : body = [type |-> type, data |-> <<>>, final |-> TRUE]
      OBVIOUS
    <2>2. body \in Bodies /\ body.type = type /\ body.data = <<>>
      BY <2>1 DEF Bodies
    <2>3. ListMessages(type, files) = <<body>>
      BY <1>1, <2>1 DEF ListMessages
    <2>4. ToSet(files) = {} /\ ToSet(body.data) = {}
      BY <1>1, <2>2 DEF ToSet
    <2> HIDE DEF b
    <2> QED
      BY <2>2, <2>3, <2>4 DEF Lists
  <1>2. CASE files # <<>>
    <2>1. PICK n \in Nat : n = Len(b) /\ n > 0 /\ DOMAIN b = 1 .. n
      BY <1>2, BatchesFacts
    <2> DEFINE e(i) == [type |-> type, data |-> b[i], final |-> i = n]
    <2>2. ListMessages(type, files) = [i \in 1 .. n |-> e(i)]
      BY <1>2, <2>1 DEF ListMessages
    <2>3. /\ \A i \in 1 .. n : b[i] \in Seq(Files) /\ ToSet(b[i]) \subseteq ToSet(files)
          /\ \A f \in ToSet(files) : \E i \in 1 .. n : f \in ToSet(b[i])
      <3>1. b \in Seq(Seq(Files)) /\ \A i \in 1 .. n : ToSet(b[i]) \subseteq ToSet(files)
        BY <2>1, BatchesFacts
      <3>2. \A f \in ToSet(files) : \E i \in 1 .. n : f \in ToSet(b[i])
        BY <2>1, BatchesFacts
      <3> HIDE DEF b
      <3> QED
        BY <2>1, <3>1, <3>2
    <2> HIDE DEF b
    <2>4. \A i \in 1 .. n : e(i) \in Bodies /\ e(i).type = type /\ e(i).data = b[i]
      BY <2>3 DEF Bodies
    <2> HIDE DEF e
    <2>5. ListMessages(type, files) \in Seq(Bodies) /\ ListMessages(type, files) # <<>>
      BY <2>1, <2>2, <2>4
    <2>6. ToSet(files) \subseteq Files
      BY DEF ToSet
    <2>7. \A f \in Files : f \in Lists(ListMessages(type, files), type) <=> f \in ToSet(files)
      BY <2>2, <2>3, <2>4 DEF Lists
    <2>8. Lists(ListMessages(type, files), type) \subseteq Files
      BY DEF Lists
    <2> QED
      BY <2>2, <2>4, <2>5, <2>6, <2>7, <2>8
  <1> QED
    BY <1>1, <1>2

LEMMA ListsConcat ==
    ASSUME NEW a \in Seq(Bodies), NEW b \in Seq(Bodies), NEW type
    PROVE  Lists(a \o b, type) = Lists(a, type) \cup Lists(b, type)
  <1>1. PICK n \in Nat, k \in Nat : n = Len(a) /\ k = Len(b) /\ DOMAIN a = 1 .. n /\ DOMAIN b = 1 .. k
    OBVIOUS
  <1>2. DOMAIN (a \o b) = 1 .. (n + k)
    BY <1>1
  <1>3. \A i \in 1 .. n : (a \o b)[i] = a[i] /\ i \in 1 .. (n + k)
    BY <1>1
  <1>4. \A i \in 1 .. k : (a \o b)[n + i] = b[i] /\ n + i \in 1 .. (n + k)
    BY <1>1
  <1>5. \A i \in 1 .. (n + k) : i \in 1 .. n \/ \E j \in 1 .. k : i = n + j
    <2> SUFFICES ASSUME NEW i \in 1 .. (n + k), ~ (i \in 1 .. n) PROVE \E j \in 1 .. k : i = n + j
      OBVIOUS
    <2>1. i - n \in 1 .. k /\ i = n + (i - n)
      OBVIOUS
    <2> QED
      BY <2>1
  <1>6. PICK c : c = a \o b
    OBVIOUS
  <1>7. ASSUME NEW f \in Files
        PROVE  f \in Lists(c, type) <=> f \in Lists(a, type) \/ f \in Lists(b, type)
    <2>1. f \in Lists(c, type) <=> \E i \in 1 .. (n + k) : c[i].type = type /\ f \in ToSet(c[i].data)
      BY <1>2, <1>6 DEF Lists
    <2>2. f \in Lists(a, type) <=> \E i \in 1 .. n : c[i].type = type /\ f \in ToSet(c[i].data)
      BY <1>1, <1>3, <1>6 DEF Lists
    <2>3. f \in Lists(b, type) <=> \E i \in 1 .. k : c[n + i].type = type /\ f \in ToSet(c[n + i].data)
      BY <1>1, <1>4, <1>6 DEF Lists
    <2> QED
      BY <1>3, <1>4, <1>5, <2>1, <2>2, <2>3
  <1>8. \A x : x \in Lists(c, type) \/ x \in Lists(a, type) \/ x \in Lists(b, type) => x \in Files
    BY DEF Lists
  <1> QED
    BY <1>6, <1>7, <1>8

------------------------------------------------------------------------------
(* The sender's queue.                                                     *)

(* Sender t is s with the bodies new queued behind.                        *)
Extends(t, s, new) ==
    /\ t \in Senders
    /\ t.sync_id = s.sync_id /\ t.next_message_id = s.next_message_id /\ t.last_sync_id = s.last_sync_id
    /\ Len(t.messages) = Len(s.messages) + Len(new)
    /\ \A i \in 1 .. Len(s.messages) : t.messages[i] = s.messages[i]
    /\ \A i \in 1 .. Len(new) :
          t.messages[Len(s.messages) + i] =
              [sync_id |-> s.sync_id, message_id |-> Len(s.messages) + i - 1, body |-> new[i]]

LEMMA AddExtends ==
    ASSUME NEW s \in Senders, NEW new \in Seq(Bodies)
    PROVE  Extends(AddMessages(s, new), s, new)
  <1>1. PICK n \in Nat, k \in Nat : n = Len(s.messages) /\ k = Len(new)
    BY DEF Senders
  <1> DEFINE e(i) == [sync_id |-> s.sync_id, message_id |-> n + i - 1, body |-> new[i]]
  <1>2. ASSUME NEW i \in 1 .. k PROVE e(i) \in Messages
    <2>1. n + i - 1 \in Nat /\ new[i] \in Bodies /\ s.sync_id \in Nat
      BY <1>1 DEF Senders
    <2> QED
      BY <2>1 DEF Messages
  <1>3. PICK q : q = [i \in 1 .. k |-> e(i)]
    OBVIOUS
  <1> HIDE DEF e
  <1>4. q \in Seq(Messages) /\ Len(q) = k /\ \A i \in 1 .. k : q[i] = e(i)
    BY <1>2, <1>3
  <1>5. AddMessages(s, new) = [s EXCEPT !.messages = @ \o q]
    BY <1>1, <1>3 DEF AddMessages, e
  <1>6. PICK p \in Seq(Messages) : p = s.messages /\ Len(p) = n
    BY <1>1 DEF Senders
  <1>7. /\ p \o q \in Seq(Messages) /\ Len(p \o q) = n + k
        /\ \A i \in 1 .. n : (p \o q)[i] = p[i]
        /\ \A i \in 1 .. k : (p \o q)[n + i] = q[i]
    <2>1. p \o q \in Seq(Messages) /\ Len(p \o q) = n + k
      BY <1>4, <1>6, ConcatProperties
    <2>2. \A i \in 1 .. (n + k) : (p \o q)[i] = IF i <= n THEN p[i] ELSE q[i - n]
      BY <1>4, <1>6
    <2>3. \A i \in 1 .. n : i \in 1 .. (n + k) /\ i <= n
      OBVIOUS
    <2>4. \A i \in 1 .. k : n + i \in 1 .. (n + k) /\ ~ (n + i <= n) /\ (n + i) - n = i
      OBVIOUS
    <2> QED
      BY <2>1, <2>2, <2>3, <2>4
  <1>8. PICK t : t = AddMessages(s, new)
    OBVIOUS
  <1>9. /\ t \in Senders /\ t.messages = p \o q
        /\ t.sync_id = s.sync_id /\ t.next_message_id = s.next_message_id /\ t.last_sync_id = s.last_sync_id
    BY <1>5, <1>6, <1>7, <1>8 DEF Senders
  <1> QED
    BY <1>1, <1>4, <1>6, <1>7, <1>8, <1>9 DEF Extends, e

LEMMA ExtendsQueued ==
    ASSUME NEW s \in Senders, NEW t, NEW new \in Seq(Bodies), Extends(t, s, new),
           Queued(s), s.sync_id # 0, \A i \in 1 .. Len(new) : new[i].type # "start"
    PROVE  /\ Queued(t)
           /\ t.messages[1] = s.messages[1]
           /\ HasNextMessage(s) => HasNextMessage(t) /\ NextMessage(t) = NextMessage(s)
  <1>1. PICK n \in Nat, k \in Nat : n = Len(s.messages) /\ k = Len(new) /\ DOMAIN s.messages = 1 .. n
    BY DEF Senders
  <1>2. /\ t \in Senders
        /\ t.sync_id = s.sync_id /\ t.next_message_id = s.next_message_id /\ t.last_sync_id = s.last_sync_id
        /\ Len(t.messages) = n + k
        /\ \A i \in 1 .. n : t.messages[i] = s.messages[i]
        /\ \A i \in 1 .. k : t.messages[n + i] = [sync_id |-> s.sync_id, message_id |-> n + i - 1, body |-> new[i]]
    BY <1>1 DEF Extends
  <1>3. /\ n > 0 /\ s.next_message_id <= n
        /\ \A i \in 1 .. n : /\ s.messages[i].sync_id = s.sync_id /\ s.messages[i].message_id = i - 1
                             /\ s.messages[i].body.type = "start" <=> i = 1
        /\ s.messages[1].body.last_sync_id = s.last_sync_id
    <2>1. s.messages # <<>> => n > 0
      BY <1>1 DEF Senders
    <2> QED
      BY <1>1, <2>1 DEF Queued
  <1>4. DOMAIN t.messages = 1 .. (n + k)
    BY <1>1, <1>2 DEF Senders
  <1>5. ASSUME NEW i \in 1 .. (n + k)
        PROVE  /\ t.messages[i].sync_id = t.sync_id /\ t.messages[i].message_id = i - 1
               /\ t.messages[i].body.type = "start" <=> i = 1
    <2>1. CASE i \in 1 .. n
      BY <1>2, <1>3, <2>1
    <2>2. CASE i > n
      <3>1. PICK j \in 1 .. k : i = n + j
        <4>1. i - n \in 1 .. k /\ i = n + (i - n)
          BY <2>2
        <4> QED
          BY <4>1
      <3>2. i # 1 /\ i - 1 = n + j - 1
        BY <1>3, <3>1
      <3>3. new[j].type # "start"
        BY <1>1
      <3>4. t.messages[i] = [sync_id |-> s.sync_id, message_id |-> i - 1, body |-> new[j]]
        BY <1>2, <3>1, <3>2
      <3> QED
        BY <1>2, <3>2, <3>3, <3>4
    <2> QED
      BY <2>1, <2>2
  <1>6. 1 \in 1 .. n /\ t.next_message_id <= n + k /\ n + k > 0 /\ t.next_message_id \in Nat
    BY <1>1, <1>2, <1>3 DEF Senders
  <1>7. t.messages # <<>>
    BY <1>2, <1>6
  <1>8. Queued(t)
    BY <1>2, <1>3, <1>4, <1>5, <1>6, <1>7 DEF Queued
  <1>9. ASSUME HasNextMessage(s) PROVE HasNextMessage(t) /\ NextMessage(t) = NextMessage(s)
    <2>1. s.next_message_id < n /\ s.next_message_id \in Nat
      BY <1>1, <1>9 DEF HasNextMessage, Senders
    <2>2. s.next_message_id + 1 \in 1 .. n /\ s.next_message_id < n + k
      BY <2>1
    <2> QED
      BY <1>2, <2>2 DEF HasNextMessage, NextMessage, SyncActive
  <1> QED
    BY <1>2, <1>6, <1>8, <1>9

(* A sync starts with an empty queue.                                      *)
LEMMA SyncStartFacts ==
    ASSUME NEW s \in Senders, s.messages = <<>>, s.next_message_id = 0,
           NEW now \in Nat, now > 0, NEW initial \in BOOLEAN
    PROVE  LET t == SyncStart(s, now, initial)
           IN /\ t \in Senders /\ Queued(t) /\ t.sync_id # 0 /\ t.sync_id # s.last_sync_id
              /\ t.next_message_id = 0 /\ t.last_sync_id = s.last_sync_id
              /\ Len(t.messages) = 1 /\ HasNextMessage(t)
              /\ t.messages[1].body =
                    [type |-> "start", initial |-> initial, last_sync_id |-> s.last_sync_id]
  <1>1. PICK id \in Nat : id = (IF now = s.last_sync_id THEN now + 1 ELSE now)
    OBVIOUS
  <1>2. id > 0 /\ id # s.last_sync_id
    BY <1>1 DEF Senders
  <1>3. PICK body : body = [type |-> "start", initial |-> initial, last_sync_id |-> s.last_sync_id]
    OBVIOUS
  <1>4. body \in Bodies /\ body.type = "start" /\ body.last_sync_id = s.last_sync_id
    BY <1>3 DEF Bodies, Senders
  <1>5. PICK u : u = [s EXCEPT !.sync_id = id]
    OBVIOUS
  <1>6. /\ u \in Senders /\ u.sync_id = id /\ u.messages = <<>> /\ u.next_message_id = 0
        /\ u.last_sync_id = s.last_sync_id
    BY <1>5 DEF Senders
  <1>7. PICK t : t = SyncStart(s, now, initial)
    OBVIOUS
  <1>8. t = AddMessages(u, <<body>>)
    BY <1>1, <1>3, <1>5, <1>7 DEF SyncStart
  <1>9. Extends(t, u, <<body>>)
    BY <1>4, <1>6, <1>8, <<body>> \in Seq(Bodies), AddExtends
  <1>10. /\ t \in Senders /\ t.sync_id = id /\ t.next_message_id = 0 /\ t.last_sync_id = s.last_sync_id
         /\ Len(t.messages) = 1
         /\ t.messages[1] = [sync_id |-> id, message_id |-> 0, body |-> body]
    BY <1>6, <1>9 DEF Extends
  <1>11. DOMAIN t.messages = 1 .. 1 /\ t.messages # <<>> /\ \A i \in 1 .. 1 : i = 1
    BY <1>10 DEF Senders
  <1>12. Queued(t)
    BY <1>2, <1>4, <1>10, <1>11 DEF Queued
  <1>13. HasNextMessage(t)
    BY <1>2, <1>10 DEF HasNextMessage, SyncActive
  <1> QED
    BY <1>2, <1>3, <1>7, <1>10, <1>12, <1>13

(* The bodies are of these types only.                                     *)
OfTypes(new, types) == \A i \in DOMAIN new : new[i].type \in types

LEMMA OfTypesFacts ==
    ASSUME NEW a \in Seq(Bodies), NEW b \in Seq(Bodies), NEW S, NEW T, OfTypes(a, S), OfTypes(b, T)
    PROVE  /\ a \o b \in Seq(Bodies) /\ OfTypes(a \o b, S \cup T)
           /\ Len(a \o b) = Len(a) + Len(b)
  <1>1. PICK n \in Nat, k \in Nat : n = Len(a) /\ k = Len(b) /\ DOMAIN a = 1 .. n /\ DOMAIN b = 1 .. k
    OBVIOUS
  <1>2. a \o b \in Seq(Bodies) /\ Len(a \o b) = n + k
    BY <1>1, ConcatProperties
  <1>3. PICK c \in Seq(Bodies) : c = a \o b /\ DOMAIN c = 1 .. (n + k)
    BY <1>2, LenProperties
  <1>4. \A i \in 1 .. (n + k) : c[i] = IF i <= n THEN a[i] ELSE b[i - n]
    BY <1>1, <1>3
  <1>5. ASSUME NEW i \in 1 .. (n + k) PROVE c[i].type \in S \cup T
    <2>1. CASE i <= n
      <3>1. i \in 1 .. n
        BY <2>1
      <3> QED
        BY <1>1, <1>4, <2>1, <3>1 DEF OfTypes
    <2>2. CASE ~ (i <= n)
      <3>1. i - n \in 1 .. k
        BY <2>2
      <3> QED
        BY <1>1, <1>4, <2>2, <3>1 DEF OfTypes
    <2> QED
      BY <2>1, <2>2
  <1>6. OfTypes(a \o b, S \cup T)
    BY <1>3, <1>5 DEF OfTypes
  <1> QED
    BY <1>1, <1>2, <1>6

LEMMA NotListed ==
    ASSUME NEW a, NEW S, NEW type, OfTypes(a, S), type \notin S
    PROVE  Lists(a, type) = {}
  BY DEF OfTypes, Lists

(* What sync_done queues: the four lists, and done.                        *)
FinishBodies(removed, p) ==
    ListMessages("removed", removed)
    \o ListMessages("invalid", Sorted(p.failed))
    \o ListMessages("keys_missing", Sorted(p.no_key))
    \o ListMessages("duplicates", Sorted(p.duplicates))
    \o <<[type |-> "done"]>>

LEMMA FinishBodiesFacts ==
    ASSUME NEW removed \in Seq(Files), NEW p \in PlotManagers
    PROVE  LET b == FinishBodies(removed, p)
           IN /\ b \in Seq(Bodies) /\ Len(b) > 0
              /\ \A i \in 1 .. Len(b) : b[i].type # "start" /\ (b[i].type = "done" <=> i = Len(b))
              /\ Lists(b, "loaded") = {} /\ Lists(b, "removed") = ToSet(removed)
              /\ Lists(b, "invalid") = p.failed /\ Lists(b, "keys_missing") = p.no_key
              /\ Lists(b, "duplicates") = p.duplicates
  <1>1. PICK a1, a2, a3, a4, d :
          /\ a1 = ListMessages("removed", removed) /\ a2 = ListMessages("invalid", Sorted(p.failed))
          /\ a3 = ListMessages("keys_missing", Sorted(p.no_key))
          /\ a4 = ListMessages("duplicates", Sorted(p.duplicates)) /\ d = <<[type |-> "done"]>>
    OBVIOUS
  <1>2. /\ p.failed \in SUBSET Files /\ p.no_key \in SUBSET Files /\ p.duplicates \in SUBSET Files
    BY DEF PlotManagers
  <1>3. a1 \in Seq(Bodies) /\ OfTypes(a1, {"removed"}) /\ Lists(a1, "removed") = ToSet(removed)
    BY <1>1, ListFacts DEF OfTypes, ListTypes
  <1>4. a2 \in Seq(Bodies) /\ OfTypes(a2, {"invalid"}) /\ Lists(a2, "invalid") = p.failed
    <2>1. Sorted(p.failed) \in Seq(Files) /\ ToSet(Sorted(p.failed)) = p.failed
      BY <1>2, SortedFacts
    <2> QED
      BY <1>1, <2>1, ListFacts DEF OfTypes, ListTypes
  <1>5. a3 \in Seq(Bodies) /\ OfTypes(a3, {"keys_missing"}) /\ Lists(a3, "keys_missing") = p.no_key
    <2>1. Sorted(p.no_key) \in Seq(Files) /\ ToSet(Sorted(p.no_key)) = p.no_key
      BY <1>2, SortedFacts
    <2> QED
      BY <1>1, <2>1, ListFacts DEF OfTypes, ListTypes
  <1>6. a4 \in Seq(Bodies) /\ OfTypes(a4, {"duplicates"}) /\ Lists(a4, "duplicates") = p.duplicates
    <2>1. Sorted(p.duplicates) \in Seq(Files) /\ ToSet(Sorted(p.duplicates)) = p.duplicates
      BY <1>2, SortedFacts
    <2> QED
      BY <1>1, <2>1, ListFacts DEF OfTypes, ListTypes
  <1>7. d \in Seq(Bodies) /\ Len(d) = 1 /\ d[1].type = "done" /\ OfTypes(d, {"done"})
    <2>1. [type |-> "done"] \in Bodies
      BY DEF Bodies
    <2> QED
      BY <1>1, <2>1 DEF OfTypes
  <1>8. PICK c2 : c2 = a1 \o a2
    OBVIOUS
  <1>9. c2 \in Seq(Bodies) /\ OfTypes(c2, {"removed"} \cup {"invalid"})
    BY <1>3, <1>4, <1>8, OfTypesFacts
  <1>10. PICK c3 : c3 = c2 \o a3
    OBVIOUS
  <1>11. c3 \in Seq(Bodies) /\ OfTypes(c3, ({"removed"} \cup {"invalid"}) \cup {"keys_missing"})
    BY <1>5, <1>9, <1>10, OfTypesFacts
  <1>12. PICK c4 : c4 = c3 \o a4
    OBVIOUS
  <1>13. c4 \in Seq(Bodies) /\ OfTypes(c4, (({"removed"} \cup {"invalid"}) \cup {"keys_missing"}) \cup {"duplicates"})
    BY <1>6, <1>11, <1>12, OfTypesFacts
  <1>14. PICK b : b = c4 \o d
    OBVIOUS
  <1>15. b = FinishBodies(removed, p)
    BY <1>1, <1>8, <1>10, <1>12, <1>14 DEF FinishBodies
  <1>16. PICK n \in Nat : n = Len(c4) /\ DOMAIN c4 = 1 .. n
    BY <1>13
  <1>17. b \in Seq(Bodies) /\ Len(b) = n + 1
    BY <1>7, <1>13, <1>14, <1>16, OfTypesFacts
  <1>18. ASSUME NEW i \in 1 .. Len(b) PROVE b[i].type # "start" /\ (b[i].type = "done" <=> i = Len(b))
    <2>1. CASE i = n + 1
      <3>1. b[i] = d[1]
        BY <1>7, <1>13, <1>14, <1>16, <2>1
      <3> QED
        BY <1>7, <1>17, <2>1, <3>1
    <2>2. CASE i # n + 1
      <3>1. i \in 1 .. n
        BY <1>17, <2>2
      <3>2. b[i] = c4[i]
        BY <1>7, <1>13, <1>14, <1>16, <3>1
      <3>3. b[i].type # "start" /\ b[i].type # "done"
        BY <1>13, <1>16, <3>1, <3>2 DEF OfTypes
      <3> QED
        BY <1>17, <2>2, <3>3
    <2> QED
      BY <2>1, <2>2
  <1>19. \A type : Lists(b, type) = (((Lists(a1, type) \cup Lists(a2, type)) \cup Lists(a3, type)) \cup Lists(a4, type)) \cup Lists(d, type)
    <2> TAKE type
    <2>1. Lists(c2, type) = Lists(a1, type) \cup Lists(a2, type)
      BY <1>3, <1>4, <1>8, ListsConcat
    <2>2. Lists(c3, type) = Lists(c2, type) \cup Lists(a3, type)
      BY <1>5, <1>9, <1>10, ListsConcat
    <2>3. Lists(c4, type) = Lists(c3, type) \cup Lists(a4, type)
      BY <1>6, <1>11, <1>12, ListsConcat
    <2>4. Lists(b, type) = Lists(c4, type) \cup Lists(d, type)
      BY <1>7, <1>13, <1>14, ListsConcat
    <2> QED
      BY <2>1, <2>2, <2>3, <2>4
  <1>20. \A type : /\ type # "removed" => Lists(a1, type) = {}
                   /\ type # "invalid" => Lists(a2, type) = {}
                   /\ type # "keys_missing" => Lists(a3, type) = {}
                   /\ type # "duplicates" => Lists(a4, type) = {}
                   /\ type # "done" => Lists(d, type) = {}
    <2> TAKE type
    <2>1. type # "removed" => Lists(a1, type) = {}
      BY <1>3, NotListed
    <2>2. type # "invalid" => Lists(a2, type) = {}
      BY <1>4, NotListed
    <2>3. type # "keys_missing" => Lists(a3, type) = {}
      BY <1>5, NotListed
    <2>4. type # "duplicates" => Lists(a4, type) = {}
      BY <1>6, NotListed
    <2>5. type # "done" => Lists(d, type) = {}
      BY <1>7, NotListed
    <2> QED
      BY <2>1, <2>2, <2>3, <2>4, <2>5
  <1>21. /\ Lists(b, "loaded") = {} /\ Lists(b, "removed") = ToSet(removed)
         /\ Lists(b, "invalid") = p.failed /\ Lists(b, "keys_missing") = p.no_key
         /\ Lists(b, "duplicates") = p.duplicates
    <2>1. Lists(b, "loaded") = {}
      BY <1>19, <1>20
    <2>2. Lists(b, "removed") = ToSet(removed)
      BY <1>3, <1>19, <1>20
    <2>3. Lists(b, "invalid") = p.failed
      BY <1>4, <1>19, <1>20
    <2>4. Lists(b, "keys_missing") = p.no_key
      BY <1>5, <1>19, <1>20
    <2>5. Lists(b, "duplicates") = p.duplicates
      BY <1>6, <1>19, <1>20
    <2> QED
      BY <2>1, <2>2, <2>3, <2>4, <2>5
  <1> QED
    BY <1>15, <1>17, <1>18, <1>21

LEMMA ExtendsNamed ==
    ASSUME NEW s \in Senders, NEW t, NEW new \in Seq(Bodies), Extends(t, s, new), NEW type
    PROVE  /\ \A n \in 0 .. Len(s.messages) : Named(t, type, n) = Named(s, type, n)
           /\ All(t, type) = All(s, type) \cup Lists(new, type)
  <1>1. PICK n \in Nat, k \in Nat : n = Len(s.messages) /\ k = Len(new) /\ DOMAIN s.messages = 1 .. n
                                    /\ DOMAIN new = 1 .. k
    BY DEF Senders
  <1>2. /\ t \in Senders /\ Len(t.messages) = n + k
        /\ \A i \in 1 .. n : t.messages[i] = s.messages[i]
        /\ \A i \in 1 .. k : t.messages[n + i].body = new[i]
    <2>1. /\ t \in Senders /\ Len(t.messages) = n + k
          /\ \A i \in 1 .. n : t.messages[i] = s.messages[i]
          /\ \A i \in 1 .. k : t.messages[n + i] = [sync_id |-> s.sync_id, message_id |-> n + i - 1, body |-> new[i]]
      BY <1>1 DEF Extends
    <2>2. ASSUME NEW i \in 1 .. k PROVE t.messages[n + i].body = new[i]
      <3>1. t.messages[n + i] = [sync_id |-> s.sync_id, message_id |-> n + i - 1, body |-> new[i]]
        BY <2>1
      <3> QED
        BY <3>1
    <2> QED
      BY <2>1, <2>2
  <1>3. DOMAIN t.messages = 1 .. (n + k)
    BY <1>1, <1>2 DEF Senders
  <1> DEFINE says(i, f) == t.messages[i].body.type = type /\ f \in ToSet(t.messages[i].body.data)
  <1>4. \A m, f : f \in Named(t, type, m) <=> f \in Files /\ \E i \in 1 .. (n + k) : i <= m /\ says(i, f)
    BY <1>3 DEF Named
  <1>5. \A m, f : f \in Named(s, type, m) <=> f \in Files /\ \E i \in 1 .. n : i <= m /\ says(i, f)
    BY <1>1, <1>2 DEF Named
  <1>6. \A f : f \in Lists(new, type) <=> f \in Files /\ \E i \in 1 .. k : says(n + i, f)
    <2>1. \A f : \A i \in 1 .. k : says(n + i, f) <=> new[i].type = type /\ f \in ToSet(new[i].data)
      BY <1>2
    <2> HIDE DEF says
    <2> QED
      BY <1>1, <2>1 DEF Lists
  <1> HIDE DEF says
  <1>7. ASSUME NEW m \in 0 .. n PROVE Named(t, type, m) = Named(s, type, m)
    <2>1. \A i \in 1 .. (n + k) : i <= m => i \in 1 .. n
      OBVIOUS
    <2>2. \A i \in 1 .. n : i \in 1 .. (n + k)
      OBVIOUS
    <2>3. \A f : f \in Named(t, type, m) <=> f \in Named(s, type, m)
      BY <1>4, <1>5, <2>1, <2>2
    <2>4. Named(t, type, m) \subseteq Files /\ Named(s, type, m) \subseteq Files
      BY DEF Named
    <2> QED
      BY <2>3, <2>4
  <1>8. All(t, type) = All(s, type) \cup Lists(new, type)
    <2>1. \A i \in 1 .. (n + k) : i \in 1 .. n \/ \E j \in 1 .. k : i = n + j
      <3> SUFFICES ASSUME NEW i \in 1 .. (n + k), ~ (i \in 1 .. n) PROVE \E j \in 1 .. k : i = n + j
        OBVIOUS
      <3>1. i - n \in 1 .. k /\ i = n + (i - n)
        OBVIOUS
      <3> QED
        BY <3>1
    <2>2. \A j \in 1 .. k : n + j \in 1 .. (n + k)
      OBVIOUS
    <2>3. \A i \in 1 .. n : i \in 1 .. (n + k) /\ i <= n
      OBVIOUS
    <2>4. \A i \in 1 .. (n + k) : i <= n + k
      OBVIOUS
    <2>5. \A f : f \in All(t, type) <=> f \in Files /\ \E i \in 1 .. (n + k) : says(i, f)
      BY <1>2, <1>4, <2>4 DEF All
    <2>6. \A f : f \in All(s, type) <=> f \in Files /\ \E i \in 1 .. n : says(i, f)
      BY <1>1, <1>5, <2>3 DEF All
    <2>7. \A f : f \in All(t, type) <=> f \in All(s, type) \/ f \in Lists(new, type)
      BY <1>6, <2>1, <2>2, <2>3, <2>5, <2>6
    <2> QED
      BY <2>7
  <1> QED
    BY <1>1, <1>7, <1>8

LEMMA ExtendsDone ==
    ASSUME NEW s \in Senders, NEW t, NEW new \in Seq(Bodies), Extends(t, s, new), Len(new) > 0,
           \A i \in 1 .. Len(s.messages) : s.messages[i].body.type # "done",
           \A i \in 1 .. Len(new) : new[i].type = "done" <=> i = Len(new)
    PROVE  DoneIsLast(t)
  <1>1. PICK n \in Nat, k \in Nat : n = Len(s.messages) /\ k = Len(new) /\ k > 0
    BY DEF Senders
  <1>2. /\ t \in Senders /\ Len(t.messages) = n + k
        /\ \A i \in 1 .. n : t.messages[i] = s.messages[i]
        /\ \A i \in 1 .. k : t.messages[n + i] = [sync_id |-> s.sync_id, message_id |-> n + i - 1, body |-> new[i]]
    BY <1>1 DEF Extends
  <1>3. DOMAIN t.messages = 1 .. (n + k)
    BY <1>1, <1>2 DEF Senders
  <1>4. ASSUME NEW i \in 1 .. (n + k) PROVE t.messages[i].body.type = "done" <=> i = n + k
    <2>1. CASE i <= n
      <3>1. i \in 1 .. n /\ i # n + k
        BY <1>1, <2>1
      <3> QED
        BY <1>1, <1>2, <3>1
    <2>2. CASE ~ (i <= n)
      <3>1. PICK j \in 1 .. k : i = n + j
        <4>1. i - n \in 1 .. k /\ i = n + (i - n)
          BY <2>2
        <4> QED
          BY <4>1
      <3>2. i = n + k <=> j = k
        BY <3>1
      <3>3. t.messages[i] = [sync_id |-> s.sync_id, message_id |-> n + j - 1, body |-> new[j]]
        BY <1>2, <3>1
      <3>4. t.messages[i].body = new[j]
        BY <3>3
      <3> QED
        BY <1>1, <3>2, <3>4
    <2> QED
      BY <2>1, <2>2
  <1> QED
    BY <1>2, <1>3, <1>4 DEF DoneIsLast

(* sync_done closes the queue.                                             *)
LEMMA FinishFacts ==
    ASSUME NEW s \in Senders, Queued(s), s.sync_id # 0,
           NEW removed \in Seq(Files), NEW p \in PlotManagers
    PROVE  LET t == FinishSync(s, removed, p)
           IN /\ Extends(t, s, FinishBodies(removed, p)) /\ t \in Senders
              /\ Queued(t) /\ t.messages[1] = s.messages[1]
              /\ HasNextMessage(t)
              /\ HasNextMessage(s) => NextMessage(t) = NextMessage(s)
              /\ (\A i \in 1 .. Len(s.messages) : s.messages[i].body.type # "done") => DoneIsLast(t)
              /\ All(t, "loaded") = All(s, "loaded")
              /\ All(t, "removed") = All(s, "removed") \cup ToSet(removed)
              /\ All(t, "invalid") = All(s, "invalid") \cup p.failed
              /\ All(t, "keys_missing") = All(s, "keys_missing") \cup p.no_key
              /\ All(t, "duplicates") = All(s, "duplicates") \cup p.duplicates
  <1>1. PICK t, b : t = FinishSync(s, removed, p) /\ b = FinishBodies(removed, p)
    OBVIOUS
  <1>2. /\ b \in Seq(Bodies) /\ Len(b) > 0
        /\ \A i \in 1 .. Len(b) : b[i].type # "start" /\ (b[i].type = "done" <=> i = Len(b))
        /\ Lists(b, "loaded") = {} /\ Lists(b, "removed") = ToSet(removed)
        /\ Lists(b, "invalid") = p.failed /\ Lists(b, "keys_missing") = p.no_key
        /\ Lists(b, "duplicates") = p.duplicates
    BY <1>1, FinishBodiesFacts
  <1>3. t = AddMessages(s, b)
    BY <1>1 DEF FinishSync, FinishBodies
  <1>4. Extends(t, s, b)
    BY <1>2, <1>3, AddExtends
  <1>5. t \in Senders
    BY <1>4 DEF Extends
  <1>6. /\ Queued(t) /\ t.messages[1] = s.messages[1]
        /\ HasNextMessage(s) => HasNextMessage(t) /\ NextMessage(t) = NextMessage(s)
    BY <1>2, <1>4, ExtendsQueued
  <1>7. HasNextMessage(t)
    <2>1. PICK n \in Nat, k \in Nat : n = Len(s.messages) /\ k = Len(b) /\ k > 0
      BY <1>2, LenProperties DEF Senders
    <2>2. Len(t.messages) = n + k /\ t.next_message_id = s.next_message_id /\ t.sync_id = s.sync_id
      BY <1>4, <2>1 DEF Extends
    <2>3. s.next_message_id <= n /\ s.next_message_id \in Nat
      BY <2>1 DEF Queued, Senders
    <2>4. s.next_message_id < n + k
      BY <2>1, <2>3
    <2> QED
      BY <2>2, <2>4 DEF HasNextMessage, SyncActive
  <1>8. ASSUME \A i \in 1 .. Len(s.messages) : s.messages[i].body.type # "done" PROVE DoneIsLast(t)
    BY <1>2, <1>4, <1>8, ExtendsDone
  <1>9. \A type : All(t, type) = All(s, type) \cup Lists(b, type)
    BY <1>2, <1>4, ExtendsNamed
  <1>10. /\ All(t, "loaded") = All(s, "loaded")
         /\ All(t, "removed") = All(s, "removed") \cup ToSet(removed)
         /\ All(t, "invalid") = All(s, "invalid") \cup p.failed
         /\ All(t, "keys_missing") = All(s, "keys_missing") \cup p.no_key
         /\ All(t, "duplicates") = All(s, "duplicates") \cup p.duplicates
    BY <1>2, <1>9
  <1> QED
    BY <1>1, <1>4, <1>5, <1>6, <1>7, <1>8, <1>10

(* A rebuilt queue tells all the plot manager has, in an initial sync.     *)
LEMMA RebuiltFacts ==
    ASSUME NEW s \in Senders, s.messages = <<>>, s.next_message_id = 0,
           NEW now \in Nat, now > 0, NEW p \in PlotManagers
    PROVE  LET t == Rebuilt(s, now, p)
           IN /\ t \in Senders /\ Queued(t) /\ t.sync_id # 0 /\ t.next_message_id = 0
              /\ t.last_sync_id = s.last_sync_id /\ HasNextMessage(t)
              /\ t.messages[1].body.initial
              /\ DoneIsLast(t)
              /\ All(t, "loaded") = p.plots /\ All(t, "removed") = {}
              /\ All(t, "invalid") = p.failed /\ All(t, "keys_missing") = p.no_key
              /\ All(t, "duplicates") = p.duplicates
  <1>1. PICK u, loaded : /\ u = SyncStart(s, now, TRUE)
                         /\ loaded = IF p.plots = {} THEN <<>> ELSE ListMessages("loaded", Sorted(p.plots))
    OBVIOUS
  <1>2. PICK v, t : v = AddMessages(u, loaded) /\ t = FinishSync(v, <<>>, p)
    OBVIOUS
  <1>3. t = Rebuilt(s, now, p)
    BY <1>1, <1>2 DEF Rebuilt
  <1>4. /\ u \in Senders /\ Queued(u) /\ u.sync_id # 0
        /\ u.next_message_id = 0 /\ u.last_sync_id = s.last_sync_id
        /\ Len(u.messages) = 1 /\ HasNextMessage(u)
        /\ u.messages[1].body = [type |-> "start", initial |-> TRUE, last_sync_id |-> s.last_sync_id]
    BY <1>1, SyncStartFacts
  <1>5. loaded \in Seq(Bodies) /\ OfTypes(loaded, {"loaded"}) /\ Lists(loaded, "loaded") = p.plots
    <2>1. p.plots \in SUBSET Files
      BY DEF PlotManagers
    <2>2. CASE p.plots = {}
      BY <1>1, <2>2 DEF OfTypes, Lists
    <2>3. CASE p.plots # {}
      <3>1. Sorted(p.plots) \in Seq(Files) /\ ToSet(Sorted(p.plots)) = p.plots
        BY <2>1, SortedFacts
      <3> QED
        BY <1>1, <2>3, <3>1, ListFacts DEF OfTypes, ListTypes
    <2> QED
      BY <2>2, <2>3
  <1>6. PICK k \in Nat : k = Len(loaded) /\ DOMAIN loaded = 1 .. k /\ \A i \in 1 .. k : loaded[i].type = "loaded"
    BY <1>5 DEF OfTypes
  <1>7. Extends(v, u, loaded)
    BY <1>2, <1>4, <1>5, AddExtends
  <1>8. /\ v \in Senders /\ v.sync_id = u.sync_id /\ v.next_message_id = 0 /\ v.last_sync_id = s.last_sync_id
        /\ Len(v.messages) = 1 + k
        /\ \A i \in 1 .. 1 : v.messages[i] = u.messages[i]
        /\ \A i \in 1 .. k : v.messages[1 + i] = [sync_id |-> u.sync_id, message_id |-> 1 + i - 1, body |-> loaded[i]]
    BY <1>4, <1>6, <1>7 DEF Extends
  <1>9. Queued(v) /\ v.messages[1] = u.messages[1]
    BY <1>4, <1>5, <1>6, <1>7, ExtendsQueued
  <1>10. ASSUME NEW i \in 1 .. Len(v.messages) PROVE v.messages[i].body.type # "done"
    <2>1. CASE i = 1
      BY <1>4, <1>9, <2>1
    <2>2. CASE i # 1
      <3>1. PICK j \in 1 .. k : i = 1 + j
        <4>1. i - 1 \in 1 .. k /\ i = 1 + (i - 1)
          BY <1>6, <1>8, <2>2
        <4> QED
          BY <4>1
      <3>2. v.messages[i] = [sync_id |-> u.sync_id, message_id |-> 1 + j - 1, body |-> loaded[j]]
        BY <1>8, <3>1
      <3> QED
        BY <1>6, <3>2
    <2> QED
      BY <2>1, <2>2
  <1>11. \A type : All(v, type) = All(u, type) \cup Lists(loaded, type)
    BY <1>4, <1>5, <1>7, ExtendsNamed
  <1>12. \A type \in ListTypes : All(u, type) = {}
    <2>1. DOMAIN u.messages = 1 .. 1 /\ \A i \in 1 .. 1 : i = 1
      BY <1>4 DEF Senders
    <2>2. u.messages[1].body.type = "start"
      BY <1>4
    <2> QED
      BY <2>1, <2>2 DEF All, Named, ListTypes
  <1>13. All(v, "loaded") = p.plots
    BY <1>5, <1>11, <1>12 DEF ListTypes
  <1>14. \A type \in ListTypes : type # "loaded" => All(v, type) = {}
    <2> SUFFICES ASSUME NEW type \in ListTypes, type # "loaded" PROVE All(v, type) = {}
      OBVIOUS
    <2>1. Lists(loaded, type) = {}
      BY <1>5, NotListed
    <2> QED
      BY <1>11, <1>12, <2>1
  <1>15. PICK none \in Seq(Files) : none = <<>> /\ ToSet(none) = {}
    <2>1. ToSet(<<>>) = {} /\ <<>> \in Seq(Files)
      BY DEF ToSet
    <2> QED
      BY <2>1
  <1>16. /\ Extends(t, v, FinishBodies(none, p)) /\ t \in Senders
         /\ Queued(t) /\ t.messages[1] = v.messages[1] /\ HasNextMessage(t)
         /\ (\A i \in 1 .. Len(v.messages) : v.messages[i].body.type # "done") => DoneIsLast(t)
         /\ All(t, "loaded") = All(v, "loaded")
         /\ All(t, "removed") = All(v, "removed") \cup ToSet(none)
         /\ All(t, "invalid") = All(v, "invalid") \cup p.failed
         /\ All(t, "keys_missing") = All(v, "keys_missing") \cup p.no_key
         /\ All(t, "duplicates") = All(v, "duplicates") \cup p.duplicates
    <2>1. v \in Senders /\ Queued(v) /\ v.sync_id # 0 /\ t = FinishSync(v, none, p)
      BY <1>2, <1>4, <1>8, <1>9, <1>15
    <2> QED
      BY <2>1, FinishFacts
  <1>17. /\ t.sync_id = u.sync_id /\ t.next_message_id = 0 /\ t.last_sync_id = s.last_sync_id
    BY <1>8, <1>16 DEF Extends
  <1>18. t.messages[1].body.initial
    BY <1>4, <1>9, <1>16
  <1>19. /\ All(t, "loaded") = p.plots /\ All(t, "removed") = {}
         /\ All(t, "invalid") = p.failed /\ All(t, "keys_missing") = p.no_key
         /\ All(t, "duplicates") = p.duplicates
    BY <1>13, <1>14, <1>15, <1>16 DEF ListTypes
  <1> QED
    BY <1>3, <1>4, <1>10, <1>16, <1>17, <1>18, <1>19

------------------------------------------------------------------------------
(* The receiver.                                                           *)

SameShown(r, t) ==
    /\ t.last_sync_id = r.last_sync_id /\ t.plots = r.plots /\ t.invalid = r.invalid
    /\ t.keys_missing = r.keys_missing /\ t.duplicates = r.duplicates

(* What comes of a list whose refused items are these.                     *)
ListOutcome(r, m, data, field, refused, a) ==
    /\ a.receiver \in Receivers /\ SameShown(r, a.receiver)
    /\ ~ ValidIdentifier(r, m) => a = WrongIdentifier(r)
    /\ ValidIdentifier(r, m) /\ ToSet(data) \cap refused # {} =>
          /\ a.error = "fatal" /\ a.expected = <<0, 0>>
          /\ a.receiver.current.sync_id = r.current.sync_id
          /\ a.receiver.current.next_message_id = r.current.next_message_id
          /\ \A g \in Fields : r.current[g] \subseteq a.receiver.current[g]
    /\ ValidIdentifier(r, m) /\ ToSet(data) \cap refused = {} =>
          /\ a.error = "none" /\ a.expected = <<0, 0>>
          /\ a.receiver.current.sync_id = r.current.sync_id
          /\ a.receiver.current.next_message_id = r.current.next_message_id + 1
          /\ \A g \in Fields : a.receiver.current[g] =
                IF g = field THEN r.current[g] \cup ToSet(data) ELSE r.current[g]

LEMMA ListProcess ==
    ASSUME NEW r \in Receivers, NEW m, NEW data \in Seq(Files), m.body.data = data,
           NEW field \in Fields, NEW next \in States, NEW refused,
           NEW a, a = ProcessList(r, m, field, next, refused)
    PROVE  ListOutcome(r, m, data, field, refused, a)
  <1>1. PICK taken : taken = Taken(data, refused)
    OBVIOUS
  <1>2. taken \subseteq ToSet(data) /\ ToSet(data) \subseteq Files
    BY <1>1 DEF ToSet, Taken
  <1>3. ASSUME ToSet(data) \cap refused = {} PROVE taken = ToSet(data)
    <2>1. \A i \in DOMAIN data : \A h \in 1 .. i : h \in DOMAIN data
      OBVIOUS
    <2>2. \A i \in DOMAIN data : data[i] \notin refused
      BY <1>3 DEF ToSet
    <2>3. {j \in DOMAIN data : \A h \in 1 .. j : data[h] \notin refused} = DOMAIN data
      BY <2>1, <2>2
    <2> QED
      BY <1>1, <2>3 DEF ToSet, Taken
  <1>4. PICK cur : cur = [r.current EXCEPT ![field] = @ \cup taken]
    OBVIOUS
  <1>5. /\ cur \in Syncs /\ cur.sync_id = r.current.sync_id /\ cur.next_message_id = r.current.next_message_id
        /\ \A g \in Fields : cur[g] = IF g = field THEN r.current[g] \cup taken ELSE r.current[g]
    <2>1. r.current \in Syncs
      BY DEF Receivers
    <2> QED
      BY <1>2, <1>4, <2>1 DEF Syncs, Fields
  <1>6. PICK state : state = (IF m.body.final THEN next ELSE cur.state)
    OBVIOUS
  <1>7. PICK new : new = [cur EXCEPT !.state = state, !.next_message_id = @ + 1]
    OBVIOUS
  <1>8. /\ new \in Syncs /\ new.sync_id = cur.sync_id /\ new.next_message_id = cur.next_message_id + 1
        /\ \A g \in Fields : new[g] = cur[g]
    <2>1. state \in States /\ cur \in Syncs
      BY <1>5, <1>6 DEF Syncs, States
    <2>2. new \in Syncs /\ new.sync_id = cur.sync_id /\ new.next_message_id = cur.next_message_id + 1
      <3>1. PICK k \in Nat : k = cur.next_message_id + 1
        BY <2>1 DEF Syncs
      <3>2. new = [cur EXCEPT !.state = state, !.next_message_id = k]
        BY <1>7, <2>1, <3>1 DEF Syncs
      <3> QED
        BY <2>1, <3>1, <3>2 DEF Syncs
    <2>3. /\ new.added = cur.added /\ new.removed = cur.removed /\ new.invalid = cur.invalid
          /\ new.keys_missing = cur.keys_missing /\ new.duplicates = cur.duplicates
      BY <1>7, <2>1 DEF Syncs
    <2> QED
      BY <2>2, <2>3 DEF Fields
  <1>9. a = IF ~ ValidIdentifier(r, m) THEN WrongIdentifier(r)
            ELSE IF ToSet(data) \cap refused # {} THEN Fails([r EXCEPT !.current = cur])
            ELSE Accepts([r EXCEPT !.current = new])
    <2>1. CASE ~ ValidIdentifier(r, m)
      BY <2>1 DEF ProcessList
    <2>2. CASE ValidIdentifier(r, m) /\ ToSet(data) \cap refused # {}
      BY <1>1, <1>4, <2>2 DEF ProcessList
    <2>3. CASE ValidIdentifier(r, m) /\ ToSet(data) \cap refused = {}
      <3>1. a = Accepts([r EXCEPT !.current =
                  [cur EXCEPT !.state = IF m.body.final THEN next ELSE @, !.next_message_id = @ + 1]])
        BY <1>1, <1>4, <2>3 DEF ProcessList
      <3>2. [cur EXCEPT !.state = IF m.body.final THEN next ELSE @, !.next_message_id = @ + 1] = new
        BY <1>6, <1>7
      <3> QED
        BY <2>3, <3>1, <3>2
    <2> QED
      BY <2>1, <2>2, <2>3
  <1>10. CASE ~ ValidIdentifier(r, m)
    BY <1>9, <1>10 DEF WrongIdentifier, Answer, SameShown, ListOutcome
  <1>11. CASE ValidIdentifier(r, m) /\ ToSet(data) \cap refused # {}
    <2>1. a.receiver = [r EXCEPT !.current = cur] /\ a.error = "fatal" /\ a.expected = <<0, 0>>
      BY <1>9, <1>11 DEF Fails, Answer
    <2>2. a.receiver \in Receivers /\ SameShown(r, a.receiver) /\ a.receiver.current = cur
      BY <1>5, <2>1 DEF Receivers, SameShown
    <2> QED
      BY <1>5, <1>11, <2>1, <2>2 DEF ListOutcome
  <1>12. CASE ValidIdentifier(r, m) /\ ToSet(data) \cap refused = {}
    <2>1. a.receiver = [r EXCEPT !.current = new] /\ a.error = "none" /\ a.expected = <<0, 0>>
      BY <1>9, <1>12 DEF Accepts, Answer
    <2>2. a.receiver \in Receivers /\ SameShown(r, a.receiver) /\ a.receiver.current = new
      BY <1>8, <2>1 DEF Receivers, SameShown
    <2> QED
      BY <1>3, <1>5, <1>8, <1>12, <2>1, <2>2 DEF ListOutcome
  <1> QED
    BY <1>10, <1>11, <1>12

(* A list is noted as a whole, refused, or answered with the identifier.   *)
ListHandled(r, m, a) ==
    /\ m.body.data \in Seq(Files)
    /\ a.receiver \in Receivers /\ SameShown(r, a.receiver)
    /\ ~ ValidIdentifier(r, m) => a = WrongIdentifier(r)
    /\ ValidIdentifier(r, m) /\ ToSet(m.body.data) \cap Refused(r, m.body) # {} =>
          /\ a.error = "fatal" /\ a.expected = <<0, 0>>
          /\ a.receiver.current.sync_id = r.current.sync_id
          /\ a.receiver.current.next_message_id = r.current.next_message_id
          /\ \A type \in ListTypes : Noted(r, type) \subseteq Noted(a.receiver, type)
    /\ ValidIdentifier(r, m) /\ ToSet(m.body.data) \cap Refused(r, m.body) = {} =>
          /\ a.error = "none" /\ a.expected = <<0, 0>>
          /\ a.receiver.current.sync_id = r.current.sync_id
          /\ a.receiver.current.next_message_id = r.current.next_message_id + 1
          /\ \A type \in ListTypes : Noted(a.receiver, type) =
                IF type = m.body.type THEN Noted(r, type) \cup ToSet(m.body.data) ELSE Noted(r, type)

LEMMA ListStep ==
    ASSUME NEW r \in Receivers, NEW m \in Messages, m.body.type \in ListTypes
    PROVE  ListHandled(r, m, Process(r, m))
  <1>1. PICK type \in ListTypes, data \in Seq(Files) : m.body.type = type /\ m.body.data = data
    <2>1. m.body \in Bodies
      BY DEF Messages
    <2>2. m.body \in [type : ListTypes, data : Seq(Files), final : BOOLEAN]
      BY <2>1 DEF Bodies, ListTypes
    <2> QED
      BY <2>2
  <1>2. PICK field \in Fields, next \in States :
          /\ Process(r, m) = ProcessList(r, m, field, next, Refused(r, m.body))
          /\ field = Field[type]
    <2>1. CASE type = "loaded"
      <3>1. Refused(r, m.body) = r.plots \cup r.current.added /\ Field[type] = "added"
        BY <1>1, <2>1 DEF Refused, Noted, Field, ListTypes
      <3> QED
        BY <1>1, <2>1, <3>1 DEF Process, ProcessLoaded, Fields, States
    <2>2. CASE type = "removed"
      <3>1. Refused(r, m.body) = (ToSet(m.body.data) \ r.plots) \cup r.current.removed /\ Field[type] = "removed"
        BY <1>1, <2>2 DEF Refused, Noted, Field, ListTypes
      <3> QED
        BY <1>1, <2>2, <3>1 DEF Process, ProcessRemoved, Fields, States
    <2>3. CASE type = "invalid"
      <3>1. Refused(r, m.body) = r.current.invalid /\ Field[type] = "invalid"
        BY <1>1, <2>3 DEF Refused, Noted, Field, ListTypes
      <3> QED
        BY <1>1, <2>3, <3>1 DEF Process, ProcessInvalid, Fields, States
    <2>4. CASE type = "keys_missing"
      <3>1. Refused(r, m.body) = r.current.keys_missing /\ Field[type] = "keys_missing"
        BY <1>1, <2>4 DEF Refused, Noted, Field, ListTypes
      <3> QED
        BY <1>1, <2>4, <3>1 DEF Process, ProcessKeysMissing, Fields, States
    <2>5. CASE type = "duplicates"
      <3>1. Refused(r, m.body) = r.current.duplicates /\ Field[type] = "duplicates"
        BY <1>1, <2>5 DEF Refused, Noted, Field, ListTypes
      <3> QED
        BY <1>1, <2>5, <3>1 DEF Process, ProcessDuplicates, Fields, States
    <2> QED
      BY <2>1, <2>2, <2>3, <2>4, <2>5 DEF ListTypes
  <1>3. \A t \in ListTypes : Field[t] \in Fields /\ (Field[t] = field <=> t = type)
    BY <1>2 DEF Field, Fields, ListTypes
  <1>4. PICK a, refused : a = Process(r, m) /\ refused = Refused(r, m.body)
    OBVIOUS
  <1>5. a = ProcessList(r, m, field, next, refused)
    BY <1>2, <1>4
  <1>6. ListOutcome(r, m, data, field, refused, a)
    BY <1>1, <1>5, ListProcess
  <1> QED
    BY <1>1, <1>3, <1>4, <1>6 DEF Noted, ListOutcome, ListHandled

(* A start is taken up from nothing, or refused.                           *)
StartHandled(r0, m, a) ==
    /\ a.receiver \in Receivers
    /\ ~ ValidIdentifier(r0, m) => a = WrongIdentifier(r0)
    /\ ValidIdentifier(r0, m) /\ (m.body.last_sync_id # r0.last_sync_id \/ m.body.last_sync_id = m.sync_id) =>
          a = Fails(r0)
    /\ ValidIdentifier(r0, m) /\ m.body.last_sync_id = r0.last_sync_id /\ m.body.last_sync_id # m.sync_id =>
          /\ a.error = "none" /\ a.expected = <<0, 0>> /\ SameShown(r0, a.receiver)
          /\ a.receiver.current.sync_id = m.sync_id /\ a.receiver.current.next_message_id = 1
          /\ \A type \in ListTypes : Noted(a.receiver, type) = {}

LEMMA NewReceiverTyped == NewReceiver \in Receivers /\ Sync \in Syncs
  <1>1. Sync \in Syncs
    BY DEF Sync, Syncs, States
  <1> QED
    BY <1>1 DEF NewReceiver, Receivers

LEMMA StartStep ==
    ASSUME NEW r \in Receivers, NEW m \in Messages, m.body.type = "start"
    PROVE  /\ m.body.initial => StartHandled(NewReceiver, m, Process(r, m))
           /\ ~ m.body.initial => StartHandled(r, m, Process(r, m))
  <1>1. PICK r0 : r0 = IF m.body.initial THEN NewReceiver ELSE r
    OBVIOUS
  <1>2. r0 \in Receivers
    BY <1>1, NewReceiverTyped
  <1>3. PICK id \in Nat : id = m.sync_id
    BY DEF Messages
  <1>4. PICK cur : cur = [Sync EXCEPT !.state = "loaded", !.sync_id = m.sync_id, !.next_message_id = @ + 1]
    OBVIOUS
  <1>5. cur = [Sync EXCEPT !.state = "loaded", !.sync_id = id, !.next_message_id = 1] /\ "loaded" \in States
    BY <1>3, <1>4 DEF Sync, States
  <1>6. cur \in Syncs /\ cur.sync_id = id /\ cur.next_message_id = 1 /\ \A g \in Fields : cur[g] = {}
    <2>1. /\ cur \in Syncs /\ cur.sync_id = id /\ cur.next_message_id = 1
          /\ cur.added = Sync.added /\ cur.removed = Sync.removed /\ cur.invalid = Sync.invalid
          /\ cur.keys_missing = Sync.keys_missing /\ cur.duplicates = Sync.duplicates
      BY <1>5, NewReceiverTyped DEF Syncs
    <2> QED
      BY <2>1 DEF Sync, Fields
  <1>7. PICK a : a = Process(r, m)
    OBVIOUS
  <1>8. a = IF ~ ValidIdentifier(r0, m) THEN WrongIdentifier(r0)
            ELSE IF m.body.last_sync_id # r0.last_sync_id \/ m.body.last_sync_id = m.sync_id THEN Fails(r0)
            ELSE Accepts([r0 EXCEPT !.current = cur])
    BY <1>1, <1>4, <1>7 DEF Process, SyncStarted
  <1>9. StartHandled(r0, m, a)
    <2>1. CASE ~ ValidIdentifier(r0, m)
      BY <1>2, <1>8, <2>1 DEF WrongIdentifier, Answer, StartHandled
    <2>2. CASE ValidIdentifier(r0, m) /\ (m.body.last_sync_id # r0.last_sync_id \/ m.body.last_sync_id = m.sync_id)
      <3>1. a = Fails(r0)
        BY <1>8, <2>2
      <3>2. a.receiver = r0
        BY <3>1 DEF Fails, Answer
      <3> QED
        BY <1>2, <2>2, <3>1, <3>2 DEF StartHandled
    <2>3. CASE ValidIdentifier(r0, m) /\ m.body.last_sync_id = r0.last_sync_id /\ m.body.last_sync_id # m.sync_id
      <3>1. a.receiver = [r0 EXCEPT !.current = cur] /\ a.error = "none" /\ a.expected = <<0, 0>>
        BY <1>8, <2>3 DEF Accepts, Answer
      <3>2. a.receiver \in Receivers /\ SameShown(r0, a.receiver) /\ a.receiver.current = cur
        BY <1>2, <1>6, <3>1 DEF Receivers, SameShown
      <3>3. cur.sync_id = m.sync_id /\ cur.next_message_id = 1
        BY <1>3, <1>6
      <3>4. \A type \in ListTypes : Field[type] \in Fields
        BY DEF Field, Fields, ListTypes
      <3>5. \A type \in ListTypes : Noted(a.receiver, type) = {}
        BY <1>6, <3>2, <3>4 DEF Noted
      <3> QED
        BY <2>3, <3>1, <3>2, <3>3, <3>5 DEF StartHandled
    <2> QED
      BY <2>1, <2>2, <2>3
  <1> QED
    BY <1>1, <1>7, <1>9

(* done is applied, or answered with the identifier.                       *)
LEMMA DoneStep ==
    ASSUME NEW r \in Receivers, NEW m \in Messages, m.body.type = "done"
    PROVE  /\ Process(r, m) = IF ValidIdentifier(r, m) THEN Accepts(Applied(r)) ELSE WrongIdentifier(r)
           /\ Applied(r) \in Receivers
  <1>1. Process(r, m) = SyncDone(r, m)
    BY DEF Process
  <1>2. Applied(r) \in Receivers
    <2>1. r.current \in Syncs
      BY DEF Receivers
    <2>2. r.current.sync_id \in Nat /\ r.current.added \subseteq Files /\ r.current.invalid \subseteq Files
          /\ r.current.keys_missing \subseteq Files /\ r.current.duplicates \subseteq Files
      BY <2>1 DEF Syncs
    <2>3. r.plots \subseteq Files
      BY DEF Receivers
    <2> QED
      BY <2>2, <2>3, NewReceiverTyped DEF Applied, Receivers
  <1> QED
    BY <1>1, <1>2 DEF SyncDone

LEMMA MessageTypesOf ==
    ASSUME NEW m \in Messages
    PROVE  m.body.type = "start" \/ m.body.type \in ListTypes \/ m.body.type = "done"
  <1>1. m.body \in Bodies
    BY DEF Messages
  <1> QED
    BY <1>1 DEF Bodies

LEMMA ProcessTyped ==
    ASSUME NEW r \in Receivers, NEW m \in Messages, NEW a, a = Process(r, m)
    PROVE  a.receiver \in Receivers /\ a.error \in Errors /\ a.expected \in Nat \X Nat
  <1> DEFINE Good(x) == x.receiver \in Receivers /\ x.error \in Errors /\ x.expected \in Nat \X Nat
  <1>1. ASSUME NEW q \in Receivers PROVE Good(WrongIdentifier(q)) /\ Good(Fails(q)) /\ Good(Accepts(q))
    <2>1. q.current \in Syncs
      BY DEF Receivers
    <2>2. q.current.sync_id \in Nat /\ q.current.next_message_id \in Nat
      BY <2>1 DEF Syncs
    <2> QED
      BY <2>2 DEF WrongIdentifier, Fails, Accepts, Answer, Errors
  <1>2. <<0, 0>> \in Nat \X Nat /\ "none" \in Errors /\ "fatal" \in Errors
    BY DEF Errors
  <1>3. CASE m.body.type = "start"
    <2>1. PICK r0 \in Receivers : StartHandled(r0, m, a)
      BY <1>3, StartStep, NewReceiverTyped
    <2> QED
      BY <1>1, <1>2, <2>1 DEF StartHandled
  <1>4. CASE m.body.type \in ListTypes
    <2>1. ListHandled(r, m, a)
      BY <1>4, ListStep
    <2> QED
      BY <1>1, <1>2, <2>1 DEF ListHandled
  <1>5. CASE m.body.type = "done"
    BY <1>1, <1>5, DoneStep
  <1> QED
    BY <1>3, <1>4, <1>5, MessageTypesOf

------------------------------------------------------------------------------
(* The receiver and the next message of the sender.                        *)

LEMMA NextFacts ==
    ASSUME NEW s \in Senders, Queued(s), HasNextMessage(s)
    PROVE  /\ NextMessage(s) \in Messages
           /\ s.sync_id \in Nat /\ s.sync_id # 0 /\ s.next_message_id \in Nat
           /\ s.next_message_id + 1 \in 1 .. Len(s.messages) /\ DOMAIN s.messages = 1 .. Len(s.messages)
           /\ NextMessage(s) = s.messages[s.next_message_id + 1]
           /\ NextMessage(s).sync_id = s.sync_id /\ NextMessage(s).message_id = s.next_message_id
           /\ NextMessage(s).body.type = "start" <=> s.next_message_id = 0
           /\ s.next_message_id = 0 => NextMessage(s) = s.messages[1]
           /\ s.messages[1].body.last_sync_id = s.last_sync_id
  <1>1. PICK n \in Nat, k \in Nat : n = Len(s.messages) /\ k = s.next_message_id /\ DOMAIN s.messages = 1 .. n
    BY DEF Senders
  <1>2. s.sync_id # 0 /\ k < n /\ s.sync_id \in Nat
    BY <1>1 DEF HasNextMessage, SyncActive, Senders
  <1>3. k + 1 \in 1 .. n /\ (k + 1) - 1 = k /\ (k + 1 = 1 <=> k = 0)
    BY <1>2
  <1>4. s.messages[k + 1] \in Messages
    BY <1>1, <1>3 DEF Senders
  <1>5. /\ s.messages[k + 1].sync_id = s.sync_id /\ s.messages[k + 1].message_id = (k + 1) - 1
        /\ s.messages[k + 1].body.type = "start" <=> k + 1 = 1
        /\ s.messages[1].body.last_sync_id = s.last_sync_id
    BY <1>1, <1>2, <1>3 DEF Queued
  <1> QED
    BY <1>1, <1>2, <1>3, <1>4, <1>5 DEF NextMessage

(* What comes of the next message, when r has still to accept it or has    *)
(* accepted it already.                                                    *)
Advances(r, s, a) ==
    /\ AtNext(a.receiver, s) \/ PastNext(a.receiver, s)
    /\ ReceiverOK(a.receiver)
    /\ a.error # "fatal" => PastNext(a.receiver, s)
    /\ a.error = "identifier" =>
          a.expected = <<a.receiver.current.sync_id, a.receiver.current.next_message_id>>

LEMMA WrongKeeps ==
    ASSUME NEW r, NEW s, ReceiverOK(r), PastNext(r, s)
    PROVE  Advances(r, s, WrongIdentifier(r)) /\ WrongIdentifier(r).receiver = r
  <1>1. PICK a : a = WrongIdentifier(r)
    OBVIOUS
  <1>2. /\ a.receiver = r /\ a.error = "identifier"
        /\ a.expected = <<r.current.sync_id, r.current.next_message_id>>
    BY <1>1 DEF WrongIdentifier, Answer
  <1> QED
    BY <1>1, <1>2 DEF Advances

LEMMA ProcessNext ==
    ASSUME NEW r \in Receivers, ReceiverOK(r), NEW s \in Senders, Queued(s), HasNextMessage(s),
           AtNext(r, s) \/ PastNext(r, s)
    PROVE  Advances(r, s, Process(r, NextMessage(s)))
  <1>1. PICK m \in Messages, k \in Nat, id \in Nat :
          /\ m = NextMessage(s) /\ k = s.next_message_id /\ id = s.sync_id /\ id # 0
          /\ m.sync_id = id /\ m.message_id = k /\ (m.body.type = "start" <=> k = 0)
          /\ k = 0 => m = s.messages[1] /\ m.body.last_sync_id = s.last_sync_id
    BY NextFacts
  <1>2. PICK a : a = Process(r, m)
    OBVIOUS
  <1>3. PICK p \in Nat, q \in Nat : p = r.current.sync_id /\ q = r.current.next_message_id /\ (p = 0 <=> q = 0)
    <2>1. r.current \in Syncs
      BY DEF Receivers
    <2> QED
      BY <2>1 DEF Syncs, ReceiverOK
  <1>4. CASE m.body.type = "start"
    <2>1. PICK r0 : /\ r0 = IF m.body.initial THEN NewReceiver ELSE r
                    /\ StartHandled(r0, m, a)
      BY <1>2, <1>4, StartStep
    <2>2. k = 0 /\ m = s.messages[1]
      BY <1>1, <1>4
    <2>3. CASE ~ ValidIdentifier(r0, m)
      <3>1. a = WrongIdentifier(r0)
        BY <2>1, <2>3 DEF StartHandled
      <3>2. NewReceiver.current.next_message_id = 0
        BY DEF NewReceiver, Sync
      <3>3. ~ m.body.initial /\ r0 = r /\ q # 0
        BY <1>1, <1>3, <1>4, <2>1, <2>2, <2>3, <3>2 DEF ValidIdentifier
      <3>4. PastNext(r, s)
        BY <1>1, <1>3, <2>2, <3>3 DEF AtNext
      <3> QED
        BY <1>1, <1>2, <3>1, <3>3, <3>4, WrongKeeps
    <2>4. CASE ValidIdentifier(r0, m) /\ (m.body.last_sync_id # r0.last_sync_id \/ m.body.last_sync_id = m.sync_id)
      <3>1. a.receiver = r0 /\ a.error = "fatal"
        BY <2>1, <2>4 DEF StartHandled, Fails, Answer
      <3>2. ReceiverOK(r0)
        BY <2>1 DEF NewReceiver, Sync, ReceiverOK
      <3>3. AtNext(r0, s) \/ PastNext(r0, s)
        BY <1>1, <2>1, <2>2 DEF AtNext
      <3> QED
        BY <1>1, <1>2, <3>1, <3>2, <3>3 DEF Advances
    <2>5. CASE ValidIdentifier(r0, m) /\ m.body.last_sync_id = r0.last_sync_id /\ m.body.last_sync_id # m.sync_id
      <3>1. a.error = "none" /\ a.receiver.current.sync_id = id /\ a.receiver.current.next_message_id = k + 1
        <4>1. a.error = "none" /\ a.receiver.current.sync_id = m.sync_id /\ a.receiver.current.next_message_id = 1
          BY <2>1, <2>5 DEF StartHandled
        <4>2. k + 1 = 1 /\ m.sync_id = id
          BY <1>1, <2>2
        <4> QED
          BY <4>1, <4>2
      <3>2. PastNext(a.receiver, s)
        BY <1>1, <1>4, <3>1 DEF PastNext
      <3> QED
        BY <1>1, <1>2, <3>1, <3>2 DEF Advances, ReceiverOK
    <2> QED
      BY <2>3, <2>4, <2>5
  <1>5. CASE m.body.type \in ListTypes
    <2>1. ListHandled(r, m, a) /\ m.body.type # "start" /\ m.body.type # "done" /\ k # 0
      BY <1>1, <1>2, <1>5, ListStep DEF ListTypes
    <2>2. CASE AtNext(r, s)
      <3>1. p = id /\ q = k
        BY <1>1, <1>3, <2>1, <2>2 DEF AtNext
      <3>2. ValidIdentifier(r, m)
        BY <1>1, <1>3, <3>1 DEF ValidIdentifier
      <3>3. CASE ToSet(m.body.data) \cap Refused(r, m.body) # {}
        <4>1. a.error = "fatal" /\ a.receiver.current.sync_id = id /\ a.receiver.current.next_message_id = k
          BY <1>3, <2>1, <3>1, <3>2, <3>3 DEF ListHandled
        <4>2. AtNext(a.receiver, s)
          BY <1>1, <2>1, <4>1 DEF AtNext
        <4> QED
          BY <1>1, <1>2, <2>1, <4>1, <4>2 DEF Advances, ReceiverOK
      <3>4. CASE ToSet(m.body.data) \cap Refused(r, m.body) = {}
        <4>1. a.error = "none" /\ a.receiver.current.sync_id = id /\ a.receiver.current.next_message_id = k + 1
          BY <1>3, <2>1, <3>1, <3>2, <3>4 DEF ListHandled
        <4>2. PastNext(a.receiver, s)
          BY <1>1, <2>1, <4>1 DEF PastNext
        <4> QED
          BY <1>1, <1>2, <4>1, <4>2 DEF Advances, ReceiverOK
      <3> QED
        BY <3>3, <3>4
    <2>3. CASE PastNext(r, s)
      <3>1. q = k + 1
        BY <1>1, <1>3, <2>1, <2>3 DEF PastNext
      <3>2. ~ ValidIdentifier(r, m)
        BY <1>1, <1>3, <3>1 DEF ValidIdentifier
      <3> QED
        BY <1>1, <1>2, <2>1, <2>3, <3>2, WrongKeeps DEF ListHandled
    <2> QED
      BY <2>2, <2>3
  <1>6. CASE m.body.type = "done"
    <2>1. a = IF ValidIdentifier(r, m) THEN Accepts(Applied(r)) ELSE WrongIdentifier(r)
      BY <1>2, <1>6, DoneStep
    <2>2. k # 0
      BY <1>1, <1>6
    <2>3. CASE AtNext(r, s)
      <3>1. p = id /\ q = k
        BY <1>1, <1>3, <2>2, <2>3 DEF AtNext
      <3>2. ValidIdentifier(r, m)
        BY <1>1, <1>3, <3>1 DEF ValidIdentifier
      <3>3. a.error = "none" /\ a.receiver = Applied(r)
        BY <2>1, <3>2 DEF Accepts, Answer
      <3>4. /\ a.receiver.current.sync_id = 0 /\ a.receiver.current.next_message_id = 0
            /\ a.receiver.last_sync_id = id
        <4>1. a.receiver.current = Sync /\ a.receiver.last_sync_id = r.current.sync_id
          BY <3>3 DEF Applied
        <4>2. Sync.sync_id = 0 /\ Sync.next_message_id = 0
          BY DEF Sync
        <4> QED
          BY <1>3, <3>1, <4>1, <4>2
      <3>5. PastNext(a.receiver, s)
        BY <1>1, <1>6, <3>4 DEF PastNext
      <3> QED
        BY <1>1, <1>2, <3>3, <3>4, <3>5 DEF Advances, ReceiverOK
    <2>4. CASE PastNext(r, s)
      <3>1. p = 0
        BY <1>1, <1>3, <1>6, <2>4 DEF PastNext
      <3>2. ~ ValidIdentifier(r, m)
        BY <1>1, <1>3, <1>6, <3>1 DEF ValidIdentifier
      <3> QED
        BY <1>1, <1>2, <2>1, <2>4, <3>2, WrongKeeps
    <2> QED
      BY <2>3, <2>4
  <1> QED
    BY <1>4, <1>5, <1>6, MessageTypesOf

------------------------------------------------------------------------------
(* The types are kept.                                                     *)

LEMMA TimeFacts ==
    ASSUME Typed, NEW now \in Time
    PROVE  now \in Nat /\ now > 0
  BY DEF Typed, Time

LEMMA SenderFacts ==
    /\ NewSender \in Senders /\ NewSender.sync_id = 0 /\ NewSender.last_sync_id = 0
    /\ NewSender.messages = <<>> /\ NewSender.next_message_id = 0 /\ Queued(NewSender)
  BY DEF NewSender, Senders, Queued

(* Files of the harvester's own lists are files.                           *)
LEMMA HarvesterTypes ==
    ASSUME Typed
    PROVE  /\ pm \in PlotManagers /\ ResetPlotManager \in PlotManagers
           /\ ResetPlotManager.enabled = pm.enabled
           /\ \A pc \in {"dead", "sleep", "start", "drop", "batch", "report", "done"} : Idle(pc) \in Threads
           /\ NewPlotManager \in PlotManagers
  <1>1. pm \in PlotManagers /\ pm.enabled \in BOOLEAN
    BY DEF Typed, PlotManagers
  <1>2. NewPlotManager \in PlotManagers
    BY DEF NewPlotManager, PlotManagers
  <1>3. ResetPlotManager \in PlotManagers /\ ResetPlotManager.enabled = pm.enabled
    BY <1>1, <1>2 DEF ResetPlotManager, PlotManagers
  <1>4. \A pc \in {"dead", "sleep", "start", "drop", "batch", "report", "done"} : Idle(pc) \in Threads
    BY DEF Idle, Threads
  <1> QED
    BY <1>1, <1>2, <1>3, <1>4

LEMMA TypedDisk ==
    ASSUME Typed, NEW f \in Files, NEW state \in DiskStates, DiskChanges(f, state)
    PROVE  Typed'
  <1>1. disk' \in [Files -> DiskStates]
    BY DEF Typed, DiskChanges
  <1> QED
    BY <1>1 DEF Typed, DiskChanges, network

LEMMA TypedBegin ==
    ASSUME Typed, BeginRefresh
    PROVE  Typed'
  <1>1. Idle("start") \in Threads /\ {f \in Files : disk[f] # "absent"} \in SUBSET Files
    BY HarvesterTypes
  <1>2. thread' \in Threads /\ thread'.pc = "start"
    BY <1>1 DEF BeginRefresh, Threads, Idle
  <1> QED
    BY <1>2 DEF Typed, BeginRefresh, network

LEMMA TypedFails ==
    ASSUME Typed, RefreshFails
    PROVE  Typed'
  BY HarvesterTypes DEF Typed, RefreshFails, network

LEMMA TypedStarted ==
    ASSUME Typed, Queued(sender), RefreshStarted
    PROVE  Typed'
  <1>1. thread' \in Threads /\ thread'.pc = "drop"
    BY DEF Typed, RefreshStarted, Threads
  <1>2. sender' \in Senders /\ clock' \in Nat /\ clock' > 0
    <2>1. CASE ~ SyncActive(sender)
      <3>1. sender.messages = <<>> /\ sender.next_message_id = 0 /\ sender \in Senders /\ pm.initial \in BOOLEAN
        BY <2>1 DEF Typed, Queued, SyncActive, PlotManagers
      <3>2. PICK now \in Time : clock' = now /\ sender' = SyncStart(sender, now, pm.initial)
        BY <2>1 DEF RefreshStarted
      <3>3. now \in Nat /\ now > 0
        BY TimeFacts
      <3> QED
        BY <3>1, <3>2, <3>3, SyncStartFacts
    <2>2. CASE SyncActive(sender)
      BY <2>2 DEF Typed, RefreshStarted
    <2> QED
      BY <2>1, <2>2
  <1>3. disturbed' \in BOOLEAN
    BY DEF Typed, RefreshStarted
  <1> QED
    BY <1>1, <1>2, <1>3 DEF Typed, RefreshStarted, network

LEMMA TypedDrop ==
    ASSUME Typed, DropMissing
    PROVE  Typed'
  <1>1. PICK gone, copies, rest :
          /\ gone = pm.plots \ thread.paths
          /\ copies = {d \in pm.duplicates : d \notin thread.paths \/ \E f \in gone : Name[f] = Name[d]}
          /\ rest = Batches(Sorted(thread.paths))
    OBVIOUS
  <1>2. /\ pm' = [pm EXCEPT !.plots = @ \ gone, !.failed = @ \cap thread.paths,
                            !.no_key = @ \cap thread.paths, !.duplicates = @ \ copies]
        /\ thread' = [thread EXCEPT !.removed = Sorted(gone), !.batches = rest,
                                    !.pc = IF rest = <<>> THEN "done" ELSE "batch"]
    BY <1>1 DEF DropMissing
  <1>3. gone \in SUBSET Files /\ thread.paths \in SUBSET Files
    BY <1>1 DEF Typed, PlotManagers, Threads
  <1>4. Sorted(gone) \in Seq(Files) /\ rest \in Seq(Seq(Files))
    BY <1>1, <1>3, SortedFacts, BatchesFacts
  <1>5. pm' \in PlotManagers
    BY <1>2 DEF Typed, PlotManagers
  <1>6. thread' \in Threads /\ (thread'.pc \in {"batch", "report"} => thread'.batches # <<>>)
    BY <1>2, <1>4 DEF Typed, Threads
  <1> QED
    BY <1>5, <1>6 DEF Typed, DropMissing, network

(* One batch: what is opened is in the batch.                              *)
LEMMA BatchFacts ==
    ASSUME Typed, RefreshBatch
    PROVE  \E skip, good, new, broken, keyless :
              /\ good \subseteq ToSet(Head(thread.batches)) /\ good \subseteq Files
              /\ good \cap (pm.plots \cup pm.duplicates) = {}
              /\ broken \subseteq Files /\ keyless \subseteq Files /\ new \subseteq good
              /\ pm' = [pm EXCEPT !.plots = @ \cup new,
                                  !.duplicates = @ \cup (good \ new),
                                  !.failed = (@ \cup broken) \ new,
                                  !.no_key = (@ \cup keyless) \ good]
              /\ thread' = [thread EXCEPT !.pc = "report", !.loaded = Sorted(new)]
  <1>1. PICK skip \in SUBSET pm.failed : \E new \in SUBSET Opened("plot", skip) :
          /\ pm' = [pm EXCEPT !.plots = @ \cup new,
                              !.duplicates = @ \cup (Opened("plot", skip) \ new),
                              !.failed = (@ \cup Opened("broken", skip)) \ new,
                              !.no_key = (@ \cup Opened("no_key", skip)) \ Opened("plot", skip)]
          /\ thread' = [thread EXCEPT !.pc = "report", !.loaded = Sorted(new)]
    BY DEF RefreshBatch
  <1>10. PICK new \in SUBSET Opened("plot", skip) :
          /\ pm' = [pm EXCEPT !.plots = @ \cup new,
                              !.duplicates = @ \cup (Opened("plot", skip) \ new),
                              !.failed = (@ \cup Opened("broken", skip)) \ new,
                              !.no_key = (@ \cup Opened("no_key", skip)) \ Opened("plot", skip)]
          /\ thread' = [thread EXCEPT !.pc = "report", !.loaded = Sorted(new)]
    BY <1>1
  <1>2. PICK first : first = Head(thread.batches)
    OBVIOUS
  <1>3. first \in Seq(Files)
    <2>1. thread.batches \in Seq(Seq(Files)) /\ thread.batches # <<>>
      BY DEF Typed, Threads, RefreshBatch
    <2> QED
      BY <1>2, <2>1, HeadTailProperties
  <1>4. ToSet(first) \subseteq Files
    BY <1>3 DEF ToSet
  <1>5. \A state : /\ Opened(state, skip) \subseteq ToSet(Head(thread.batches))
                   /\ Opened(state, skip) \cap (pm.plots \cup pm.duplicates) = {}
    BY DEF Opened
  <1>6. \A state : Opened(state, skip) \subseteq Files
    BY <1>2, <1>4, <1>5
  <1>7. PICK good, broken, keyless :
          good = Opened("plot", skip) /\ broken = Opened("broken", skip) /\ keyless = Opened("no_key", skip)
    OBVIOUS
  <1>8. /\ good \subseteq ToSet(Head(thread.batches)) /\ good \subseteq Files
        /\ good \cap (pm.plots \cup pm.duplicates) = {}
        /\ broken \subseteq Files /\ keyless \subseteq Files /\ new \subseteq good
    BY <1>5, <1>6, <1>7, <1>10
  <1>9. /\ pm' = [pm EXCEPT !.plots = @ \cup new,
                            !.duplicates = @ \cup (good \ new),
                            !.failed = (@ \cup broken) \ new,
                            !.no_key = (@ \cup keyless) \ good]
        /\ thread' = [thread EXCEPT !.pc = "report", !.loaded = Sorted(new)]
    BY <1>7, <1>10
  <1> QED
    BY <1>8, <1>9

LEMMA TypedBatch ==
    ASSUME Typed, RefreshBatch
    PROVE  Typed'
  <1>1. thread.pc = "batch"
    BY DEF RefreshBatch
  <1>2. PICK skip, good, new, broken, keyless :
              /\ good \subseteq ToSet(Head(thread.batches)) /\ good \subseteq Files
              /\ good \cap (pm.plots \cup pm.duplicates) = {}
              /\ broken \subseteq Files /\ keyless \subseteq Files /\ new \subseteq good
              /\ pm' = [pm EXCEPT !.plots = @ \cup new,
                                  !.duplicates = @ \cup (good \ new),
                                  !.failed = (@ \cup broken) \ new,
                                  !.no_key = (@ \cup keyless) \ good]
              /\ thread' = [thread EXCEPT !.pc = "report", !.loaded = Sorted(new)]
    BY BatchFacts
  <1>3. new \in SUBSET Files /\ pm \in PlotManagers /\ thread \in Threads
    BY <1>2 DEF Typed
  <1>4. pm' \in PlotManagers
    BY <1>2, <1>3 DEF PlotManagers
  <1>5. Sorted(new) \in Seq(Files)
    BY <1>3, SortedFacts
  <1>6. thread' \in Threads /\ thread'.batches = thread.batches
    BY <1>2, <1>3, <1>5 DEF Threads
  <1>7. thread'.batches # <<>>
    BY <1>1, <1>6 DEF Typed
  <1> QED
    BY <1>4, <1>6, <1>7 DEF Typed, RefreshBatch, network

LEMMA TypedAbort ==
    ASSUME Typed, AbortRefresh
    PROVE  Typed'
  <1>1. thread' \in Threads /\ thread'.pc = "done"
    BY DEF Typed, AbortRefresh, Threads
  <1> QED
    BY <1>1 DEF Typed, AbortRefresh, network

(* The report of a batch.                                                  *)
LEMMA ProcessBatchFacts ==
    ASSUME NEW s \in Senders, NEW loaded \in Seq(Files), NEW remaining \in Nat
    PROVE  \/ ProcessBatch(s, loaded, remaining) = s /\ ToSet(loaded) = {}
           \/ \E new \in Seq(Bodies) :
                 /\ Extends(ProcessBatch(s, loaded, remaining), s, new)
                 /\ OfTypes(new, {"loaded"}) /\ Lists(new, "loaded") = ToSet(loaded)
                 /\ \A i \in 1 .. Len(new) : new[i].type = "loaded"
  <1>1. CASE ReportsBatch(loaded, remaining)
    <2>1. PICK body : body = [type |-> "loaded", data |-> loaded, final |-> remaining = 0]
      OBVIOUS
    <2>2. body \in Bodies /\ body.type = "loaded" /\ body.data = loaded
      BY <2>1 DEF Bodies, ListTypes
    <2>3. PICK new \in Seq(Bodies) : new = <<body>> /\ Len(new) = 1 /\ DOMAIN new = 1 .. 1 /\ new[1] = body
      <3>1. <<body>> \in Seq(Bodies)
        BY <2>2
      <3>2. Len(<<body>>) = 1 /\ DOMAIN <<body>> = 1 .. 1 /\ <<body>>[1] = body
        OBVIOUS
      <3> QED
        BY <3>1, <3>2
    <2>4. ToSet(loaded) \subseteq Files /\ \A i \in 1 .. 1 : i = 1
      BY DEF ToSet
    <2>5. OfTypes(new, {"loaded"}) /\ \A i \in 1 .. Len(new) : new[i].type = "loaded"
      BY <2>2, <2>3, <2>4 DEF OfTypes
    <2>6. Lists(new, "loaded") = ToSet(loaded)
      <3>1. \A f \in Files : f \in Lists(new, "loaded") <=> f \in ToSet(loaded)
        BY <2>2, <2>3, <2>4 DEF Lists
      <3>2. Lists(new, "loaded") \subseteq Files
        BY DEF Lists
      <3> QED
        BY <2>4, <3>1, <3>2
    <2>7. Extends(ProcessBatch(s, loaded, remaining), s, new)
      BY <1>1, <2>1, <2>3, AddExtends DEF ProcessBatch
    <2> QED
      BY <2>5, <2>6, <2>7
  <1>2. CASE ~ ReportsBatch(loaded, remaining)
    <2>1. loaded = <<>> /\ ProcessBatch(s, loaded, remaining) = s
      BY <1>2 DEF ReportsBatch, ProcessBatch
    <2> QED
      BY <2>1 DEF ToSet
  <1> QED
    BY <1>1, <1>2

LEMMA TypedProcessed ==
    ASSUME Typed, BatchProcessed
    PROVE  Typed'
  <1>1. thread.pc = "report" /\ thread \in Threads /\ thread.batches \in Seq(Seq(Files)) /\ thread.batches # <<>>
        /\ thread.loaded \in Seq(Files) /\ sender \in Senders
    BY DEF BatchProcessed, Typed, Threads
  <1>2. PICK n \in Nat : n = Len(thread.batches) /\ n > 0
    BY <1>1
  <1>3. Remaining \in Nat /\ (Remaining # 0 => n > 1)
    BY <1>2 DEF Remaining
  <1>4. PICK rest \in Seq(Seq(Files)) : rest = Tail(thread.batches) /\ (n > 1 => rest # <<>>)
    <2>1. PICK rest \in Seq(Seq(Files)) : rest = Tail(thread.batches) /\ Len(rest) = n - 1
      BY <1>1, <1>2, HeadTailProperties
    <2>2. n > 1 => rest # <<>>
      <3>1. rest = <<>> => n - 1 = 0
        BY <2>1
      <3>2. n - 1 = 0 => ~ (n > 1)
        OBVIOUS
      <3> QED
        BY <3>1, <3>2
    <2> QED
      BY <2>1, <2>2
  <1>5. CASE ReportsBatch(thread.loaded, Remaining) /\ ~ SyncActive(sender)
    <2>1. Idle("sleep") \in Threads /\ Idle("sleep").pc = "sleep" /\ ResetPlotManager \in PlotManagers
      BY HarvesterTypes DEF Idle
    <2> QED
      BY <1>5, <2>1 DEF Typed, BatchProcessed, network
  <1>6. CASE ~ (ReportsBatch(thread.loaded, Remaining) /\ ~ SyncActive(sender))
    <2>1. /\ sender' = ProcessBatch(sender, thread.loaded, Remaining)
          /\ thread' = [thread EXCEPT !.pc = IF Remaining = 0 THEN "done" ELSE "batch",
                                      !.batches = Tail(@), !.loaded = <<>>]
          /\ pm' = pm
      BY <1>6 DEF BatchProcessed
    <2>2. sender' \in Senders
      BY <1>1, <1>3, <2>1, ProcessBatchFacts DEF Extends
    <2>3. /\ thread' \in Threads /\ thread'.batches = rest
          /\ thread'.pc = IF Remaining = 0 THEN "done" ELSE "batch"
      <3>1. PICK pc \in {"done", "batch"} : pc = IF Remaining = 0 THEN "done" ELSE "batch"
        OBVIOUS
      <3>2. thread' = [thread EXCEPT !.pc = pc, !.batches = rest, !.loaded = <<>>] /\ <<>> \in Seq(Files)
        BY <1>1, <1>4, <2>1, <3>1 DEF Threads
      <3> QED
        BY <1>1, <3>1, <3>2 DEF Threads
    <2>4. thread'.pc \in {"batch", "report"} => thread'.batches # <<>>
      BY <1>3, <1>4, <2>3
    <2> QED
      BY <2>1, <2>2, <2>3, <2>4 DEF Typed, BatchProcessed, network
  <1> QED
    BY <1>5, <1>6

LEMMA TypedDone ==
    ASSUME Typed, Queued(sender), RefreshDone
    PROVE  Typed'
  <1>1. Idle("sleep") \in Threads /\ Idle("sleep").pc = "sleep" /\ ResetPlotManager \in PlotManagers /\ pm \in PlotManagers
    BY HarvesterTypes DEF Idle
  <1>2. thread.removed \in Seq(Files) /\ sender \in Senders /\ pm.enabled \in BOOLEAN
    BY DEF Typed, Threads, PlotManagers
  <1>3. pm' \in PlotManagers /\ sender' \in Senders
    <2>1. CASE pm.enabled /\ ~ SyncActive(sender)
      BY <1>1, <1>2, <2>1 DEF RefreshDone
    <2>2. CASE ~ (pm.enabled /\ ~ SyncActive(sender))
      <3>1. pm' = [pm EXCEPT !.initial = FALSE]
            /\ sender' = IF pm.enabled THEN FinishSync(sender, thread.removed, pm) ELSE sender
        BY <2>2 DEF RefreshDone
      <3>2. pm' \in PlotManagers
        BY <1>1, <3>1 DEF PlotManagers
      <3>3. pm.enabled => FinishSync(sender, thread.removed, pm) \in Senders
        BY <1>1, <1>2, <2>2, FinishFacts DEF SyncActive
      <3> QED
        BY <1>2, <3>1, <3>2, <3>3
    <2> QED
      BY <2>1, <2>2
  <1> QED
    BY <1>1, <1>3 DEF Typed, RefreshDone, network

LEMMA TypedExits ==
    ASSUME Typed, ThreadExits
    PROVE  Typed'
  <1>1. Idle("dead") \in Threads /\ Idle("dead").pc = "dead"
    BY HarvesterTypes DEF Idle
  <1> QED
    BY <1>1 DEF Typed, ThreadExits, network

LEMMA TypedRebuilds ==
    ASSUME Typed, Queued(sender), ResetRebuilds
    PROVE  Typed'
  <1>1. sender.messages = <<>> /\ sender.next_message_id = 0 /\ sender \in Senders /\ pm \in PlotManagers
    BY DEF ResetRebuilds, Typed, Queued, SyncActive
  <1>2. PICK now \in Time : clock' = now /\ sender' = Rebuilt(sender, now, pm)
    BY DEF ResetRebuilds
  <1>3. now \in Nat /\ now > 0
    BY TimeFacts
  <1>4. sender' \in Senders
    BY <1>1, <1>2, <1>3, RebuiltFacts
  <1>5. disturbed' \in BOOLEAN
    BY DEF ResetRebuilds, InRefresh
  <1> QED
    BY <1>2, <1>3, <1>4, <1>5 DEF Typed, ResetRebuilds, network

LEMMA TypedSend ==
    ASSUME Typed, Queued(sender), SendNextMessage
    PROVE  Typed'
  <1>1. sender \in Senders /\ HasNextMessage(sender) /\ connected \in BOOLEAN /\ disturbed \in BOOLEAN
    BY DEF Typed, SendNextMessage
  <1>2. NextMessage(sender) \in Messages
    BY <1>1, NextFacts
  <1>3. CASE ValidGenerator(sender) /\ connected
    <2>1. PICK p : p = [expired |-> FALSE, message |-> NextMessage(sender)]
      OBVIOUS
    <2>2. p \in Parcels
      BY <1>2, <2>1 DEF Parcels
    <2>3. toFarmer' = Append(toFarmer, p) /\ task' = "wait" /\ sender' = sender /\ disturbed' = disturbed
      BY <1>3, <2>1 DEF SendNextMessage
    <2>4. toFarmer' \in Seq(Parcels)
      BY <2>2, <2>3 DEF Typed
    <2> QED
      BY <2>3, <2>4 DEF Typed, SendNextMessage
  <1>4. CASE ~ (ValidGenerator(sender) /\ connected)
    <2>1. sender' = NewSender /\ task' = "reset" /\ disturbed' \in BOOLEAN /\ toFarmer' = toFarmer
      BY <1>1, <1>4 DEF SendNextMessage, Reset, Cleared, InRefresh
    <2> QED
      BY <2>1, SenderFacts DEF Typed, SendNextMessage
  <1> QED
    BY <1>3, <1>4

LEMMA ExpireFacts ==
    ASSUME NEW S, NEW c \in Seq(S), \A x \in S : [x EXCEPT !.expired = TRUE] \in S
    PROVE  /\ Expire(c) \in Seq(S) /\ Len(Expire(c)) = Len(c) /\ DOMAIN Expire(c) = 1 .. Len(c)
           /\ \A i \in 1 .. Len(c) : Expire(c)[i] = [c[i] EXCEPT !.expired = TRUE]
  <1>1. PICK n \in Nat : n = Len(c) /\ \A i \in 1 .. n : c[i] \in S
    OBVIOUS
  <1> DEFINE e(i) == [c[i] EXCEPT !.expired = TRUE]
  <1>2. \A i \in 1 .. n : e(i) \in S
    BY <1>1
  <1>3. Expire(c) = [i \in 1 .. n |-> e(i)]
    BY <1>1 DEF Expire
  <1> HIDE DEF e
  <1>4. [i \in 1 .. n |-> e(i)] \in Seq(S) /\ Len([i \in 1 .. n |-> e(i)]) = n
    BY <1>2
  <1>5. DOMAIN [i \in 1 .. n |-> e(i)] = 1 .. n /\ \A i \in 1 .. n : [j \in 1 .. n |-> e(j)][i] = e(i)
    OBVIOUS
  <1> QED
    BY <1>1, <1>3, <1>4, <1>5 DEF e

LEMMA TypedTimeout ==
    ASSUME Typed, Timeout
    PROVE  Typed'
  <1>1. \A x \in Parcels : [x EXCEPT !.expired = TRUE] \in Parcels
    BY DEF Parcels
  <1>2. \A x \in Responses : [x EXCEPT !.expired = TRUE] \in Responses
    BY DEF Responses
  <1>3. toFarmer \in Seq(Parcels) /\ toHarvester \in Seq(Responses)
    BY DEF Typed
  <1>4. toFarmer' \in Seq(Parcels) /\ toHarvester' \in Seq(Responses)
    BY <1>1, <1>2, <1>3, ExpireFacts DEF Timeout
  <1> QED
    BY <1>4 DEF Typed, Timeout

LEMMA TypedReceive ==
    ASSUME Typed, ReceiveResponse
    PROVE  Typed'
  <1>1. toHarvester \in Seq(Responses) /\ toHarvester # <<>> /\ sender \in Senders /\ disturbed \in BOOLEAN
    BY DEF Typed, ReceiveResponse
  <1>2. PICK r \in Responses : r = Head(toHarvester)
    BY <1>1, HeadTailProperties
  <1>3. toHarvester' \in Seq(Responses)
    BY <1>1, HeadTailProperties DEF ReceiveResponse
  <1>4. sender' \in Senders /\ task' \in {"none", "ready", "wait", "reset"} /\ disturbed' \in BOOLEAN
    <2>1. CASE ~ SetResponse(r)
      BY <1>2, <2>1 DEF Typed, ReceiveResponse
    <2>2. CASE SetResponse(r) /\ Recoverable(sender, r)
      <3>1. sender' = Recovered(sender, r) /\ task' = "ready" /\ disturbed' = disturbed
        BY <1>2, <2>2 DEF ReceiveResponse
      <3>2. PICK k \in Nat : k = IF r.error = "none" THEN sender.next_message_id + 1 ELSE r.expected[2]
        <4>1. r.expected \in Nat \X Nat /\ sender.next_message_id \in Nat
          BY <1>1 DEF Senders, Responses
        <4>2. r.expected[2] \in Nat /\ sender.next_message_id + 1 \in Nat
          BY <4>1
        <4> QED
          BY <4>2
      <3>3. Recovered(sender, r) = FinalizeSync(sender) \/ Recovered(sender, r) = [sender EXCEPT !.next_message_id = k]
        BY <1>1, <3>2 DEF Recovered, Senders
      <3>4. FinalizeSync(sender) \in Senders
        BY <1>1, SenderFacts DEF FinalizeSync, Senders
      <3>5. [sender EXCEPT !.next_message_id = k] \in Senders
        BY <1>1 DEF Senders
      <3> QED
        BY <1>1, <3>1, <3>3, <3>4, <3>5
    <2>3. CASE SetResponse(r) /\ ~ Recoverable(sender, r)
      <3>1. sender' = NewSender /\ task' = "reset" /\ disturbed' \in BOOLEAN
        BY <1>1, <1>2, <2>3 DEF ReceiveResponse, Reset, Cleared, InRefresh
      <3> QED
        BY <3>1, SenderFacts
    <2> QED
      BY <2>1, <2>2, <2>3
  <1> QED
    BY <1>3, <1>4 DEF Typed, ReceiveResponse

LEMMA TypedFarmer ==
    ASSUME Typed, FarmerReceives
    PROVE  Typed'
  <1>1. toFarmer \in Seq(Parcels) /\ toFarmer # <<>> /\ receiver \in Receivers /\ toHarvester \in Seq(Responses)
    BY DEF Typed, FarmerReceives
  <1>2. PICK p \in Parcels : p = Head(toFarmer)
    BY <1>1, HeadTailProperties
  <1>3. PICK m \in Messages : m = p.message
    BY DEF Parcels
  <1>4. PICK a : a = Process(receiver, m)
    OBVIOUS
  <1>5. a.receiver \in Receivers /\ a.error \in Errors /\ a.expected \in Nat \X Nat
    BY <1>1, <1>4, ProcessTyped
  <1>6. PICK r : r = [sync_id |-> m.sync_id, message_id |-> m.message_id, type |-> m.body.type,
                      expired |-> p.expired, error |-> a.error, expected |-> a.expected]
    OBVIOUS
  <1>7. m.sync_id \in Nat /\ m.message_id \in Nat /\ m.body.type \in MessageTypes /\ p.expired \in BOOLEAN
    BY MessageTypesOf DEF Messages, Parcels, MessageTypes
  <1>8. r \in Responses
    BY <1>5, <1>6, <1>7 DEF Responses
  <1>9. receiver' = a.receiver /\ toHarvester' = Append(toHarvester, r) /\ toFarmer' = Tail(toFarmer)
    BY <1>2, <1>3, <1>4, <1>6 DEF FarmerReceives
  <1>10. toHarvester' \in Seq(Responses) /\ toFarmer' \in Seq(Parcels)
    BY <1>1, <1>8, <1>9, HeadTailProperties
  <1> QED
    BY <1>5, <1>9, <1>10 DEF Typed, FarmerReceives, harvester

LEMMA TypedHandshake ==
    ASSUME Typed, Handshake
    PROVE  Typed'
  <1>1. PICK now \in Time : clock' = now /\ sender' = Started(sender, now)
    BY DEF Handshake
  <1>2. now \in Nat /\ now > 0
    BY TimeFacts
  <1>3. pm \in PlotManagers /\ sender \in Senders
    BY DEF Typed
  <1>4. Rebuilt(NewSender, now, pm) \in Senders
    BY <1>2, <1>3, SenderFacts, RebuiltFacts
  <1>5. sender' \in Senders
    BY <1>1, <1>3, <1>4 DEF Started, Cleared
  <1>6. pm' \in PlotManagers
    BY <1>3 DEF Handshake, PlotManagers
  <1>7. thread' \in Threads /\ thread'.pc = "sleep"
    BY HarvesterTypes DEF Handshake, Idle
  <1>8. clock' \in Nat /\ clock' > 0 /\ receiver' \in Receivers
    BY <1>1, <1>2, NewReceiverTyped DEF Handshake
  <1> QED
    BY <1>5, <1>6, <1>7, <1>8 DEF Typed, Handshake

LEMMA TypedClose ==
    ASSUME Typed, ConnectionCloses \/ OnDisconnect \/ ThreadJoined \/ AwaitClosed
    PROVE  Typed'
  <1>1. CASE ConnectionCloses
    <2>1. toFarmer' \in Seq(Parcels) /\ toHarvester' \in Seq(Responses) /\ receiver' \in Receivers
      BY <1>1, NewReceiverTyped DEF ConnectionCloses
    <2>2. connected' \in BOOLEAN /\ UNCHANGED <<disk, pm, thread, sender, task, closing, clock, disturbed>>
      BY <1>1 DEF ConnectionCloses, harvester
    <2> QED
      BY <2>1, <2>2 DEF Typed
  <1>2. CASE OnDisconnect
    <2>1. pm' \in PlotManagers
      BY <1>2 DEF Typed, OnDisconnect, PlotManagers
    <2> QED
      BY <1>2, <2>1 DEF Typed, OnDisconnect, network
  <1>3. CASE ThreadJoined
    BY <1>3 DEF Typed, ThreadJoined, network
  <1>4. CASE AwaitClosed
    BY <1>4, SenderFacts DEF Typed, AwaitClosed, Cleared, network
  <1> QED
    BY <1>1, <1>2, <1>3, <1>4

LEMMA TypedStep ==
    ASSUME Typed, Queued(sender), [Next]_vars
    PROVE  Typed'
  <1>1. CASE Next
    BY <1>1, TypedDisk, TypedBegin, TypedFails, TypedStarted, TypedDrop, TypedBatch, TypedAbort,
       TypedProcessed, TypedDone, TypedExits, TypedRebuilds, TypedSend, TypedTimeout, TypedReceive,
       TypedFarmer, TypedHandshake, TypedClose DEF Next, Refresh
  <1>2. CASE UNCHANGED vars
    BY <1>2 DEF Typed, vars, harvester, network
  <1> QED
    BY <1>1, <1>2

------------------------------------------------------------------------------
(* The protocol is kept.                                                   *)

LEMMA Untouched ==
    ASSUME Protocol,
           UNCHANGED <<sender, task, awaited, closing, connected, toFarmer, toHarvester, receiver>>,
           pm'.enabled = pm.enabled, thread.pc = "dead" => thread'.pc = "dead"
    PROVE  Protocol'
  <1>1. Queued(sender)' /\ ReceiverOK(receiver)'
    BY DEF Protocol
  <1>2. Links'
    BY DEF Protocol, Links
  <1>3. InStep'
    BY DEF Protocol, InStep
  <1>4. OnTheWay'
    BY DEF Protocol, OnTheWay, Answers
  <1> QED
    BY <1>1, <1>2, <1>3, <1>4 DEF Protocol

(* Queueing more behind the next message changes nothing.                  *)
LEMMA SenderExtended ==
    ASSUME Typed, Protocol, SyncActive(sender), NEW new \in Seq(Bodies), Extends(sender', sender, new),
           \A i \in 1 .. Len(new) : new[i].type # "start",
           UNCHANGED <<task, awaited, closing, connected, toFarmer, toHarvester, receiver>>,
           pm'.enabled = pm.enabled, thread.pc # "dead"
    PROVE  Protocol'
  <1>1. PICK s, t : s = sender /\ t = sender'
    OBVIOUS
  <1>2. s \in Senders /\ Queued(s) /\ s.sync_id # 0 /\ Extends(t, s, new)
    BY <1>1 DEF Typed, Protocol, SyncActive
  <1>3. /\ Queued(t) /\ t.messages[1] = s.messages[1]
        /\ HasNextMessage(s) => HasNextMessage(t) /\ NextMessage(t) = NextMessage(s)
    BY <1>2, ExtendsQueued
  <1>4. t.sync_id = s.sync_id /\ t.next_message_id = s.next_message_id /\ t.last_sync_id = s.last_sync_id
    BY <1>2 DEF Extends
  <1>5. Links'
    <2>1. task # "none"
      BY DEF Protocol, Links
    <2> QED
      BY <1>1, <1>3, <1>4, <2>1 DEF Protocol, Links
  <1>6. InStep'
    <2>1. AtNext(receiver, s) => AtNext(receiver, t)
      BY <1>3, <1>4 DEF AtNext
    <2>2. PastNext(receiver, s) => PastNext(receiver, t)
      BY <1>3, <1>4 DEF PastNext
    <2>3. SyncActive(t)
      BY <1>2, <1>4 DEF SyncActive
    <2> QED
      BY <1>1, <2>1, <2>2, <2>3 DEF Protocol, InStep
  <1>7. OnTheWay'
    <2>1. task = "wait" => HasNextMessage(s)
      BY <1>1 DEF Protocol, Links
    <2>2. \A r : PastNext(r, s) => PastNext(r, t)
      BY <1>3, <1>4 DEF PastNext
    <2> QED
      BY <1>1, <1>3, <2>1, <2>2 DEF Protocol, OnTheWay, Answers
  <1> QED
    BY <1>1, <1>3, <1>5, <1>6, <1>7 DEF Protocol

(* Without a sync nothing is on the way that could still be answered.      *)
LEMMA InactiveFacts ==
    ASSUME Typed, Protocol, ~ SyncActive(sender)
    PROVE  /\ sender \in Senders /\ sender.messages = <<>> /\ sender.next_message_id = 0
           /\ toFarmer = <<>> /\ task # "wait"
           /\ \A i \in DOMAIN toHarvester : toHarvester[i].expired
  <1>1. sender \in Senders /\ sender.messages = <<>> /\ sender.next_message_id = 0 /\ ~ HasNextMessage(sender)
    BY DEF Typed, Protocol, Queued, SyncActive, HasNextMessage
  <1>2. task # "wait"
    BY <1>1 DEF Protocol, Links
  <1>3. toFarmer = <<>>
    <2> SUFFICES ASSUME toFarmer # <<>> PROVE FALSE
      OBVIOUS
    <2>1. 1 \in DOMAIN toFarmer
      BY DEF Typed
    <2> QED
      BY <1>1, <2>1 DEF Protocol, OnTheWay
  <1>4. \A i \in DOMAIN toHarvester : toHarvester[i].expired
    BY <1>2 DEF Protocol, OnTheWay
  <1> QED
    BY <1>1, <1>2, <1>3, <1>4

LEMMA ProtocolStarted ==
    ASSUME Typed, Protocol, RefreshStarted
    PROVE  Protocol'
  <1>1. /\ thread.pc = "start" /\ pm' = pm
        /\ UNCHANGED <<task, awaited, closing, connected, toFarmer, toHarvester, receiver>>
    BY DEF RefreshStarted, network
  <1>2. CASE SyncActive(sender)
    <2>1. sender' = sender
      BY <1>2 DEF RefreshStarted
    <2> QED
      BY <1>1, <2>1, Untouched
  <1>3. CASE ~ SyncActive(sender)
    <2>1. PICK now \in Time : sender' = SyncStart(sender, now, pm.initial)
      BY <1>3 DEF RefreshStarted
    <2>2. now \in Nat /\ now > 0
      BY TimeFacts
    <2>3. /\ sender \in Senders /\ sender.messages = <<>> /\ sender.next_message_id = 0
          /\ toFarmer = <<>> /\ task # "wait"
          /\ \A i \in DOMAIN toHarvester : toHarvester[i].expired
      BY <1>3, InactiveFacts
    <2>4. pm.initial \in BOOLEAN
      BY DEF Typed, PlotManagers
    <2>5. PICK s, t : s = sender /\ t = sender'
      OBVIOUS
    <2>6. /\ t \in Senders /\ Queued(t) /\ t.sync_id # 0
          /\ t.next_message_id = 0 /\ t.last_sync_id = s.last_sync_id
      BY <2>1, <2>2, <2>3, <2>4, <2>5, SyncStartFacts
    <2>7. Links'
      BY <1>1, <2>3, <2>5, <2>6 DEF Protocol, Links
    <2>8. InStep'
      <3>1. connected /\ task \in {"ready", "wait"} => receiver.current.sync_id = 0 /\ receiver.last_sync_id = s.last_sync_id
        BY <1>3, <2>5 DEF Protocol, InStep
      <3>2. SyncActive(t)
        BY <2>6 DEF SyncActive
      <3>3. connected /\ task \in {"ready", "wait"} => AtNext(receiver, t)
        BY <2>6, <3>1 DEF AtNext
      <3> QED
        BY <1>1, <2>5, <3>2, <3>3 DEF InStep
    <2>9. OnTheWay'
      BY <1>1, <2>3 DEF OnTheWay
    <2> QED
      BY <1>1, <2>5, <2>6, <2>7, <2>8, <2>9 DEF Protocol
  <1> QED
    BY <1>2, <1>3

LEMMA ProtocolProcessed ==
    ASSUME Typed, Protocol, BatchProcessed
    PROVE  Protocol'
  <1>1. /\ thread.pc = "report"
        /\ UNCHANGED <<task, awaited, closing, connected, toFarmer, toHarvester, receiver>>
    BY DEF BatchProcessed, network
  <1>2. CASE ReportsBatch(thread.loaded, Remaining) /\ ~ SyncActive(sender)
    <2>1. sender' = sender /\ pm'.enabled = pm.enabled
      BY <1>2, HarvesterTypes DEF BatchProcessed
    <2> QED
      BY <1>1, <2>1, Untouched
  <1>3. CASE ~ (ReportsBatch(thread.loaded, Remaining) /\ ~ SyncActive(sender))
    <2>1. sender' = ProcessBatch(sender, thread.loaded, Remaining) /\ pm' = pm
      BY <1>3 DEF BatchProcessed
    <2>2. sender \in Senders /\ thread.loaded \in Seq(Files) /\ Remaining \in Nat
      <3>1. sender \in Senders /\ thread.loaded \in Seq(Files) /\ Len(thread.batches) \in Nat
        BY DEF Typed, Threads
      <3> QED
        BY <3>1 DEF Remaining
    <2>3. CASE sender' = sender
      BY <1>1, <2>1, <2>3, Untouched
    <2>4. CASE sender' # sender
      <3>1. SyncActive(sender)
        BY <1>3, <2>1, <2>4 DEF ProcessBatch
      <3>2. PICK new \in Seq(Bodies) : Extends(sender', sender, new) /\ \A i \in 1 .. Len(new) : new[i].type = "loaded"
        BY <2>1, <2>2, <2>4, ProcessBatchFacts
      <3>3. \A i \in 1 .. Len(new) : new[i].type # "start"
        BY <3>2
      <3> QED
        BY <1>1, <2>1, <3>1, <3>2, <3>3, SenderExtended
    <2> QED
      BY <2>3, <2>4
  <1> QED
    BY <1>2, <1>3

LEMMA ProtocolDone ==
    ASSUME Typed, Protocol, RefreshDone
    PROVE  Protocol'
  <1>1. /\ thread.pc = "done" /\ pm \in PlotManagers /\ sender \in Senders /\ thread.removed \in Seq(Files)
        /\ UNCHANGED <<task, awaited, closing, connected, toFarmer, toHarvester, receiver>>
    BY DEF RefreshDone, network, Typed, Threads
  <1>2. pm'.enabled = pm.enabled
    BY <1>1, HarvesterTypes DEF RefreshDone, PlotManagers
  <1>3. CASE sender' = sender
    BY <1>1, <1>2, <1>3, Untouched
  <1>4. CASE sender' # sender
    <2>1. SyncActive(sender) /\ sender' = FinishSync(sender, thread.removed, pm)
      BY <1>4 DEF RefreshDone
    <2>2. Queued(sender) /\ sender.sync_id # 0
      BY <2>1 DEF Protocol, SyncActive
    <2>3. PICK new : new = FinishBodies(thread.removed, pm)
      OBVIOUS
    <2>4. Extends(sender', sender, new)
      BY <1>1, <2>1, <2>2, <2>3, FinishFacts
    <2>5. new \in Seq(Bodies) /\ \A i \in 1 .. Len(new) : new[i].type # "start"
      BY <1>1, <2>3, FinishBodiesFacts
    <2> QED
      BY <1>1, <1>2, <2>1, <2>4, <2>5, SenderExtended
  <1> QED
    BY <1>3, <1>4

LEMMA ProtocolRebuilds ==
    ASSUME Typed, Protocol, ResetRebuilds
    PROVE  Protocol'
  <1>1. /\ task = "reset" /\ task' = "ready" /\ ~ SyncActive(sender)
        /\ UNCHANGED <<pm, thread, awaited, closing, connected, toFarmer, toHarvester, receiver>>
    BY DEF ResetRebuilds, network
  <1>2. PICK now \in Time : sender' = Rebuilt(sender, now, pm)
    BY DEF ResetRebuilds
  <1>3. now \in Nat /\ now > 0
    BY TimeFacts
  <1>4. sender \in Senders /\ sender.messages = <<>> /\ sender.next_message_id = 0 /\ pm \in PlotManagers
    BY <1>1, InactiveFacts DEF Typed
  <1>5. PICK t : t = sender'
    OBVIOUS
  <1>6. t \in Senders /\ Queued(t) /\ t.sync_id # 0 /\ t.next_message_id = 0 /\ t.messages[1].body.initial
    BY <1>2, <1>3, <1>4, <1>5, RebuiltFacts
  <1>7. toFarmer = <<>> /\ toHarvester = <<>>
    BY <1>1 DEF Protocol, Links
  <1>8. Links'
    BY <1>1, <1>7 DEF Protocol, Links
  <1>9. InStep'
    BY <1>1, <1>5, <1>6 DEF InStep, AtNext, SyncActive
  <1>10. OnTheWay'
    BY <1>1, <1>7 DEF OnTheWay
  <1> QED
    BY <1>1, <1>5, <1>6, <1>8, <1>9, <1>10 DEF Protocol

LEMMA ProtocolSend ==
    ASSUME Typed, Protocol, SendNextMessage
    PROVE  Protocol'
  <1>1. /\ task = "ready" /\ closing = "no" /\ HasNextMessage(sender) /\ sender \in Senders /\ Queued(sender)
        /\ UNCHANGED <<pm, thread, closing, connected, toHarvester, receiver>>
    BY DEF SendNextMessage, Typed, Protocol
  <1>2. ValidGenerator(sender)
    BY <1>1, NextFacts DEF ValidGenerator
  <1>3. CASE connected
    <2>1. PICK p : p = [expired |-> FALSE, message |-> NextMessage(sender)]
      OBVIOUS
    <2>2. /\ toFarmer' = Append(toFarmer, p) /\ task' = "wait" /\ sender' = sender
          /\ awaited' = <<sender.sync_id, sender.next_message_id, NextMessage(sender).body.type>>
      BY <1>2, <1>3, <2>1 DEF SendNextMessage
    <2>3. Links'
      BY <1>1, <1>3, <2>2 DEF Protocol, Links
    <2>4. InStep'
      BY <1>1, <2>2 DEF Protocol, InStep
    <2>5. OnTheWay'
      <3>1. PICK n \in Nat : n = Len(toFarmer) /\ DOMAIN toFarmer = 1 .. n
        BY DEF Typed
      <3>2. /\ Len(toFarmer') = n + 1 /\ DOMAIN toFarmer' = 1 .. (n + 1)
            /\ \A i \in 1 .. n : toFarmer'[i] = toFarmer[i]
            /\ toFarmer'[n + 1] = p
        BY <2>2, <3>1 DEF Typed
      <3>3. ASSUME NEW i \in 1 .. (n + 1)
            PROVE  /\ toFarmer'[i].message = NextMessage(sender)
                   /\ ~ toFarmer'[i].expired => i = n + 1
        <4>1. CASE i = n + 1
          BY <2>1, <3>2, <4>1
        <4>2. CASE i # n + 1
          <5>1. i \in 1 .. n
            BY <4>2
          <5> QED
            BY <1>1, <3>1, <3>2, <5>1 DEF Protocol, OnTheWay
        <4> QED
          BY <4>1, <4>2
      <3>4. \A i \in DOMAIN toHarvester : toHarvester[i].expired
        BY <1>1 DEF Protocol, OnTheWay
      <3> QED
        BY <1>1, <2>2, <3>2, <3>3, <3>4 DEF OnTheWay
    <2> QED
      BY <1>1, <2>2, <2>3, <2>4, <2>5 DEF Protocol
  <1>4. CASE ~ connected
    <2>1. sender' = NewSender /\ task' = "reset" /\ toFarmer' = toFarmer
      BY <1>4 DEF SendNextMessage, Reset, Cleared
    <2>2. toFarmer = <<>> /\ toHarvester = <<>>
      BY <1>4 DEF Protocol, Links
    <2>3. Links'
      BY <1>1, <1>4, <2>1, <2>2 DEF Links
    <2>4. InStep' /\ OnTheWay'
      BY <1>1, <2>1, <2>2 DEF InStep, OnTheWay
    <2> QED
      BY <1>1, <2>1, <2>3, <2>4, SenderFacts DEF Protocol
  <1> QED
    BY <1>3, <1>4

LEMMA ProtocolTimeout ==
    ASSUME Typed, Protocol, Timeout
    PROVE  Protocol'
  <1>1. /\ task = "wait" /\ task' = "ready" /\ closing = "no"
        /\ toFarmer' = Expire(toFarmer) /\ toHarvester' = Expire(toHarvester)
        /\ UNCHANGED <<pm, thread, sender, awaited, closing, connected, receiver>>
    BY DEF Timeout
  <1>2. toFarmer \in Seq(Parcels) /\ toHarvester \in Seq(Responses)
    BY DEF Typed
  <1>3. \A x \in Parcels : [x EXCEPT !.expired = TRUE] \in Parcels
    BY DEF Parcels
  <1>4. \A x \in Responses : [x EXCEPT !.expired = TRUE] \in Responses
    BY DEF Responses
  <1>5. /\ Len(toFarmer') = Len(toFarmer) /\ DOMAIN toFarmer' = 1 .. Len(toFarmer)
        /\ \A i \in 1 .. Len(toFarmer) : toFarmer'[i] = [toFarmer[i] EXCEPT !.expired = TRUE]
        /\ toFarmer' \in Seq(Parcels)
    BY <1>1, <1>2, <1>3, ExpireFacts
  <1>6. /\ Len(toHarvester') = Len(toHarvester) /\ DOMAIN toHarvester' = 1 .. Len(toHarvester)
        /\ \A i \in 1 .. Len(toHarvester) : toHarvester'[i] = [toHarvester[i] EXCEPT !.expired = TRUE]
        /\ toHarvester' \in Seq(Responses)
    BY <1>1, <1>2, <1>4, ExpireFacts
  <1>7. toFarmer = <<>> => toFarmer' = <<>>
    BY <1>2, <1>5
  <1>8. toHarvester = <<>> => toHarvester' = <<>>
    BY <1>2, <1>6
  <1>9. Links'
    BY <1>1, <1>7, <1>8 DEF Protocol, Links
  <1>10. InStep'
    BY <1>1 DEF Protocol, InStep
  <1>11. OnTheWay'
    <2>1. ASSUME NEW i \in DOMAIN toFarmer'
          PROVE  HasNextMessage(sender) /\ toFarmer'[i].message = NextMessage(sender) /\ toFarmer'[i].expired
      <3>1. i \in DOMAIN toFarmer /\ toFarmer[i] \in Parcels /\ toFarmer'[i] = [toFarmer[i] EXCEPT !.expired = TRUE]
        BY <1>2, <1>5
      <3>2. toFarmer'[i].message = toFarmer[i].message /\ toFarmer'[i].expired
        BY <3>1 DEF Parcels
      <3> QED
        BY <3>1, <3>2 DEF Protocol, OnTheWay
    <2>2. ASSUME NEW i \in DOMAIN toHarvester' PROVE toHarvester'[i].expired
      <3>1. i \in DOMAIN toHarvester /\ toHarvester[i] \in Responses
            /\ toHarvester'[i] = [toHarvester[i] EXCEPT !.expired = TRUE]
        BY <1>2, <1>6
      <3> QED
        BY <3>1 DEF Responses
    <2> QED
      BY <1>1, <2>1, <2>2 DEF OnTheWay
  <1> QED
    BY <1>1, <1>9, <1>10, <1>11 DEF Protocol

LEMMA ProtocolFarmer ==
    ASSUME Typed, Protocol, FarmerReceives
    PROVE  Protocol'
  <1>1. /\ connected /\ toFarmer # <<>> /\ toFarmer \in Seq(Parcels) /\ toHarvester \in Seq(Responses)
        /\ receiver \in Receivers /\ sender \in Senders
        /\ UNCHANGED <<pm, thread, sender, task, awaited, closing, connected>>
    BY DEF FarmerReceives, Typed, harvester
  <1>2. PICK n \in Nat : n = Len(toFarmer) /\ n > 0 /\ DOMAIN toFarmer = 1 .. n
    BY <1>1
  <1>3. PICK p : p = Head(toFarmer) /\ p = toFarmer[1]
    BY <1>1
  <1>4. /\ HasNextMessage(sender) /\ p.message = NextMessage(sender)
        /\ ~ p.expired => task = "wait" /\ n = 1
    BY <1>2, <1>3 DEF Protocol, OnTheWay
  <1>5. task \in {"ready", "wait"} /\ SyncActive(sender)
    BY <1>1, <1>4 DEF Protocol, Links, Typed, HasNextMessage
  <1>6. PICK a : a = Process(receiver, NextMessage(sender))
    OBVIOUS
  <1>7. Advances(receiver, sender, a)
    BY <1>1, <1>4, <1>5, <1>6, ProcessNext DEF Protocol, InStep
  <1>8. PICK r : /\ r.type = NextMessage(sender).body.type /\ r.expired = p.expired
                 /\ r.error = a.error /\ r.expected = a.expected
                 /\ toHarvester' = Append(toHarvester, r)
    BY <1>3, <1>4, <1>6 DEF FarmerReceives
  <1>9. receiver' = a.receiver /\ toFarmer' = Tail(toFarmer)
    BY <1>3, <1>4, <1>6 DEF FarmerReceives
  <1>10. Links'
    BY <1>1, <1>5 DEF Protocol, Links
  <1>11. InStep'
    BY <1>1, <1>5, <1>7, <1>9 DEF InStep, Advances
  <1>12. OnTheWay'
    <2>1. /\ DOMAIN toFarmer' = 1 .. (n - 1) /\ Len(toFarmer') = n - 1
          /\ \A i \in 1 .. (n - 1) : toFarmer'[i] = toFarmer[i + 1]
      BY <1>1, <1>2, <1>9
    <2>2. ASSUME NEW i \in 1 .. (n - 1)
          PROVE  /\ toFarmer'[i].message = NextMessage(sender)
                 /\ ~ toFarmer'[i].expired => task = "wait" /\ i = n - 1
      <3>1. i + 1 \in 1 .. n /\ (i + 1 = n => i = n - 1)
        BY <1>2
      <3> QED
        BY <1>2, <2>1, <3>1 DEF Protocol, OnTheWay
    <2>3. PICK k \in Nat : k = Len(toHarvester) /\ DOMAIN toHarvester = 1 .. k
      BY <1>1
    <2>4. /\ DOMAIN toHarvester' = 1 .. (k + 1) /\ Len(toHarvester') = k + 1
          /\ \A i \in 1 .. k : toHarvester'[i] = toHarvester[i]
          /\ toHarvester'[k + 1] = r
      BY <1>1, <1>8, <2>3
    <2>5. \A i \in 1 .. k : toHarvester[i].expired
      BY <1>1, <2>3 DEF Protocol, OnTheWay
    <2>6. ASSUME NEW i \in 1 .. (k + 1), ~ toHarvester'[i].expired
          PROVE  task = "wait" /\ i = k + 1 /\ toFarmer' = <<>> /\ Answers(toHarvester[i])'
      <3>1. i = k + 1
        <4>1. ~ (i \in 1 .. k)
          BY <2>4, <2>5, <2>6
        <4> QED
          BY <4>1
      <3>2. ~ p.expired /\ toHarvester'[i] = r
        BY <1>8, <2>4, <2>6, <3>1
      <3>3. task = "wait" /\ n = 1
        BY <1>4, <3>2
      <3>4. toFarmer' = <<>>
        BY <1>1, <1>2, <1>9, <3>3
      <3>5. /\ r.type = NextMessage(sender').body.type
            /\ r.error # "fatal" => PastNext(receiver', sender')
            /\ r.error = "identifier" =>
                  r.expected = <<receiver'.current.sync_id, receiver'.current.next_message_id>>
        BY <1>1, <1>7, <1>8, <1>9 DEF Advances
      <3> QED
        BY <3>1, <3>2, <3>3, <3>4, <3>5 DEF Answers
    <2> QED
      BY <1>1, <1>4, <2>1, <2>2, <2>4, <2>6 DEF OnTheWay
  <1>13. ReceiverOK(receiver')
    BY <1>7, <1>9 DEF Advances
  <1> QED
    BY <1>1, <1>10, <1>11, <1>12, <1>13 DEF Protocol

(* What the sender makes of an answer in time.                             *)
LEMMA RecoveredFacts ==
    ASSUME NEW s \in Senders, Queued(s), HasNextMessage(s), NEW r \in Receivers,
           NEW a, a.error \in Errors, a.type = NextMessage(s).body.type,
           a.error # "fatal" => PastNext(r, s),
           a.error = "identifier" => a.expected = <<r.current.sync_id, r.current.next_message_id>>,
           Recoverable(s, a)
    PROVE  /\ PastNext(r, s)
           /\ IF NextMessage(s).body.type = "done" THEN Recovered(s, a) = FinalizeSync(s)
              ELSE Recovered(s, a) = [s EXCEPT !.next_message_id = s.next_message_id + 1]
  <1>1. a.error # "fatal" /\ PastNext(r, s)
    BY DEF Recoverable, MissedDone, Jumps
  <1>2. PICK k \in Nat, id \in Nat, n \in Nat :
          /\ k = s.next_message_id /\ id = s.sync_id /\ id # 0 /\ n = Len(s.messages) /\ n > 0
          /\ NextMessage(s) = s.messages[k + 1]
    <2>1. s.messages \in Seq(Messages) /\ s.messages # <<>>
      BY DEF Senders, Queued, HasNextMessage, SyncActive
    <2> QED
      BY <2>1, NextFacts
  <1>3. CASE a.error = "none"
    <2>1. ~ MissedDone(s, a)
      BY <1>3 DEF MissedDone
    <2> QED
      BY <1>1, <1>3, <2>1 DEF Recovered
  <1>4. CASE a.error = "identifier"
    <2>1. a.expected[1] = r.current.sync_id /\ a.expected[2] = r.current.next_message_id
      BY <1>4
    <2>2. CASE NextMessage(s).body.type = "done"
      <3>1. r.current.sync_id = 0
        BY <1>1, <2>2 DEF PastNext
      <3>2. ~ Jumps(s, a)
        BY <1>2, <2>1, <3>1 DEF Jumps
      <3>3. MissedDone(s, a)
        BY <1>4, <3>2 DEF Recoverable
      <3> QED
        BY <1>1, <2>2, <3>3 DEF Recovered
    <2>3. CASE NextMessage(s).body.type # "done"
      <3>1. r.current.sync_id = id /\ r.current.next_message_id = k + 1
        BY <1>1, <1>2, <2>3 DEF PastNext
      <3>2. ~ MissedDone(s, a)
        <4>1. a.expected # <<0, 0>>
          BY <1>2, <2>1, <3>1
        <4> QED
          BY <4>1 DEF MissedDone
      <3> QED
        BY <1>1, <1>2, <1>4, <2>1, <2>3, <3>1, <3>2 DEF Recovered
    <2> QED
      BY <2>2, <2>3
  <1> QED
    BY <1>1, <1>3, <1>4 DEF Errors

(* The message after the one that was accepted.                            *)
LEMMA MovedOn ==
    ASSUME NEW s \in Senders, Queued(s), HasNextMessage(s), NEW t,
           t = [s EXCEPT !.next_message_id = s.next_message_id + 1]
    PROVE  /\ t \in Senders /\ Queued(t) /\ SyncActive(t) /\ t.next_message_id # 0
           /\ t.messages = s.messages /\ t.sync_id = s.sync_id /\ t.last_sync_id = s.last_sync_id
           /\ t.next_message_id = s.next_message_id + 1
  <1>1. PICK k \in Nat, n \in Nat : k = s.next_message_id /\ n = Len(s.messages) /\ k < n /\ s.sync_id # 0
    BY DEF Senders, HasNextMessage, SyncActive
  <1>2. /\ t \in Senders /\ t.next_message_id = k + 1 /\ t.messages = s.messages
        /\ t.sync_id = s.sync_id /\ t.last_sync_id = s.last_sync_id
    <2>1. t = [s EXCEPT !.next_message_id = k + 1] /\ k + 1 \in Nat
      BY <1>1
    <2> QED
      BY <2>1 DEF Senders
  <1>3. k + 1 <= n /\ k + 1 # 0
    BY <1>1
  <1> QED
    BY <1>1, <1>2, <1>3 DEF Queued, SyncActive

LEMMA FinalizeFacts ==
    ASSUME NEW s \in Senders
    PROVE  /\ FinalizeSync(s) \in Senders /\ Queued(FinalizeSync(s)) /\ ~ SyncActive(FinalizeSync(s))
           /\ FinalizeSync(s).last_sync_id = s.sync_id
  <1>1. PICK t : t = FinalizeSync(s)
    OBVIOUS
  <1>2. t = [sync_id |-> 0, next_message_id |-> 0, messages |-> <<>>, last_sync_id |-> s.sync_id]
    BY <1>1 DEF FinalizeSync, NewSender
  <1> QED
    BY <1>1, <1>2 DEF Senders, Queued, SyncActive

(* The answer waited for is the last thing on the way.                     *)
LEMMA ResponseFacts ==
    ASSUME Typed, Protocol, ReceiveResponse, NEW r, r = Head(toHarvester), SetResponse(r)
    PROVE  /\ task = "wait" /\ toHarvester' = <<>> /\ toFarmer = <<>> /\ HasNextMessage(sender)
           /\ r \in Responses /\ Answers(r)
  <1>1. toHarvester \in Seq(Responses) /\ toHarvester # <<>> /\ toHarvester' = Tail(toHarvester)
    BY DEF Typed, ReceiveResponse
  <1>2. 1 \in DOMAIN toHarvester /\ r = toHarvester[1] /\ r \in Responses
    BY <1>1
  <1>3. task = "wait" /\ 1 = Len(toHarvester) /\ toFarmer = <<>> /\ Answers(r)
    BY <1>2 DEF Protocol, OnTheWay, SetResponse
  <1>4. toHarvester' = <<>>
    BY <1>1, <1>3
  <1>5. HasNextMessage(sender)
    BY <1>3 DEF Protocol, Links
  <1> QED
    BY <1>2, <1>3, <1>4, <1>5

LEMMA ProtocolReceive ==
    ASSUME Typed, Protocol, ReceiveResponse
    PROVE  Protocol'
  <1>1. /\ task # "reset" /\ closing = "no" /\ toHarvester # <<>> /\ toHarvester' = Tail(toHarvester)
        /\ toHarvester \in Seq(Responses) /\ sender \in Senders /\ Queued(sender) /\ receiver \in Receivers
        /\ UNCHANGED <<pm, thread, awaited, closing, connected, toFarmer, receiver>>
    BY DEF ReceiveResponse, LoopFree, Typed, Protocol
  <1>2. connected /\ task # "none"
    BY <1>1 DEF Protocol, Links, Typed
  <1>3. PICK r : r = Head(toHarvester)
    OBVIOUS
  <1>4. CASE ~ SetResponse(r)
    <2>1. sender' = sender /\ task' = task
      BY <1>3, <1>4 DEF ReceiveResponse
    <2>2. PICK n \in Nat : n = Len(toHarvester) /\ n > 0 /\ DOMAIN toHarvester = 1 .. n
      BY <1>1
    <2>3. /\ DOMAIN toHarvester' = 1 .. (n - 1) /\ Len(toHarvester') = n - 1
          /\ \A i \in 1 .. (n - 1) : toHarvester'[i] = toHarvester[i + 1]
      BY <1>1, <2>2
    <2>4. ASSUME NEW i \in 1 .. (n - 1), ~ toHarvester'[i].expired
          PROVE  task = "wait" /\ i = n - 1 /\ toFarmer = <<>> /\ Answers(toHarvester[i])'
      <3>1. i + 1 \in 1 .. n /\ (i + 1 = n => i = n - 1) /\ toHarvester'[i] = toHarvester[i + 1]
        BY <2>2, <2>3
      <3>2. task = "wait" /\ i = n - 1 /\ toFarmer = <<>> /\ Answers(toHarvester[i + 1])
        BY <2>2, <2>4, <3>1 DEF Protocol, OnTheWay
      <3> QED
        BY <1>1, <2>1, <3>1, <3>2 DEF Answers
    <2>5. OnTheWay'
      BY <1>1, <2>1, <2>3, <2>4 DEF Protocol, OnTheWay
    <2>6. Links' /\ InStep'
      BY <1>1, <1>2, <2>1 DEF Protocol, Links, InStep
    <2> QED
      BY <1>1, <2>1, <2>5, <2>6 DEF Protocol
  <1>5. CASE SetResponse(r)
    <2>1. /\ task = "wait" /\ toHarvester' = <<>> /\ toFarmer' = <<>> /\ HasNextMessage(sender)
          /\ r \in Responses /\ Answers(r)
      BY <1>1, <1>3, <1>5, ResponseFacts
    <2>2. OnTheWay'
      BY <2>1 DEF OnTheWay
    <2>3. CASE Recoverable(sender, r)
      <3>1. sender' = Recovered(sender, r) /\ task' = "ready"
        BY <1>3, <1>5, <2>3 DEF ReceiveResponse
      <3>2. Links'
        BY <1>1, <1>2, <2>1, <3>1 DEF Protocol, Links
      <3>3. PICK s, t : s = sender /\ t = sender'
        OBVIOUS
      <3>4. /\ PastNext(receiver, s)
            /\ IF NextMessage(s).body.type = "done" THEN t = FinalizeSync(s)
               ELSE t = [s EXCEPT !.next_message_id = s.next_message_id + 1]
        <4>1. r.error \in Errors
          BY <2>1 DEF Responses
        <4> QED
          BY <1>1, <2>1, <2>3, <3>1, <3>3, <4>1, RecoveredFacts DEF Answers
      <3>5. CASE NextMessage(s).body.type = "done"
        <4>1. Queued(t) /\ ~ SyncActive(t) /\ t.last_sync_id = s.sync_id
          BY <1>1, <3>3, <3>4, <3>5, FinalizeFacts
        <4>2. receiver.current.sync_id = 0 /\ receiver.last_sync_id = s.sync_id
          BY <3>4, <3>5 DEF PastNext
        <4>3. InStep'
          BY <1>1, <3>3, <4>1, <4>2 DEF InStep
        <4> QED
          BY <1>1, <2>2, <3>2, <3>3, <4>1, <4>3 DEF Protocol
      <3>6. CASE NextMessage(s).body.type # "done"
        <4>1. /\ Queued(t) /\ SyncActive(t) /\ t.next_message_id # 0 /\ t.messages = s.messages
              /\ t.sync_id = s.sync_id /\ t.next_message_id = s.next_message_id + 1
          BY <1>1, <2>1, <3>3, <3>4, <3>6, MovedOn
        <4>2. AtNext(receiver, t)
          BY <3>4, <3>6, <4>1 DEF PastNext, AtNext
        <4>3. InStep'
          BY <1>1, <3>3, <4>1, <4>2 DEF InStep
        <4> QED
          BY <1>1, <2>2, <3>2, <3>3, <4>1, <4>3 DEF Protocol
      <3> QED
        BY <3>5, <3>6
    <2>4. CASE ~ Recoverable(sender, r)
      <3>1. sender' = NewSender /\ task' = "reset"
        BY <1>3, <1>5, <2>4 DEF ReceiveResponse, Reset, Cleared
      <3>2. Links' /\ InStep'
        BY <1>1, <1>2, <2>1, <3>1 DEF Protocol, Links, InStep
      <3> QED
        BY <1>1, <2>2, <3>1, <3>2, SenderFacts DEF Protocol
    <2> QED
      BY <2>3, <2>4
  <1> QED
    BY <1>4, <1>5

LEMMA ProtocolHandshake ==
    ASSUME Typed, Protocol, Handshake
    PROVE  Protocol'
  <1>1. /\ task = "none" /\ thread.pc = "dead" /\ connected' /\ receiver' = NewReceiver /\ task' = "ready"
        /\ pm' = [pm EXCEPT !.enabled = TRUE] /\ thread' = Idle("sleep")
        /\ UNCHANGED <<awaited, closing, toFarmer, toHarvester>>
    BY DEF Handshake
  <1>2. ~ connected /\ sender = NewSender /\ closing = "no" /\ toFarmer = <<>> /\ toHarvester = <<>>
    BY <1>1 DEF Protocol, Links
  <1>3. PICK now \in Time : sender' = Started(sender, now)
    BY DEF Handshake
  <1>4. now \in Nat /\ now > 0 /\ pm \in PlotManagers
    BY TimeFacts DEF Typed
  <1>5. PICK t : t = sender'
    OBVIOUS
  <1>6. ReceiverOK(NewReceiver) /\ NewReceiver.current.sync_id = 0 /\ NewReceiver.last_sync_id = 0
    BY DEF ReceiverOK, NewReceiver, Sync
  <1>7. /\ Queued(t)
        /\ IF SyncActive(t) THEN AtNext(NewReceiver, t) ELSE t.last_sync_id = 0
    <2>1. CASE t = NewSender
      BY <2>1, SenderFacts DEF SyncActive
    <2>2. CASE t # NewSender
      <3>1. t = Rebuilt(NewSender, now, pm)
        BY <1>2, <1>3, <1>5, <2>2 DEF Started, Cleared
      <3>2. Queued(t) /\ t.sync_id # 0 /\ t.next_message_id = 0 /\ t.messages[1].body.initial
        BY <1>4, <3>1, SenderFacts, RebuiltFacts
      <3> QED
        BY <3>2 DEF AtNext, SyncActive
    <2> QED
      BY <2>1, <2>2
  <1>8. pm'.enabled
    BY <1>1, <1>4 DEF PlotManagers
  <1>9. Links'
    BY <1>1, <1>2, <1>8 DEF Links
  <1>10. InStep'
    BY <1>1, <1>5, <1>6, <1>7 DEF InStep
  <1>11. OnTheWay'
    BY <1>1, <1>2 DEF OnTheWay
  <1> QED
    BY <1>1, <1>5, <1>6, <1>7, <1>9, <1>10, <1>11 DEF Protocol

LEMMA ProtocolClose ==
    ASSUME Typed, Protocol, ConnectionCloses \/ OnDisconnect \/ ThreadJoined \/ AwaitClosed
    PROVE  Protocol'
  <1>1. ReceiverOK(NewReceiver)
    BY DEF ReceiverOK, NewReceiver, Sync
  <1>2. CASE ConnectionCloses
    <2>1. /\ ~ connected' /\ toFarmer' = <<>> /\ toHarvester' = <<>> /\ receiver' = NewReceiver
          /\ UNCHANGED <<pm, thread, sender, task, awaited, closing>>
      BY <1>2 DEF ConnectionCloses, harvester
    <2>2. Links' /\ InStep' /\ OnTheWay'
      BY <2>1 DEF Protocol, Links, InStep, OnTheWay
    <2> QED
      BY <1>1, <2>1, <2>2 DEF Protocol
  <1>3. CASE OnDisconnect
    <2>1. /\ ~ connected /\ closing' = "join" /\ task \in {"ready", "wait"}
          /\ UNCHANGED <<thread, sender, task, awaited, connected, toFarmer, toHarvester, receiver>>
      BY <1>3 DEF OnDisconnect, network
    <2>2. toFarmer = <<>> /\ toHarvester = <<>>
      BY <2>1 DEF Protocol, Links
    <2>3. Links' /\ InStep' /\ OnTheWay'
      BY <2>1, <2>2 DEF Protocol, Links, InStep, OnTheWay
    <2> QED
      BY <2>1, <2>3 DEF Protocol
  <1>4. CASE ThreadJoined
    <2>1. /\ closing = "join" /\ closing' = "close" /\ thread.pc = "dead"
          /\ UNCHANGED <<pm, thread, sender, task, awaited, connected, toFarmer, toHarvester, receiver>>
      BY <1>4 DEF ThreadJoined, network
    <2>2. ~ connected /\ task \in {"ready", "wait"} /\ toFarmer = <<>> /\ toHarvester = <<>>
      BY <2>1 DEF Protocol, Links, Typed
    <2>3. Links' /\ InStep' /\ OnTheWay'
      BY <2>1, <2>2 DEF Protocol, Links, InStep, OnTheWay
    <2> QED
      BY <2>1, <2>3 DEF Protocol
  <1>5. CASE AwaitClosed
    <2>1. /\ closing = "close" /\ closing' = "no" /\ task' = "none" /\ sender' = NewSender
          /\ UNCHANGED <<pm, thread, awaited, connected, toFarmer, toHarvester, receiver>>
      BY <1>5 DEF AwaitClosed, Cleared, network
    <2>2. ~ connected /\ thread.pc = "dead" /\ toFarmer = <<>> /\ toHarvester = <<>>
      BY <2>1 DEF Protocol, Links, Typed
    <2>3. Links' /\ InStep' /\ OnTheWay'
      BY <2>1, <2>2 DEF Links, InStep, OnTheWay
    <2> QED
      BY <2>1, <2>3, SenderFacts DEF Protocol
  <1> QED
    BY <1>2, <1>3, <1>4, <1>5

LEMMA ProtocolStep ==
    ASSUME Typed, Protocol, [Next]_vars
    PROVE  Protocol'
  <1>1. CASE \E f \in Files, state \in DiskStates : DiskChanges(f, state)
    BY <1>1, Untouched DEF DiskChanges, network
  <1>2. CASE BeginRefresh
    BY <1>2, Untouched DEF BeginRefresh, network
  <1>3. CASE RefreshFails
    BY <1>3, Untouched, HarvesterTypes DEF RefreshFails, network
  <1>4. CASE DropMissing
    <2>1. pm \in PlotManagers /\ thread.pc = "drop"
      BY <1>4 DEF Typed, DropMissing
    <2>2. pm'.enabled = pm.enabled
      BY <1>4, <2>1 DEF DropMissing, PlotManagers
    <2> QED
      BY <1>4, <2>1, <2>2, Untouched DEF DropMissing, network
  <1>5. CASE RefreshBatch
    <2>1. pm \in PlotManagers /\ thread.pc = "batch"
      BY <1>5 DEF Typed, RefreshBatch
    <2>2. pm'.enabled = pm.enabled
      BY <1>5, <2>1 DEF RefreshBatch, PlotManagers
    <2>3. UNCHANGED <<sender, task, awaited, closing, connected, toFarmer, toHarvester, receiver>>
      BY <1>5 DEF RefreshBatch, network
    <2> QED
      BY <2>1, <2>2, <2>3, Untouched
  <1>6. CASE AbortRefresh
    BY <1>6, Untouched DEF AbortRefresh, network
  <1>7. CASE ThreadExits
    <2>1. thread'.pc = "dead"
      BY <1>7 DEF ThreadExits, Idle
    <2> QED
      BY <1>7, <2>1, Untouched DEF ThreadExits, network
  <1>8. CASE UNCHANGED vars
    BY <1>8, Untouched DEF vars, harvester, network
  <1> QED
    BY <1>1, <1>2, <1>3, <1>4, <1>5, <1>6, <1>7, <1>8, ProtocolStarted, ProtocolProcessed, ProtocolDone,
       ProtocolRebuilds, ProtocolSend, ProtocolTimeout, ProtocolFarmer, ProtocolReceive, ProtocolHandshake,
       ProtocolClose DEF Next, Refresh

LEMMA ProtocolInit ==
    ASSUME Init
    PROVE  Typed /\ Protocol
  <1>1. Typed
    <2>1. pm \in PlotManagers /\ thread \in Threads /\ thread.pc = "dead" /\ disk \in [Files -> DiskStates]
      BY PlotSyncAssumption DEF Init, NewPlotManager, PlotManagers, Idle, Threads
    <2>2. toFarmer \in Seq(Parcels) /\ toHarvester \in Seq(Responses)
      BY DEF Init
    <2>3. sender \in Senders /\ receiver \in Receivers
      BY SenderFacts, NewReceiverTyped DEF Init
    <2>4. task = "none" /\ closing = "no" /\ clock = 1
      BY DEF Init
    <2>5. connected = FALSE /\ disturbed = FALSE
      BY DEF Init
    <2>6. connected \in BOOLEAN /\ disturbed \in BOOLEAN
      BY <2>5
    <2> QED
      BY <2>1, <2>2, <2>3, <2>4, <2>6 DEF Typed
  <1>2. ReceiverOK(receiver)
    BY DEF Init, ReceiverOK, NewReceiver, Sync
  <1>3. thread.pc = "dead"
    BY DEF Init, Idle
  <1>4. Links /\ InStep /\ OnTheWay
    BY <1>3 DEF Init, Links, InStep, OnTheWay
  <1> QED
    BY <1>1, <1>2, <1>4, SenderFacts DEF Init, Protocol

(* What is on the way is the next message, and the two sides are in step:  *)
(* Sender._send_next_message and the handlers of Receiver, through         *)
(* time-outs, repeated messages, resets and reconnections.                 *)
THEOREM SidesInStep == Spec => [](Typed /\ Protocol)
  <1>1. Init => Typed /\ Protocol
    BY ProtocolInit
  <1>2. Typed /\ Protocol /\ [Next]_vars => (Typed /\ Protocol)'
    BY TypedStep, ProtocolStep DEF Protocol
  <1> QED
    BY <1>1, <1>2, PTL DEF Spec

(* Whenever the sender's task is idle and no sync is active, sender and    *)
(* receiver name the same last sync (Sender._finalize_sync,                *)
(* Receiver._sync_done), whatever was lost, repeated or delayed before.    *)
THEOREM LastSyncCorrect == Spec => []LastSyncAgrees
  <1>1. Typed /\ Protocol => LastSyncAgrees
    BY DEF Protocol, InStep, LastSyncAgrees
  <1> QED
    BY <1>1, SidesInStep, PTL

------------------------------------------------------------------------------
(* What the receiver knows.                                                *)

(* A receiver that has still to accept a message after the first has not   *)
(* accepted it.                                                            *)
LEMMA Exclusive ==
    ASSUME NEW s \in Senders, s.sync_id # 0, s.next_message_id # 0, NEW r, AtNext(r, s)
    PROVE  ~ PastNext(r, s)
  <1>1. PICK k \in Nat : k = s.next_message_id
    BY DEF Senders
  <1>2. r.current.sync_id = s.sync_id /\ r.current.next_message_id = k
    BY <1>1 DEF AtNext
  <1>3. k # k + 1
    OBVIOUS
  <1> QED
    BY <1>1, <1>2, <1>3 DEF PastNext

LEMMA TracksExtended ==
    ASSUME NEW s \in Senders, NEW t, NEW new \in Seq(Bodies), Extends(t, s, new),
           Queued(s), s.sync_id # 0, \A i \in 1 .. Len(new) : new[i].type # "start",
           NEW r, NEW n \in 0 .. Len(s.messages), Tracks(r, s, n)
    PROVE  Tracks(r, t, n)
  <1>1. t.messages[1] = s.messages[1]
    BY ExtendsQueued
  <1>2. ASSUME NEW type \in ListTypes
        PROVE  Named(t, type, n) = Named(s, type, n)
    <2>1. \A j \in 0 .. Len(s.messages) : Named(t, type, j) = Named(s, type, j)
      BY ExtendsNamed
    <2> QED
      BY <2>1
  <1> QED
    BY <1>1, <1>2 DEF Tracks

(* What is queued behind does not matter to what the receiver knows.       *)
LEMMA KnowsExtended ==
    ASSUME NEW s \in Senders, NEW t, NEW new \in Seq(Bodies), Extends(t, s, new),
           Queued(s), s.sync_id # 0, \A i \in 1 .. Len(new) : new[i].type # "start",
           NEW r, AtNext(r, s) \/ PastNext(r, s), Knows(r, s)
    PROVE  Knows(r, t)
  <1>1. /\ t \in Senders /\ t.sync_id = s.sync_id /\ t.next_message_id = s.next_message_id
        /\ t.last_sync_id = s.last_sync_id /\ t.messages[1] = s.messages[1]
        /\ HasNextMessage(s) => HasNextMessage(t) /\ NextMessage(t) = NextMessage(s)
    BY ExtendsQueued DEF Extends
  <1>2. PICK k \in Nat, n \in Nat :
          k = s.next_message_id /\ n = Len(s.messages) /\ k <= n /\ n > 0
          /\ (HasNextMessage(s) <=> k < n)
    <2>1. s.messages \in Seq(Messages) /\ s.messages # <<>> /\ s.next_message_id \in Nat
          /\ s.next_message_id <= Len(s.messages)
      BY DEF Senders, Queued
    <2>2. Len(s.messages) \in Nat /\ Len(s.messages) > 0
      BY <2>1
    <2> QED
      BY <2>1, <2>2 DEF HasNextMessage, SyncActive
  <1>3. AtNext(r, t) => AtNext(r, s)
    BY <1>1 DEF AtNext
  <1>4. Tracks(r, s, k) => Tracks(r, t, k)
    <2>1. k \in 0 .. Len(s.messages)
      BY <1>2
    <2> QED
      BY <2>1, TracksExtended
  <1>5. CASE HasNextMessage(s)
    <2>1. Tracks(r, s, k + 1) => Tracks(r, t, k + 1)
      <3>1. k + 1 \in 0 .. Len(s.messages)
        BY <1>2, <1>5
      <3> QED
        BY <3>1, TracksExtended
    <2>2. PastNext(r, t) => PastNext(r, s)
      BY <1>1, <1>5 DEF PastNext
    <2>3. Refuses(r, s) => Refuses(r, t)
      BY <1>1, <1>5 DEF Refuses
    <2>4. Restarts(s) => Restarts(t)
      BY <1>1 DEF Restarts
    <2> QED
      BY <1>1, <1>2, <1>3, <1>4, <1>5, <2>1, <2>2, <2>3, <2>4 DEF Knows
  <1>6. CASE ~ HasNextMessage(s)
    <2>1. AtNext(r, s) /\ ~ Refuses(r, s) /\ k > 0
      BY <1>2, <1>6 DEF PastNext, Refuses
    <2>2. ~ PastNext(r, t)
      <3>1. AtNext(r, t) /\ t.sync_id # 0 /\ t.next_message_id # 0
        BY <1>1, <1>2, <2>1 DEF AtNext
      <3> QED
        BY <1>1, <3>1, Exclusive
    <2>3. Tracks(r, s, k)
      BY <1>2, <2>1 DEF Knows
    <2> QED
      BY <1>1, <1>2, <1>4, <2>2, <2>3 DEF Knows
  <1> QED
    BY <1>5, <1>6

(* The next message adds its list to what the messages before it named.    *)
LEMMA NamedNext ==
    ASSUME NEW s \in Senders, Queued(s), HasNextMessage(s), NEW type \in ListTypes,
           NEW k \in Nat, k = s.next_message_id
    PROVE  Named(s, type, k + 1) =
              IF NextMessage(s).body.type = type THEN Named(s, type, k) \cup ToSet(NextMessage(s).body.data)
              ELSE Named(s, type, k)
  <1>1. PICK m : m = NextMessage(s)
    OBVIOUS
  <1>2. /\ m \in Messages /\ m = s.messages[k + 1] /\ k + 1 \in DOMAIN s.messages
        /\ DOMAIN s.messages \subseteq Nat
    <2>1. /\ NextMessage(s) \in Messages /\ s.next_message_id + 1 \in 1 .. Len(s.messages)
          /\ DOMAIN s.messages = 1 .. Len(s.messages) /\ NextMessage(s) = s.messages[s.next_message_id + 1]
      BY NextFacts
    <2>2. 1 .. Len(s.messages) \subseteq Nat
      OBVIOUS
    <2> QED
      BY <1>1, <2>1, <2>2
  <1>3. \A i \in DOMAIN s.messages : i <= k + 1 <=> i <= k \/ i = k + 1
    BY <1>2
  <1>4. m.body.type = type => ToSet(m.body.data) \subseteq Files
    <2> SUFFICES ASSUME m.body.type = type PROVE ToSet(m.body.data) \subseteq Files
      OBVIOUS
    <2>1. m.body \in Bodies
      BY <1>2 DEF Messages
    <2>2. m.body \in [type : ListTypes, data : Seq(Files), final : BOOLEAN]
      BY <2>1 DEF Bodies, ListTypes
    <2>3. PICK d \in Seq(Files) : d = m.body.data
      BY <2>2
    <2>4. ToSet(d) \subseteq Files
      BY DEF ToSet
    <2> QED
      BY <2>3, <2>4
  <1>5. \A f \in Files :
           f \in Named(s, type, k + 1) <=>
              f \in Named(s, type, k) \/ (m.body.type = type /\ f \in ToSet(m.body.data))
    BY <1>2, <1>3 DEF Named
  <1>6. \A n : Named(s, type, n) \subseteq Files
    BY DEF Named
  <1>7. CASE m.body.type = type
    <2>1. Named(s, type, k + 1) = Named(s, type, k) \cup ToSet(m.body.data)
      BY <1>4, <1>5, <1>6, <1>7
    <2> QED
      BY <1>1, <1>7, <2>1
  <1>8. CASE m.body.type # type
    <2>1. PICK A, B : A = Named(s, type, k + 1) /\ B = Named(s, type, k)
      OBVIOUS
    <2>2. A \subseteq Files /\ B \subseteq Files /\ \A f \in Files : f \in A <=> f \in B
      BY <1>5, <1>6, <1>8, <2>1
    <2>3. A = B
      BY <2>2
    <2> QED
      BY <1>1, <1>8, <2>1, <2>3
  <1> QED
    BY <1>7, <1>8

(* The first message names nothing.                                        *)
LEMMA NothingNamed ==
    ASSUME NEW s \in Senders, Queued(s), s.sync_id # 0, NEW type \in ListTypes
    PROVE  Named(s, type, 1) = {}
  <1>1. \A i \in DOMAIN s.messages : s.messages[i].body.type = "start" <=> i = 1
    BY DEF Queued
  <1>2. DOMAIN s.messages \subseteq Nat \ {0}
    <2>1. s.messages \in Seq(Messages)
      BY DEF Senders
    <2> QED
      BY <2>1
  <1>3. \A i \in DOMAIN s.messages : i <= 1 => i = 1
    BY <1>2
  <1> QED
    BY <1>1, <1>3 DEF Named, ListTypes

(* What the receiver knows after the next message.                         *)
Learns(s, a) ==
    /\ Knows(a.receiver, s)
    /\ a.error # "fatal" /\ NextMessage(s).body.type # "done" =>
          Tracks(a.receiver, s, s.next_message_id + 1)

LEMMA ProcessKnows ==
    ASSUME NEW r \in Receivers, ReceiverOK(r), NEW s \in Senders, Queued(s), HasNextMessage(s),
           AtNext(r, s) \/ PastNext(r, s), Knows(r, s)
    PROVE  Learns(s, Process(r, NextMessage(s)))
  <1>1. PICK m \in Messages, k \in Nat, id \in Nat :
          /\ m = NextMessage(s) /\ k = s.next_message_id /\ id = s.sync_id /\ id # 0
          /\ m.sync_id = id /\ m.message_id = k /\ (m.body.type = "start" <=> k = 0)
          /\ k = 0 => m = s.messages[1] /\ m.body.last_sync_id = s.last_sync_id
    BY NextFacts
  <1>2. PICK a : a = Process(r, m)
    OBVIOUS
  <1>3. PICK p \in Nat, q \in Nat : p = r.current.sync_id /\ q = r.current.next_message_id /\ (p = 0 <=> q = 0)
    <2>1. r.current \in Syncs
      BY DEF Receivers
    <2> QED
      BY <2>1 DEF Syncs, ReceiverOK
  <1>4. \A x : WrongIdentifier(x).receiver = x /\ Fails(x).receiver = x /\ Fails(x).error = "fatal"
    BY DEF WrongIdentifier, Fails, Answer
  <1>5. CASE m.body.type = "start"
    <2>1. PICK r0 : /\ r0 = IF m.body.initial THEN NewReceiver ELSE r
                    /\ StartHandled(r0, m, a)
      BY <1>2, <1>5, StartStep
    <2>2. k = 0 /\ m = s.messages[1] /\ k + 1 = 1
      BY <1>1, <1>5
    <2>3. Restarts(s) <=> m.body.initial
      BY <1>1, <2>2 DEF Restarts
    <2>4. CASE ~ ValidIdentifier(r0, m)
      <3>1. a.receiver = r0
        BY <1>4, <2>1, <2>4 DEF StartHandled
      <3>2. NewReceiver.current.next_message_id = 0
        BY DEF NewReceiver, Sync
      <3>3. ~ m.body.initial /\ r0 = r /\ q # 0
        BY <1>1, <1>3, <1>5, <2>1, <2>2, <2>4, <3>2 DEF ValidIdentifier
      <3>4. PastNext(r, s) /\ NextMessage(s).body.type # "done"
        BY <1>1, <1>3, <1>5, <2>2, <3>3 DEF AtNext
      <3>5. Tracks(r, s, s.next_message_id + 1)
        BY <2>3, <3>3, <3>4 DEF Knows
      <3> QED
        BY <1>1, <1>2, <3>1, <3>3, <3>5 DEF Learns
    <2>5. CASE ValidIdentifier(r0, m) /\ (m.body.last_sync_id # r0.last_sync_id \/ m.body.last_sync_id = m.sync_id)
      <3>1. a.receiver = r0 /\ a.error = "fatal"
        BY <1>4, <2>1, <2>5 DEF StartHandled
      <3>2. Knows(r0, s)
        <4>1. CASE m.body.initial
          BY <1>1, <2>2, <2>3, <4>1 DEF Knows
        <4>2. CASE ~ m.body.initial
          BY <2>1, <4>2
        <4> QED
          BY <4>1, <4>2
      <3> QED
        BY <1>1, <1>2, <3>1, <3>2 DEF Learns
    <2>6. CASE ValidIdentifier(r0, m) /\ m.body.last_sync_id = r0.last_sync_id /\ m.body.last_sync_id # m.sync_id
      <3>1. SameShown(r0, a.receiver) /\ \A type \in ListTypes : Noted(a.receiver, type) = {}
        BY <2>1, <2>6 DEF StartHandled
      <3>2. m.body.initial => a.receiver.plots = {}
        BY <2>1, <3>1 DEF SameShown, NewReceiver
      <3>3. \A type \in ListTypes : Named(s, type, 1) = {}
        BY <1>1, NothingNamed
      <3>4. Tracks(a.receiver, s, k + 1)
        BY <2>2, <3>1, <3>2, <3>3 DEF Tracks
      <3>5. Knows(a.receiver, s)
        BY <1>1, <2>2, <3>4 DEF Knows
      <3> QED
        BY <1>1, <1>2, <3>4, <3>5 DEF Learns
    <2> QED
      BY <2>4, <2>5, <2>6
  <1>6. CASE m.body.type \in ListTypes
    <2>1. ListHandled(r, m, a) /\ m.body.type # "start" /\ m.body.type # "done" /\ k # 0
      BY <1>1, <1>2, <1>6, ListStep DEF ListTypes
    <2>2. ~ Restarts(s)
      BY <1>1, <2>1 DEF Restarts
    <2>3. CASE AtNext(r, s)
      <3>1. p = id /\ q = k
        BY <1>1, <1>3, <2>1, <2>3 DEF AtNext
      <3>2. ValidIdentifier(r, m)
        BY <1>1, <1>3, <3>1 DEF ValidIdentifier
      <3>3. CASE ToSet(m.body.data) \cap Refused(r, m.body) # {}
        <4>1. /\ a.error = "fatal" /\ a.receiver.current.sync_id = id /\ a.receiver.current.next_message_id = k
              /\ a.receiver.plots = r.plots
              /\ \A type \in ListTypes : Noted(r, type) \subseteq Noted(a.receiver, type)
          BY <1>3, <2>1, <3>1, <3>2, <3>3 DEF ListHandled, SameShown
        <4>2. Refused(r, m.body) \subseteq Refused(a.receiver, m.body)
          BY <1>6, <4>1 DEF Refused
        <4>3. ToSet(m.body.data) \cap Refused(a.receiver, m.body) # {}
          BY <3>3, <4>2
        <4>4. Refuses(a.receiver, s)
          BY <1>1, <1>6, <4>3 DEF Refuses
        <4>5. ~ PastNext(a.receiver, s)
          <5>1. k # k + 1
            OBVIOUS
          <5> QED
            BY <1>1, <2>1, <4>1, <5>1 DEF PastNext
        <4> QED
          BY <1>1, <1>2, <4>1, <4>4, <4>5 DEF Learns, Knows
      <3>4. CASE ToSet(m.body.data) \cap Refused(r, m.body) = {}
        <4>1. /\ a.error = "none" /\ a.receiver.current.sync_id = id
              /\ a.receiver.current.next_message_id = k + 1 /\ a.receiver.plots = r.plots
              /\ \A type \in ListTypes : Noted(a.receiver, type) =
                    IF type = m.body.type THEN Noted(r, type) \cup ToSet(m.body.data) ELSE Noted(r, type)
          BY <1>3, <2>1, <3>1, <3>2, <3>4 DEF ListHandled, SameShown
        <4>2. Tracks(r, s, k)
          <5>1. ~ Refuses(r, s)
            BY <1>1, <3>4 DEF Refuses
          <5>2. k > 0
            BY <2>1
          <5> QED
            BY <1>1, <2>3, <5>1, <5>2 DEF Knows
        <4>3. ASSUME NEW type \in ListTypes
              PROVE  Noted(a.receiver, type) = Named(s, type, k + 1)
          <5>1. Named(s, type, k + 1) =
                  IF m.body.type = type THEN Named(s, type, k) \cup ToSet(m.body.data) ELSE Named(s, type, k)
            BY <1>1, NamedNext
          <5>2. Noted(r, type) = Named(s, type, k)
            BY <4>2 DEF Tracks
          <5> QED
            BY <4>1, <5>1, <5>2
        <4>4. Tracks(a.receiver, s, k + 1)
          BY <4>1, <4>2, <4>3 DEF Tracks
        <4>5. ~ AtNext(a.receiver, s)
          <5>1. k # k + 1
            OBVIOUS
          <5> QED
            BY <1>1, <2>1, <4>1, <5>1 DEF AtNext
        <4> QED
          BY <1>1, <1>2, <4>4, <4>5 DEF Learns, Knows
      <3> QED
        BY <3>3, <3>4
    <2>4. CASE PastNext(r, s)
      <3>1. q = k + 1
        BY <1>1, <1>3, <2>1, <2>4 DEF PastNext
      <3>2. ~ ValidIdentifier(r, m)
        BY <1>1, <1>3, <3>1 DEF ValidIdentifier
      <3>3. a.receiver = r
        BY <1>4, <2>1, <3>2 DEF ListHandled
      <3>4. Tracks(r, s, s.next_message_id + 1)
        BY <1>1, <2>1, <2>2, <2>4 DEF Knows
      <3> QED
        BY <1>1, <1>2, <3>3, <3>4 DEF Learns
    <2> QED
      BY <2>3, <2>4
  <1>7. CASE m.body.type = "done"
    <2>1. a = IF ValidIdentifier(r, m) THEN Accepts(Applied(r)) ELSE WrongIdentifier(r)
      BY <1>2, <1>7, DoneStep
    <2>2. CASE ValidIdentifier(r, m)
      <3>1. a.receiver.current.sync_id = 0
        BY <2>1, <2>2 DEF Accepts, Answer, Applied, Sync
      <3>2. k # 0
        BY <1>1, <1>7
      <3>3. ~ AtNext(a.receiver, s)
        BY <1>1, <3>1, <3>2 DEF AtNext
      <3> QED
        BY <1>1, <1>2, <1>7, <3>3 DEF Learns, Knows
    <2>3. CASE ~ ValidIdentifier(r, m)
      BY <1>1, <1>2, <1>4, <1>7, <2>1, <2>3 DEF Learns
    <2> QED
      BY <2>2, <2>3
  <1> QED
    BY <1>5, <1>6, <1>7, MessageTypesOf

(* Done makes the farmer show what the messages of the sync say.           *)
LEMMA DoneApplied ==
    ASSUME NEW r \in Receivers, NEW s \in Senders, Queued(s), HasNextMessage(s),
           NextMessage(s).body.type = "done", AtNext(r, s), Knows(r, s), DoneIsLast(s),
           NEW t, t = Process(r, NextMessage(s)).receiver
    PROVE  /\ t.plots = ((IF s.messages[1].body.initial THEN {} ELSE r.plots) \cup All(s, "loaded"))
                           \ All(s, "removed")
           /\ t.invalid = All(s, "invalid") /\ t.keys_missing = All(s, "keys_missing")
           /\ t.duplicates = All(s, "duplicates")
  <1>1. PICK m \in Messages, k \in Nat, id \in Nat :
          /\ m = NextMessage(s) /\ k = s.next_message_id /\ id = s.sync_id /\ id # 0
          /\ m.sync_id = id /\ m.message_id = k /\ k # 0
          /\ k + 1 \in DOMAIN s.messages /\ m = s.messages[k + 1]
    BY NextFacts
  <1>2. r.current.sync_id = id /\ r.current.next_message_id = k
    BY <1>1 DEF AtNext
  <1>3. t = Applied(r)
    <2>1. ValidIdentifier(r, m)
      BY <1>1, <1>2 DEF ValidIdentifier
    <2>2. Process(r, m) = Accepts(Applied(r))
      BY <1>1, <2>1, DoneStep
    <2> QED
      BY <1>1, <2>2 DEF Accepts, Answer
  <1>4. Tracks(r, s, k)
    <2>1. ~ Refuses(r, s)
      BY DEF Refuses, ListTypes
    <2>2. k > 0
      BY <1>1
    <2> QED
      BY <1>1, <2>1, <2>2 DEF Knows
  <1>5. Len(s.messages) = k + 1
    BY <1>1 DEF DoneIsLast
  <1>6. ASSUME NEW type \in ListTypes
        PROVE  Noted(r, type) = All(s, type)
    <2>1. NextMessage(s).body.type # type
      BY DEF ListTypes
    <2>2. Named(s, type, k + 1) = Named(s, type, k)
      BY <1>1, <2>1, NamedNext
    <2> QED
      BY <1>4, <1>5, <2>2 DEF Tracks, All
  <1>7. /\ r.current.added = All(s, "loaded") /\ r.current.removed = All(s, "removed")
        /\ r.current.invalid = All(s, "invalid") /\ r.current.keys_missing = All(s, "keys_missing")
        /\ r.current.duplicates = All(s, "duplicates")
    BY <1>6 DEF Noted, Field, ListTypes
  <1>8. r.plots = IF s.messages[1].body.initial THEN {} ELSE r.plots
    BY <1>4 DEF Tracks
  <1> QED
    BY <1>3, <1>7, <1>8 DEF Applied

(* Until then the farmer's plots stay.                                     *)
LEMMA PlotsKept ==
    ASSUME NEW r \in Receivers, NEW m \in Messages, m.body.type # "done",
           ~ (m.body.type = "start" /\ m.body.initial)
    PROVE  Process(r, m).receiver.plots = r.plots
  <1>1. PICK a : a = Process(r, m)
    OBVIOUS
  <1>2. \A x : WrongIdentifier(x).receiver = x /\ Fails(x).receiver = x
    BY DEF WrongIdentifier, Fails, Answer
  <1>3. CASE m.body.type = "start"
    <2>1. StartHandled(r, m, a)
      BY <1>1, <1>3, StartStep
    <2> QED
      BY <1>1, <1>2, <2>1 DEF StartHandled, SameShown
  <1>4. CASE m.body.type \in ListTypes
    <2>1. ListHandled(r, m, a)
      BY <1>1, <1>4, ListStep
    <2> QED
      BY <1>1, <2>1 DEF ListHandled, SameShown
  <1> QED
    BY <1>3, <1>4, MessageTypesOf

------------------------------------------------------------------------------
(* Every step keeps what the messages say.                                 *)

(* The refresh thread's own steps.                                         *)
LEMMA ThreadDrop ==
    ASSUME Typed, ThreadOK, DropMissing
    PROVE  /\ ThreadOK'
           /\ ToSet(thread'.removed) = pm.plots \ thread.paths
           /\ pm'.plots = pm.plots \ ToSet(thread'.removed)
           /\ pm'.enabled = pm.enabled
           /\ thread'.pc \in {"batch", "done"}
  <1>1. pm \in PlotManagers /\ thread \in Threads /\ thread.pc = "drop"
    BY DEF Typed, DropMissing
  <1>2. PICK gone, rest :
          /\ gone = pm.plots \ thread.paths /\ rest = Batches(Sorted(thread.paths))
          /\ pm'.plots = pm.plots \ gone /\ pm'.initial = pm.initial /\ pm'.enabled = pm.enabled
          /\ thread'.removed = Sorted(gone) /\ thread'.batches = rest
          /\ thread'.paths = thread.paths /\ thread'.loaded = thread.loaded
          /\ thread'.pc = IF rest = <<>> THEN "done" ELSE "batch"
          /\ task' = task /\ disturbed' = disturbed
    BY <1>1 DEF DropMissing, PlotManagers, Threads
  <1>3. gone \in SUBSET Files /\ thread.paths \in SUBSET Files
    BY <1>1, <1>2 DEF PlotManagers, Threads
  <1>4. ToSet(Sorted(gone)) = gone /\ Sorted(thread.paths) \in Seq(Files)
        /\ ToSet(Sorted(thread.paths)) = thread.paths
    BY <1>3, SortedFacts
  <1>5. \A i \in DOMAIN rest : ToSet(rest[i]) \subseteq thread.paths
    <2>1. PICK files \in Seq(Files) : files = Sorted(thread.paths)
      BY <1>4
    <2>2. \A i \in DOMAIN Batches(files) : ToSet(Batches(files)[i]) \subseteq ToSet(files)
      BY BatchesFacts
    <2> QED
      BY <1>2, <1>4, <2>1, <2>2
  <1>6. InRefresh /\ thread'.pc \in {"batch", "done"}
    BY <1>1, <1>2 DEF InRefresh
  <1>7. ToSet(thread'.removed) \cap thread.paths = {}
    BY <1>2, <1>4
  <1>8. ThreadOK'
    BY <1>2, <1>5, <1>6, <1>7 DEF ThreadOK, InRefresh
  <1> QED
    BY <1>2, <1>4, <1>6, <1>8

LEMMA ThreadBatch ==
    ASSUME Typed, ThreadOK, RefreshBatch
    PROVE  /\ ThreadOK' /\ thread'.pc = "report" /\ thread'.removed = thread.removed
           /\ pm'.plots = pm.plots \cup ToSet(thread'.loaded)
           /\ pm'.enabled = pm.enabled
  <1>1. pm \in PlotManagers /\ thread \in Threads /\ thread.pc = "batch" /\ thread.batches # <<>>
        /\ task' = task /\ disturbed' = disturbed
    BY DEF Typed, RefreshBatch
  <1>2. PICK skip, good, new, broken, keyless :
              /\ good \subseteq ToSet(Head(thread.batches)) /\ good \subseteq Files
              /\ good \cap (pm.plots \cup pm.duplicates) = {}
              /\ broken \subseteq Files /\ keyless \subseteq Files /\ new \subseteq good
              /\ pm' = [pm EXCEPT !.plots = @ \cup new,
                                  !.duplicates = @ \cup (good \ new),
                                  !.failed = (@ \cup broken) \ new,
                                  !.no_key = (@ \cup keyless) \ good]
              /\ thread' = [thread EXCEPT !.pc = "report", !.loaded = Sorted(new)]
    BY BatchFacts
  <1>3. /\ pm'.plots = pm.plots \cup new /\ pm'.initial = pm.initial /\ pm'.enabled = pm.enabled
        /\ thread'.pc = "report" /\ thread'.loaded = Sorted(new) /\ thread'.removed = thread.removed
        /\ thread'.batches = thread.batches /\ thread'.paths = thread.paths
    BY <1>1, <1>2 DEF PlotManagers, Threads
  <1>4. ToSet(Sorted(new)) = new
    BY <1>2, SortedFacts
  <1>5. new \subseteq thread.paths
    <2>1. PICK b : b = thread.batches
      OBVIOUS
    <2>2. b \in Seq(Seq(Files)) /\ b # <<>>
      BY <1>1, <2>1 DEF Threads
    <2>3. Head(b) = b[1] /\ 1 \in DOMAIN b
      BY <2>2
    <2> QED
      BY <1>2, <2>1, <2>3 DEF ThreadOK
  <1>6. InRefresh /\ InRefresh'
    BY <1>1, <1>3 DEF InRefresh
  <1> QED
    BY <1>1, <1>3, <1>4, <1>5, <1>6 DEF ThreadOK

LEMMA IdleThread ==
    ASSUME NEW pc
    PROVE  /\ Idle(pc).pc = pc /\ Idle(pc).batches = <<>> /\ ToSet(Idle(pc).loaded) = {}
           /\ ToSet(Idle(pc).removed) = {}
  BY DEF Idle, ToSet

LEMMA ThreadKept ==
    ASSUME ThreadOK, pm'.plots = pm.plots, pm'.initial => pm.initial,
           \/ thread' = thread
           \/ thread' = [thread EXCEPT !.pc = "done"] /\ InRefresh /\ thread \in Threads
           \/ (\E pc \in {"dead", "sleep"} : thread' = Idle(pc)) /\ (~ InRefresh \/ ~ pm'.initial),
           task' = "reset" /\ InRefresh' => disturbed'
    PROVE  ThreadOK'
  <1>1. CASE thread' = thread
    BY <1>1 DEF ThreadOK, InRefresh
  <1>2. CASE thread' = [thread EXCEPT !.pc = "done"] /\ InRefresh /\ thread \in Threads
    <2>1. /\ thread'.paths = thread.paths /\ thread'.batches = thread.batches
          /\ thread'.loaded = thread.loaded /\ thread'.removed = thread.removed /\ thread'.pc = "done"
      BY <1>2 DEF Threads
    <2> QED
      BY <2>1 DEF ThreadOK, InRefresh
  <1>3. CASE (\E pc \in {"dead", "sleep"} : thread' = Idle(pc)) /\ (~ InRefresh \/ ~ pm'.initial)
    <2>1. PICK pc \in {"dead", "sleep"} : thread' = Idle(pc)
      BY <1>3
    <2>2. /\ thread'.pc \in {"dead", "sleep"} /\ thread'.batches = <<>>
          /\ ToSet(thread'.loaded) = {} /\ ToSet(thread'.removed) = {}
      BY <2>1, IdleThread
    <2>3. DOMAIN thread'.batches = {}
      BY <2>2
    <2>4. ~ InRefresh'
      BY <2>2 DEF InRefresh
    <2>5. pm'.initial => pm'.plots = {}
      BY <1>3 DEF ThreadOK
    <2> QED
      BY <2>2, <2>3, <2>4, <2>5 DEF ThreadOK
  <1> QED
    BY <1>1, <1>2, <1>3

LEMMA KnowingKept ==
    ASSUME Told, Knowing, UNCHANGED <<sender, task, connected, toHarvester, receiver>>
    PROVE  Told' /\ Knowing'
  BY DEF Told, Knowing

(* Outside a refresh only the plot manager's lists count.                  *)
LEMMA PromiseKept ==
    ASSUME Promise, ~ InRefresh, ~ InRefresh', UNCHANGED <<sender, task, connected, receiver, disturbed>>,
           pm'.initial \/ UNCHANGED pm
    PROVE  Promise'
  <1>1. CASE pm'.initial
    BY <1>1 DEF Promise
  <1>2. CASE UNCHANGED pm
    BY <1>2 DEF Promise, FarmerMatches, Reported, Before
  <1> QED
    BY <1>1, <1>2

LEMMA ContentIdle ==
    ASSUME Typed, Content,
           \/ \E f \in Files, state \in DiskStates : DiskChanges(f, state)
           \/ BeginRefresh \/ RefreshFails \/ ThreadExits \/ UNCHANGED vars
    PROVE  Content'
  <1>1. UNCHANGED <<sender, task, connected, toHarvester, receiver, disturbed>>
    BY DEF DiskChanges, BeginRefresh, RefreshFails, ThreadExits, vars, harvester, network
  <1>2. Told' /\ Knowing'
    BY <1>1, KnowingKept DEF Content
  <1>3. CASE (\E f \in Files, state \in DiskStates : DiskChanges(f, state)) \/ UNCHANGED vars
    <2>1. UNCHANGED <<pm, thread>>
      BY <1>3 DEF DiskChanges, vars, harvester
    <2>2. ThreadOK'
      BY <1>1, <2>1 DEF Content, ThreadOK, InRefresh
    <2>3. Promise'
      BY <1>1, <2>1 DEF Content, Promise, InRefresh, FarmerMatches, Reporting, Reported, Before
    <2> QED
      BY <1>2, <2>2, <2>3 DEF Content
  <1>4. CASE BeginRefresh
    <2>1. UNCHANGED pm /\ thread.pc = "sleep" /\ thread' = [Idle("start") EXCEPT !.paths = {f \in Files : disk[f] # "absent"}]
      BY <1>4 DEF BeginRefresh
    <2>2. /\ thread'.pc = "start" /\ thread'.batches = <<>>
          /\ thread'.loaded = <<>> /\ thread'.removed = <<>>
      BY <2>1 DEF Idle
    <2>3. DOMAIN thread'.batches = {} /\ ToSet(thread'.loaded) = {} /\ ToSet(thread'.removed) = {}
      BY <2>2 DEF ToSet
    <2>4. ~ InRefresh /\ ~ InRefresh'
      BY <2>1, <2>2 DEF InRefresh
    <2>5. ThreadOK'
      BY <1>1, <2>1, <2>3, <2>4 DEF Content, ThreadOK
    <2> QED
      BY <1>1, <1>2, <2>1, <2>4, <2>5, PromiseKept DEF Content
  <1>5. CASE RefreshFails
    <2>1. UNCHANGED thread /\ thread.pc = "sleep" /\ pm' = ResetPlotManager
      BY <1>5 DEF RefreshFails
    <2>2. pm'.plots = {} /\ pm'.initial
      BY <2>1 DEF ResetPlotManager, NewPlotManager
    <2>3. ~ InRefresh /\ ~ InRefresh'
      BY <2>1 DEF InRefresh
    <2>4. ThreadOK'
      BY <1>1, <2>1, <2>2, <2>3 DEF Content, ThreadOK
    <2> QED
      BY <1>1, <1>2, <2>2, <2>3, <2>4, PromiseKept DEF Content
  <1>6. CASE ThreadExits
    <2>1. UNCHANGED pm /\ thread.pc = "sleep" /\ thread' = Idle("dead")
      BY <1>6 DEF ThreadExits
    <2>2. ~ InRefresh /\ ~ InRefresh'
      BY <2>1, IdleThread DEF InRefresh
    <2>3. ThreadOK'
      BY <1>1, <2>1, <2>2, ThreadKept DEF Content
    <2> QED
      BY <1>1, <1>2, <2>1, <2>2, <2>3, PromiseKept DEF Content
  <1> QED
    BY <1>3, <1>4, <1>5, <1>6

(* A refresh reports to a sync of its own.                                 *)
LEMMA Refreshing ==
    ASSUME Protocol, Content, InRefresh, connected, task \in {"ready", "wait"}, ~ disturbed
    PROVE  SyncActive(sender) /\ Reporting(sender) /\ pm.enabled
  BY DEF Protocol, Links, Content, Promise

LEMMA ContentStarted ==
    ASSUME Typed, Protocol, Content, RefreshStarted
    PROVE  Content'
  <1>1. /\ thread \in Threads /\ pm \in PlotManagers /\ thread.pc = "start"
        /\ thread' = [thread EXCEPT !.pc = "drop"]
        /\ disturbed \in BOOLEAN
        /\ UNCHANGED <<pm, task, closing, connected, toHarvester, receiver>>
    BY DEF Typed, RefreshStarted, network
  <1>2. /\ thread'.paths = thread.paths /\ thread'.batches = thread.batches
        /\ thread'.loaded = thread.loaded /\ thread'.removed = thread.removed /\ thread'.pc = "drop"
    BY <1>1 DEF Threads
  <1>3. ~ InRefresh /\ InRefresh'
    BY <1>1, <1>2 DEF InRefresh
  <1>4. (disturbed => disturbed') /\ (task = "reset" => disturbed')
    BY DEF RefreshStarted
  <1>5. ThreadOK'
    BY <1>1, <1>2, <1>3, <1>4 DEF Content, ThreadOK
  <1>6. CASE ~ SyncActive(sender)
    <2>1. PICK now \in Time : sender' = SyncStart(sender, now, pm.initial)
      BY <1>6 DEF RefreshStarted
    <2>2. PICK s, t : s = sender /\ t = sender'
      OBVIOUS
    <2>3. now \in Nat /\ now > 0 /\ pm.initial \in BOOLEAN
      BY <1>1, TimeFacts DEF PlotManagers
    <2>4. /\ s \in Senders /\ s.messages = <<>> /\ s.next_message_id = 0 /\ task # "wait"
          /\ \A i \in DOMAIN toHarvester : toHarvester[i].expired
      BY <1>6, <2>2, InactiveFacts
    <2>5. /\ t \in Senders /\ Queued(t) /\ t.sync_id # 0 /\ t.next_message_id = 0 /\ Len(t.messages) = 1
          /\ t.messages[1].body.type = "start" /\ t.messages[1].body.initial = pm.initial
          /\ HasNextMessage(t)
      <3>1. LET u == SyncStart(s, now, pm.initial)
            IN /\ u \in Senders /\ Queued(u) /\ u.sync_id # 0 /\ u.next_message_id = 0
               /\ Len(u.messages) = 1 /\ HasNextMessage(u)
               /\ u.messages[1].body =
                     [type |-> "start", initial |-> pm.initial, last_sync_id |-> s.last_sync_id]
        BY <2>3, <2>4, SyncStartFacts
      <3> QED
        BY <2>1, <2>2, <3>1
    <2>6. Told'
      BY <1>1, <2>4 DEF Told
    <2>7. Knowing'
      <3> SUFFICES ASSUME connected, task \in {"ready", "wait"} PROVE Knows(receiver, t)
        BY <1>1, <2>2 DEF Knowing
      <3>1. receiver.current.sync_id = 0
        BY <1>6 DEF Protocol, InStep
      <3>2. NextMessage(t).body.type = "start"
        BY <2>5 DEF NextMessage
      <3>3. ~ PastNext(receiver, t)
        BY <2>5, <3>1, <3>2 DEF PastNext
      <3> QED
        BY <2>5, <3>3 DEF Knows
    <2>8. Promise'
      <3> SUFFICES ASSUME connected, task \in {"ready", "wait"}, ~ disturbed'
                   PROVE  Reporting(sender)'
        BY <1>1, <1>3, <2>2, <2>5 DEF Promise, SyncActive
      <3>1. pm.initial \/ FarmerMatches
        BY <1>4, <1>6 DEF Content, Promise
      <3>2. pm.initial => pm.plots = {}
        BY <1>3 DEF Content, ThreadOK
      <3>3. pm.plots = IF t.messages[1].body.initial THEN {} ELSE receiver.plots
        BY <2>5, <3>1, <3>2 DEF FarmerMatches
      <3>4. DOMAIN t.messages = {1}
        <4>1. t.messages \in Seq(Messages)
          BY <2>5 DEF Senders
        <4> QED
          BY <2>5, <4>1
      <3> QED
        BY <1>1, <1>2, <2>2, <2>5, <3>3, <3>4 DEF Reporting, Before
    <2> QED
      BY <1>5, <2>6, <2>7, <2>8 DEF Content
  <1>7. CASE SyncActive(sender)
    <2>1. closing # "no" /\ sender' = sender
      BY <1>7 DEF RefreshStarted
    <2>2. ~ connected /\ toHarvester = <<>>
      BY <2>1 DEF Protocol, Links
    <2> QED
      BY <1>1, <1>5, <2>2 DEF Content, Promise, Told, Knowing
  <1> QED
    BY <1>6, <1>7

LEMMA ContentDrop ==
    ASSUME Typed, Protocol, Content, DropMissing
    PROVE  Content'
  <1>1. /\ thread.pc = "drop"
        /\ UNCHANGED <<sender, task, connected, toHarvester, receiver, disturbed>>
    BY DEF DropMissing, network
  <1>2. InRefresh
    BY <1>1 DEF InRefresh
  <1>3. /\ ThreadOK' /\ pm'.plots = pm.plots \ ToSet(thread'.removed)
        /\ thread'.pc \in {"batch", "done"}
    BY ThreadDrop DEF Content
  <1>4. InRefresh'
    BY <1>3 DEF InRefresh
  <1>5. Told' /\ Knowing'
    BY <1>1, KnowingKept DEF Content
  <1>6. Promise'
    <2> SUFFICES ASSUME connected, task \in {"ready", "wait"}, ~ disturbed
                 PROVE  SyncActive(sender) /\ Reporting(sender)'
      BY <1>1, <1>4 DEF Promise
    <2>1. SyncActive(sender) /\ Reporting(sender)
      BY <1>2, Refreshing
    <2>2. Len(sender.messages) = 1 /\ pm.plots = Before(sender)
      BY <1>1, <2>1 DEF Reporting
    <2>3. All(sender, "loaded") = {}
      <3>1. Named(sender, "loaded", 1) = {}
        BY <2>1, NothingNamed DEF Typed, Protocol, SyncActive, ListTypes
      <3> QED
        BY <2>2, <3>1 DEF All
    <2>4. Before(sender)' = Before(sender)
      BY <1>1 DEF Before
    <2>5. pm'.plots = (Before(sender)' \cup All(sender, "loaded")) \ ToSet(thread'.removed)
      BY <1>3, <2>2, <2>3, <2>4
    <2> QED
      BY <1>1, <1>3, <2>1, <2>5 DEF Reporting
  <1> QED
    BY <1>3, <1>5, <1>6 DEF Content

LEMMA ContentBatch ==
    ASSUME Typed, Protocol, Content, RefreshBatch
    PROVE  Content'
  <1>1. /\ thread.pc = "batch"
        /\ UNCHANGED <<sender, task, connected, toHarvester, receiver, disturbed>>
    BY DEF RefreshBatch, network
  <1>2. InRefresh
    BY <1>1 DEF InRefresh
  <1>3. /\ ThreadOK' /\ thread'.pc = "report" /\ thread'.removed = thread.removed
        /\ pm'.plots = pm.plots \cup ToSet(thread'.loaded)
    BY ThreadBatch DEF Content
  <1>4. InRefresh'
    BY <1>3 DEF InRefresh
  <1>5. Told' /\ Knowing'
    BY <1>1, KnowingKept DEF Content
  <1>6. Promise'
    <2> SUFFICES ASSUME connected, task \in {"ready", "wait"}, ~ disturbed
                 PROVE  SyncActive(sender) /\ Reporting(sender)'
      BY <1>1, <1>4 DEF Promise
    <2>1. SyncActive(sender) /\ Reporting(sender)
      BY <1>2, Refreshing
    <2>2. Before(sender)' = Before(sender)
      BY <1>1 DEF Before
    <2>3. pm'.plots =
            ((Before(sender)' \cup All(sender, "loaded")) \ ToSet(thread'.removed)) \cup ToSet(thread'.loaded)
      BY <1>1, <1>3, <2>1, <2>2 DEF Reporting
    <2> QED
      BY <1>1, <1>3, <2>1, <2>3 DEF Reporting
  <1> QED
    BY <1>3, <1>5, <1>6 DEF Content

LEMMA ContentAbort ==
    ASSUME Typed, Protocol, Content, AbortRefresh
    PROVE  Content'
  <1>1. /\ thread.pc \in {"batch", "report"} /\ ~ pm.enabled /\ thread' = [thread EXCEPT !.pc = "done"]
        /\ UNCHANGED <<pm, sender, task, connected, toHarvester, receiver, disturbed>>
    BY DEF AbortRefresh, network
  <1>2. ~ connected
    BY <1>1 DEF Protocol, Links
  <1>3. InRefresh /\ thread \in Threads
    BY <1>1 DEF InRefresh, Typed
  <1>4. ThreadOK'
    BY <1>1, <1>3, ThreadKept DEF Content, ThreadOK
  <1> QED
    BY <1>1, <1>2, <1>4, KnowingKept DEF Content, Promise

(* What the receiver knows does not change when the thread queues more.    *)
LEMMA KnowingExtended ==
    ASSUME Typed, Protocol, Content, SyncActive(sender), NEW new \in Seq(Bodies),
           Extends(sender', sender, new), \A i \in 1 .. Len(new) : new[i].type # "start",
           UNCHANGED <<task, connected, toHarvester, receiver>>
    PROVE  Told' /\ Knowing'
  <1>1. PICK s, t : s = sender /\ t = sender'
    OBVIOUS
  <1>2. /\ s \in Senders /\ Queued(s) /\ s.sync_id # 0 /\ Extends(t, s, new)
    BY <1>1 DEF Typed, Protocol, SyncActive
  <1>3. /\ t.next_message_id = s.next_message_id /\ t.sync_id = s.sync_id
        /\ HasNextMessage(s) => NextMessage(t) = NextMessage(s)
    BY <1>2, ExtendsQueued DEF Extends
  <1>4. Knowing'
    <2> SUFFICES ASSUME connected, task \in {"ready", "wait"}
                 PROVE  Knows(receiver, t)
      BY <1>1 DEF Knowing
    <2>1. (AtNext(receiver, s) \/ PastNext(receiver, s)) /\ Knows(receiver, s)
      BY <1>1 DEF Protocol, InStep, Content, Knowing
    <2> QED
      BY <1>2, <2>1, KnowsExtended
  <1>5. Told'
    <2> SUFFICES ASSUME NEW i \in DOMAIN toHarvester, ~ toHarvester[i].expired,
                        toHarvester[i].error # "fatal", NextMessage(t).body.type # "done"
                 PROVE  Tracks(receiver, t, t.next_message_id + 1)
      BY <1>1 DEF Told
    <2>1. HasNextMessage(s)
      BY <1>1 DEF Protocol, OnTheWay, Links
    <2>2. Tracks(receiver, s, s.next_message_id + 1)
      BY <1>1, <1>3, <2>1 DEF Content, Told
    <2>3. s.next_message_id + 1 \in 0 .. Len(s.messages)
      <3>1. s.next_message_id + 1 \in 1 .. Len(s.messages)
        BY <1>2, <2>1, NextFacts
      <3> QED
        BY <3>1
    <2> QED
      BY <1>2, <1>3, <2>2, <2>3, TracksExtended
  <1> QED
    BY <1>4, <1>5

LEMMA ContentProcessed ==
    ASSUME Typed, Protocol, Content, BatchProcessed
    PROVE  Content'
  <1>1. /\ thread.pc = "report" /\ thread \in Threads /\ thread.batches # <<>> /\ sender \in Senders
        /\ UNCHANGED <<task, connected, toHarvester, receiver, disturbed>>
    BY DEF Typed, BatchProcessed, network
  <1>2. InRefresh
    BY <1>1 DEF InRefresh
  <1>3. CASE ReportsBatch(thread.loaded, Remaining) /\ ~ SyncActive(sender)
    <2>1. pm' = ResetPlotManager /\ thread' = Idle("sleep") /\ sender' = sender
      BY <1>3 DEF BatchProcessed
    <2>2. pm'.plots = {}
      BY <2>1 DEF ResetPlotManager, NewPlotManager
    <2>3. /\ thread'.pc = "sleep" /\ thread'.batches = <<>>
          /\ ToSet(thread'.loaded) = {} /\ ToSet(thread'.removed) = {}
      BY <2>1, IdleThread
    <2>4. DOMAIN thread'.batches = {} /\ ~ InRefresh'
      BY <2>3 DEF InRefresh
    <2>5. ThreadOK'
      BY <2>2, <2>3, <2>4 DEF ThreadOK
    <2>6. ~ (connected /\ task \in {"ready", "wait"} /\ ~ disturbed)
      BY <1>2, <1>3, Refreshing
    <2>7. Promise'
      BY <1>1, <2>6 DEF Promise
    <2>8. Told' /\ Knowing'
      BY <1>1, <2>1, KnowingKept DEF Content
    <2> QED
      BY <2>5, <2>7, <2>8 DEF Content
  <1>4. CASE ~ (ReportsBatch(thread.loaded, Remaining) /\ ~ SyncActive(sender))
    <2>1. /\ sender' = ProcessBatch(sender, thread.loaded, Remaining) /\ pm' = pm
          /\ thread' = [thread EXCEPT !.pc = IF Remaining = 0 THEN "done" ELSE "batch",
                                      !.batches = Tail(@), !.loaded = <<>>]
      BY <1>4 DEF BatchProcessed
    <2>2. /\ thread'.pc \in {"done", "batch"} /\ thread'.batches = Tail(thread.batches)
          /\ thread'.loaded = <<>> /\ thread'.removed = thread.removed /\ thread'.paths = thread.paths
      BY <1>1, <2>1 DEF Threads
    <2>3. InRefresh'
      BY <2>2 DEF InRefresh
    <2>4. ThreadOK'
      <3>1. PICK b : b = thread.batches
        OBVIOUS
      <3>2. b \in Seq(Seq(Files)) /\ b # <<>>
        BY <1>1, <3>1 DEF Threads
      <3>3. \A i \in DOMAIN Tail(b) : i + 1 \in DOMAIN b /\ Tail(b)[i] = b[i + 1]
        BY <3>2
      <3>4. \A i \in DOMAIN thread'.batches : ToSet(thread'.batches[i]) \subseteq thread.paths
        BY <2>2, <3>1, <3>3 DEF Content, ThreadOK
      <3>5. ToSet(thread'.loaded) = {}
        BY <2>2 DEF ToSet
      <3> QED
        BY <1>1, <1>2, <2>1, <2>2, <2>3, <3>4, <3>5 DEF Content, ThreadOK
    <2>5. PICK s, t : s = sender /\ t = sender'
      OBVIOUS
    <2>6. PICK loaded \in Seq(Files), remaining \in Nat :
            loaded = thread.loaded /\ remaining = Remaining /\ t = ProcessBatch(s, loaded, remaining)
      <3>1. thread.loaded \in Seq(Files) /\ thread.batches \in Seq(Seq(Files))
        BY <1>1 DEF Threads
      <3>2. Remaining \in Nat
        BY <3>1 DEF Remaining
      <3> QED
        BY <2>1, <2>5, <3>1, <3>2
    <2>7. CASE t = s /\ ToSet(loaded) = {}
      <3>1. Told' /\ Knowing'
        BY <1>1, <2>5, <2>7, KnowingKept DEF Content
      <3>2. Promise'
        <4> SUFFICES ASSUME connected, task \in {"ready", "wait"}, ~ disturbed
                     PROVE  SyncActive(sender) /\ Reporting(sender)'
          BY <1>1, <2>3, <2>5, <2>7 DEF Promise
        <4>1. SyncActive(sender) /\ Reporting(sender)
          BY <1>2, Refreshing
        <4>2. Before(sender)' = Before(sender)
          BY <1>1, <2>5, <2>7 DEF Before
        <4>3. pm.plots = (Before(sender)' \cup All(sender, "loaded")) \ ToSet(thread'.removed)
          BY <1>1, <2>2, <2>6, <2>7, <4>1, <4>2 DEF Reporting
        <4> QED
          BY <2>1, <2>2, <2>5, <2>7, <4>1, <4>3 DEF Reporting
      <3> QED
        BY <2>4, <3>1, <3>2 DEF Content
    <2>8. CASE t # s \/ ToSet(loaded) # {}
      <3>1. PICK new \in Seq(Bodies) :
              /\ Extends(t, s, new) /\ Lists(new, "loaded") = ToSet(loaded)
              /\ \A i \in 1 .. Len(new) : new[i].type = "loaded"
        BY <1>1, <2>5, <2>6, <2>8, ProcessBatchFacts
      <3>2. SyncActive(s)
        <4>1. ReportsBatch(loaded, remaining)
          BY <2>6, <2>8, ProcessBatchFacts DEF ProcessBatch, ReportsBatch, ToSet
        <4> QED
          BY <1>4, <2>5, <2>6, <4>1
      <3>3. \A i \in 1 .. Len(new) : new[i].type # "start"
        BY <3>1
      <3>4. Told' /\ Knowing'
        BY <1>1, <2>5, <3>1, <3>2, <3>3, KnowingExtended
      <3>5. Promise'
        <4> SUFFICES ASSUME connected, task \in {"ready", "wait"}, ~ disturbed
                     PROVE  SyncActive(t) /\ Reporting(sender)'
          BY <1>1, <2>3, <2>5 DEF Promise
        <4>1. Reporting(s)
          BY <1>2, <2>5, Refreshing
        <4>2. SyncActive(t) /\ s \in Senders /\ t \in Senders /\ Queued(s) /\ s.sync_id # 0
          BY <1>1, <2>5, <3>1, <3>2 DEF Extends, SyncActive, Protocol
        <4>3. t.messages[1] = s.messages[1]
          BY <3>1, <3>3, <4>2, ExtendsQueued
        <4>4. Before(t)' = Before(s)
          BY <1>1, <4>3 DEF Before
        <4>5. All(t, "loaded") = All(s, "loaded") \cup ToSet(loaded)
          BY <3>1, <4>2, ExtendsNamed
        <4>6. ToSet(loaded) \cap ToSet(thread.removed) = {}
          BY <2>6 DEF Content, ThreadOK
        <4>7. pm.plots = (Before(t)' \cup All(t, "loaded")) \ ToSet(thread'.removed)
          BY <1>1, <2>2, <2>6, <4>1, <4>4, <4>5, <4>6 DEF Reporting
        <4>8. ASSUME NEW i \in DOMAIN t.messages
              PROVE  t.messages[i].body.type \in {"start", "loaded"}
          <5>1. PICK n \in Nat, k \in Nat : /\ n = Len(s.messages) /\ k = Len(new)
                                            /\ DOMAIN s.messages = 1 .. n /\ DOMAIN t.messages = 1 .. (n + k)
            <6>1. s.messages \in Seq(Messages) /\ t.messages \in Seq(Messages)
              BY <4>2 DEF Senders
            <6> QED
              BY <3>1, <6>1 DEF Extends
          <5>2. CASE i <= n
            BY <3>1, <4>1, <5>1, <5>2 DEF Extends, Reporting
          <5>3. CASE i > n
            <6>1. PICK j \in 1 .. k : i = n + j
              <7>1. i - n \in 1 .. k /\ i = n + (i - n)
                BY <5>1, <5>3
              <7> QED
                BY <7>1
            <6>2. t.messages[n + j] =
                    [sync_id |-> s.sync_id, message_id |-> n + j - 1, body |-> new[j]]
              BY <3>1, <5>1 DEF Extends
            <6>3. t.messages[i].body = new[j]
              BY <6>1, <6>2
            <6> QED
              BY <3>1, <5>1, <6>3
          <5> QED
            BY <5>1, <5>2, <5>3
        <4> QED
          BY <2>1, <2>2, <2>5, <4>2, <4>7, <4>8 DEF Reporting
      <3> QED
        BY <2>4, <3>4, <3>5 DEF Content
    <2> QED
      BY <2>7, <2>8
  <1> QED
    BY <1>3, <1>4

(* A sender that reports only loads names nothing else.                    *)
LEMMA OnlyLoaded ==
    ASSUME NEW s, \A i \in DOMAIN s.messages : s.messages[i].body.type \in {"start", "loaded"},
           NEW type \in ListTypes \ {"loaded"}
    PROVE  All(s, type) = {}
  BY DEF All, Named, ListTypes

LEMMA ContentDone ==
    ASSUME Typed, Protocol, Content, RefreshDone
    PROVE  Content'
  <1>1. /\ thread.pc = "done" /\ thread' = Idle("sleep") /\ thread \in Threads /\ pm \in PlotManagers
        /\ sender \in Senders /\ Queued(sender)
        /\ UNCHANGED <<task, connected, toHarvester, receiver, disturbed>>
    BY DEF Typed, Protocol, RefreshDone, network
  <1>2. InRefresh
    BY <1>1 DEF InRefresh
  <1>3. /\ thread'.pc = "sleep" /\ thread'.batches = <<>>
        /\ ToSet(thread'.loaded) = {} /\ ToSet(thread'.removed) = {}
    BY <1>1, IdleThread
  <1>4. DOMAIN thread'.batches = {} /\ ~ InRefresh'
    BY <1>3 DEF InRefresh
  <1>5. CASE pm.enabled /\ ~ SyncActive(sender)
    <2>1. pm' = ResetPlotManager /\ sender' = sender
      BY <1>5 DEF RefreshDone
    <2>2. pm'.plots = {}
      BY <2>1 DEF ResetPlotManager, NewPlotManager
    <2>3. ThreadOK'
      BY <1>3, <1>4, <2>2 DEF ThreadOK
    <2>4. ~ (connected /\ task \in {"ready", "wait"} /\ ~ disturbed)
      BY <1>2, <1>5, Refreshing
    <2> QED
      BY <1>1, <2>1, <2>3, <2>4, KnowingKept DEF Content, Promise
  <1>6. CASE ~ (pm.enabled /\ ~ SyncActive(sender))
    <2>1. /\ pm' = [pm EXCEPT !.initial = FALSE]
          /\ sender' = IF pm.enabled THEN FinishSync(sender, thread.removed, pm) ELSE sender
      BY <1>6 DEF RefreshDone
    <2>2. /\ ~ pm'.initial /\ pm'.plots = pm.plots /\ pm'.failed = pm.failed /\ pm'.no_key = pm.no_key
          /\ pm'.duplicates = pm.duplicates
      BY <1>1, <2>1 DEF PlotManagers
    <2>3. ThreadOK'
      BY <1>3, <1>4, <2>2 DEF ThreadOK
    <2>4. CASE ~ pm.enabled
      <3>1. sender' = sender /\ ~ connected
        BY <2>1, <2>4 DEF Protocol, Links
      <3> QED
        BY <1>1, <2>3, <3>1, KnowingKept DEF Content, Promise
    <2>5. CASE pm.enabled
      <3>1. PICK s, t, removed, new :
              /\ s = sender /\ t = sender' /\ removed = thread.removed /\ t = FinishSync(s, removed, pm)
              /\ new = FinishBodies(removed, pm) /\ removed \in Seq(Files)
        BY <1>1, <2>1, <2>5 DEF Threads
      <3>2. s \in Senders /\ Queued(s) /\ s.sync_id # 0 /\ SyncActive(s)
        BY <1>1, <1>6, <2>5, <3>1 DEF SyncActive
      <3>3. /\ Extends(t, s, new) /\ t \in Senders /\ Queued(t) /\ t.messages[1] = s.messages[1]
            /\ HasNextMessage(t) /\ (HasNextMessage(s) => NextMessage(t) = NextMessage(s))
            /\ (\A i \in 1 .. Len(s.messages) : s.messages[i].body.type # "done") => DoneIsLast(t)
            /\ All(t, "loaded") = All(s, "loaded")
            /\ All(t, "removed") = All(s, "removed") \cup ToSet(removed)
            /\ All(t, "invalid") = All(s, "invalid") \cup pm.failed
            /\ All(t, "keys_missing") = All(s, "keys_missing") \cup pm.no_key
            /\ All(t, "duplicates") = All(s, "duplicates") \cup pm.duplicates
        BY <1>1, <3>1, <3>2, FinishFacts
      <3>4. new \in Seq(Bodies) /\ \A i \in 1 .. Len(new) : new[i].type # "start"
        BY <1>1, <3>1, FinishBodiesFacts
      <3>5. Told' /\ Knowing'
        BY <1>1, <3>1, <3>2, <3>3, <3>4, KnowingExtended
      <3>6. Promise'
        <4> SUFFICES ASSUME connected, task \in {"ready", "wait"}, ~ disturbed
                     PROVE  /\ DoneIsLast(t) /\ Reported(sender)'
                            /\ ~ (PastNext(receiver, t) /\ NextMessage(t).body.type = "done")
          <5>1. SyncActive(t)
            BY <3>2, <3>3 DEF Extends, SyncActive
          <5> QED
            BY <1>1, <1>4, <3>1, <5>1 DEF Promise
        <4>1. Reporting(s)
          BY <1>2, <3>1, Refreshing
        <4>2. \A i \in DOMAIN s.messages : s.messages[i].body.type \in {"start", "loaded"}
          BY <4>1 DEF Reporting
        <4>3. PICK n \in Nat, k \in Nat : /\ n = Len(s.messages) /\ k = s.next_message_id /\ k <= n /\ n > 0
                                          /\ DOMAIN s.messages = 1 .. n
          <5>1. s.messages \in Seq(Messages) /\ s.messages # <<>> /\ s.next_message_id \in Nat
                /\ s.next_message_id <= Len(s.messages)
            BY <3>2 DEF Senders, Queued
          <5>2. Len(s.messages) \in Nat /\ Len(s.messages) > 0 /\ DOMAIN s.messages = 1 .. Len(s.messages)
            BY <5>1
          <5> QED
            BY <5>1, <5>2
        <4>4. DoneIsLast(t)
          BY <3>3, <4>2, <4>3
        <4>5. Reported(sender)'
          <5>1. \A type \in ListTypes \ {"loaded"} : All(s, type) = {}
            BY <4>2, OnlyLoaded
          <5>2. All(s, "removed") = {} /\ All(s, "invalid") = {} /\ All(s, "keys_missing") = {}
                /\ All(s, "duplicates") = {}
            BY <5>1 DEF ListTypes
          <5>3. Before(t)' = Before(s)
            BY <1>1, <3>3 DEF Before
          <5>4. pm.plots = (Before(s) \cup All(s, "loaded")) \ ToSet(removed)
            BY <1>1, <3>1, <4>1 DEF Reporting
          <5>5. pm'.plots = (Before(t)' \cup All(t, "loaded")) \ All(t, "removed")
            BY <2>2, <3>3, <5>2, <5>3, <5>4
          <5>6. /\ pm'.failed = All(t, "invalid") /\ pm'.no_key = All(t, "keys_missing")
                /\ pm'.duplicates = All(t, "duplicates")
            BY <2>2, <3>3, <5>2
          <5> QED
            BY <3>1, <5>5, <5>6 DEF Reported
        <4>6. ~ (PastNext(receiver, t) /\ NextMessage(t).body.type = "done")
          <5>1. CASE HasNextMessage(s)
            <6>1. NextMessage(s).body.type \in {"start", "loaded"}
              BY <3>2, <4>2, <5>1, NextFacts
            <6> QED
              BY <3>3, <5>1, <6>1
          <5>2. CASE ~ HasNextMessage(s)
            <6>1. k = n
              BY <3>2, <4>3, <5>2 DEF HasNextMessage
            <6>2. AtNext(receiver, s)
              BY <3>1, <3>2, <5>2 DEF Protocol, InStep, PastNext
            <6>3. AtNext(receiver, t) /\ t.sync_id # 0 /\ t.next_message_id # 0
              BY <3>2, <3>3, <4>3, <6>1, <6>2 DEF AtNext, Extends
            <6> QED
              BY <3>3, <6>3, Exclusive
          <5> QED
            BY <5>1, <5>2
        <4> QED
          BY <4>4, <4>5, <4>6
      <3> QED
        BY <2>3, <3>5, <3>6 DEF Content
    <2> QED
      BY <2>4, <2>5
  <1> QED
    BY <1>5, <1>6

(* A sync of everything starts the receiver anew.                          *)
LEMMA Restarted ==
    ASSUME NEW s \in Senders, s.messages = <<>>, s.next_message_id = 0,
           NEW now \in Nat, now > 0, NEW p \in PlotManagers, NEW t, t = Rebuilt(s, now, p)
    PROVE  /\ SyncActive(t) /\ DoneIsLast(t) /\ t.messages[1].body.initial
           /\ NextMessage(t).body.type = "start" /\ \A r : Knows(r, t)
           /\ p.plots = ({} \cup All(t, "loaded")) \ All(t, "removed")
           /\ p.failed = All(t, "invalid") /\ p.no_key = All(t, "keys_missing")
           /\ p.duplicates = All(t, "duplicates")
  <1>1. /\ t \in Senders /\ Queued(t) /\ t.sync_id # 0 /\ t.next_message_id = 0 /\ HasNextMessage(t)
        /\ t.messages[1].body.initial /\ DoneIsLast(t)
        /\ All(t, "loaded") = p.plots /\ All(t, "removed") = {}
        /\ All(t, "invalid") = p.failed /\ All(t, "keys_missing") = p.no_key
        /\ All(t, "duplicates") = p.duplicates
    BY RebuiltFacts
  <1>2. NextMessage(t).body.type = "start"
    BY <1>1, NextFacts
  <1>3. Restarts(t)
    BY <1>1 DEF Restarts
  <1>4. \A r : Knows(r, t)
    BY <1>1, <1>3 DEF Knows
  <1> QED
    BY <1>1, <1>2, <1>4 DEF SyncActive

LEMMA ContentRebuilds ==
    ASSUME Typed, Protocol, Content, ResetRebuilds
    PROVE  Content'
  <1>1. /\ task = "reset" /\ ~ SyncActive(sender) /\ task' = "ready" /\ pm \in PlotManagers
        /\ disturbed' = InRefresh
        /\ UNCHANGED <<pm, thread, connected, toHarvester, receiver>>
    BY DEF Typed, ResetRebuilds, network
  <1>2. PICK now \in Time : sender' = Rebuilt(sender, now, pm)
    BY DEF ResetRebuilds
  <1>3. PICK s, t : s = sender /\ t = sender'
    OBVIOUS
  <1>4. now \in Nat /\ now > 0
    BY TimeFacts
  <1>5. s \in Senders /\ s.messages = <<>> /\ s.next_message_id = 0
    BY <1>1, <1>3, InactiveFacts
  <1>6. /\ SyncActive(t) /\ DoneIsLast(t) /\ t.messages[1].body.initial
        /\ NextMessage(t).body.type = "start" /\ \A r : Knows(r, t)
        /\ pm.plots = ({} \cup All(t, "loaded")) \ All(t, "removed")
        /\ pm.failed = All(t, "invalid") /\ pm.no_key = All(t, "keys_missing")
        /\ pm.duplicates = All(t, "duplicates")
    BY <1>1, <1>2, <1>3, <1>4, <1>5, Restarted
  <1>7. ThreadOK'
    BY <1>1 DEF Content, ThreadOK, InRefresh
  <1>8. Told'
    <2>1. toHarvester = <<>>
      BY <1>1 DEF Protocol, Links
    <2> QED
      BY <1>1, <2>1 DEF Told
  <1>9. Knowing'
    BY <1>3, <1>6 DEF Knowing
  <1>10. Promise'
    <2> SUFFICES ASSUME ~ disturbed'
                 PROVE  ~ InRefresh' /\ DoneIsLast(t) /\ Reported(sender)'
      BY <1>3, <1>6 DEF Promise
    <2>1. ~ InRefresh'
      BY <1>1 DEF InRefresh
    <2>2. Before(t)' = {}
      BY <1>6 DEF Before
    <2>3. Reported(sender)'
      BY <1>1, <1>3, <1>6, <2>2 DEF Reported
    <2> QED
      BY <1>6, <2>1, <2>3
  <1> QED
    BY <1>7, <1>8, <1>9, <1>10 DEF Content

(* A reset leaves nothing that counts.                                     *)
LEMMA ContentReset ==
    ASSUME ThreadOK, Reset, UNCHANGED <<pm, thread>>, \A i \in DOMAIN toHarvester' : toHarvester'[i].expired
    PROVE  Content'
  <1>1. task' = "reset" /\ (InRefresh => disturbed')
    BY DEF Reset
  <1>2. ThreadOK'
    BY <1>1 DEF ThreadOK, InRefresh
  <1> QED
    BY <1>1, <1>2 DEF Content, Promise, Told, Knowing

LEMMA ContentSend ==
    ASSUME Typed, Protocol, Content, SendNextMessage
    PROVE  Content'
  <1>1. /\ task = "ready" /\ UNCHANGED <<pm, thread, connected, toHarvester, receiver>>
    BY DEF SendNextMessage
  <1>2. \A i \in DOMAIN toHarvester : toHarvester[i].expired
    BY <1>1 DEF Protocol, OnTheWay
  <1>3. CASE ValidGenerator(sender) /\ connected
    <2>1. task' = "wait" /\ UNCHANGED <<sender, disturbed>>
      BY <1>3 DEF SendNextMessage
    <2>2. ThreadOK'
      BY <1>1, <2>1 DEF Content, ThreadOK, InRefresh
    <2>3. Promise'
      BY <1>1, <2>1 DEF Content, Promise, InRefresh, FarmerMatches, Reporting, Reported, Before
    <2>4. Told'
      BY <1>1, <1>2 DEF Told
    <2>5. Knowing'
      BY <1>1, <2>1 DEF Content, Knowing
    <2> QED
      BY <2>2, <2>3, <2>4, <2>5 DEF Content
  <1>4. CASE ~ (ValidGenerator(sender) /\ connected)
    <2>1. Reset
      BY <1>4 DEF SendNextMessage
    <2>2. \A i \in DOMAIN toHarvester' : toHarvester'[i].expired
      BY <1>1, <1>2
    <2> QED
      BY <1>1, <2>1, <2>2, ContentReset DEF Content
  <1> QED
    BY <1>3, <1>4

LEMMA ContentTimeout ==
    ASSUME Typed, Protocol, Content, Timeout
    PROVE  Content'
  <1>1. /\ task = "wait" /\ task' = "ready" /\ toHarvester' = Expire(toHarvester)
        /\ toHarvester \in Seq(Responses)
        /\ UNCHANGED <<pm, thread, sender, connected, receiver, disturbed>>
    BY DEF Timeout, Typed
  <1>2. ThreadOK'
    BY <1>1 DEF Content, ThreadOK, InRefresh
  <1>3. Promise'
    BY <1>1 DEF Content, Promise, InRefresh, FarmerMatches, Reporting, Reported, Before
  <1>4. Told'
    <2>1. \A x \in Responses : [x EXCEPT !.expired = TRUE] \in Responses /\ [x EXCEPT !.expired = TRUE].expired
      BY DEF Responses
    <2>2. /\ DOMAIN toHarvester' = 1 .. Len(toHarvester)
          /\ \A i \in 1 .. Len(toHarvester) : toHarvester'[i] = [toHarvester[i] EXCEPT !.expired = TRUE]
      BY <1>1, <2>1, ExpireFacts
    <2>3. \A i \in 1 .. Len(toHarvester) : toHarvester[i] \in Responses
      BY <1>1
    <2>4. \A i \in DOMAIN toHarvester' : toHarvester'[i].expired
      BY <2>1, <2>2, <2>3
    <2> QED
      BY <2>4 DEF Told
  <1>5. Knowing'
    BY <1>1 DEF Content, Knowing
  <1> QED
    BY <1>2, <1>3, <1>4, <1>5 DEF Content

LEMMA ContentHandshake ==
    ASSUME Typed, Protocol, Content, Handshake
    PROVE  Content'
  <1>1. /\ task = "none" /\ thread.pc = "dead" /\ task' = "ready" /\ pm \in PlotManagers
        /\ pm' = [pm EXCEPT !.enabled = TRUE] /\ thread' = Idle("sleep")
        /\ toHarvester' = toHarvester
    BY DEF Typed, Handshake
  <1>2. sender = NewSender /\ toHarvester = <<>>
    BY <1>1 DEF Protocol, Links
  <1>3. PICK now \in Time : sender' = Started(sender, now)
    BY DEF Handshake
  <1>4. now \in Nat /\ now > 0
    BY TimeFacts
  <1>5. /\ pm'.initial = pm.initial /\ pm'.plots = pm.plots /\ pm'.failed = pm.failed
        /\ pm'.no_key = pm.no_key /\ pm'.duplicates = pm.duplicates
    BY <1>1 DEF PlotManagers
  <1>6. ~ InRefresh /\ ~ InRefresh'
    BY <1>1, IdleThread DEF InRefresh
  <1>7. ThreadOK'
    BY <1>1, <1>5, <1>6, ThreadKept DEF Content
  <1>8. Told'
    BY <1>1, <1>2 DEF Told
  <1>9. PICK t : t = sender'
    OBVIOUS
  <1>10. CASE pm.initial
    <2>1. t = NewSender
      BY <1>2, <1>3, <1>9, <1>10, SenderFacts DEF Started, SyncActive
    <2>2. ~ SyncActive(t)
      BY <2>1, SenderFacts DEF SyncActive
    <2> QED
      BY <1>5, <1>6, <1>7, <1>8, <1>9, <1>10, <2>2 DEF Content, Promise, Knowing
  <1>11. CASE ~ pm.initial
    <2>1. t = Rebuilt(NewSender, now, pm)
      BY <1>2, <1>3, <1>9, <1>11 DEF Started, Cleared
    <2>2. /\ SyncActive(t) /\ DoneIsLast(t) /\ t.messages[1].body.initial
          /\ NextMessage(t).body.type = "start" /\ \A r : Knows(r, t)
          /\ pm.plots = ({} \cup All(t, "loaded")) \ All(t, "removed")
          /\ pm.failed = All(t, "invalid") /\ pm.no_key = All(t, "keys_missing")
          /\ pm.duplicates = All(t, "duplicates")
      BY <1>1, <1>4, <2>1, SenderFacts, Restarted
    <2>3. Knowing'
      BY <1>9, <2>2 DEF Knowing
    <2>4. Before(t)' = {}
      BY <2>2 DEF Before
    <2>5. Reported(sender)'
      BY <1>5, <1>9, <2>2, <2>4 DEF Reported
    <2>6. Promise'
      BY <1>6, <1>9, <2>2, <2>5 DEF Promise
    <2> QED
      BY <1>7, <1>8, <2>3, <2>6 DEF Content
  <1> QED
    BY <1>10, <1>11

LEMMA ContentClose ==
    ASSUME Typed, Protocol, Content, ConnectionCloses \/ OnDisconnect \/ ThreadJoined \/ AwaitClosed
    PROVE  Content'
  <1>1. ThreadOK'
    <2>1. /\ thread' = thread /\ disturbed' = disturbed /\ (task' = task \/ task' = "none")
          /\ pm' = pm \/ pm' = [pm EXCEPT !.enabled = FALSE]
      BY DEF ConnectionCloses, OnDisconnect, ThreadJoined, AwaitClosed, harvester
    <2>2. pm'.plots = pm.plots /\ pm'.initial = pm.initial
      BY <2>1 DEF Typed, PlotManagers
    <2> QED
      BY <2>1, <2>2 DEF Content, ThreadOK, InRefresh
  <1>2. ~ connected' /\ toHarvester' = <<>>
    <2>1. CASE ConnectionCloses
      BY <2>1 DEF ConnectionCloses
    <2>2. CASE OnDisconnect \/ ThreadJoined \/ AwaitClosed
      <3>1. ~ connected /\ UNCHANGED <<connected, toHarvester>>
        BY <2>2 DEF OnDisconnect, ThreadJoined, AwaitClosed, network, Protocol, Links
      <3> QED
        BY <3>1 DEF Protocol, Links
    <2> QED
      BY <2>1, <2>2
  <1> QED
    BY <1>1, <1>2 DEF Content, Promise, Told, Knowing

LEMMA ContentFarmer ==
    ASSUME Typed, Protocol, Content, FarmerReceives
    PROVE  Content'
  <1>1. /\ connected /\ toFarmer # <<>> /\ toFarmer \in Seq(Parcels) /\ toHarvester \in Seq(Responses)
        /\ receiver \in Receivers /\ sender \in Senders
        /\ UNCHANGED <<pm, thread, sender, task, connected, disturbed>>
    BY DEF FarmerReceives, Typed, harvester
  <1>2. PICK p : p = Head(toFarmer) /\ p = toFarmer[1] /\ 1 \in DOMAIN toFarmer
    BY <1>1
  <1>3. HasNextMessage(sender) /\ p.message = NextMessage(sender)
    BY <1>2 DEF Protocol, OnTheWay
  <1>4. task \in {"ready", "wait"} /\ SyncActive(sender)
    BY <1>1, <1>3 DEF Protocol, Links, Typed, HasNextMessage
  <1>5. PICK s, r, t, a : /\ s = sender /\ r = receiver /\ t = receiver' /\ a = Process(r, NextMessage(s))
                          /\ t = a.receiver
    BY <1>2, <1>3 DEF FarmerReceives
  <1>6. /\ r \in Receivers /\ ReceiverOK(r) /\ s \in Senders /\ Queued(s) /\ HasNextMessage(s)
        /\ AtNext(r, s) \/ PastNext(r, s)
        /\ Knows(r, s)
    BY <1>1, <1>3, <1>4, <1>5 DEF Protocol, InStep, Content, Knowing
  <1>7. Learns(s, a)
    BY <1>5, <1>6, ProcessKnows
  <1>8. Advances(r, s, a)
    BY <1>5, <1>6, ProcessNext
  <1>9. ThreadOK'
    BY <1>1 DEF Content, ThreadOK, InRefresh
  <1>10. Knowing'
    BY <1>1, <1>5, <1>7 DEF Knowing, Learns
  <1>11. Told'
    <2>1. PICK x : /\ x.error = a.error /\ x.expired = p.expired /\ toHarvester' = Append(toHarvester, x)
      BY <1>2, <1>3, <1>5 DEF FarmerReceives
    <2>2. PICK k \in Nat : k = Len(toHarvester) /\ DOMAIN toHarvester = 1 .. k
      BY <1>1
    <2>3. /\ DOMAIN toHarvester' = 1 .. (k + 1)
          /\ \A i \in 1 .. k : toHarvester'[i] = toHarvester[i]
          /\ toHarvester'[k + 1] = x
      BY <1>1, <2>1, <2>2
    <2>4. \A i \in 1 .. k : toHarvester[i].expired
      BY <1>1, <2>2 DEF Protocol, OnTheWay
    <2> SUFFICES ASSUME NEW i \in 1 .. (k + 1), ~ toHarvester'[i].expired, toHarvester'[i].error # "fatal",
                        NextMessage(s).body.type # "done"
                 PROVE  Tracks(t, s, s.next_message_id + 1)
      BY <1>1, <1>5, <2>3 DEF Told
    <2>5. i = k + 1
      <3>1. ~ (i \in 1 .. k)
        BY <2>3, <2>4
      <3> QED
        BY <3>1
    <2> QED
      BY <1>5, <1>7, <2>1, <2>3, <2>5 DEF Learns
  <1>12. Promise'
    <2> SUFFICES ASSUME ~ disturbed
                 PROVE  IF InRefresh THEN Reporting(sender)'
                        ELSE /\ DoneIsLast(s)
                             /\ \/ pm.initial
                                \/ IF PastNext(t, s) /\ NextMessage(s).body.type = "done"
                                   THEN FarmerMatches' ELSE Reported(sender)'
      BY <1>1, <1>4, <1>5 DEF Promise, InRefresh
    <2>1. NextMessage(s).body.type # "done" => Before(s)' = Before(s)
      <3> SUFFICES ASSUME NextMessage(s).body.type # "done", ~ s.messages[1].body.initial
                   PROVE  t.plots = r.plots
        BY <1>5 DEF Before
      <3>1. NextMessage(s) \in Messages
            /\ ~ (NextMessage(s).body.type = "start" /\ NextMessage(s).body.initial)
        BY <1>6, NextFacts
      <3> QED
        BY <1>5, <1>6, <3>1, PlotsKept
    <2>2. CASE InRefresh
      <3>1. Reporting(s)
        BY <1>1, <1>4, <1>5, <2>2, Refreshing
      <3>2. NextMessage(s).body.type # "done"
        <4>1. NextMessage(s).body.type \in {"start", "loaded"}
          BY <1>6, <3>1, NextFacts DEF Reporting
        <4> QED
          BY <4>1
      <3> QED
        BY <1>1, <1>5, <2>1, <2>2, <3>1, <3>2 DEF Reporting
    <2>3. CASE ~ InRefresh
      <3>1. /\ DoneIsLast(s)
            /\ \/ pm.initial
               \/ IF PastNext(r, s) /\ NextMessage(s).body.type = "done" THEN FarmerMatches ELSE Reported(s)
        BY <1>1, <1>4, <1>5, <2>3 DEF Content, Promise
      <3>2. CASE NextMessage(s).body.type # "done"
        BY <1>1, <1>5, <2>1, <2>3, <3>1, <3>2 DEF Reported
      <3>3. CASE NextMessage(s).body.type = "done" /\ ~ pm.initial
        <4>1. FarmerMatches'
          <5>1. CASE PastNext(r, s)
            <6>1. t = r
              <7>1. PICK m \in Messages : m = NextMessage(s) /\ m.sync_id = s.sync_id /\ s.sync_id # 0
                BY <1>6, NextFacts
              <7>2. r.current.sync_id = 0
                BY <3>3, <5>1 DEF PastNext
              <7>3. ~ ValidIdentifier(r, m)
                BY <3>3, <7>1, <7>2 DEF ValidIdentifier
              <7>4. a = WrongIdentifier(r)
                BY <1>5, <1>6, <3>3, <7>1, <7>3, DoneStep
              <7> QED
                BY <1>5, <7>4 DEF WrongIdentifier, Answer
            <6> QED
              BY <1>1, <1>5, <3>1, <3>3, <5>1, <6>1 DEF FarmerMatches
          <5>2. CASE ~ PastNext(r, s)
            <6>1. /\ t.plots = ((IF s.messages[1].body.initial THEN {} ELSE r.plots) \cup All(s, "loaded"))
                                  \ All(s, "removed")
                  /\ t.invalid = All(s, "invalid") /\ t.keys_missing = All(s, "keys_missing")
                  /\ t.duplicates = All(s, "duplicates")
              BY <1>5, <1>6, <3>1, <3>3, <5>2, DoneApplied
            <6>2. Reported(s)
              BY <3>1, <3>3, <5>2
            <6>3. /\ pm.plots = t.plots /\ pm.failed = t.invalid /\ pm.no_key = t.keys_missing
                  /\ pm.duplicates = t.duplicates
              BY <1>5, <6>1, <6>2 DEF Reported, Before
            <6> QED
              BY <1>1, <1>5, <6>3 DEF FarmerMatches
          <5> QED
            BY <5>1, <5>2
        <4>2. PastNext(t, s)
          <5>1. a.error # "fatal"
            <6>1. a = Accepts(Applied(r)) \/ a = WrongIdentifier(r)
              BY <1>5, <1>6, <3>3, NextFacts, DoneStep
            <6> QED
              BY <6>1 DEF Accepts, WrongIdentifier, Answer
          <5> QED
            BY <1>5, <1>8, <5>1 DEF Advances
        <4> QED
          BY <2>3, <3>1, <3>3, <4>1, <4>2
      <3> QED
        BY <2>3, <3>1, <3>2, <3>3
    <2> QED
      BY <2>2, <2>3
  <1> QED
    BY <1>9, <1>10, <1>11, <1>12 DEF Content

LEMMA ContentReceive ==
    ASSUME Typed, Protocol, Content, ReceiveResponse
    PROVE  Content'
  <1>1. /\ toHarvester # <<>> /\ toHarvester' = Tail(toHarvester) /\ toHarvester \in Seq(Responses)
        /\ sender \in Senders /\ Queued(sender) /\ receiver \in Receivers
        /\ UNCHANGED <<pm, thread, connected, receiver>>
    BY DEF ReceiveResponse, Typed, Protocol
  <1>2. connected
    BY <1>1 DEF Protocol, Links, Typed
  <1>3. PICK x : x = Head(toHarvester) /\ x = toHarvester[1] /\ 1 \in DOMAIN toHarvester
    BY <1>1
  <1>4. CASE ~ SetResponse(x)
    <2>1. UNCHANGED <<sender, task, disturbed>>
      BY <1>3, <1>4 DEF ReceiveResponse
    <2>2. \A i \in DOMAIN toHarvester' : i + 1 \in DOMAIN toHarvester /\ toHarvester'[i] = toHarvester[i + 1]
      BY <1>1
    <2>3. Told'
      BY <1>1, <2>1, <2>2 DEF Content, Told
    <2>4. ThreadOK' /\ Knowing'
      BY <1>1, <2>1 DEF Content, ThreadOK, InRefresh, Knowing
    <2>5. Promise'
      BY <1>1, <2>1 DEF Content, Promise, InRefresh, FarmerMatches, Reporting, Reported, Before
    <2> QED
      BY <2>3, <2>4, <2>5 DEF Content
  <1>5. CASE SetResponse(x)
    <2>1. /\ task = "wait" /\ toHarvester' = <<>> /\ HasNextMessage(sender) /\ x \in Responses /\ Answers(x)
          /\ ~ x.expired
      BY <1>3, <1>5, ResponseFacts DEF SetResponse
    <2>2. CASE ~ Recoverable(sender, x)
      <3>1. Reset
        BY <1>3, <1>5, <2>2 DEF ReceiveResponse
      <3> QED
        BY <1>1, <2>1, <3>1, ContentReset DEF Content
    <2>3. CASE Recoverable(sender, x)
      <3>1. sender' = Recovered(sender, x) /\ task' = "ready" /\ disturbed' = disturbed
        BY <1>3, <1>5, <2>3 DEF ReceiveResponse
      <3>2. PICK s, t, r : s = sender /\ t = sender' /\ r = receiver
        OBVIOUS
      <3>3. /\ PastNext(r, s) /\ s \in Senders /\ Queued(s) /\ HasNextMessage(s) /\ SyncActive(s)
            /\ IF NextMessage(s).body.type = "done" THEN t = FinalizeSync(s)
               ELSE t = [s EXCEPT !.next_message_id = s.next_message_id + 1]
        <4>1. x.error \in Errors
          BY <2>1 DEF Responses
        <4> QED
          BY <1>1, <2>1, <2>3, <3>1, <3>2, <4>1, RecoveredFacts DEF Answers, HasNextMessage
      <3>4. ThreadOK'
        BY <1>1, <3>1 DEF Content, ThreadOK, InRefresh
      <3>5. Told'
        BY <2>1 DEF Told
      <3>6. InRefresh /\ ~ disturbed => Reporting(s)
        BY <1>2, <2>1, <3>2, Refreshing
      <3>7. ~ InRefresh /\ ~ disturbed =>
              /\ DoneIsLast(s)
              /\ \/ pm.initial
                 \/ IF NextMessage(s).body.type = "done" THEN FarmerMatches ELSE Reported(s)
        BY <1>2, <2>1, <3>2, <3>3 DEF Content, Promise
      <3>8. CASE NextMessage(s).body.type = "done"
        <4>1. ~ SyncActive(t)
          BY <3>3, <3>8, FinalizeFacts
        <4>2. ~ disturbed => ~ InRefresh
          <5>1. Reporting(s) => NextMessage(s).body.type \in {"start", "loaded"}
            BY <3>3, NextFacts DEF Reporting
          <5> QED
            BY <3>6, <3>8, <5>1
        <4>3. Promise'
          BY <1>1, <3>1, <3>2, <3>7, <3>8, <4>1, <4>2 DEF Promise, InRefresh, FarmerMatches
        <4>4. Knowing'
          BY <3>2, <4>1 DEF Knowing
        <4> QED
          BY <3>4, <3>5, <4>3, <4>4 DEF Content
      <3>9. CASE NextMessage(s).body.type # "done"
        <4>1. /\ t \in Senders /\ SyncActive(t) /\ t.sync_id # 0 /\ t.next_message_id # 0
              /\ t.messages = s.messages /\ t.sync_id = s.sync_id
              /\ t.next_message_id = s.next_message_id + 1
          BY <3>3, <3>9, MovedOn DEF SyncActive
        <4>2. AtNext(r, t)
          BY <3>3, <3>9, <4>1 DEF PastNext, AtNext
        <4>3. ~ PastNext(r, t)
          BY <4>1, <4>2, Exclusive
        <4>4. Tracks(r, t, t.next_message_id)
          <5>1. x.error # "fatal"
            BY <2>3 DEF Recoverable, MissedDone, Jumps
          <5>2. Tracks(r, s, s.next_message_id + 1)
            BY <1>3, <2>1, <3>2, <3>9, <5>1 DEF Content, Told
          <5> QED
            BY <4>1, <5>2 DEF Tracks, Named
        <4>5. Knowing'
          BY <1>1, <3>2, <4>3, <4>4 DEF Knowing, Knows
        <4>6. Before(t)' = Before(s) /\ \A type : All(t, type) = All(s, type)
          BY <1>1, <4>1 DEF Before, All, Named
        <4>7. Promise'
          <5>1. Reporting(s) => Reporting(t)'
            BY <1>1, <4>1, <4>6 DEF Reporting
          <5>2. Reported(s) => Reported(t)'
            BY <1>1, <4>6 DEF Reported
          <5>3. DoneIsLast(s) => DoneIsLast(t)
            BY <4>1 DEF DoneIsLast
          <5> QED
            BY <1>1, <3>1, <3>2, <3>6, <3>7, <3>9, <4>1, <4>3, <5>1, <5>2, <5>3 DEF Promise, InRefresh
        <4> QED
          BY <3>4, <3>5, <4>5, <4>7 DEF Content
      <3> QED
        BY <3>8, <3>9
    <2> QED
      BY <2>2, <2>3
  <1> QED
    BY <1>4, <1>5

LEMMA ContentStep ==
    ASSUME Typed, Protocol, Content, [Next]_vars
    PROVE  Content'
  BY ContentIdle, ContentStarted, ContentDrop, ContentBatch, ContentAbort, ContentProcessed, ContentDone,
     ContentRebuilds, ContentSend, ContentTimeout, ContentReceive, ContentFarmer, ContentHandshake,
     ContentClose DEF Next, Refresh

LEMMA ContentInit ==
    ASSUME Init
    PROVE  Content
  <1>1. pm.plots = {} /\ thread = Idle("dead") /\ task = "none" /\ toHarvester = <<>>
    BY DEF Init, NewPlotManager
  <1>2. /\ thread.pc = "dead" /\ thread.batches = <<>>
        /\ ToSet(thread.loaded) = {} /\ ToSet(thread.removed) = {}
    BY <1>1, IdleThread
  <1>3. DOMAIN thread.batches = {}
    BY <1>2
  <1>4. ThreadOK
    BY <1>1, <1>2, <1>3 DEF ThreadOK
  <1> QED
    BY <1>1, <1>4 DEF Content, Promise, Told, Knowing

(* When no sync is active and no refresh runs, and no reset cut into a     *)
(* refresh, the farmer shows exactly what the plot manager has             *)
(* (Sender._send_next_message, Receiver._sync_done), for any number of     *)
(* files, time-outs, repeated messages, refreshes and reconnections.       *)
THEOREM FarmerConverges == Spec => []Converged
  <1>1. Init => Typed /\ Protocol /\ Content
    BY ProtocolInit, ContentInit
  <1>2. Typed /\ Protocol /\ Content /\ [Next]_vars => (Typed /\ Protocol /\ Content)'
    BY TypedStep, ProtocolStep, ContentStep DEF Protocol
  <1>3. Typed /\ Protocol /\ Content => Converged
    BY DEF Content, Promise, Converged, Quiet
  <1> QED
    BY <1>1, <1>2, <1>3, PTL DEF Spec
==============================================================================
