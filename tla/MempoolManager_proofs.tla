------------------------ MODULE MempoolManager_proofs -------------------------
(***************************************************************************)
(* Of two pooled transactions that spend one coin the later spends it in a *)
(* way eligible for deduplication; the pool holds none whose height        *)
(* conditions fail at the mempool's peak and, while new_peak is told of    *)
(* every block, none that spends a coin the chain has not got; no          *)
(* transaction goes on waiting for a height that has passed; and what is   *)
(* evicted pays no more than what it makes room for.                       *)
(* For every block tree, set of transactions, limit and number of tasks.   *)
(***************************************************************************)
EXTENDS MempoolManager, BlockTree_proofs, FiniteSetTheorems

------------------------------------------------------------------------------
(* Pools and queues                                                        *)

IsPool(p) == p = [f \in {"items", "before", "height"} |-> p[f]]

IsQueue(q) == q = [f \in {"items", "before"} |-> q[f]]

(* Taking out and putting in, for a pool.                                  *)
LEMMA PoolOperations ==
    ASSUME NEW p, IsPool(p), NEW S, NEW t
    PROVE  /\ IsPool(Without(p, S)) /\ Without(p, S).items = p.items \ S
           /\ IsPool(Insert(p, t)) /\ Insert(p, t).items = p.items \cup {t}
  BY DEF IsPool, Without, Insert

(* Taking out and putting in, for a queue.                                 *)
LEMMA QueueOperations ==
    ASSUME NEW q, IsQueue(q), NEW S, NEW t
    PROVE  /\ IsQueue(Without(q, S)) /\ Without(q, S).items = q.items \ S
           /\ IsQueue(Insert(q, t)) /\ Insert(q, t).items = q.items \cup {t}
  BY DEF IsQueue, Without, Insert

(* add_to_pool adds no transaction but its own.                            *)
LEMMA AddToPoolItems ==
    ASSUME NEW p, IsPool(p), NEW t
    PROVE  /\ IsPool(AddToPool(p, t))
           /\ AddToPool(p, t).items \subseteq p.items \cup {t}
  <1> DEFINE q == RemoveFromPool(p, SoonOver(p, t))
             full == {i \in q.items :
                         CumulativeCost(q, q.items, i) > MaxTotalCost - Cost[t]}
  <1>1. IsPool(q) /\ q.items \subseteq p.items
    BY PoolOperations DEF RemoveFromPool
  <1> HIDE DEF q
  <1>2. /\ IsPool(RemoveFromPool(q, full))
        /\ RemoveFromPool(q, full).items \subseteq p.items
    BY <1>1, PoolOperations DEF RemoveFromPool
  <1> HIDE DEF full
  <1>3. /\ IsPool(Insert(RemoveFromPool(q, full), t))
        /\ Insert(RemoveFromPool(q, full), t).items \subseteq p.items \cup {t}
    BY <1>2, PoolOperations
  <1> QED
    BY <1>3 DEF AddToPool, q, full

(* What add_spend_bundle admits comes without its conflicts.               *)
LEMMA AdmitItems ==
    ASSUME NEW p, IsPool(p), NEW t
    PROVE  /\ IsPool(Admit(p, t))
           /\ Admit(p, t).items \subseteq (p.items \ Conflicts(p, t)) \cup {t}
  <1> DEFINE q == RemoveFromPool(p, Conflicts(p, t))
  <1>1. IsPool(q) /\ q.items = p.items \ Conflicts(p, t)
    BY PoolOperations DEF RemoveFromPool
  <1> HIDE DEF q
  <1>2. IsPool(AddToPool(q, t)) /\ AddToPool(q, t).items \subseteq q.items \cup {t}
    BY <1>1, AddToPoolItems
  <1>3. Admit(p, t) = IF Refuses(q, t) THEN q ELSE AddToPool(q, t)
    BY DEF Admit, q
  <1> QED
    BY <1>1, <1>2, <1>3

(* What the verdicts of validate_spend_bundle that matter here say.        *)
LEMMA VerdictFacts ==
    ASSUME NEW p, NEW t \in Txs, NEW h \in Nat
    PROVE  /\ Verdict(p, t, h) = "valid" => /\ TxSpends[t] \subseteq unspent
                                            /\ AssertHeight[t] <= h
                                            /\ h < BeforeHeight[t]
           /\ Verdict(p, t, h) = "pending" => h < AssertHeight[t]
  <1>1. AssertHeight[t] \in Nat /\ BeforeHeight[t] \in Nat
    BY TxAssumption
  <1> DEFINE never == \/ ~ TxSpends[t] \subseteq unspent
                      \/ Cost[t] > MaxBlockCost
                      \/ FeeTooLow(p, t)
                      \/ BeforeHeight[t] <= AssertHeight[t]
             clash == /\ Conflicts(p, t) # {}
                      /\ ~ CanReplace(Conflicts(p, t), t)
  <1>2. CASE never
    <2>1. Verdict(p, t, h) = "failed"
      BY <1>2 DEF Verdict
    <2> QED
      BY <2>1
  <1>3. CASE ~ never
    <2>1. Verdict(p, t, h) = IF h < AssertHeight[t] THEN "pending"
                             ELSE IF h >= BeforeHeight[t] THEN "failed"
                             ELSE IF clash THEN "conflict" ELSE "valid"
      BY <1>3 DEF Verdict
    <2> QED
      BY <1>1, <1>3, <2>1
  <1> QED
    BY <1>2, <1>3

(* Waiting transactions: add_spend_bundle keeps the shape of the cache and *)
(* puts nothing into it but its own.                                       *)
LEMMA AddPendingItems ==
    ASSUME NEW q, IsQueue(q), NEW t
    PROVE  /\ IsQueue(AddPending(q, t))
           /\ AddPending(q, t).items \subseteq q.items \cup {t}
  <1> DEFINE r == Insert(q, t)
             S == {i \in r.items :
                     TotalCost({j \in r.items : j = i \/ EvictedLater(r, i, j)})
                        > CacheMaxCost}
  <1>1. IsQueue(r) /\ r.items = q.items \cup {t}
    BY QueueOperations
  <1> HIDE DEF r
  <1>2. IsQueue(Without(r, S)) /\ Without(r, S).items = r.items \ S
    BY <1>1, QueueOperations
  <1>3. AddPending(q, t) = Without(r, S)
    BY DEF AddPending, r
  <1> QED
    BY <1>1, <1>2, <1>3

------------------------------------------------------------------------------
(* Sums of costs.  TotalCost is a fold, which takes the items one by one   *)
(* in an order of its own; that the order does not matter is shown by      *)
(* looking at a smallest set for which it would.                           *)

(* A non-empty set of finite sets has a member of the fewest elements.     *)
LEMMA SmallestSet ==
    ASSUME NEW F, F # {}, \A s \in F : IsFiniteSet(s)
    PROVE  \E s \in F : \A r \in F : Cardinality(s) <= Cardinality(r)
  <1> DEFINE N == {Cardinality(s) : s \in F}
  <1>1. N \in SUBSET Nat /\ N # {}
    BY FS_CardinalityType
  <1>2. PICK x \in N : \A y \in N : x <= y
    BY <1>1, LeastNatural
  <1> QED
    BY <1>2

(* Without one of its elements a finite set has fewer.                   *)
LEMMA FewerWithout ==
    ASSUME NEW s, IsFiniteSet(s), NEW y \in s
    PROVE  ~ (Cardinality(s) <= Cardinality(s \ {y}))
  <1>1. Cardinality(s \ {y}) = Cardinality(s) - 1 /\ Cardinality(s) \in Nat
    BY FS_RemoveElement, FS_CardinalityType
  <1> QED
    BY <1>1

(* The item the fold takes next, and what one round of it computes.        *)
NextItem(s) == CHOOSE x \in s : TRUE

RestOf(s) == s \ {NextItem(s)}

FoldStep(g, F) ==
    [s \in F |-> IF s = {} THEN 0 ELSE Cost[NextItem(s)] + g[RestOf(s)]]

(* The fold takes one item of the set, and a smaller set is left.        *)
LEMMA RestFacts ==
    ASSUME NEW s, IsFiniteSet(s), s # {}
    PROVE  /\ NextItem(s) \in s
           /\ IsFiniteSet(RestOf(s)) /\ Cardinality(RestOf(s)) = Cardinality(s) - 1
           /\ Cardinality(s) \in Nat /\ Cardinality(s) > 0
  <1>1. NextItem(s) \in s
    BY DEF NextItem
  <1>2. IsFiniteSet(RestOf(s)) /\ Cardinality(RestOf(s)) = Cardinality(s) - 1
    BY <1>1, FS_RemoveElement DEF RestOf
  <1> QED
    BY <1>1, <1>2, FS_CardinalityType

(* TotalCost, in these terms.                                            *)
LEMMA CostIsFold ==
    ASSUME NEW S
    PROVE TotalCost(S) = (CHOOSE g : g = FoldStep(g, SUBSET S))[S]
  BY Zenon DEF TotalCost, SumFunctionOnSet, FoldFunctionOnSet, MapThenFoldSet,
               FoldStep, NextItem, RestOf

(* The fold over the subsets of a finite set is defined.                   *)
LEMMA FoldExists ==
    ASSUME NEW S, IsFiniteSet(S)
    PROVE  \E g : g = FoldStep(g, SUBSET S)
  <1> DEFINE Small(n) == {s \in SUBSET S : Cardinality(s) <= n}
             Bad == {n \in Nat : ~ \E g : g = FoldStep(g, Small(n))}
  <1>1. ASSUME NEW s \in SUBSET S
        PROVE  /\ IsFiniteSet(s) /\ Cardinality(s) \in Nat
               /\ s = {} <=> Cardinality(s) = 0
    BY FS_Subset, FS_CardinalityType, FS_EmptySet
  <1>2. Bad = {}
    <2> SUFFICES ASSUME Bad # {} PROVE FALSE
      OBVIOUS
    <2>1. PICK m \in Bad : \A n \in Bad : m <= n
      <3>1. Bad \in SUBSET Nat
        OBVIOUS
      <3> QED
        BY <3>1, LeastNatural
    <2>2. m \in Nat
      OBVIOUS
    <2>3. CASE m = 0
      <3> DEFINE g == [s \in Small(m) |-> 0]
      <3>1. \A s \in Small(m) : s = {}
        BY <1>1, <2>3
      <3>2. FoldStep(g, Small(m)) = g
        BY <3>1 DEF FoldStep
      <3> QED
        BY <3>2, <2>1
    <2>4. CASE m # 0
      <3>1. m - 1 \in Nat /\ m - 1 \notin Bad
        <4>1. m - 1 \in Nat /\ ~ (m <= m - 1)
          BY <2>2, <2>4
        <4> HIDE DEF Bad
        <4> QED
          BY <2>1, <4>1
      <3>2. PICK g : g = FoldStep(g, Small(m - 1))
        BY <3>1
      <3> DEFINE h == [s \in Small(m) |-> IF s \in Small(m - 1) THEN g[s]
                                          ELSE Cost[NextItem(s)] + g[RestOf(s)]]
      <3>3. ASSUME NEW s \in Small(m), s # {}
            PROVE  /\ RestOf(s) \in Small(m - 1) /\ RestOf(s) \in Small(m)
        <4>1. /\ Cardinality(RestOf(s)) = Cardinality(s) - 1
              /\ Cardinality(s) \in Nat
          BY <1>1, <3>3, RestFacts
        <4>2. RestOf(s) \in SUBSET S
          BY DEF RestOf
        <4> QED
          BY <2>2, <4>1, <4>2
      <3>4. ASSUME NEW s \in Small(m)
            PROVE  h[s] = IF s = {} THEN 0 ELSE Cost[NextItem(s)] + h[RestOf(s)]
        <4>1. CASE s = {}
          <5>1. s \in Small(m - 1)
            BY <1>1, <3>1, <4>1
          <5> QED
            BY <3>2, <4>1, <5>1 DEF FoldStep
        <4>2. CASE s # {}
          <5>1. h[RestOf(s)] = g[RestOf(s)]
            BY <3>3, <4>2
          <5>2. h[s] = Cost[NextItem(s)] + g[RestOf(s)]
            BY <3>2, <4>2 DEF FoldStep
          <5> QED
            BY <4>2, <5>1, <5>2
        <4> QED
          BY <4>1, <4>2
      <3>5. h = FoldStep(h, Small(m))
        BY <3>4 DEF FoldStep
      <3> QED
        BY <3>5, <2>1
    <2> QED
      BY <2>3, <2>4
  <1>3. Cardinality(S) \in Nat /\ Small(Cardinality(S)) = SUBSET S
    BY FS_CardinalityType, FS_Subset
  <1> QED
    BY <1>2, <1>3

(* So it takes an item of the set away and adds its cost to the rest.      *)
LEMMA SumRecursive ==
    /\ TotalCost({}) = 0
    /\ \A S : IsFiniteSet(S) /\ S # {} =>
          TotalCost(S) = Cost[NextItem(S)] + TotalCost(RestOf(S))
  <1> DEFINE fold(S) == CHOOSE g : g = FoldStep(g, SUBSET S)
  <1>1. ASSUME NEW S, IsFiniteSet(S)
        PROVE  /\ TotalCost(S) = fold(S)[S]
               /\ \A s \in SUBSET S : fold(S)[s] =
                     IF s = {} THEN 0 ELSE Cost[NextItem(s)] + fold(S)[RestOf(s)]
    <2>1. fold(S) = FoldStep(fold(S), SUBSET S)
      BY <1>1, FoldExists, Zenon
    <2> HIDE DEF fold
    <2>2. \A s \in SUBSET S : fold(S)[s] =
             IF s = {} THEN 0 ELSE Cost[NextItem(s)] + fold(S)[RestOf(s)]
      BY <2>1 DEF FoldStep
    <2> QED
      BY <2>2, CostIsFold DEF fold
  <1> HIDE DEF fold
  <1>2. TotalCost({}) = 0
    BY <1>1, FS_EmptySet
  <1>3. ASSUME NEW S, IsFiniteSet(S), S # {}
        PROVE  TotalCost(S) = Cost[NextItem(S)] + TotalCost(RestOf(S))
    <2> DEFINE T == RestOf(S)
               Bad == {s \in SUBSET T : fold(S)[s] # fold(T)[s]}
    <2>1. IsFiniteSet(T) /\ T \subseteq S
      BY <1>3, RestFacts DEF RestOf
    <2>2. \A s \in SUBSET T : IsFiniteSet(s)
      BY <2>1, FS_Subset
    <2>3. ASSUME Bad # {} PROVE FALSE
      <3>1. PICK s \in Bad : \A r \in Bad : Cardinality(s) <= Cardinality(r)
        BY <2>2, <2>3, SmallestSet
      <3>2. s \in SUBSET T /\ s \in SUBSET S /\ fold(S)[s] # fold(T)[s]
        BY <2>1
      <3>3. /\ fold(S)[s] = IF s = {} THEN 0 ELSE Cost[NextItem(s)] + fold(S)[RestOf(s)]
            /\ fold(T)[s] = IF s = {} THEN 0 ELSE Cost[NextItem(s)] + fold(T)[RestOf(s)]
        BY <1>1, <1>3, <2>1, <3>2
      <3>4. s # {}
        BY <3>2, <3>3
      <3>5. ~ (Cardinality(s) <= Cardinality(RestOf(s)))
        BY <2>2, <3>2, <3>4, RestFacts
      <3>6. RestOf(s) \in SUBSET T
        BY <3>2 DEF RestOf
      <3>7. fold(S)[RestOf(s)] = fold(T)[RestOf(s)]
        BY <3>1, <3>5, <3>6
      <3> QED
        BY <3>2, <3>3, <3>7
    <2>4. fold(S)[T] = fold(T)[T]
      BY <2>3
    <2> HIDE DEF T
    <2> QED
      BY <1>1, <1>3, <2>1, <2>4 DEF T
  <1> QED
    BY <1>2, <1>3

(* A sum of costs is a natural number.                                   *)
LEMMA SumType ==
    ASSUME NEW S \in SUBSET Txs, IsFiniteSet(S)
    PROVE  TotalCost(S) \in Nat
  <1> DEFINE Bad == {s \in SUBSET S : TotalCost(s) \notin Nat}
  <1>1. \A s \in SUBSET S : IsFiniteSet(s)
    BY FS_Subset
  <1>2. ASSUME Bad # {} PROVE FALSE
    <2>1. PICK s \in Bad : \A r \in Bad : Cardinality(s) <= Cardinality(r)
      BY <1>1, <1>2, SmallestSet
    <2>2. s \in SUBSET S /\ TotalCost(s) \notin Nat /\ IsFiniteSet(s)
      BY <1>1
    <2>3. s # {}
      BY <2>2, SumRecursive
    <2>4. ~ (Cardinality(s) <= Cardinality(RestOf(s))) /\ RestOf(s) \in SUBSET S
      BY <2>2, <2>3, RestFacts DEF RestOf
    <2>5. TotalCost(RestOf(s)) \in Nat
      BY <2>1, <2>4
    <2>6. Cost[NextItem(s)] \in Nat
      BY <2>2, <2>3, RestFacts, TxAssumption
    <2>7. TotalCost(s) = Cost[NextItem(s)] + TotalCost(RestOf(s))
      BY <2>2, <2>3, SumRecursive
    <2> QED
      BY <2>2, <2>5, <2>6, <2>7
  <1> QED
    BY <1>2

(* ... whichever item that is.                                             *)
LEMMA SumRemove ==
    ASSUME NEW S \in SUBSET Txs, IsFiniteSet(S), NEW x \in S
    PROVE  /\ TotalCost(S) = Cost[x] + TotalCost(S \ {x})
           /\ TotalCost(S \ {x}) \in Nat /\ Cost[x] \in Nat
  <1> DEFINE Bad == {s \in SUBSET S : \E y \in s : TotalCost(s) # Cost[y] + TotalCost(s \ {y})}
  <1>1. \A s \in SUBSET S : IsFiniteSet(s)
    BY FS_Subset
  <1>2. ASSUME Bad # {} PROVE FALSE
    <2>1. PICK s \in Bad : \A r \in Bad : Cardinality(s) <= Cardinality(r)
      BY <1>1, <1>2, SmallestSet
    <2>2. s \in SUBSET S /\ IsFiniteSet(s)
      BY <1>1
    <2>3. PICK y \in s : TotalCost(s) # Cost[y] + TotalCost(s \ {y})
      OBVIOUS
    <2> DEFINE c == NextItem(s)
               r == s \ {c, y}
    <2>4. TotalCost(s) = Cost[c] + TotalCost(s \ {c}) /\ c \in s
      BY <2>2, <2>3, SumRecursive, RestFacts DEF RestOf
    <2> HIDE DEF c
    <2>5. c # y
      BY <2>3, <2>4
    <2>6. \A z \in s : ~ (Cardinality(s) <= Cardinality(s \ {z})) /\ s \ {z} \in SUBSET S
      BY <2>2, FewerWithout
    <2>7. \A z \in s : s \ {z} \notin Bad /\ s \ {z} \in SUBSET S
      BY <2>1, <2>6
    <2>8. TotalCost(s \ {c}) = Cost[y] + TotalCost((s \ {c}) \ {y})
      BY <2>4, <2>5, <2>7
    <2>9. TotalCost(s \ {y}) = Cost[c] + TotalCost((s \ {y}) \ {c})
      BY <2>4, <2>5, <2>7
    <2>10. (s \ {c}) \ {y} = r /\ (s \ {y}) \ {c} = r
      OBVIOUS
    <2>11. /\ TotalCost(r) \in Nat /\ Cost[c] \in Nat /\ Cost[y] \in Nat
      <3>1. r \in SUBSET Txs /\ IsFiniteSet(r)
        BY <1>1, <2>2
      <3> HIDE DEF r
      <3> QED
        BY <2>2, <2>4, <3>1, SumType, TxAssumption
    <2> QED
      BY <2>3, <2>4, <2>8, <2>9, <2>10, <2>11
  <1>3. TotalCost(S) = Cost[x] + TotalCost(S \ {x})
    BY <1>2
  <1>4. TotalCost(S \ {x}) \in Nat
    BY <1>1, SumType
  <1> QED
    BY <1>3, <1>4, TxAssumption

(* A part of a set costs no more than the whole.                           *)
LEMMA SumMonotone ==
    ASSUME NEW S \in SUBSET Txs, IsFiniteSet(S), NEW R \in SUBSET S
    PROVE  /\ TotalCost(R) <= TotalCost(S)
           /\ TotalCost(R) \in Nat /\ TotalCost(S) \in Nat
           /\ IsFiniteSet(R)
  <1> DEFINE Bad == {s \in SUBSET S : R \subseteq s /\ ~ (TotalCost(R) <= TotalCost(s))}
  <1>1. \A s \in SUBSET S : IsFiniteSet(s) /\ TotalCost(s) \in Nat
    BY FS_Subset, SumType
  <1>2. ASSUME Bad # {} PROVE FALSE
    <2>1. PICK s \in Bad : \A r \in Bad : Cardinality(s) <= Cardinality(r)
      BY <1>1, <1>2, SmallestSet
    <2>2. /\ s \in SUBSET S /\ IsFiniteSet(s) /\ R \subseteq s
          /\ ~ (TotalCost(R) <= TotalCost(s))
      BY <1>1
    <2>3. s # R
      BY <1>1, <2>2
    <2>4. PICK y \in s : y \notin R
      BY <2>2, <2>3
    <2>5. /\ ~ (Cardinality(s) <= Cardinality(s \ {y})) /\ s \ {y} \in SUBSET S
          /\ R \subseteq s \ {y}
      BY <2>2, <2>4, FewerWithout
    <2>6. TotalCost(R) <= TotalCost(s \ {y})
      BY <2>1, <2>5
    <2>7. /\ TotalCost(s) = Cost[y] + TotalCost(s \ {y})
          /\ TotalCost(s \ {y}) \in Nat /\ Cost[y] \in Nat
      BY <2>2, SumRemove
    <2> QED
      BY <1>1, <2>2, <2>6, <2>7
  <1> QED
    BY <1>1, <1>2

------------------------------------------------------------------------------
(* Fee rates                                                               *)

(* Paying at least as much per cost is transitive, and so is paying more:  *)
(* the fractions a / x, b / y, c / z compared by cross-multiplication.     *)
LEMMA RatesCompose ==
    ASSUME NEW a \in Nat, NEW b \in Nat, NEW c \in Nat,
           NEW x \in Nat \ {0}, NEW y \in Nat \ {0}, NEW z \in Nat \ {0},
           a * y >= b * x, b * z >= c * y
    PROVE  /\ a * z >= c * x
           /\ a * y > b * x \/ b * z > c * y => a * z > c * x
  <1>1. (a * z) * y = (a * y) * z /\ (b * x) * z = (b * z) * x /\ (c * y) * x = (c * x) * y
    OBVIOUS
  <1>2. (a * y) * z >= (b * x) * z /\ (b * z) * x >= (c * y) * x
    OBVIOUS
  <1>3. a * y > b * x => (a * y) * z > (b * x) * z
    OBVIOUS
  <1>4. b * z > c * y => (b * z) * x > (c * y) * x
    OBVIOUS
  <1> QED
    BY <1>1, <1>2, <1>3, <1>4

------------------------------------------------------------------------------
(* The order of a pool: by fee rate, then by arrival.                      *)

(* The items came one after the other.                                     *)
Ordered(p) ==
    /\ IsFiniteSet(p.items)
    /\ p.items \subseteq Txs
    /\ p.before \subseteq p.items \X p.items
    /\ \A i \in p.items : <<i, i>> \notin p.before
    /\ \A i, j \in p.items : i # j => <<i, j>> \in p.before \/ <<j, i>> \in p.before
    /\ \A i, j, k \in p.items :
          <<i, j>> \in p.before /\ <<j, k>> \in p.before => <<i, k>> \in p.before

AtLeastRate(i, j) == Fee[i] * Cost[j] >= Fee[j] * Cost[i]

(* Rates are comparable.                                                 *)
LEMMA RateFacts ==
    ASSUME NEW i \in Txs, NEW j \in Txs
    PROVE  /\ AtLeastRate(i, j) <=> HigherRate(i, j) \/ SameRate(i, j)
           /\ SameRate(i, j) <=> SameRate(j, i)
           /\ SameRate(i, i)
           /\ HigherRate(i, j) => ~ HigherRate(j, i) /\ ~ SameRate(i, j)
           /\ HigherRate(i, j) \/ SameRate(i, j) \/ HigherRate(j, i)
  <1>1. /\ Fee[i] \in Nat /\ Fee[j] \in Nat /\ Cost[i] \in Nat /\ Cost[j] \in Nat
    BY TxAssumption
  <1>2. PICK a \in Nat, b \in Nat : a = Fee[i] * Cost[j] /\ b = Fee[j] * Cost[i]
    BY <1>1
  <1>3. (a >= b) <=> (a > b \/ a = b)
    OBVIOUS
  <1>4. /\ a > b => ~ (b > a) /\ a # b
        /\ a > b \/ a = b \/ b > a
    OBVIOUS
  <1> QED
    BY <1>2, <1>3, <1>4 DEF AtLeastRate, HigherRate, SameRate

(* Of three transactions.                                                *)
LEMMA RateTransitive ==
    ASSUME NEW i \in Txs, NEW j \in Txs, NEW k \in Txs,
           AtLeastRate(i, j), AtLeastRate(j, k)
    PROVE  /\ AtLeastRate(i, k)
           /\ HigherRate(i, j) \/ HigherRate(j, k) => HigherRate(i, k)
  <1>1. /\ Fee[i] \in Nat /\ Fee[j] \in Nat /\ Fee[k] \in Nat
        /\ Cost[i] \in Nat \ {0} /\ Cost[j] \in Nat \ {0} /\ Cost[k] \in Nat \ {0}
    BY TxAssumption
  <1> QED
    BY <1>1, RatesCompose DEF AtLeastRate, HigherRate

(* ORDER BY fee_per_cost DESC, seq ASC is a strict total order.          *)
LEMMA AheadFacts ==
    ASSUME NEW p, Ordered(p)
    PROVE  /\ \A i \in p.items : ~ Ahead(p, i, i)
           /\ \A i, j \in p.items : i # j => Ahead(p, i, j) \/ Ahead(p, j, i)
           /\ \A i, j, k \in p.items : Ahead(p, i, j) /\ Ahead(p, j, k) => Ahead(p, i, k)
           /\ \A i, j \in p.items : Ahead(p, i, j) => AtLeastRate(i, j)
  <1>1. \A i \in p.items : i \in Txs
    BY DEF Ordered
  <1>2. ASSUME NEW i \in p.items PROVE ~ Ahead(p, i, i)
    BY <1>1, RateFacts DEF Ahead, Ordered
  <1>3. ASSUME NEW i \in p.items, NEW j \in p.items, i # j
        PROVE  Ahead(p, i, j) \/ Ahead(p, j, i)
    BY <1>1, <1>3, RateFacts DEF Ahead, Ordered
  <1>4. ASSUME NEW i \in p.items, NEW j \in p.items, Ahead(p, i, j)
        PROVE  AtLeastRate(i, j)
    BY <1>1, <1>4, RateFacts DEF Ahead
  <1>5. ASSUME NEW i \in p.items, NEW j \in p.items, NEW k \in p.items,
               Ahead(p, i, j), Ahead(p, j, k)
        PROVE  Ahead(p, i, k)
    <2>1. i \in Txs /\ j \in Txs /\ k \in Txs
      BY <1>1
    <2>2. AtLeastRate(i, j) /\ AtLeastRate(j, k)
      BY <1>4, <1>5
    <2>3. AtLeastRate(i, k) /\ (HigherRate(i, j) \/ HigherRate(j, k) => HigherRate(i, k))
      BY <2>1, <2>2, RateTransitive
    <2>4. CASE HigherRate(i, j) \/ HigherRate(j, k)
      BY <2>3, <2>4 DEF Ahead
    <2>5. CASE ~ HigherRate(i, j) /\ ~ HigherRate(j, k)
      <3>1. <<i, j>> \in p.before /\ <<j, k>> \in p.before
        BY <1>5, <2>5 DEF Ahead
      <3>2. <<i, k>> \in p.before
        BY <3>1 DEF Ordered
      <3> QED
        BY <2>1, <2>3, <3>2, RateFacts DEF Ahead
    <2> QED
      BY <2>4, <2>5
  <1> QED
    BY <1>2, <1>3, <1>4, <1>5

(* Taking out and putting in keep the order.                               *)
LEMMA WithoutOrdered ==
    ASSUME NEW p, IsPool(p), Ordered(p), NEW S
    PROVE  /\ Ordered(Without(p, S))
           /\ Without(p, S).before \subseteq p.before
  <1> DEFINE q == Without(p, S)
  <1>1. /\ q.items = p.items \ S
        /\ q.before = {e \in p.before : e[1] \notin S /\ e[2] \notin S}
    BY DEF Without, IsPool
  <1>2. IsFiniteSet(q.items)
    BY <1>1, FS_Subset DEF Ordered
  <1> HIDE DEF q
  <1>3. \A i, j \in q.items : <<i, j>> \in q.before <=> <<i, j>> \in p.before
    BY <1>1
  <1>4. q.before \subseteq q.items \X q.items
    BY <1>1 DEF Ordered
  <1>5. Ordered(q)
    BY <1>1, <1>2, <1>3, <1>4 DEF Ordered
  <1> QED
    BY <1>1, <1>5 DEF q

(* A new item comes after all others.                                    *)
LEMMA InsertOrdered ==
    ASSUME NEW p, IsPool(p), Ordered(p), NEW t \in Txs
    PROVE  Ordered(Insert(p, t))
  <1>1. CASE t \in p.items
    BY <1>1 DEF Insert
  <1>2. CASE t \notin p.items
    <2> DEFINE q == Insert(p, t)
    <2>1. /\ q.items = p.items \cup {t}
          /\ q.before = p.before \cup (p.items \X {t})
      BY <1>2 DEF Insert, IsPool
    <2>2. IsFiniteSet(q.items)
      BY <2>1, FS_AddElement DEF Ordered
    <2> HIDE DEF q
    <2>3. \A i, j \in q.items :
             <<i, j>> \in q.before <=> <<i, j>> \in p.before \/ (i \in p.items /\ j = t)
      BY <2>1
    <2>4. \A i, j : <<i, j>> \in p.before => i \in p.items /\ j \in p.items
      BY DEF Ordered
    <2>5. q.before \subseteq q.items \X q.items
      BY <2>1 DEF Ordered
    <2>6. \A i \in q.items : <<i, i>> \notin q.before
      BY <1>2, <2>1, <2>3, <2>4 DEF Ordered
    <2>7. \A i, j \in q.items : i # j => <<i, j>> \in q.before \/ <<j, i>> \in q.before
      BY <1>2, <2>1, <2>3 DEF Ordered
    <2>8. ASSUME NEW i \in q.items, NEW j \in q.items, NEW k \in q.items,
                 <<i, j>> \in q.before, <<j, k>> \in q.before
          PROVE  <<i, k>> \in q.before
      <3>1. i \in p.items /\ j \in p.items /\ <<i, j>> \in p.before
        BY <1>2, <2>3, <2>4, <2>8
      <3>2. CASE k = t
        BY <2>3, <2>8, <3>1, <3>2
      <3>3. CASE k # t
        BY <2>1, <2>3, <2>8, <3>1, <3>3 DEF Ordered
      <3> QED
        BY <3>2, <3>3
    <2> QED
      BY <2>1, <2>2, <2>5, <2>6, <2>7, <2>8 DEF Ordered, q
  <1> QED
    BY <1>1, <1>2

------------------------------------------------------------------------------
(* What add_to_pool keeps and drops.                                       *)

(* The items of S up to i.                                                 *)
UpTo(p, S, i) == {j \in S : j = i \/ Ahead(p, j, i)}

(* The sum up to an item lies between its cost and the total.            *)
LEMMA CumulativeFacts ==
    ASSUME NEW p, Ordered(p), NEW i \in p.items
    PROVE  /\ UpTo(p, p.items, i) \in SUBSET p.items
           /\ CumulativeCost(p, p.items, i) = TotalCost(UpTo(p, p.items, i))
           /\ CumulativeCost(p, p.items, i) \in Nat
           /\ CumulativeCost(p, p.items, i) <= TotalCost(p.items)
           /\ TotalCost(p.items) \in Nat
           /\ Cost[i] \in Nat /\ Cost[i] <= CumulativeCost(p, p.items, i)
  <1> DEFINE U == UpTo(p, p.items, i)
  <1>1. U \in SUBSET p.items /\ i \in U
    BY DEF UpTo
  <1>2. CumulativeCost(p, p.items, i) = TotalCost(U)
    BY DEF CumulativeCost, UpTo
  <1> HIDE DEF U
  <1>3. p.items \in SUBSET Txs /\ IsFiniteSet(p.items)
    BY DEF Ordered
  <1>4. /\ TotalCost(U) <= TotalCost(p.items) /\ TotalCost(U) \in Nat
        /\ TotalCost(p.items) \in Nat /\ IsFiniteSet(U)
    BY <1>1, <1>3, SumMonotone
  <1>5. TotalCost(U) = Cost[i] + TotalCost(U \ {i}) /\ TotalCost(U \ {i}) \in Nat /\ Cost[i] \in Nat
    <2>1. U \in SUBSET Txs
      BY <1>1, <1>3
    <2> QED
      BY <1>1, <1>4, <2>1, SumRemove
  <1>6. Cost[i] <= TotalCost(U)
    BY <1>5
  <1> QED
    BY <1>1, <1>2, <1>4, <1>5, <1>6 DEF U

(* What comes before k costs no more than all up to k, without k.          *)
LEMMA CumulativeAhead ==
    ASSUME NEW p, Ordered(p), NEW i \in p.items, NEW k \in p.items, Ahead(p, i, k)
    PROVE  CumulativeCost(p, p.items, i) <= CumulativeCost(p, p.items, k) - Cost[k]
  <1> DEFINE U == UpTo(p, p.items, i)
             V == UpTo(p, p.items, k)
  <1>1. U \in SUBSET (V \ {k})
    <2> SUFFICES ASSUME NEW j \in U PROVE j \in V \ {k}
      OBVIOUS
    <2>1. j \in p.items /\ (j = i \/ Ahead(p, j, i))
      BY DEF UpTo
    <2>2. Ahead(p, j, k)
      BY <2>1, AheadFacts
    <2>3. j # k
      BY <2>2, AheadFacts
    <2> QED
      BY <2>1, <2>2, <2>3 DEF UpTo
  <1>2. /\ CumulativeCost(p, p.items, i) = TotalCost(U)
        /\ CumulativeCost(p, p.items, k) = TotalCost(V)
        /\ V \in SUBSET p.items /\ k \in V
    BY CumulativeFacts DEF UpTo
  <1> HIDE DEF U, V
  <1>3. V \in SUBSET Txs /\ IsFiniteSet(V)
    BY <1>2, FS_Subset DEF Ordered
  <1>4. TotalCost(V) = Cost[k] + TotalCost(V \ {k}) /\ TotalCost(V \ {k}) \in Nat /\ Cost[k] \in Nat
    BY <1>2, <1>3, SumRemove
  <1>5. TotalCost(U) <= TotalCost(V \ {k}) /\ TotalCost(U) \in Nat
    <2>1. V \ {k} \in SUBSET Txs /\ IsFiniteSet(V \ {k})
      BY <1>3, FS_RemoveElement
    <2> QED
      BY <1>1, <2>1, SumMonotone
  <1> QED
    BY <1>2, <1>4, <1>5

(* Fewer items, smaller sums.                                              *)
LEMMA CumulativeSmaller ==
    ASSUME NEW p, Ordered(p), NEW q, q.items \subseteq p.items, q.before \subseteq p.before,
           NEW i \in q.items
    PROVE  CumulativeCost(q, q.items, i) <= CumulativeCost(p, p.items, i)
  <1> DEFINE U == UpTo(q, q.items, i)
             V == UpTo(p, p.items, i)
  <1>1. U \in SUBSET V
    BY DEF UpTo, Ahead
  <1>2. /\ CumulativeCost(q, q.items, i) = TotalCost(U)
        /\ CumulativeCost(p, p.items, i) = TotalCost(V)
        /\ V \in SUBSET p.items
    BY CumulativeFacts DEF UpTo, CumulativeCost
  <1> HIDE DEF U, V
  <1>3. V \in SUBSET Txs /\ IsFiniteSet(V)
    BY <1>2, FS_Subset DEF Ordered
  <1> QED
    BY <1>1, <1>2, <1>3, SumMonotone

(* A non-empty set of items has a last one.                                *)
LEMMA LastItem ==
    ASSUME NEW p, Ordered(p), NEW S \in SUBSET p.items, S # {}
    PROVE  \E l \in S : \A j \in S : j = l \/ Ahead(p, j, l)
  <1> DEFINE After(l) == {j \in S : Ahead(p, l, j)}
             F == {After(l) : l \in S}
  <1>1. IsFiniteSet(S)
    BY FS_Subset DEF Ordered
  <1>2. \A l \in S : IsFiniteSet(After(l))
    <2> SUFFICES ASSUME NEW l \in S PROVE IsFiniteSet(After(l))
      OBVIOUS
    <2>1. After(l) \in SUBSET S
      OBVIOUS
    <2> HIDE DEF After
    <2> QED
      BY <1>1, <2>1, FS_Subset
  <1>3. PICK l \in S : \A k \in S : Cardinality(After(l)) <= Cardinality(After(k))
    <2>1. F # {} /\ \A s \in F : IsFiniteSet(s)
      BY <1>2
    <2>2. PICK s \in F : \A r \in F : Cardinality(s) <= Cardinality(r)
      BY <2>1, SmallestSet
    <2> QED
      BY <2>2
  <1>4. ASSUME NEW j \in S, j # l, ~ Ahead(p, j, l)
        PROVE  FALSE
    <2>1. Ahead(p, l, j)
      BY <1>4, AheadFacts
    <2>2. j \in After(l) /\ After(j) \in SUBSET (After(l) \ {j})
      BY <2>1, AheadFacts
    <2>3. IsFiniteSet(After(l)) /\ Cardinality(After(l)) <= Cardinality(After(j))
      BY <1>2, <1>3
    <2> HIDE DEF After
    <2>4. ~ (Cardinality(After(l)) <= Cardinality(After(l) \ {j}))
      BY <2>2, <2>3, FewerWithout
    <2>5. /\ Cardinality(After(j)) <= Cardinality(After(l) \ {j})
          /\ Cardinality(After(j)) \in Nat /\ Cardinality(After(l) \ {j}) \in Nat
          /\ Cardinality(After(l)) \in Nat
      <3>1. IsFiniteSet(After(l) \ {j})
        BY <2>3, FS_RemoveElement
      <3>2. IsFiniteSet(After(j)) /\ Cardinality(After(j)) <= Cardinality(After(l) \ {j})
        BY <2>2, <3>1, FS_Subset
      <3> QED
        BY <2>3, <3>1, <3>2, FS_CardinalityType
    <2> QED
      BY <2>3, <2>4, <2>5
  <1> QED
    BY <1>3, <1>4

(* get_min_fee_rate lets only such a transaction through that fits by      *)
(* itself and pays more than every item that has to go for it.             *)
LEMMA FeeHighEnough ==
    ASSUME NEW p, Ordered(p), NEW t \in Txs, ~ FeeTooLow(p, t)
    PROVE  /\ Cost[t] \in Nat /\ Cost[t] <= MaxTotalCost
           /\ \A i \in p.items : CumulativeCost(p, p.items, i) > MaxTotalCost - Cost[t]
                                  => ~ HigherRate(i, t)
  <1>1. Cost[t] \in Nat /\ MaxTotalCost \in Nat
    BY TxAssumption
  <1>2. TotalCost(p.items) \in Nat
    BY SumType DEF Ordered
  <1>3. CASE ~ AtFullCapacity(p, t)
    <2>1. TotalCost(p.items) + Cost[t] <= MaxTotalCost
      BY <1>1, <1>2, <1>3 DEF AtFullCapacity
    <2>2. \A i \in p.items : /\ CumulativeCost(p, p.items, i) \in Nat
                             /\ CumulativeCost(p, p.items, i) <= TotalCost(p.items)
      BY CumulativeFacts
    <2>3. \A i \in p.items : ~ (CumulativeCost(p, p.items, i) > MaxTotalCost - Cost[t])
      BY <1>1, <1>2, <2>1, <2>2
    <2> QED
      BY <1>1, <1>2, <2>1, <2>3
  <1>4. CASE BeatsMinFeeRate(p, t)
    <2>1. PICK k \in p.items :
             /\ CumulativeCost(p, p.items, k) - Cost[k] + Cost[t] <= MaxTotalCost
             /\ HigherRate(t, k)
      BY <1>4 DEF BeatsMinFeeRate
    <2>2. /\ CumulativeCost(p, p.items, k) \in Nat /\ Cost[k] \in Nat
          /\ Cost[k] <= CumulativeCost(p, p.items, k)
      BY CumulativeFacts
    <2>3. Cost[t] <= MaxTotalCost
      BY <1>1, <2>1, <2>2
    <2>4. ASSUME NEW i \in p.items, CumulativeCost(p, p.items, i) > MaxTotalCost - Cost[t]
          PROVE  ~ HigherRate(i, t)
      <3>1. CumulativeCost(p, p.items, i) \in Nat
        BY CumulativeFacts
      <3>2. ~ Ahead(p, i, k)
        <4> SUFFICES ASSUME Ahead(p, i, k) PROVE FALSE
          OBVIOUS
        <4>1. CumulativeCost(p, p.items, i) <= CumulativeCost(p, p.items, k) - Cost[k]
          BY CumulativeAhead
        <4> QED
          BY <1>1, <2>1, <2>2, <2>4, <3>1, <4>1
      <3>3. i \in Txs /\ k \in Txs
        BY DEF Ordered
      <3>4. AtLeastRate(k, i)
        BY <3>2, <3>3, AheadFacts, RateFacts
      <3>5. AtLeastRate(t, k)
        BY <2>1, <3>3, RateFacts
      <3>6. HigherRate(t, i)
        BY <2>1, <3>3, <3>4, <3>5, RateTransitive
      <3> QED
        BY <3>3, <3>6, RateFacts
    <2> QED
      BY <1>1, <2>3, <2>4
  <1> QED
    BY <1>3, <1>4 DEF FeeTooLow

(* The pool keeps to its limit when a transaction enters that fits.        *)
LEMMA AddToPoolFits ==
    ASSUME NEW p, IsPool(p), Ordered(p), NEW t \in Txs, t \notin p.items,
           Cost[t] <= MaxTotalCost
    PROVE  /\ Ordered(AddToPool(p, t))
           /\ TotalCost(AddToPool(p, t).items) <= MaxTotalCost
  <1> DEFINE q == RemoveFromPool(p, SoonOver(p, t))
             full == {i \in q.items :
                         CumulativeCost(q, q.items, i) > MaxTotalCost - Cost[t]}
             r == RemoveFromPool(q, full)
  <1>1. IsPool(q) /\ Ordered(q) /\ q.items \subseteq p.items
    BY PoolOperations, WithoutOrdered DEF RemoveFromPool
  <1> HIDE DEF q
  <1>2. IsPool(r) /\ Ordered(r) /\ r.items = q.items \ full
    BY <1>1, PoolOperations, WithoutOrdered DEF RemoveFromPool
  <1>3. AddToPool(p, t) = Insert(r, t)
    BY DEF AddToPool, q
  <1>4. /\ r.items \in SUBSET q.items
        /\ \A i \in r.items : ~ (CumulativeCost(q, q.items, i) > MaxTotalCost - Cost[t])
    BY <1>2
  <1> HIDE DEF r, full
  <1>5. /\ Ordered(Insert(r, t)) /\ Insert(r, t).items = r.items \cup {t}
    BY <1>2, PoolOperations, InsertOrdered
  <1>6. Cost[t] \in Nat /\ MaxTotalCost \in Nat
    BY TxAssumption
  <1>7. TotalCost(r.items) + Cost[t] <= MaxTotalCost /\ TotalCost(r.items) \in Nat
    <2>1. CASE r.items = {}
      BY <1>6, <2>1, SumRecursive
    <2>2. CASE r.items # {}
      <3>1. PICK l \in r.items : \A j \in r.items : j = l \/ Ahead(q, j, l)
        BY <1>1, <1>4, <2>2, LastItem
      <3>2. l \in q.items
        BY <1>4
      <3> DEFINE U == UpTo(q, q.items, l)
      <3>3. r.items \in SUBSET U /\ U \in SUBSET q.items
        BY <1>4, <3>1 DEF UpTo
      <3>4. CumulativeCost(q, q.items, l) = TotalCost(U) /\ TotalCost(U) \in Nat
        BY <1>1, <3>2, CumulativeFacts
      <3> HIDE DEF U
      <3>5. U \in SUBSET Txs /\ IsFiniteSet(U)
        BY <1>1, <3>3, FS_Subset DEF Ordered
      <3>6. TotalCost(r.items) <= TotalCost(U) /\ TotalCost(r.items) \in Nat
        BY <3>3, <3>5, SumMonotone
      <3>7. ~ (TotalCost(U) > MaxTotalCost - Cost[t])
        BY <1>4, <3>4
      <3> QED
        BY <1>6, <3>4, <3>6, <3>7
    <2> QED
      BY <2>1, <2>2
  <1>8. t \notin r.items /\ (r.items \cup {t}) \ {t} = r.items
    BY <1>1, <1>4
  <1>9. TotalCost(r.items \cup {t}) = Cost[t] + TotalCost(r.items)
    <2>1. r.items \cup {t} \in SUBSET Txs /\ IsFiniteSet(r.items \cup {t})
      BY <1>5 DEF Ordered
    <2>2. TotalCost(r.items \cup {t}) = Cost[t] + TotalCost((r.items \cup {t}) \ {t})
      BY <2>1, SumRemove
    <2> QED
      BY <1>8, <2>2
  <1> QED
    BY <1>3, <1>5, <1>6, <1>7, <1>9

(* add_spend_bundle, for a transaction that passed the check of fees.      *)
LEMMA AdmitFair ==
    ASSUME NEW p, IsPool(p), Ordered(p), NEW t \in Txs, t \notin p.items, ~ FeeTooLow(p, t)
    PROVE  /\ Ordered(Admit(p, t))
           /\ t \in Admit(p, t).items =>
                 /\ TotalCost(Admit(p, t).items) <= MaxTotalCost
                 /\ \A i \in p.items \ Admit(p, t).items :
                       i \in Conflicts(p, t) \/ ~ HigherRate(i, t)
  <1> DEFINE c == RemoveFromPool(p, Conflicts(p, t))
  <1>1. /\ IsPool(c) /\ Ordered(c) /\ c.items = p.items \ Conflicts(p, t)
        /\ c.before \subseteq p.before
    BY PoolOperations, WithoutOrdered DEF RemoveFromPool
  <1>2. Admit(p, t) = IF Refuses(c, t) THEN c ELSE AddToPool(c, t)
    BY DEF Admit
  <1> HIDE DEF c
  <1>3. Cost[t] \in Nat /\ Cost[t] <= MaxTotalCost /\ MaxTotalCost \in Nat
    BY FeeHighEnough, TxAssumption
  <1>4. CASE Refuses(c, t)
    BY <1>1, <1>2, <1>4
  <1>5. CASE ~ Refuses(c, t)
    <2>1. Ordered(AddToPool(c, t)) /\ TotalCost(AddToPool(c, t).items) <= MaxTotalCost
      BY <1>1, <1>3, AddToPoolFits
    <2>2. ASSUME NEW i \in c.items, i \notin AddToPool(c, t).items
          PROVE  ~ HigherRate(i, t)
      <3> DEFINE q == RemoveFromPool(c, SoonOver(c, t))
                 full == {k \in q.items :
                             CumulativeCost(q, q.items, k) > MaxTotalCost - Cost[t]}
      <3>1. /\ IsPool(q) /\ q.items = c.items \ SoonOver(c, t)
            /\ q.before \subseteq c.before /\ Ordered(q)
        BY <1>1, PoolOperations, WithoutOrdered DEF RemoveFromPool
      <3> HIDE DEF q
      <3>2. AddToPool(c, t).items = (q.items \ full) \cup {t}
        <4>1. AddToPool(c, t) = Insert(RemoveFromPool(q, full), t)
          BY DEF AddToPool, q
        <4>2. IsPool(RemoveFromPool(q, full)) /\ RemoveFromPool(q, full).items = q.items \ full
          BY <3>1, PoolOperations DEF RemoveFromPool
        <4> HIDE DEF full
        <4> QED
          BY <4>1, <4>2, PoolOperations
      <3>3. CASE i \in SoonOver(c, t)
        BY <1>5, <3>3 DEF Refuses
      <3>4. CASE i \in full
        <4>1. i \in q.items /\ i \in p.items /\ q.items \subseteq p.items /\ q.before \subseteq p.before
          BY <1>1, <3>1, <3>4
        <4>2. CumulativeCost(q, q.items, i) <= CumulativeCost(p, p.items, i)
          BY <4>1, CumulativeSmaller
        <4>3. /\ CumulativeCost(q, q.items, i) \in Nat /\ CumulativeCost(p, p.items, i) \in Nat
          BY <3>1, <4>1, CumulativeFacts
        <4>4. CumulativeCost(q, q.items, i) > MaxTotalCost - Cost[t]
          BY <3>4
        <4>5. CumulativeCost(p, p.items, i) > MaxTotalCost - Cost[t]
          BY <1>3, <4>2, <4>3, <4>4
        <4> QED
          BY <4>1, <4>5, FeeHighEnough
      <3> QED
        BY <2>2, <3>1, <3>2, <3>3, <3>4
    <2> QED
      BY <1>1, <1>2, <1>5, <2>1, <2>2
  <1> QED
    BY <1>4, <1>5

------------------------------------------------------------------------------
(* Coins along a chain                                                     *)

(* The last transaction block of a chain has the coins of the whole chain. *)
LEMMA LastTxUnspent ==
    ASSUME NEW b \in Blocks
    PROVE  /\ LastTx[b] \in TxBlocks /\ LastTx[b] \in Blocks
           /\ HeightOf[LastTx[b]] <= HeightOf[b]
           /\ UnspentAt(LastTx[b]) = UnspentAt(b)
  <1> DEFINE l == LastTx[b]
  <1>1. /\ l \in TxBlocks /\ l \in Blocks
        /\ HeightOf[l] \in Nat /\ HeightOf[b] \in Nat
        /\ HeightOf[l] <= HeightOf[b]
        /\ Anc[b][HeightOf[l]] = l
        /\ \A h \in (HeightOf[l] + 1) .. HeightOf[b] : Anc[b][h] \notin TxBlocks
    BY LastTxAssumption, TxBlockAssumption, FieldAssumption, HashAssumption
       DEF Heights
  <1> HIDE DEF l
  <1>2. \A k \in 0 .. HeightOf[l] : Anc[l][k] = Anc[b][k]
    BY <1>1, AncFacts
  <1>3. \A h \in (HeightOf[l] + 1) .. HeightOf[b] :
           Adds[Anc[b][h]] = {} /\ Spends[Anc[b][h]] = {}
    BY <1>1, AncFacts, TxBlockAssumption
  <1>4. ASSUME NEW c
        PROVE  /\ CreatedBelow(l, HeightOf[l] + 1, c)
                     <=> CreatedBelow(b, HeightOf[b] + 1, c)
               /\ SpentBelow(l, HeightOf[l] + 1, c)
                     <=> SpentBelow(b, HeightOf[b] + 1, c)
    BY <1>1, <1>2, <1>3 DEF CreatedBelow, SpentBelow
  <1>5. l # NoBlock /\ b # NoBlock
    BY <1>1, HashAssumption
  <1>6. UnspentAt(l) = UnspentAt(b)
    BY <1>4, <1>5 DEF UnspentAt
  <1> QED
    BY <1>1, <1>6 DEF l

LEMMA LastTxOfTxBlock ==
    ASSUME NEW b \in TxBlocks
    PROVE  b \in Blocks /\ LastTx[b] = b
  <1>1. b \in Blocks /\ HeightOf[b] \in Nat /\ Anc[b][HeightOf[b]] = b
    BY TxBlockAssumption, FieldAssumption, HashAssumption, AncFacts DEF Heights
  <1>2. /\ HeightOf[LastTx[b]] \in Nat /\ HeightOf[LastTx[b]] <= HeightOf[b]
        /\ Anc[b][HeightOf[LastTx[b]]] = LastTx[b]
        /\ \A h \in (HeightOf[LastTx[b]] + 1) .. HeightOf[b] : Anc[b][h] \notin TxBlocks
    BY <1>1, LastTxAssumption, TxBlockAssumption, FieldAssumption,
       HashAssumption DEF Heights
  <1>3. HeightOf[LastTx[b]] = HeightOf[b]
    BY <1>1, <1>2
  <1> QED
    BY <1>1, <1>2, <1>3

(* A transaction block that follows the mempool's peak changes nothing but *)
(* what it creates and spends itself.                                      *)
LEMMA NextTxBlock ==
    ASSUME NEW b \in TxBlocks, NEW m \in Blocks, PrevTx(b) = m
    PROVE  /\ HeightOf[m] < HeightOf[b]
           /\ UnspentAt(m) \ Spends[b] \subseteq UnspentAt(b)
  <1>1. /\ b \in Blocks /\ HeightOf[b] \in Nat
        /\ Anc[b][HeightOf[b]] = b
        /\ b # NoBlock /\ m # NoBlock
    BY TxBlockAssumption, FieldAssumption, HashAssumption, AncFacts DEF Heights
  <1>2. HeightOf[b] # 0 /\ m = LastTx[Parent[b]]
    BY <1>1 DEF PrevTx
  <1> DEFINE a == Parent[b]
  <1>3. /\ a \in Blocks /\ HeightOf[a] = HeightOf[b] - 1
        /\ \A k \in 0 .. (HeightOf[b] - 1) : Anc[a][k] = Anc[b][k]
    BY <1>1, <1>2, ParentStep
  <1> HIDE DEF a
  <1>4. /\ UnspentAt(m) = UnspentAt(a)
        /\ HeightOf[m] <= HeightOf[a] /\ HeightOf[m] \in Nat
    BY <1>2, <1>3, LastTxUnspent, FieldAssumption, HashAssumption DEF a, Heights
  <1>5. ASSUME NEW c \in UnspentAt(a), c \notin Spends[b]
        PROVE  c \in UnspentAt(b)
    <2>1. /\ c \in Coins /\ CreatedBelow(a, HeightOf[a] + 1, c)
          /\ ~ SpentBelow(a, HeightOf[a] + 1, c)
      BY <1>3, <1>5, HashAssumption DEF UnspentAt
    <2>2. CreatedBelow(b, HeightOf[b] + 1, c)
      BY <1>1, <1>3, <2>1 DEF CreatedBelow
    <2>3. ~ SpentBelow(b, HeightOf[b] + 1, c)
      BY <1>1, <1>3, <1>5, <2>1 DEF SpentBelow
    <2> QED
      BY <1>1, <2>1, <2>2, <2>3 DEF UnspentAt
  <1> QED
    BY <1>1, <1>3, <1>4, <1>5

------------------------------------------------------------------------------
(* The inductive invariant                                                 *)

IsJob(j) ==
    j = [f \in {"kind", "pc", "spent", "moved", "todo", "added"} |-> j[f]]

(* The ledger is the chain of accepted blocks that ends in the peak.       *)
LedgerInv ==
    /\ known \subseteq Blocks
    /\ peak \in known \cup {NoBlock}
    /\ unspent = UnspentAt(peak)
    /\ \A b \in known : Path(b) \subseteq known

JobInv ==
    /\ IsJob(job)
    /\ job.pc \in {"idle", "adding", "peak", "rebuild", "retry", "announce"}
    /\ job.pc = "idle" => job = NoJob
    /\ job.pc = "adding" => job.kind \in {"batch", "sync"}
    /\ job.pc \notin {"idle", "adding"} => peak # NoBlock
    /\ job.pc = "adding" /\ job.moved => peak # NoBlock
    /\ job.pc \in {"rebuild", "retry"} => mpeak # NoBlock

PoolInv ==
    /\ IsPool(pool) /\ pool.items \subseteq Txs
    /\ IsQueue(pending) /\ pending.items \subseteq Txs
    /\ mpeak \in TxBlocks \cup {NoBlock}
    /\ mpeak # NoBlock => peak # NoBlock
    /\ task \in [Tasks -> Txs \cup {NoTx}]
    /\ \A k \in Tasks : task[k] # NoTx => mpeak # NoBlock

(* The mempool stands at the last transaction block of the chain ...       *)
Current == mpeak = NoBlock \/ mpeak = LastTx[peak]

(* ... or will be told of the spends of the block it has not seen yet.     *)
SpentTold == Spends[peak] \subseteq job.spent

ToldInv ==
    ~ missed =>
        /\ job.pc \in {"idle", "rebuild", "retry", "announce"} => Current
        /\ job.pc = "peak" => Current \/ SpentTold
        /\ job.pc = "adding" => IF job.kind = "batch" /\ job.moved
                                THEN SpentTold ELSE Current

UnspentInv ==
    ~ missed => \A i \in pool.items : TxSpends[i] \subseteq UnspentAt(mpeak)

WaitingInv ==
    ~ cancelled /\ mpeak # NoBlock /\ job.pc # "rebuild" =>
        \A i \in pending.items : AssertHeight[i] >= HeightOf[mpeak]

Inv ==
    /\ LedgerInv /\ JobInv /\ PoolInv
    /\ LocksHold /\ ToldInv /\ UnspentInv /\ WaitingInv

------------------------------------------------------------------------------
(* What one step of the ledger and one call of add_spend_bundle do         *)

(* An accepted block keeps LedgerInv; when it becomes the peak it was not  *)
(* on the old peak's chain, so its spends are among the removals.          *)
LEMMA AcceptStep ==
    ASSUME LedgerInv, NEW b \in Blocks, Accept(b)
    PROVE  /\ LedgerInv'
           /\ peak' # NoBlock
           /\ peak' # peak => /\ peak' = b
                             /\ Spends[b] \subseteq Removals(peak, b)
  <1>1. /\ b # NoBlock /\ HeightOf[b] \in Nat
        /\ Anc[b][HeightOf[b]] = b /\ b \in Path(b)
    BY HashAssumption, FieldAssumption, AncFacts DEF Heights, Path
  <1>2. /\ b \notin known /\ known' = known \cup {b}
        /\ HeightOf[b] = 0 \/ Parent[b] \in known
        /\ peak' = IF peak = NoBlock \/ Weight[b] > Weight[peak] THEN b ELSE peak
        /\ unspent' = UnspentAt(peak')
    BY DEF Accept
  <1>3. Path(b) \subseteq known'
    <2>1. SUFFICES ASSUME NEW h \in 0 .. HeightOf[b]
                   PROVE  Anc[b][h] \in known'
      BY DEF Path
    <2>2. CASE h = HeightOf[b]
      BY <1>1, <1>2, <2>2
    <2>3. CASE h # HeightOf[b]
      <3>1. /\ HeightOf[b] # 0 /\ h \in 0 .. (HeightOf[b] - 1)
        BY <1>1, <2>3
      <3>2. /\ HeightOf[Parent[b]] = HeightOf[b] - 1
            /\ Anc[Parent[b]][h] = Anc[b][h]
        BY <3>1, ParentStep
      <3>3. Anc[b][h] \in Path(Parent[b])
        BY <3>1, <3>2 DEF Path
      <3> QED
        BY <1>2, <3>1, <3>3 DEF LedgerInv
    <2> QED
      BY <2>2, <2>3
  <1>4. LedgerInv'
    BY <1>2, <1>3 DEF LedgerInv
  <1>5. ASSUME peak' # peak
        PROVE  peak' = b /\ Spends[b] \subseteq Removals(peak, b)
    <2>1. peak' = b
      BY <1>2, <1>5
    <2>2. peak # NoBlock => b \notin Path(peak)
      BY <1>2 DEF LedgerInv
    <2>3. b \in Path(b) \ (IF peak = NoBlock THEN {} ELSE Path(peak))
      BY <1>1, <2>2
    <2> QED
      BY <2>1, <2>3 DEF Removals
  <1> QED
    BY <1>1, <1>2, <1>4, <1>5 DEF LedgerInv

(* At a height the mempool's peak has, add_spend_bundle keeps the pool     *)
(* free of locks that fail, adds only what the chain can pay for, and lets *)
(* wait only what has to.                                                  *)
LEMMA BundleStep ==
    ASSUME Inv, NEW t \in Txs, mpeak # NoBlock, mpeak' = mpeak,
           AddSpendBundle(t, HeightOf[mpeak])
    PROVE  /\ IsPool(pool') /\ pool'.items \subseteq Txs
           /\ IsQueue(pending') /\ pending'.items \subseteq Txs
           /\ LocksHold'
           /\ \A i \in pool'.items :
                 i \in pool.items \/ TxSpends[i] \subseteq unspent
           /\ \A i \in pending'.items :
                 i \in pending.items \/ AssertHeight[i] >= HeightOf[mpeak]
  <1> DEFINE h == HeightOf[mpeak]
             v == IF t \in pool.items THEN "present" ELSE Verdict(pool, t, h)
  <1>1. mpeak \in Blocks /\ h \in Nat /\ AssertHeight[t] \in Nat
    BY TxBlockAssumption, FieldAssumption, HashAssumption, TxAssumption
       DEF Inv, PoolInv, Heights
  <1>2. /\ IsPool(pool) /\ pool.items \subseteq Txs
        /\ IsQueue(pending) /\ pending.items \subseteq Txs
    BY DEF Inv, PoolInv
  <1>3. /\ pool' = IF v = "valid" THEN Admit(pool, t) ELSE pool
        /\ pending' = IF v = "pending" THEN AddPending(pending, t) ELSE pending
    BY DEF AddSpendBundle
  <1>4. v = "valid" => /\ TxSpends[t] \subseteq unspent
                       /\ AssertHeight[t] <= h /\ h < BeforeHeight[t]
    BY <1>1, VerdictFacts
  <1>5. v = "pending" => AssertHeight[t] >= h
    BY <1>1, VerdictFacts
  <1> HIDE DEF v
  <1>6. /\ IsPool(pool')
        /\ \/ pool' = pool
           \/ /\ v = "valid"
              /\ pool'.items \subseteq (pool.items \ Conflicts(pool, t)) \cup {t}
    BY <1>2, <1>3, AdmitItems
  <1>7. /\ IsQueue(pending')
        /\ pending'.items \subseteq pending.items \cup {t}
        /\ v # "pending" => pending' = pending
    BY <1>2, <1>3, AddPendingItems
  <1>8. LocksHold'
    BY <1>1, <1>4, <1>6 DEF Inv, LocksHold
  <1> QED
    BY <1>2, <1>4, <1>5, <1>6, <1>7, <1>8

------------------------------------------------------------------------------
(* The invariant is inductive: one lemma per group of actions              *)

LEMMA Initially == Init => Inv
  <1> SUFFICES ASSUME Init PROVE Inv
    OBVIOUS
  <1>1. LedgerInv
    BY DEF Init, LedgerInit, LedgerInv, UnspentAt
  <1>2. JobInv
    BY DEF Init, JobInv, IsJob, NoJob, NewJob
  <1>3. PoolInv
    BY DEF Init, LedgerInit, PoolInv, IsPool, IsQueue, EmptyPool, EmptyQueue
  <1>4. LocksHold /\ UnspentInv
    BY DEF Init, LocksHold, UnspentInv, EmptyPool
  <1>5. ToldInv
    BY DEF Init, ToldInv, Current, NoJob, NewJob
  <1>6. WaitingInv
    BY DEF Init, WaitingInv
  <1> QED
    BY <1>1, <1>2, <1>3, <1>4, <1>5, <1>6 DEF Inv

(* A step that leaves chain, pool and waiting transactions alone keeps     *)
(* what is said of them.                                                   *)
LEMMA QuietStep ==
    ASSUME Inv, UNCHANGED <<ledgerVars, mpeak, pool, pending>>,
           missed => missed', cancelled => cancelled',
           job.pc = "rebuild" => cancelled' \/ job'.pc = "rebuild",
           JobInv', ToldInv',
           task' \in [Tasks -> Txs \cup {NoTx}],
           \A k \in Tasks : task'[k] # NoTx => mpeak # NoBlock
    PROVE  Inv'
  <1>1. LedgerInv'
    BY DEF Inv, LedgerInv, ledgerVars
  <1>2. PoolInv'
    BY DEF Inv, PoolInv, ledgerVars
  <1>3. LocksHold'
    BY DEF Inv, LocksHold
  <1>4. UnspentInv'
    BY DEF Inv, UnspentInv
  <1>5. WaitingInv'
    BY DEF Inv, WaitingInv
  <1> QED
    BY <1>1, <1>2, <1>3, <1>4, <1>5 DEF Inv

(* Who has just taken the mutex for blocks has not moved the peak yet.     *)
LEMMA NewJobFacts ==
    ASSUME NEW kind, NEW pc, NEW spent
    PROVE  /\ IsJob(NewJob(kind, pc, spent))
           /\ NewJob(kind, pc, spent).kind = kind
           /\ NewJob(kind, pc, spent).pc = pc
           /\ NewJob(kind, pc, spent).spent = spent
           /\ pc # "peak" => ~ NewJob(kind, pc, spent).moved
  <1>1. NewJob(kind, pc, spent).moved = (pc = "peak")
    BY DEF NewJob
  <1>2. pc # "peak" => ~ NewJob(kind, pc, spent).moved
    BY <1>1, Zenon
  <1> QED
    BY <1>2 DEF IsJob, NewJob

(* add_transaction up to the mutex.                                        *)
LEMMA SubmitStep ==
    ASSUME Inv, NEW k \in Tasks, NEW t \in Txs,
           Submit(k, t) \/ PreValidateFails(k)
    PROVE  Inv'
  <1>1. /\ UNCHANGED <<ledgerVars, mpeak, pool, pending>>
        /\ UNCHANGED <<job, missed, cancelled>>
    BY DEF Submit, PreValidateFails, poolVars
  <1>2. JobInv' /\ ToldInv'
    BY <1>1 DEF Inv, JobInv, ToldInv, Current, SpentTold, ledgerVars
  <1>3. /\ task' \in [Tasks -> Txs \cup {NoTx}]
        /\ \A j \in Tasks : task'[j] # NoTx => mpeak # NoBlock
    BY DEF Inv, PoolInv, Submit, PreValidateFails
  <1> QED
    BY <1>1, <1>2, <1>3, QuietStep

(* What holds the mutex takes a step of its own.                           *)
LEMMA JobStep ==
    ASSUME Inv,
           \/ BatchStarts \/ SyncStarts \/ BatchEnds \/ BatchFails
           \/ SyncDone \/ FinishSync \/ RetriesDone \/ Announce
           \/ (\E s \in announcing : AnnounceUnlocked(s)) \/ Cancel
    PROVE  Inv'
  <1>1. UNCHANGED <<ledgerVars, mpeak, pool, pending, task>>
    BY DEF BatchStarts, SyncStarts, BatchEnds, BatchFails, SyncDone, FinishSync,
           RetriesDone, Announce, AnnounceUnlocked, Cancel, mempoolVars
  <1>2. /\ missed => missed'
        /\ cancelled => cancelled'
    <2>1. CASE BatchFails
      BY <2>1, Zenon DEF BatchFails
    <2>2. CASE Cancel
      BY <2>2, Zenon DEF Cancel
    <2>3. CASE ~ BatchFails /\ ~ Cancel
      BY <2>3 DEF BatchStarts, SyncStarts, BatchEnds, SyncDone, FinishSync,
                  RetriesDone, Announce, AnnounceUnlocked
    <2> QED
      BY <2>1, <2>2, <2>3
  <1>3. job.pc = "rebuild" => cancelled' \/ job'.pc = "rebuild"
    BY DEF BatchStarts, SyncStarts, BatchEnds, BatchFails, SyncDone, FinishSync,
           RetriesDone, Announce, AnnounceUnlocked, Cancel, NoJob, NewJob
  <1>4. JobInv' /\ ToldInv'
    <2>0. /\ IsJob(NoJob) /\ NoJob.pc = "idle"
          /\ ~ missed' => ~ missed
          /\ peak' = peak /\ mpeak' = mpeak
      BY <1>1, <1>2, NewJobFacts DEF NoJob, ledgerVars
    <2> HIDE DEF NoJob
    <2>1. CASE BatchStarts \/ SyncStarts
      <3>1. /\ job = NoJob /\ IsJob(job') /\ job'.pc = "adding"
            /\ job'.kind \in {"batch", "sync"} /\ ~ job'.moved
        BY <2>1, NewJobFacts DEF BatchStarts, SyncStarts
      <3> QED
        BY <2>0, <3>1 DEF Inv, JobInv, ToldInv, Current
    <2>2. CASE BatchEnds
      <3>1. /\ job.pc = "adding" /\ job.kind = "batch"
            /\ UNCHANGED missed
            /\ job' = IF job.moved THEN [job EXCEPT !.pc = "peak"] ELSE NoJob
        BY <2>2 DEF BatchEnds
      <3>2. CASE job.moved
        <4>1. /\ IsJob(job') /\ job'.pc = "peak" /\ job'.spent = job.spent
          BY <3>1, <3>2 DEF Inv, JobInv, IsJob
        <4> QED
          BY <2>0, <3>1, <3>2, <4>1 DEF Inv, JobInv, ToldInv, SpentTold
      <3>3. CASE ~ job.moved
        BY <2>0, <3>1, <3>3 DEF Inv, JobInv, ToldInv, Current
      <3> QED
        BY <3>2, <3>3
    <2>3. CASE BatchFails
      <3>1. ~ missed' => ~ job.moved
        BY <2>3, Zenon DEF BatchFails
      <3> QED
        BY <2>0, <2>3, <3>1 DEF BatchFails, Inv, JobInv, ToldInv, Current
    <2>4. CASE SyncDone
      BY <2>0, <2>4 DEF SyncDone, Inv, JobInv, ToldInv, Current
    <2>5. CASE FinishSync
      <3>1. CASE peak = NoBlock
        BY <2>0, <2>5, <3>1 DEF FinishSync, Inv, JobInv, ToldInv, Current
      <3>2. CASE peak # NoBlock
        <4>1. IsJob(job') /\ job'.pc = "peak" /\ job = NoJob
          BY <2>5, <3>2, NewJobFacts DEF FinishSync
        <4> QED
          BY <2>0, <3>2, <4>1 DEF Inv, JobInv, ToldInv, Current
      <3> QED
        BY <3>1, <3>2
    <2>6. CASE RetriesDone \/ Announce
      <3>1. /\ job.pc \in {"retry", "announce"}
            /\ IsJob(job')
            /\ job' = NoJob \/ job'.pc = "announce"
        BY <2>0, <2>6 DEF RetriesDone, Announce, Inv, JobInv, IsJob
      <3> QED
        BY <2>0, <3>1 DEF Inv, JobInv, ToldInv, Current
    <2>7. CASE \E s \in announcing : AnnounceUnlocked(s)
      BY <2>0, <2>7 DEF AnnounceUnlocked, Inv, JobInv, ToldInv, Current, SpentTold
    <2>8. CASE Cancel
      <3>1. ~ missed' => job.pc # "peak"
        BY <2>8, Zenon DEF Cancel
      <3> QED
        BY <2>0, <2>8, <3>1 DEF Cancel, Inv, JobInv, ToldInv, Current
    <2> QED
      BY <2>1, <2>2, <2>3, <2>4, <2>5, <2>6, <2>7, <2>8
  <1>5. /\ task' \in [Tasks -> Txs \cup {NoTx}]
        /\ \A k \in Tasks : task'[k] # NoTx => mpeak # NoBlock
    BY <1>1 DEF Inv, PoolInv
  <1> QED
    BY <1>1, <1>2, <1>3, <1>4, <1>5, QuietStep

(* A block reaches the chain; the pool is not touched.                     *)
LEMMA BlockStep ==
    ASSUME Inv, NEW b \in Blocks, AddBlock(b) \/ BatchBlock(b)
    PROVE  Inv'
  <1>1. /\ LedgerInv' /\ peak' # NoBlock
        /\ peak' # peak => /\ peak' = b
                          /\ Spends[b] \subseteq Removals(peak, b)
    BY AcceptStep DEF Inv, AddBlock, BatchBlock
  <1>2. UNCHANGED <<mpeak, pool, pending, task, cancelled>>
    BY DEF AddBlock, BatchBlock, mempoolVars
  <1>3. PoolInv'
    BY <1>1, <1>2 DEF Inv, PoolInv
  <1>4. LocksHold'
    BY <1>2 DEF Inv, LocksHold
  <1>5. ~ missed' => ~ missed
    <2>1. CASE AddBlock(b)
      BY <2>1 DEF AddBlock
    <2>2. CASE BatchBlock(b)
      BY <2>2, Zenon DEF BatchBlock
    <2> QED
      BY <2>1, <2>2
  <1>6. UnspentInv'
    BY <1>2, <1>5 DEF Inv, UnspentInv
  <1>7. JobInv' /\ ToldInv' /\ (job.pc = "rebuild" => job'.pc = "rebuild")
    <2>0. IsJob(NoJob) /\ NoJob.pc = "idle"
      BY NewJobFacts DEF NoJob
    <2> HIDE DEF NoJob
    <2>1. CASE AddBlock(b)
      <3>1. job = NoJob /\ UNCHANGED missed
        BY <2>1 DEF AddBlock
      <3>2. CASE peak' = peak
        <4>1. job' = NoJob
          BY <2>1, <3>2 DEF AddBlock
        <4> QED
          BY <1>1, <1>2, <2>0, <3>1, <3>2, <4>1
             DEF Inv, JobInv, ToldInv, Current
      <3>3. CASE peak' # peak
        <4>1. job' = NewJob("block", "peak", Removals(peak, b))
          BY <2>1, <3>3 DEF AddBlock
        <4>2. /\ IsJob(job') /\ job'.pc = "peak"
              /\ job'.spent = Removals(peak, b)
          BY <4>1, NewJobFacts
        <4> QED
          BY <1>1, <2>0, <3>1, <3>3, <4>2 DEF Inv, JobInv, ToldInv, SpentTold
      <3> QED
        BY <3>2, <3>3
    <2>2. CASE BatchBlock(b)
      <3>1. job.pc = "adding" /\ job.kind \in {"batch", "sync"}
        BY <2>2 DEF BatchBlock, Inv, JobInv
      <3>2. CASE peak' = peak
        <4>1. job' = job
          BY <2>2, <3>2 DEF BatchBlock
        <4> QED
          BY <1>1, <1>2, <1>5, <3>1, <3>2, <4>1
             DEF Inv, JobInv, ToldInv, Current, SpentTold
      <3>3. CASE peak' # peak
        <4>1. job' = [job EXCEPT !.spent = @ \cup Removals(peak, b),
                                 !.moved = TRUE]
          BY <2>2, <3>3 DEF BatchBlock
        <4>2. /\ IsJob(job') /\ job'.pc = "adding"
              /\ job'.kind = job.kind /\ job'.moved
              /\ Removals(peak, b) \subseteq job'.spent
          BY <3>1, <4>1 DEF Inv, JobInv, IsJob
        <4>3. ~ missed' => job.kind # "sync"
          BY <2>2, <3>3, Zenon DEF BatchBlock
        <4> QED
          BY <1>1, <3>1, <3>3, <4>2, <4>3
             DEF Inv, JobInv, ToldInv, SpentTold
      <3> QED
        BY <3>2, <3>3
    <2> QED
      BY <2>1, <2>2
  <1>8. WaitingInv'
    BY <1>2, <1>7 DEF Inv, WaitingInv
  <1> QED
    BY <1>1, <1>3, <1>4, <1>6, <1>7, <1>8 DEF Inv

(* A transaction is offered to the pool: from a peer, from the old pool or *)
(* from the waiting ones.                                                  *)
LEMMA OfferStep ==
    ASSUME Inv,
           \/ \E k \in Tasks : AddTransaction(k)
           \/ \E t \in Txs : Rebuild(t) \/ Retry(t)
    PROVE  Inv'
  <1>1. PICK t \in Txs : AddSpendBundle(t, HeightOf[mpeak])
    BY DEF AddTransaction, Rebuild, Retry, Inv, PoolInv
  <1>2. /\ UNCHANGED <<known, peak, unspent, mpeak, missed, cancelled>>
    BY DEF AddTransaction, Rebuild, Retry, ledgerVars
  <1>3. mpeak # NoBlock /\ job.pc \in {"idle", "rebuild", "retry"}
    <2>1. ASSUME NEW k \in Tasks, AddTransaction(k)
          PROVE  mpeak # NoBlock /\ job.pc = "idle"
      BY <2>1 DEF AddTransaction, Inv, PoolInv, NoJob, NewJob
    <2>2. ASSUME NEW u \in Txs, Rebuild(u) \/ Retry(u)
          PROVE  mpeak # NoBlock /\ job.pc \in {"rebuild", "retry"}
      BY <2>2 DEF Rebuild, Retry, Inv, JobInv
    <2> QED
      BY <2>1, <2>2
  <1>4. /\ IsPool(pool') /\ pool'.items \subseteq Txs
        /\ IsQueue(pending') /\ pending'.items \subseteq Txs
        /\ LocksHold'
        /\ \A i \in pool'.items :
              i \in pool.items \/ TxSpends[i] \subseteq unspent
        /\ \A i \in pending'.items :
              i \in pending.items \/ AssertHeight[i] >= HeightOf[mpeak]
    BY <1>1, <1>2, <1>3, BundleStep
  <1>5. LedgerInv'
    BY <1>2 DEF Inv, LedgerInv
  <1>6. IsJob(job') /\ job'.pc = job.pc /\ (job.pc = "idle" => job' = job)
    <2>1. ASSUME NEW k \in Tasks, AddTransaction(k)
          PROVE  job' = job
      BY <2>1 DEF AddTransaction
    <2>2. ASSUME NEW u \in Txs, Rebuild(u) \/ Retry(u)
          PROVE  IsJob(job') /\ job'.pc = job.pc /\ job.pc # "idle"
      BY <2>2 DEF Rebuild, Retry, Inv, JobInv, IsJob
    <2> QED
      BY <2>1, <2>2 DEF Inv, JobInv
  <1>7. JobInv' /\ ToldInv'
    BY <1>2, <1>3, <1>6 DEF Inv, JobInv, ToldInv, Current
  <1>8. PoolInv'
    <2>1. /\ task' \in [Tasks -> Txs \cup {NoTx}]
          /\ \A j \in Tasks : task'[j] # NoTx => task[j] # NoTx
      BY DEF AddTransaction, Rebuild, Retry, Inv, PoolInv
    <2> QED
      BY <1>2, <1>4, <2>1 DEF Inv, PoolInv
  <1>9. UnspentInv'
    <2>1. SUFFICES ASSUME ~ missed
                   PROVE  unspent = UnspentAt(mpeak)
      BY <1>2, <1>4, <2>1 DEF Inv, UnspentInv
    <2>2. mpeak = LastTx[peak] /\ peak \in Blocks
      BY <1>3, <2>1 DEF Inv, ToldInv, Current, PoolInv, LedgerInv
    <2> QED
      BY <2>2, LastTxUnspent DEF Inv, LedgerInv
  <1>10. WaitingInv'
    BY <1>2, <1>4, <1>6 DEF Inv, WaitingInv
  <1> QED
    BY <1>4, <1>5, <1>7, <1>8, <1>9, <1>10 DEF Inv

(* Waiting transactions of passed heights leave the cache.                 *)
LEMMA DrainStep ==
    ASSUME Inv, Drain
    PROVE  Inv'
  <1> DEFINE due == Due(pending, HeightOf[mpeak])
  <1>1. /\ UNCHANGED <<known, peak, unspent, mpeak, pool, task, missed, cancelled>>
        /\ pending' = Without(pending, due)
        /\ job.pc = "rebuild"
    BY DEF Drain, ledgerVars
  <1>2. IsJob(job') /\ job'.pc = "retry"
    BY <1>1 DEF Drain, Inv, JobInv, IsJob
  <1>3. IsQueue(pending') /\ pending'.items = pending.items \ due
    BY <1>1, QueueOperations DEF Inv, PoolInv
  <1>4. LedgerInv' /\ PoolInv'
    BY <1>1, <1>3 DEF Inv, LedgerInv, PoolInv
  <1>5. JobInv' /\ ToldInv'
    BY <1>1, <1>2 DEF Inv, JobInv, ToldInv, Current
  <1>6. LocksHold' /\ UnspentInv'
    BY <1>1 DEF Inv, LocksHold, UnspentInv
  <1>7. WaitingInv'
    <2>1. mpeak \in Blocks /\ HeightOf[mpeak] \in Nat
      BY <1>1, TxBlockAssumption, FieldAssumption, HashAssumption
         DEF Inv, JobInv, PoolInv, Heights
    <2>2. \A i \in pending'.items : AssertHeight[i] >= HeightOf[mpeak]
      BY <1>3, <2>1, TxAssumption DEF Inv, PoolInv, Due
    <2> QED
      BY <1>1, <2>2 DEF WaitingInv
  <1> QED
    BY <1>4, <1>5, <1>6, <1>7 DEF Inv

(* new_peak up to its first await.  The pool is kept only if the new block *)
(* is the next transaction block; what it spends or expires leaves.        *)
LEMMA NewPeakStep ==
    ASSUME Inv, NewPeak
    PROVE  Inv'
  <1>1. /\ UNCHANGED <<known, peak, unspent, pending, task, cancelled>>
        /\ job.pc = "peak" /\ peak # NoBlock /\ peak \in Blocks
    BY DEF NewPeak, mempoolVars, ledgerVars, Inv, JobInv, LedgerInv
  <1>2. LedgerInv'
    BY <1>1 DEF Inv, LedgerInv
  <1>3. CASE peak \notin TxBlocks \/ mpeak = peak
    <2>1. /\ UNCHANGED <<mpeak, pool>>
          /\ job' = [job EXCEPT !.pc = "announce"]
      BY <1>3 DEF NewPeak, mempoolVars
    <2>2. ~ missed' => ~ missed /\ mpeak \in {NoBlock, LastTx[peak]}
      BY <1>3, Zenon DEF NewPeak
    <2>3. IsJob(job') /\ job'.pc = "announce"
      BY <2>1 DEF Inv, JobInv, IsJob
    <2>4. JobInv' /\ ToldInv'
      BY <1>1, <2>1, <2>2, <2>3 DEF Inv, JobInv, ToldInv, Current
    <2>5. PoolInv' /\ LocksHold' /\ UnspentInv' /\ WaitingInv'
      BY <1>1, <2>1, <2>2, <2>3
         DEF Inv, PoolInv, LocksHold, UnspentInv, WaitingInv
    <2> QED
      BY <1>2, <2>4, <2>5 DEF Inv
  <1>4. CASE ~ (peak \notin TxBlocks \/ mpeak = peak)
    <2> DEFINE p    == NewTxBlock(pool, HeightOf[peak])
               gone == {i \in p.items : TxSpends[i] \cap job.spent # {}}
    <2>1. mpeak' = peak /\ peak \in TxBlocks /\ LastTx[peak] = peak
      BY <1>4, LastTxOfTxBlock DEF NewPeak
    <2>2. IsJob(job') /\ job'.pc = "rebuild"
      BY <1>4 DEF NewPeak, Inv, JobInv, IsJob
    <2>3. JobInv' /\ ToldInv' /\ WaitingInv'
      BY <1>1, <2>1, <2>2 DEF JobInv, ToldInv, Current, WaitingInv
    <2>4. CASE UseOptimization
      <3>1. pool' = RemoveFromPool(p, gone) /\ UNCHANGED missed
        BY <1>4, <2>4 DEF NewPeak
      <3>2. /\ mpeak \in Blocks /\ PrevTx(peak) = mpeak
            /\ HeightOf[mpeak] \in Nat /\ HeightOf[peak] \in Nat
        BY <1>1, <2>4, TxBlockAssumption, FieldAssumption, HashAssumption
           DEF UseOptimization, Inv, PoolInv, Heights
      <3>3. /\ HeightOf[mpeak] < HeightOf[peak]
            /\ UnspentAt(mpeak) \ Spends[peak] \subseteq UnspentAt(peak)
        BY <2>1, <3>2, NextTxBlock
      <3>4. /\ IsPool(p)
            /\ \A i \in p.items : i \in pool.items /\ ~ BeforeHeight[i] <= HeightOf[peak]
        <4> DEFINE old == {i \in pool.items : BeforeHeight[i] <= HeightOf[peak]}
                   q   == RemoveFromPool(pool, old)
        <4>1. IsPool(q) /\ q.items = pool.items \ old
          BY PoolOperations DEF Inv, PoolInv, RemoveFromPool
        <4> HIDE DEF q
        <4>2. p = [q EXCEPT !.height = HeightOf[peak]]
          BY DEF NewTxBlock, q
        <4>3. IsPool(p) /\ p.items = q.items
          BY <4>1, <4>2 DEF IsPool
        <4> QED
          BY <4>1, <4>3
      <3> HIDE DEF p
      <3>5. /\ IsPool(pool')
            /\ pool'.items \subseteq pool.items
            /\ \A i \in pool'.items :
                  /\ ~ BeforeHeight[i] <= HeightOf[peak]
                  /\ TxSpends[i] \cap job.spent = {}
        BY <3>1, <3>4, PoolOperations DEF RemoveFromPool
      <3>6. LocksHold'
        <4>1. SUFFICES ASSUME NEW i \in pool'.items
                       PROVE  /\ AssertHeight[i] <= HeightOf[peak]
                              /\ HeightOf[peak] < BeforeHeight[i]
          BY <1>1, <2>1 DEF LocksHold
        <4>2. /\ i \in Txs /\ AssertHeight[i] <= HeightOf[mpeak]
              /\ ~ BeforeHeight[i] <= HeightOf[peak]
          BY <3>5 DEF Inv, LocksHold, PoolInv
        <4> QED
          BY <3>2, <3>3, <4>2, TxAssumption
      <3>7. UnspentInv'
        <4>1. SUFFICES ASSUME ~ missed, NEW i \in pool'.items
                       PROVE  TxSpends[i] \subseteq UnspentAt(peak)
          BY <2>1, <3>1 DEF UnspentInv
        <4>2. Spends[peak] \subseteq job.spent
          BY <1>1, <1>4, <2>1, <3>2, <4>1, HashAssumption
             DEF Inv, ToldInv, Current, SpentTold
        <4>3. TxSpends[i] \subseteq UnspentAt(mpeak)
          BY <3>5, <4>1 DEF Inv, UnspentInv
        <4> QED
          BY <3>3, <3>5, <4>2, <4>3
      <3>8. PoolInv'
        BY <1>1, <2>1, <3>2, <3>5 DEF Inv, PoolInv
      <3> QED
        BY <1>2, <2>3, <3>6, <3>7, <3>8 DEF Inv
    <2>5. CASE ~ UseOptimization
      <3>1. pool' = EmptyPool
        BY <1>4, <2>5 DEF NewPeak
      <3>2. IsPool(pool') /\ pool'.items = {}
        BY <3>1 DEF EmptyPool, IsPool
      <3>3. LocksHold' /\ UnspentInv'
        BY <3>2 DEF LocksHold, UnspentInv
      <3>4. PoolInv'
        BY <1>1, <2>1, <3>2 DEF Inv, PoolInv
      <3> QED
        BY <1>2, <2>3, <3>3, <3>4 DEF Inv
    <2> QED
      BY <2>4, <2>5
  <1> QED
    BY <1>3, <1>4

(* The process starts again with an empty pool.                            *)
LEMMA RestartStep ==
    ASSUME Inv, Restart
    PROVE  Inv'
  <1>1. /\ UNCHANGED <<known, peak, unspent>>
        /\ mpeak' = IF peak \in TxBlocks THEN peak ELSE NoBlock
        /\ pool' = EmptyPool /\ pending' = EmptyQueue
        /\ task' = [k \in Tasks |-> NoTx] /\ job' = NoJob
    BY DEF Restart, ledgerVars
  <1>2. /\ IsPool(pool') /\ pool'.items = {}
        /\ IsQueue(pending') /\ pending'.items = {}
    BY <1>1 DEF EmptyPool, EmptyQueue, IsPool, IsQueue
  <1>3. IsJob(job') /\ job'.pc = "idle" /\ job' = NoJob
    BY <1>1, NewJobFacts DEF NoJob
  <1>4. LedgerInv'
    BY <1>1 DEF Inv, LedgerInv
  <1>5. JobInv'
    BY <1>3 DEF JobInv
  <1>6. PoolInv'
    BY <1>1, <1>2, HashAssumption, TxBlockAssumption DEF PoolInv
  <1>7. LocksHold' /\ UnspentInv' /\ WaitingInv'
    BY <1>2 DEF LocksHold, UnspentInv, WaitingInv
  <1>8. ToldInv'
    BY <1>1, <1>3, LastTxOfTxBlock DEF ToldInv, Current
  <1> QED
    BY <1>4, <1>5, <1>6, <1>7, <1>8 DEF Inv

------------------------------------------------------------------------------
(* What follows for every behaviour                                        *)

(* The inductive invariant: chain, mempool peak, pool, caches and the      *)
(* holder of the mutex agree after any interleaving of transactions,       *)
(* blocks, batches, syncs, cancellations and restarts.                     *)
THEOREM MempoolInvariance == Spec => []Inv
  <1>1. Inv /\ [Next]_vars => Inv'
    <2> SUFFICES ASSUME Inv, [Next]_vars PROVE Inv'
      OBVIOUS
    <2>1. CASE \E k \in Tasks : \/ \E t \in Txs : Submit(k, t)
                                \/ PreValidateFails(k)
      <3>1. ASSUME NEW k \in Tasks, NEW t \in Txs, Submit(k, t)
            PROVE  Inv'
        BY <3>1, SubmitStep
      <3>2. ASSUME NEW k \in Tasks, PreValidateFails(k)
            PROVE  Inv'
        <4>1. task[k] \in Txs
          BY <3>2 DEF PreValidateFails, Inv, PoolInv
        <4> QED
          BY <3>2, <4>1, SubmitStep
      <3> QED
        BY <2>1, <3>1, <3>2
    <2>2. CASE \/ \E k \in Tasks : AddTransaction(k)
               \/ \E t \in Txs : Rebuild(t) \/ Retry(t)
      BY <2>2, OfferStep
    <2>3. CASE \E b \in Blocks : AddBlock(b) \/ BatchBlock(b)
      BY <2>3, BlockStep
    <2>4. CASE \/ BatchStarts \/ SyncStarts \/ BatchEnds \/ BatchFails
               \/ SyncDone \/ FinishSync \/ RetriesDone \/ Announce
               \/ (\E s \in announcing : AnnounceUnlocked(s)) \/ Cancel
      BY <2>4, JobStep
    <2>5. CASE NewPeak
      BY <2>5, NewPeakStep
    <2>6. CASE Drain
      BY <2>6, DrainStep
    <2>7. CASE Restart
      BY <2>7, RestartStep
    <2>8. CASE UNCHANGED vars
      <3>1. /\ UNCHANGED <<ledgerVars, mpeak, pool, pending>>
            /\ UNCHANGED <<task, job, missed, cancelled>>
        BY <2>8 DEF vars, mempoolVars
      <3>2. JobInv' /\ ToldInv'
        BY <3>1 DEF Inv, JobInv, ToldInv, Current, SpentTold, ledgerVars
      <3>3. /\ task' \in [Tasks -> Txs \cup {NoTx}]
            /\ \A k \in Tasks : task'[k] # NoTx => mpeak # NoBlock
        BY <3>1 DEF Inv, PoolInv
      <3> QED
        BY <3>1, <3>2, <3>3, QuietStep
    <2> QED
      BY <2>1, <2>2, <2>3, <2>4, <2>5, <2>6, <2>7, <2>8 DEF Next
  <1> QED
    BY <1>1, Initially, PTL DEF Spec

(* The height conditions of every pooled transaction hold at the mempool's *)
(* peak: new_tx_block and validate_spend_bundle miss none.                 *)
THEOREM PoolLocksHold == Spec => []LocksHold
  <1>1. Inv => LocksHold
    BY DEF Inv
  <1> QED
    BY <1>1, MempoolInvariance, PTL

(* While new_peak is told of every transaction block that comes or goes,   *)
(* the pool spends only coins that are unspent on the chain: its fast path *)
(* removes enough and its slow path drops the rest.                        *)
THEOREM PoolSpendsUnspent == Spec => []PoolUnspent
  <1>1. Inv => PoolUnspent
    <2> SUFFICES ASSUME Inv, job = NoJob, ~ missed, NEW i \in pool.items
                 PROVE  TxSpends[i] \subseteq unspent
      BY DEF PoolUnspent
    <2>1. job.pc = "idle"
      BY NewJobFacts DEF NoJob
    <2>2. mpeak \in Blocks /\ TxSpends[i] \subseteq UnspentAt(mpeak)
      BY DEF Inv, LocksHold, UnspentInv
    <2>3. mpeak = LastTx[peak] /\ peak \in Blocks
      BY <2>1, <2>2, HashAssumption
         DEF Inv, ToldInv, Current, PoolInv, LedgerInv
    <2> QED
      BY <2>2, <2>3, LastTxUnspent DEF Inv, LedgerInv
  <1> QED
    BY <1>1, MempoolInvariance, PTL

(* No transaction stays in the pending cache once its height has passed:   *)
(* drain takes it out for a retry, unless the task was cancelled there.    *)
THEOREM PendingRetried == Spec => []RetriedInTime
  <1>1. Inv => RetriedInTime
    <2>1. NoJob.pc = "idle"
      BY NewJobFacts DEF NoJob
    <2> QED
      BY <2>1 DEF Inv, WaitingInv, RetriedInTime
  <1> QED
    BY <1>1, MempoolInvariance, PTL

------------------------------------------------------------------------------
(* Every step of the manager.                                              *)

(* A verdict of valid includes the check of fees.                        *)
LEMMA ValidPaysEnough ==
    ASSUME NEW p, NEW t, NEW h, Verdict(p, t, h) = "valid"
    PROVE  ~ FeeTooLow(p, t)
  <1> SUFFICES ASSUME FeeTooLow(p, t) PROVE FALSE
    OBVIOUS
  <1>1. Verdict(p, t, h) = "failed"
    BY DEF Verdict
  <1> QED
    BY <1>1

(* The ways in which a step changes the pool.                              *)
PoolChange ==
    \/ pool' = pool
    \/ pool' = EmptyPool
    \/ /\ IsPool(pool') /\ Ordered(pool')
       /\ pool'.items \subseteq pool.items /\ pool'.before \subseteq pool.before
    \/ \E t \in Txs : /\ t \notin pool.items /\ ~ FeeTooLow(pool, t)
                      /\ pool' = Admit(pool, t)

(* add_spend_bundle changes the pool by admitting its transaction.       *)
LEMMA BundleChange ==
    ASSUME NEW t \in Txs, NEW h, AddSpendBundle(t, h)
    PROVE  PoolChange
  <1> DEFINE v == IF t \in pool.items THEN "present" ELSE Verdict(pool, t, h)
  <1>1. pool' = IF v = "valid" THEN Admit(pool, t) ELSE pool
    BY DEF AddSpendBundle
  <1>2. v = "valid" => t \notin pool.items /\ ~ FeeTooLow(pool, t)
    BY ValidPaysEnough
  <1> QED
    BY <1>1, <1>2 DEF PoolChange

(* new_peak takes items out, or starts again with an empty pool.         *)
LEMMA NewPeakChange ==
    ASSUME IsPool(pool), Ordered(pool), NewPeak
    PROVE  PoolChange
  <1> DEFINE S == {i \in pool.items : BeforeHeight[i] <= HeightOf[peak]}
             r == RemoveFromPool(pool, S)
             p == NewTxBlock(pool, HeightOf[peak])
             gone == {i \in p.items : TxSpends[i] \cap job.spent # {}}
  <1>1. \/ pool' = pool \/ pool' = EmptyPool \/ pool' = RemoveFromPool(p, gone)
    BY DEF NewPeak, mempoolVars
  <1>2. /\ IsPool(r) /\ Ordered(r)
        /\ r.items \subseteq pool.items /\ r.before \subseteq pool.before
    BY PoolOperations, WithoutOrdered DEF RemoveFromPool
  <1>3. p = [r EXCEPT !.height = HeightOf[peak]]
    BY DEF NewTxBlock
  <1> HIDE DEF r
  <1>4. IsPool(p) /\ p.items = r.items /\ p.before = r.before
    BY <1>2, <1>3 DEF IsPool
  <1> HIDE DEF p
  <1>5. Ordered(p)
    BY <1>2, <1>4 DEF Ordered
  <1>6. IsPool(RemoveFromPool(p, gone)) /\ Ordered(RemoveFromPool(p, gone))
        /\ RemoveFromPool(p, gone).items \subseteq pool.items
        /\ RemoveFromPool(p, gone).before \subseteq pool.before
    BY <1>2, <1>4, <1>5, PoolOperations, WithoutOrdered DEF RemoveFromPool
  <1> QED
    BY <1>1, <1>6 DEF PoolChange

(* Nothing else changes the pool.                                        *)
LEMMA PoolStep ==
    ASSUME Inv, Ordered(pool), [Next]_vars
    PROVE  PoolChange
  <1>1. IsPool(pool) /\ task \in [Tasks -> Txs \cup {NoTx}]
    BY DEF Inv, PoolInv
  <1>2. ASSUME NEW k \in Tasks, AddTransaction(k) PROVE PoolChange
    <2>1. task[k] \in Txs
      BY <1>1, <1>2 DEF AddTransaction
    <2> QED
      BY <1>2, <2>1, BundleChange DEF AddTransaction
  <1>3. ASSUME NEW t \in Txs, Rebuild(t) \/ Retry(t) PROVE PoolChange
    BY <1>3, BundleChange DEF Rebuild, Retry
  <1>4. CASE NewPeak
    BY <1>1, <1>4, NewPeakChange
  <1>5. CASE Restart
    BY <1>5 DEF Restart, PoolChange
  <1>6. CASE UNCHANGED vars
    BY <1>6 DEF vars, mempoolVars, PoolChange
  <1>7. ASSUME NEW k \in Tasks, NEW t \in Txs, Submit(k, t)
        PROVE  PoolChange
    BY <1>7 DEF Submit, poolVars, PoolChange
  <1>8. ASSUME NEW b \in Blocks, AddBlock(b) \/ BatchBlock(b) PROVE PoolChange
    BY <1>8 DEF AddBlock, BatchBlock, mempoolVars, PoolChange
  <1>9. CASE \/ BatchStarts \/ SyncStarts \/ BatchEnds \/ BatchFails
             \/ SyncDone \/ FinishSync \/ RetriesDone \/ Announce \/ Cancel
             \/ \E s \in announcing : AnnounceUnlocked(s)
    BY <1>9 DEF BatchStarts, SyncStarts, BatchEnds, BatchFails, SyncDone, FinishSync,
                RetriesDone, Announce, Cancel, AnnounceUnlocked, mempoolVars, PoolChange
  <1>10. CASE Drain
    BY <1>10 DEF Drain, PoolChange
  <1>11. ASSUME NEW k \in Tasks, PreValidateFails(k) PROVE PoolChange
    BY <1>11 DEF PreValidateFails, poolVars, PoolChange
  <1> QED
    BY <1>2, <1>3, <1>4, <1>5, <1>6, <1>7, <1>8, <1>9, <1>10, <1>11 DEF Next

(* EvictionFair for one step.                                              *)
EntryFair ==
    \A t \in pool'.items \ pool.items :
        /\ TotalCost(pool'.items) <= MaxTotalCost
        /\ \A i \in pool.items \ pool'.items :
              i \in Conflicts(pool, t) \/ ~ HigherRate(i, t)

(* Each of these changes keeps the order and is fair.                    *)
LEMMA ChangeFair ==
    ASSUME IsPool(pool), Ordered(pool), PoolChange
    PROVE  Ordered(pool') /\ EntryFair
  <1>1. CASE pool' = pool
    BY <1>1 DEF EntryFair
  <1>2. CASE pool' = EmptyPool
    BY <1>2, FS_EmptySet DEF Ordered, EmptyPool, EntryFair
  <1>3. CASE Ordered(pool') /\ pool'.items \subseteq pool.items
    BY <1>3 DEF EntryFair
  <1>4. CASE \E t \in Txs : /\ t \notin pool.items /\ ~ FeeTooLow(pool, t)
                            /\ pool' = Admit(pool, t)
    <2>1. PICK t \in Txs : /\ t \notin pool.items /\ ~ FeeTooLow(pool, t)
                           /\ pool' = Admit(pool, t)
      BY <1>4
    <2>2. /\ Ordered(pool')
          /\ t \in pool'.items =>
                 /\ TotalCost(pool'.items) <= MaxTotalCost
                 /\ \A i \in pool.items \ pool'.items :
                       i \in Conflicts(pool, t) \/ ~ HigherRate(i, t)
      BY <2>1, AdmitFair
    <2>3. pool'.items \ pool.items \subseteq {t}
      BY <2>1, AdmitItems
    <2> QED
      BY <2>2, <2>3 DEF EntryFair
  <1> QED
    BY <1>1, <1>2, <1>3, <1>4 DEF PoolChange

(* When a transaction enters, the pool keeps to its limit, and what left   *)
(* for it, apart from what it replaces, pays no more per cost than it:     *)
(* get_min_fee_rate and the evictions of add_to_pool agree, although       *)
(* items leave in between.                                                 *)
THEOREM EvictionsFair == Spec => EvictionFair
  <1>1. Init => Ordered(pool)
    BY FS_EmptySet DEF Init, Ordered, EmptyPool
  <1>2. Inv /\ Ordered(pool) /\ [Next]_vars => Ordered(pool)' /\ [EntryFair]_pool
    <2> SUFFICES ASSUME Inv, Ordered(pool), [Next]_vars
                 PROVE  Ordered(pool)' /\ [EntryFair]_pool
      OBVIOUS
    <2>1. IsPool(pool) /\ PoolChange
      BY PoolStep DEF Inv, PoolInv
    <2>2. Ordered(pool') /\ EntryFair
      BY <2>1, ChangeFair
    <2>3. Ordered(pool)'
      BY <2>2 DEF Ordered
    <2> QED
      BY <2>2, <2>3
  <1>3. [][EntryFair]_pool => EvictionFair
    BY PTL DEF EntryFair, EvictionFair
  <1> QED
    BY <1>1, <1>2, <1>3, MempoolInvariance, PTL DEF Spec

------------------------------------------------------------------------------
(* Coins that two pooled transactions spend.                               *)

(* What comes later spends the coins it shares as eligible.                *)
LaterEligible(p) ==
    \A i, j \in p.items :
        <<i, j>> \in p.before => TxSpends[i] \cap TxSpends[j] \subseteq Dedup[j]

(* Taking out and putting in, and who came before whom.                    *)
LEMMA BeforeOperations ==
    ASSUME NEW p, IsPool(p), NEW S, NEW t
    PROVE  /\ Without(p, S).before \subseteq p.before
           /\ Insert(p, t).before \subseteq p.before \cup (p.items \X {t})
  BY DEF IsPool, Without, Insert

(* add_to_pool puts its transaction behind all others.                     *)
LEMMA AddToPoolBefore ==
    ASSUME NEW p, IsPool(p), NEW t
    PROVE  AddToPool(p, t).before \subseteq p.before \cup (p.items \X {t})
  <1> DEFINE q == RemoveFromPool(p, SoonOver(p, t))
             full == {i \in q.items :
                         CumulativeCost(q, q.items, i) > MaxTotalCost - Cost[t]}
             r == RemoveFromPool(q, full)
  <1>1. IsPool(q) /\ q.items \subseteq p.items /\ q.before \subseteq p.before
    BY PoolOperations, BeforeOperations DEF RemoveFromPool
  <1>2. AddToPool(p, t) = Insert(r, t)
    BY DEF AddToPool
  <1> HIDE DEF q, full
  <1>3. IsPool(r) /\ r.items \subseteq p.items /\ r.before \subseteq p.before
    BY <1>1, PoolOperations, BeforeOperations DEF RemoveFromPool
  <1> HIDE DEF r
  <1>4. Insert(r, t).before \subseteq r.before \cup (r.items \X {t})
    BY <1>3, BeforeOperations
  <1> QED
    BY <1>2, <1>3, <1>4

(* add_spend_bundle puts it behind what it does not conflict with.         *)
LEMMA AdmitBefore ==
    ASSUME NEW p, IsPool(p), NEW t
    PROVE  Admit(p, t).before \subseteq
               p.before \cup ((p.items \ Conflicts(p, t)) \X {t})
  <1> DEFINE c == RemoveFromPool(p, Conflicts(p, t))
  <1>1. /\ IsPool(c) /\ c.items = p.items \ Conflicts(p, t)
        /\ c.before \subseteq p.before
    BY PoolOperations, BeforeOperations DEF RemoveFromPool
  <1>2. Admit(p, t) = IF Refuses(c, t) THEN c ELSE AddToPool(c, t)
    BY DEF Admit
  <1> HIDE DEF c
  <1>3. AddToPool(c, t).before \subseteq c.before \cup (c.items \X {t})
    BY <1>1, AddToPoolBefore
  <1> QED
    BY <1>1, <1>2, <1>3

(* Each change of the pool keeps LaterEligible.                            *)
LEMMA ChangeEligible ==
    ASSUME IsPool(pool), Ordered(pool), LaterEligible(pool), PoolChange
    PROVE  LaterEligible(pool')
  <1>1. CASE pool' = pool
    BY <1>1
  <1>2. CASE pool' = EmptyPool
    BY <1>2 DEF LaterEligible, EmptyPool
  <1>3. CASE /\ pool'.items \subseteq pool.items
             /\ pool'.before \subseteq pool.before
    BY <1>3 DEF LaterEligible
  <1>4. CASE \E t \in Txs : /\ t \notin pool.items /\ ~ FeeTooLow(pool, t)
                            /\ pool' = Admit(pool, t)
    <2>1. PICK t \in Txs : pool' = Admit(pool, t)
      BY <1>4
    <2>2. pool'.before \subseteq
              pool.before \cup ((pool.items \ Conflicts(pool, t)) \X {t})
      BY <2>1, AdmitBefore
    <2>3. ASSUME NEW i, NEW j, <<i, j>> \in pool'.before
          PROVE  TxSpends[i] \cap TxSpends[j] \subseteq Dedup[j]
      <3>1. CASE <<i, j>> \in pool.before
        BY <3>1 DEF LaterEligible, Ordered
      <3>2. CASE i \in pool.items \ Conflicts(pool, t) /\ j = t
        BY <3>2 DEF Conflicts
      <3> QED
        BY <2>2, <2>3, <3>1, <3>2
    <2> QED
      BY <2>3 DEF LaterEligible
  <1> QED
    BY <1>1, <1>2, <1>3, <1>4 DEF PoolChange

(* Of two pooled transactions that spend the same coin, the one that came  *)
(* later spends it in a way eligible for deduplication, whatever           *)
(* add_spend_bundle and new_peak replaced, evicted, retried or rebuilt:    *)
(* check_removals, which asks for the other coins only, asks for enough.   *)
THEOREM PoolFreeOfConflicts == Spec => []NoConflicts
  <1>1. Init => Ordered(pool) /\ LaterEligible(pool)
    BY FS_EmptySet DEF Init, Ordered, LaterEligible, EmptyPool
  <1>2. Inv /\ (Ordered(pool) /\ LaterEligible(pool)) /\ [Next]_vars
            => (Ordered(pool) /\ LaterEligible(pool))'
    <2> SUFFICES ASSUME Inv, Ordered(pool), LaterEligible(pool), [Next]_vars
                 PROVE  Ordered(pool)' /\ LaterEligible(pool)'
      OBVIOUS
    <2>1. IsPool(pool) /\ PoolChange
      BY PoolStep DEF Inv, PoolInv
    <2>2. Ordered(pool') /\ LaterEligible(pool')
      BY <2>1, ChangeFair, ChangeEligible
    <2> QED
      BY <2>2 DEF Ordered, LaterEligible
  <1>3. Ordered(pool) /\ LaterEligible(pool) => NoConflicts
    BY DEF Ordered, LaterEligible, NoConflicts, MayFollow
  <1> QED
    BY <1>1, <1>2, <1>3, MempoolInvariance, PTL DEF Spec
==============================================================================
