---------------------------- MODULE EnvRunProofs ----------------------------
(***************************************************************************)
(* Proofs about EnvRollout, on top of the invariant of EnvRolloutProofs:   *)
(* the accounting of an interaction comes out for any number of workers,   *)
(* slots, epochs and leases.  WM epochs are conserved, the channels are    *)
(* empty between two interactions, every slot delivers one trajectory per  *)
(* epoch, no check of the code fires before a fault, and the channels      *)
(* answer every call once.  Sums over workers are cardinalities of sets of *)
(* tokens, one per epoch or shard.                                         *)
(***************************************************************************)
EXTENDS EnvRolloutProofs, FiniteSetTheorems, WellFoundedInduction

-----------------------------------------------------------------------------
(* Sums.                                                                   *)

Tokens(f, S) == UNION {{e} \X (1 .. f[e]) : e \in S}

LEMMA TokensAre ==
  ASSUME NEW f, NEW S
  PROVE  /\ Total(f, S) = Cardinality(Tokens(f, S))
         /\ \A t : t \in Tokens(f, S) <=> \E e \in S : \E i \in 1 .. f[e] : t = <<e, i>>
BY DEF Total, Tokens

LEMMA OneRow ==
  ASSUME NEW e, NEW n \in Nat
  PROVE  IsFiniteSet({e} \X (1 .. n)) /\ Cardinality({e} \X (1 .. n)) = n
<1>1. IsFiniteSet(1 .. n) /\ Cardinality(1 .. n) = n
  BY FS_Interval
<1>2. IsFiniteSet({e}) /\ Cardinality({e}) = 1
  BY FS_Singleton
<1>3. /\ IsFiniteSet({e} \X (1 .. n))
      /\ Cardinality({e} \X (1 .. n)) = Cardinality({e}) * Cardinality(1 .. n)
  BY <1>1, <1>2, FS_Product
<1> QED
  BY <1>1, <1>2, <1>3

\* A sum over a finite set is a number.
LEMMA SumFinite ==
  ASSUME NEW S, IsFiniteSet(S), NEW f, \A e \in S : f[e] \in Nat
  PROVE  IsFiniteSet(Tokens(f, S)) /\ Total(f, S) \in Nat
<1> DEFINE rows == {{e} \X (1 .. f[e]) : e \in S}
           row == [e \in S |-> {e} \X (1 .. f[e])]
<1>1. row \in Surjection(S, rows)
  BY DEF Surjection
<1>2. IsFiniteSet(rows)
  BY <1>1, FS_Surjection
<1>3. \A r \in rows : IsFiniteSet(r)
  <2>1. \A e \in S : IsFiniteSet({e} \X (1 .. f[e]))
    BY OneRow
  <2> QED
    BY <2>1
<1>4. IsFiniteSet(UNION rows)
  BY <1>2, <1>3, FS_UNION
<1>5. IsFiniteSet(Tokens(f, S))
  BY <1>4 DEF Tokens
<1> QED
  BY <1>5, TokensAre, FS_CardinalityType

\* Only the summands count.
LEMMA SameSum ==
  ASSUME NEW S, NEW f, NEW g, \A e \in S : f[e] = g[e]
  PROVE  Total(f, S) = Total(g, S)
<1>1. {{e} \X (1 .. f[e]) : e \in S} = {{e} \X (1 .. g[e]) : e \in S}
  OBVIOUS
<1> QED
  BY <1>1 DEF Total

LEMMA SumOfNone ==
  ASSUME NEW S, NEW f, \A e \in S : f[e] = 0
  PROVE  Total(f, S) = 0
<1>1. Tokens(f, S) = {}
  BY TokensAre
<1> QED
  BY <1>1, TokensAre, FS_EmptySet

\* One summand more.
LEMMA SumAdd ==
  ASSUME NEW S, IsFiniteSet(S), NEW e, e \notin S, NEW f, \A x \in S \cup {e} : f[x] \in Nat
  PROVE  Total(f, S \cup {e}) = Total(f, S) + f[e]
<1> DEFINE row == {e} \X (1 .. f[e])
<1>1. Tokens(f, S \cup {e}) = Tokens(f, S) \cup row
  BY DEF Tokens
<1>2. Tokens(f, S) \cap row = {}
  BY TokensAre
<1>3. IsFiniteSet(Tokens(f, S)) /\ Total(f, S) \in Nat
  BY SumFinite
<1>4. IsFiniteSet(row) /\ Cardinality(row) = f[e] /\ f[e] \in Nat
  BY OneRow
<1>5. Cardinality(Tokens(f, S) \cup row)
        = Cardinality(Tokens(f, S)) + Cardinality(row) - Cardinality(Tokens(f, S) \cap row)
  BY <1>3, <1>4, FS_Union
<1>6. Cardinality(Tokens(f, S) \cap row) = 0
  BY <1>2, FS_EmptySet
<1>7. Total(f, S) = Cardinality(Tokens(f, S)) /\ Total(f, S \cup {e}) = Cardinality(Tokens(f, S \cup {e}))
  BY TokensAre
<1> HIDE DEF row
<1>8. PICK a \in Nat, b \in Nat : a = Total(f, S) /\ b = f[e]
  BY <1>3, <1>4
<1>9. Total(f, S \cup {e}) = a + b - 0
  BY <1>1, <1>4, <1>5, <1>6, <1>7, <1>8
<1> QED
  BY <1>8, <1>9

\* One summand changes.
LEMMA SumChanges ==
  ASSUME NEW S, IsFiniteSet(S), NEW e \in S, NEW f, NEW g,
         \A x \in S : f[x] \in Nat, g[e] \in Nat, \A x \in S \ {e} : g[x] = f[x]
  PROVE  /\ Total(g, S) = Total(f, S) - f[e] + g[e]
         /\ Total(f, S) >= f[e]
<1>1. PICK R : R = S \ {e}
  OBVIOUS
<1>2. IsFiniteSet(R) /\ e \notin R /\ R \cup {e} = S
  BY <1>1, FS_RemoveElement
<1>3. Total(f, R \cup {e}) = Total(f, R) + f[e] /\ Total(f, R) \in Nat
  BY <1>1, <1>2, SumAdd, SumFinite
<1>4. Total(g, R \cup {e}) = Total(g, R) + g[e]
  BY <1>1, <1>2, SumAdd
<1>5. Total(g, R) = Total(f, R)
  BY <1>1, SameSum
<1> QED
  BY <1>2, <1>3, <1>4, <1>5

LEMMA LeastNumber ==
  ASSUME NEW T \in SUBSET Nat, T # {}
  PROVE  \E n \in T : \A m \in T : n <= m
<1>1. PICK n \in T : \A m \in T : <<m, n>> \notin OpToRel(<, Nat)
  BY NatLessThanWellFounded, WFMin
<1>2. ASSUME NEW m \in T
      PROVE  n <= m
  <2>1. m \in Nat /\ n \in Nat
    OBVIOUS
  <2>2. ~ (m < n)
    BY <1>1, <2>1 DEF OpToRel
  <2> QED
    BY <2>1, <2>2
<1> QED
  BY <1>2

\* The sums over the first ranks, from a on.
PartialSums(sum, f, a, n) ==
  /\ sum \in [0 .. n -> Nat] /\ sum[0] = 0
  /\ \A m \in 0 .. n - 1 : sum[m + 1] = sum[m] + f[a + m]

\* A sum over consecutive ranks, by induction on their number.
LEMMA SumByRank ==
  ASSUME NEW n \in Nat, NEW a \in Int, NEW ranks, ranks = a .. a + n - 1,
         NEW f, \A e \in ranks : f[e] \in Nat, NEW sum, PartialSums(sum, f, a, n)
  PROVE  Total(f, ranks) = sum[n]
<1> USE DEF PartialSums
<1> \A e \in a .. a + n - 1 : f[e] \in Nat
  OBVIOUS
<1> DEFINE T == {m \in 0 .. n : Total(f, a .. a + m - 1) # sum[m]}
<1> SUFFICES ASSUME Total(f, a .. a + n - 1) # sum[n]
             PROVE  FALSE
  OBVIOUS
<1>1. T # {}
  <2>1. n \in 0 .. n
    OBVIOUS
  <2> QED
    BY <2>1
<1>2. PICK m \in T : \A k \in T : m <= k
  <2>1. T \in SUBSET Nat
    OBVIOUS
  <2> QED
    BY <1>1, <2>1, LeastNumber
<1>3. m \in 0 .. n /\ Total(f, a .. a + m - 1) # sum[m]
  BY <1>2
<1>4. CASE m = 0
  <2>1. a .. a + m - 1 = {}
    BY <1>4
  <2>2. Total(f, a .. a + m - 1) = 0
    BY <2>1, SumOfNone
  <2> QED
    BY <1>3, <1>4, <2>2
<1>5. CASE m # 0
  <2>1. PICK k \in 0 .. n - 1 : m = k + 1
    <3>1. m - 1 \in 0 .. n - 1 /\ m = (m - 1) + 1
      BY <1>3, <1>5
    <3> QED
      BY <3>1
  <2>2. k \notin T /\ k \in 0 .. n
    BY <1>2, <2>1
  <2>3. Total(f, a .. a + k - 1) = sum[k]
    BY <2>2
  <2> HIDE DEF T
  <2>4. PICK S : S = a .. a + k - 1
    OBVIOUS
  <2>5. IsFiniteSet(S) /\ a + k \notin S /\ S \cup {a + k} = a .. a + m - 1
    <3>1. IsFiniteSet(a .. a + k - 1)
      BY <2>1, FS_Interval
    <3>2. a + k \notin S /\ a + m - 1 = a + k
      BY <2>1, <2>4
    <3>3. S \cup {a + k} = a .. a + k
      <4>1. k \in Nat
        BY <2>1
      <4>2. \A x \in a .. a + k : x \in S \/ x = a + k
        BY <2>4, <4>1
      <4>3. a + k \in a .. a + k /\ S \subseteq a .. a + k
        BY <2>4, <4>1
      <4> QED
        BY <4>2, <4>3
    <3> QED
      BY <2>4, <3>1, <3>2, <3>3
  <2>6. \A x \in S \cup {a + k} : f[x] \in Nat
    BY <2>1, <2>4
  <2>7. PICK e : e = a + k
    OBVIOUS
  <2>9. Total(f, S \cup {e}) = Total(f, S) + f[e]
    BY ONLY <2>5, <2>6, <2>7, SumAdd
  <2>8. sum[m] = sum[k] + f[a + k]
    BY <2>1
  <2> QED
    BY <1>3, <2>3, <2>4, <2>5, <2>7, <2>8, <2>9
<1> QED
  BY <1>4, <1>5

-----------------------------------------------------------------------------
(* Shares and leases.                                                      *)

LEMMA RecipeFacts ==
  ASSUME recipe \in Recipes
  PROVE  /\ RealEpochs \in Nat /\ WMEpochs \in Nat /\ ChunkSteps \in Nat \ {0}
         /\ recipe.rollouts \in Nat \ {0} /\ recipe.faults \in Nat
         /\ RealEpochs >= RealWorkers /\ WMEpochs >= WMWorkers
         /\ RealWorkers \in Nat \ {0} /\ WMWorkers \in Nat \ {0} /\ LeaseEpochs \in Nat \ {0}
         /\ recipe.budget => OneTrajectory
BY RecipesAssumption, SlotsAssumption, BudgetAssumption
DEF Recipe, RealEpochs, WMEpochs, ChunkSteps

LEMMA Division ==
  ASSUME NEW total \in Nat, NEW workers \in Nat \ {0}
  PROVE  \E base \in Nat : \E extra \in 0 .. workers - 1 :
           /\ total \div workers = base /\ total % workers = extra
           /\ total = workers * base + extra
OBVIOUS

\* The shares of the workers are at least one epoch each, and all of them.
LEMMA SharesAddUp ==
  ASSUME NEW total \in Nat, NEW workers \in Nat \ {0}, total >= workers, NEW a \in Int,
         NEW f, \A e \in a .. a + workers - 1 : f[e] = Share(total, workers, e - a)
  PROVE  /\ \A e \in a .. a + workers - 1 : f[e] \in 1 .. total
         /\ Total(f, a .. a + workers - 1) = total
<1>1. PICK base \in Nat, extra \in 0 .. workers - 1 :
        /\ total \div workers = base /\ total % workers = extra
        /\ total = workers * base + extra
  BY Division
<1>2. base >= 1
  BY <1>1
<1>3. base + 1 <= total \/ extra = 0
  BY <1>1, <1>2
<1>4. base <= total
  BY <1>1, <1>2
<1>5. ASSUME NEW e \in a .. a + workers - 1
      PROVE  f[e] = base + (IF e - a < extra THEN 1 ELSE 0) /\ f[e] \in 1 .. total
  <2>1. f[e] = base + (IF e - a < extra THEN 1 ELSE 0)
    BY <1>1 DEF Share
  <2>2. e - a >= 0 /\ e \in Int
    OBVIOUS
  <2> QED
    BY ONLY <1>1, <1>2, <1>3, <1>4, <2>1, <2>2, total \in Nat, workers \in Nat \ {0}, a \in Int
<1> DEFINE sum == [m \in 0 .. workers |-> m * base + (IF m < extra THEN m ELSE extra)]
<1>6. sum \in [0 .. workers -> Nat] /\ sum[0] = 0
  <2>1. ASSUME NEW m \in 0 .. workers
        PROVE  m * base + (IF m < extra THEN m ELSE extra) \in Nat
    <3>1. m * base \in Nat
      OBVIOUS
    <3> QED
      BY <3>1
  <2> QED
    BY <1>1, <2>1
<1>7. ASSUME NEW m \in 0 .. workers - 1
      PROVE  sum[m + 1] = sum[m] + f[a + m]
  <2>1. m \in 0 .. workers /\ m + 1 \in 0 .. workers /\ a + m \in a .. a + workers - 1
    OBVIOUS
  <2>2. f[a + m] = base + (IF m < extra THEN 1 ELSE 0)
    <3>1. PICK e \in a .. a + workers - 1 : e = a + m
      BY <2>1
    <3>2. e - a = m
      BY <3>1
    <3> QED
      BY <1>5, <3>1, <3>2
  <2>3. (m + 1) * base = m * base + base
    OBVIOUS
  <2>4. m * base \in Nat /\ (m + 1) * base \in Nat
    BY <2>3
  <2> QED
    BY <2>1, <2>2, <2>3, <2>4
<1>8. sum[workers] = total
  <2>1. workers * base \in Nat
    OBVIOUS
  <2> QED
    BY <1>1, <2>1
<1>9. \A e \in a .. a + workers - 1 : f[e] \in Nat
  BY <1>5
<1>10. Total(f, a .. a + workers - 1) = sum[workers]
  <2>1. \A m \in 0 .. workers - 1 : sum[m + 1] = sum[m] + f[a + m]
    BY <1>7
  <2>2. workers \in Nat /\ a \in Int
    OBVIOUS
  <2>3. PartialSums(sum, f, a, workers)
    BY <1>6, <2>1 DEF PartialSums
  <2>4. PICK ranks : ranks = a .. a + workers - 1
    OBVIOUS
  <2> HIDE DEF sum
  <2>5. Total(f, ranks) = sum[workers]
    BY <1>9, <2>2, <2>3, <2>4, SumByRank
  <2> QED
    BY <2>4, <2>5
<1> QED
  BY <1>5, <1>8, <1>10

\* The first leases from the pool take from it what is there.
LEMMA FirstLeasesAddUp ==
  ASSUME recipe \in Recipes, Dynamic, NEW f, \A e \in WMEnvs : f[e] = FirstLease(e)
  PROVE  /\ \A e \in WMEnvs : f[e] \in 0 .. WMEpochs
         /\ Total(f, WMEnvs) \in 0 .. WMEpochs
         /\ Total(f, WMEnvs) # WMEpochs => \A e \in WMEnvs : f[e] > 0
<1>1. PICK a \in Nat, n \in Nat \ {0}, pool \in Nat, size \in Nat \ {0} :
        a = RealWorkers /\ n = WMWorkers /\ pool = WMEpochs /\ size = LeaseEpochs
  BY RecipeFacts
<1>2. WMEnvs = a .. a + n - 1
  BY <1>1 DEF WMEnvs
<1> DEFINE taken == [m \in 0 .. n |-> m * size]
           sum == [m \in 0 .. n |-> IF taken[m] < pool THEN taken[m] ELSE pool]
<1>3. ASSUME NEW m \in 0 .. n
      PROVE  /\ taken[m] = m * size /\ taken[m] \in Nat /\ taken[m] >= m
             /\ m # n => taken[m + 1] = taken[m] + size
  <2>1. m * size \in Nat
    OBVIOUS
  <2>2. m * size >= m
    OBVIOUS
  <2>3. (m + 1) * size = m * size + size
    OBVIOUS
  <2> QED
    BY <2>1, <2>2, <2>3
<1>4. ASSUME NEW m \in 0 .. n - 1
      PROVE  f[a + m] = IF taken[m] < pool THEN (IF size < pool - taken[m] THEN size ELSE pool - taken[m])
                                          ELSE 0
  <2>1. PICK e \in WMEnvs : e = a + m
    BY <1>2
  <2>2. e - RealWorkers = m /\ m \in 0 .. n
    BY <1>1, <2>1
  <2>3. PoolAt(e) = IF taken[m] < pool THEN pool - taken[m] ELSE 0
    BY <1>1, <1>3, <2>2 DEF PoolAt
  <2>4. taken[m] \in Nat /\ taken[m] >= m
    BY <1>3, <2>2
  <2>5. f[e] = IF m < pool THEN Lesser(size, PoolAt(e)) ELSE 0
    BY <1>1, <2>2 DEF FirstLease, LeaseOf
  <2> HIDE DEF taken
  <2> QED
    BY <2>1, <2>2, <2>3, <2>4, <2>5 DEF Lesser
<1> HIDE DEF taken
<1>5. ASSUME NEW m \in 0 .. n - 1
      PROVE  f[a + m] \in 0 .. pool
  <2>1. taken[m] \in Nat
    BY <1>3
  <2> QED
    BY <1>4, <2>1
<1>6. \A e \in WMEnvs : f[e] \in 0 .. pool
  <2>1. ASSUME NEW e \in WMEnvs
        PROVE  \E m \in 0 .. n - 1 : e = a + m
    <3>1. e - a \in 0 .. n - 1 /\ e = a + (e - a)
      BY <1>2
    <3> QED
      BY <3>1
  <2> QED
    BY <1>5, <2>1
<1>7. sum \in [0 .. n -> Nat] /\ sum[0] = 0
  <2>1. taken[0] = 0
    BY DEF taken
  <2> QED
    BY <1>3, <2>1
<1>8. ASSUME NEW m \in 0 .. n - 1
      PROVE  sum[m + 1] = sum[m] + f[a + m]
  <2>1. m \in 0 .. n /\ m + 1 \in 0 .. n /\ m # n
    OBVIOUS
  <2>2. taken[m + 1] = taken[m] + size /\ taken[m] \in Nat
    BY <1>3, <2>1
  <2> QED
    BY <1>4, <2>1, <2>2
<1>9. sum[n] \in 0 .. pool
  BY <1>3
<1>10. sum[n] # pool => \A m \in 0 .. n - 1 : taken[m] < pool
  <2> SUFFICES ASSUME sum[n] # pool, NEW m \in 0 .. n - 1
               PROVE  taken[m] < pool
    OBVIOUS
  <2>1. taken[n] < pool
    OBVIOUS
  <2>2. m * size <= n * size
    OBVIOUS
  <2>3. m \in 0 .. n /\ n \in 0 .. n
    OBVIOUS
  <2>4. taken[m] = m * size /\ taken[n] = n * size /\ taken[m] \in Nat /\ taken[n] \in Nat
    BY <1>3, <2>3
  <2> QED
    BY <2>1, <2>2, <2>4
<1> HIDE DEF sum
<1>11. Total(f, a .. a + n - 1) = sum[n]
  <2>1. \A m \in 0 .. n - 1 : sum[m + 1] = sum[m] + f[a + m]
    BY <1>8
  <2>2. n \in Nat /\ a \in Int
    BY <1>1
  <2>3. PartialSums(sum, f, a, n)
    BY <1>7, <2>1 DEF PartialSums
  <2>4. \A e \in WMEnvs : f[e] \in Nat
    BY <1>6
  <2>5. Total(f, WMEnvs) = sum[n]
    BY <1>2, <2>2, <2>3, <2>4, SumByRank
  <2> QED
    BY <1>2, <2>5
<1>12. sum[n] # pool => \A e \in WMEnvs : f[e] > 0
  <2> SUFFICES ASSUME sum[n] # pool, NEW e \in WMEnvs
               PROVE  f[e] > 0
    OBVIOUS
  <2>1. PICK m \in 0 .. n - 1 : e = a + m
    <3>1. e - a \in 0 .. n - 1 /\ e = a + (e - a)
      BY <1>2
    <3> QED
      BY <3>1
  <2>2. taken[m] < pool /\ taken[m] \in Nat
    BY <1>3, <1>10, <2>1
  <2> QED
    BY <1>4, <2>1, <2>2
<1> QED
  BY <1>1, <1>2, <1>6, <1>9, <1>11, <1>12

\* Handed out at once or from the pool: no epoch more than there are, and no
\* worker goes without while the pool is not empty.
LEMMA FirstLeases ==
  ASSUME recipe \in Recipes, NEW f, \A e \in WMEnvs : f[e] = FirstLease(e)
  PROVE  /\ \A e \in WMEnvs : f[e] \in 0 .. WMEpochs
         /\ Total(f, WMEnvs) \in 0 .. WMEpochs
         /\ Total(f, WMEnvs) # WMEpochs => \A e \in WMEnvs : f[e] > 0
<1>1. CASE ~Dynamic
  <2>1. WMEnvs = RealWorkers .. RealWorkers + WMWorkers - 1
    BY DEF WMEnvs
  <2>2. \A e \in WMEnvs : f[e] = Share(WMEpochs, WMWorkers, e - RealWorkers)
    BY <1>1 DEF FirstLease, WMShare
  <2>3. /\ \A e \in WMEnvs : f[e] \in 1 .. WMEpochs
        /\ Total(f, WMEnvs) = WMEpochs
    <3>1. /\ WMEpochs \in Nat /\ WMWorkers \in Nat \ {0} /\ WMEpochs >= WMWorkers
          /\ RealWorkers \in Int
      BY RecipeFacts
    <3>2. \A e \in RealWorkers .. RealWorkers + WMWorkers - 1 :
            f[e] = Share(WMEpochs, WMWorkers, e - RealWorkers)
      BY <2>1, <2>2
    <3>3. /\ \A e \in RealWorkers .. RealWorkers + WMWorkers - 1 : f[e] \in 1 .. WMEpochs
          /\ Total(f, RealWorkers .. RealWorkers + WMWorkers - 1) = WMEpochs
      BY ONLY <3>1, <3>2, SharesAddUp
    <3> QED
      BY <2>1, <3>3
  <2> QED
    BY <2>3, RecipeFacts
<1>2. CASE Dynamic
  BY <1>2, FirstLeasesAddUp
<1> QED
  BY <1>1, <1>2

LEMMA RealShares ==
  ASSUME recipe \in Recipes, NEW f, \A e \in RealEnvs : f[e] = RealShare(e)
  PROVE  /\ \A e \in RealEnvs : f[e] \in 1 .. RealEpochs
         /\ Total(f, RealEnvs) = RealEpochs
<1>1. RealEnvs = 0 .. 0 + RealWorkers - 1
  BY RecipeFacts DEF RealEnvs
<1>2. \A e \in RealEnvs : f[e] = Share(RealEpochs, RealWorkers, e - 0)
  BY RecipeFacts DEF RealShare, RealEnvs
<1>3. /\ RealEpochs \in Nat /\ RealWorkers \in Nat \ {0} /\ RealEpochs >= RealWorkers
      /\ 0 \in Int
  BY RecipeFacts
<1>4. \A e \in 0 .. 0 + RealWorkers - 1 : f[e] = Share(RealEpochs, RealWorkers, e - 0)
  BY <1>1, <1>2
<1>5. /\ \A e \in 0 .. 0 + RealWorkers - 1 : f[e] \in 1 .. RealEpochs
      /\ Total(f, 0 .. 0 + RealWorkers - 1) = RealEpochs
  BY ONLY <1>3, <1>4, SharesAddUp
<1> QED
  BY <1>1, <1>5

-----------------------------------------------------------------------------
(* Leases.                                                                 *)

LeaseInv ==
  /\ remaining \in 0 .. WMEpochs
  /\ lease \in [Envs -> 0 .. WMEpochs]
  /\ finished \in Nat
  /\ LeasesConserved

LEMMA WMFacts ==
  /\ WMEnvs \subseteq Envs /\ RealEnvs \subseteq Envs
  /\ IsFiniteSet(WMEnvs) /\ IsFiniteSet(RealEnvs)
  /\ WMEnvs # {} /\ WMEnvs \cap RealEnvs = {}
<1>1. RealWorkers \in Nat \ {0} /\ WMWorkers \in Nat \ {0}
  BY RecipesAssumption
<1>2. IsFiniteSet(WMEnvs) /\ IsFiniteSet(RealEnvs)
  BY <1>1, FS_Interval DEF WMEnvs, RealEnvs
<1>3. RealWorkers \in WMEnvs
  BY <1>1 DEF WMEnvs
<1>4. WMEnvs \cap RealEnvs = {}
  BY <1>1 DEF WMEnvs, RealEnvs
<1> QED
  BY <1>2, <1>3, <1>4 DEF Envs

LEMMA RecipeSame ==
  ASSUME [Next]_vars
  PROVE  /\ recipe' = recipe /\ WMEpochs' = WMEpochs /\ RealEpochs' = RealEpochs
         /\ ChunkSteps' = ChunkSteps /\ Rollouts' = Rollouts /\ Frozen' = Frozen
         /\ Keys' = Keys /\ EnvRanks' = EnvRanks
         /\ \A e \in Envs : EnvRank(e)' = EnvRank(e)
<1>1. recipe' = recipe
  BY DEF Next, vars
<1> QED
  BY <1>1 DEF WMEpochs, RealEpochs, ChunkSteps, Rollouts, Frozen, Keys, EnvRanks, EnvRank

LEMMA LeaseStep ==
  ASSUME recipe \in Recipes, LeaseInv, [Next]_vars
  PROVE  LeaseInv'
<1> USE DEF runnerVars, leaseVars, slotVars, envVars, rolloutVars, channelVars
<1>k. WMEpochs' = WMEpochs /\ WMEpochs \in Nat
  BY RecipeSame, RecipeFacts
<1>l. Leased \in Nat /\ \A e \in WMEnvs : lease[e] \in Nat
  <2>1. \A e \in WMEnvs : lease[e] \in Nat
    BY WMFacts, <1>k DEF LeaseInv
  <2> QED
    BY <2>1, WMFacts, SumFinite DEF Leased
<1>1. CASE UNCHANGED leaseVars /\ (phase' = phase \/ phase' \notin {"imagine", "imagineStop"})
  BY <1>1, <1>k DEF LeaseInv, LeasesConserved, Leased
<1>2. CASE StartImagination
  <2>1. /\ lease' = [e \in Envs |-> IF e \in WMEnvs THEN FirstLease(e) ELSE 0]
        /\ remaining' = WMEpochs - Leased' /\ finished' = 0 /\ phase' = "imagine"
    BY <1>2 DEF StartImagination
  <2>2. PICK f : f = lease'
    OBVIOUS
  <2>3. \A e \in WMEnvs : f[e] = FirstLease(e)
    BY <2>1, <2>2, WMFacts
  <2>4. /\ \A e \in WMEnvs : f[e] \in 0 .. WMEpochs
        /\ Total(f, WMEnvs) \in 0 .. WMEpochs
        /\ Total(f, WMEnvs) # WMEpochs => \A e \in WMEnvs : f[e] > 0
    BY <2>3, FirstLeases
  <2>5. Leased' = Total(f, WMEnvs)
    BY <2>2 DEF Leased
  <2>6. PICK sum \in 0 .. WMEpochs : sum = Total(f, WMEnvs)
    BY <2>4
  <2>7. remaining' = WMEpochs - sum
    BY <2>1, <2>5, <2>6
  <2>8. lease' \in [Envs -> 0 .. WMEpochs]
    <3>1. \A e \in Envs : (IF e \in WMEnvs THEN FirstLease(e) ELSE 0) \in 0 .. WMEpochs
      BY <1>k, <2>3, <2>4
    <3> QED
      BY <2>1, <3>1
  <2>9. remaining' \in 0 .. WMEpochs /\ 0 + sum + remaining' = WMEpochs
        /\ (remaining' > 0 => sum # WMEpochs)
    BY ONLY <1>k, <2>6, <2>7
  <2>10. LeasesConserved'
    BY <1>k, <2>1, <2>2, <2>4, <2>5, <2>6, <2>9 DEF LeasesConserved
  <2> QED
    BY <1>k, <2>1, <2>8, <2>9, <2>10 DEF LeaseInv
<1>3. ASSUME NEW e \in WMEnvs, LeaseReturned(e)
      PROVE  LeaseInv'
  <2>1. /\ phase = "imagine" /\ phase' = "imagine" /\ lease[e] > 0
        /\ finished' = finished + lease[e]
        /\ lease' = [lease EXCEPT ![e] = LeaseOf(remaining)]
        /\ remaining' = remaining - LeaseOf(remaining)
    BY <1>3 DEF LeaseReturned
  <2>2. PICK n \in 0 .. remaining : n = LeaseOf(remaining) /\ (remaining > 0 => n > 0)
    <3>1. LeaseOf(remaining) \in 0 .. remaining /\ (remaining > 0 => LeaseOf(remaining) > 0)
      BY <1>k, SlotsAssumption DEF LeaseOf, Lesser, LeaseInv
    <3> QED
      BY <3>1
  <2>3. remaining \in 0 .. WMEpochs /\ finished \in Nat /\ e \in Envs
    BY WMFacts DEF LeaseInv
  <2>4. finished + Leased + remaining = WMEpochs
    BY <2>1 DEF LeaseInv, LeasesConserved
  <2>5. lease' \in [Envs -> 0 .. WMEpochs] /\ lease'[e] = n
        /\ \A x \in WMEnvs \ {e} : lease'[x] = lease[x]
    <3>1. n \in 0 .. WMEpochs
      BY <1>k, <2>3
    <3> QED
      BY <2>1, <2>2, <2>3, <3>1, WMFacts DEF LeaseInv
  <2>6. PICK f, g : f = lease /\ g = lease'
    OBVIOUS
  <2>7. Total(g, WMEnvs) = Total(f, WMEnvs) - f[e] + g[e] /\ Total(f, WMEnvs) >= f[e]
    <3>1. g[e] \in Nat /\ \A x \in WMEnvs \ {e} : g[x] = f[x]
      BY <2>3, <2>5, <2>6
    <3> QED
      BY <1>l, <2>6, <3>1, WMFacts, SumChanges
  <2>8. Leased' = Leased - lease[e] + n
    BY <2>5, <2>6, <2>7 DEF Leased
  <2>9. PICK sum \in Nat, back \in Nat : sum = Leased /\ back = lease[e]
    BY <1>l
  <2>10. remaining' = remaining - n /\ Leased' = sum - back + n /\ finished' = finished + back
    BY <2>1, <2>2, <2>8, <2>9
  <2>11. remaining' \in 0 .. WMEpochs /\ finished' \in Nat /\ (remaining' > 0 => remaining > 0)
    BY <1>k, <2>2, <2>3, <2>9, <2>10
  <2>12. finished' + Leased' + remaining' = WMEpochs
    <3>1. finished + sum + remaining = WMEpochs
      BY <2>4, <2>9
    <3>2. (finished + back) + (sum - back + n) + (remaining - n) = WMEpochs
      BY ONLY <1>k, <2>2, <2>3, <2>9, <3>1
    <3> QED
      BY <2>10, <3>2
  <2>13. remaining' > 0 => \A x \in WMEnvs : lease'[x] > 0
    BY <2>1, <2>2, <2>5, <2>11 DEF LeaseInv, LeasesConserved
  <2> QED
    BY <1>k, <2>1, <2>5, <2>11, <2>12, <2>13 DEF LeaseInv, LeasesConserved
<1>4. CASE StopImagination
  <2>1. /\ phase = "imagine" /\ phase' = "imagineStop" /\ UNCHANGED leaseVars
        /\ \A e \in WMEnvs : lease[e] = 0
    BY <1>4 DEF StopImagination
  <2>2. remaining = 0
    <3>1. PICK e \in WMEnvs : lease[e] = 0
      BY <2>1, WMFacts
    <3> QED
      BY <1>k, <2>1, <3>1 DEF LeaseInv, LeasesConserved
  <2>3. Leased = 0
    BY <2>1, SumOfNone DEF Leased
  <2>4. finished = WMEpochs
    BY <2>1, <2>2, <2>3 DEF LeaseInv, LeasesConserved
  <2> QED
    BY <1>k, <2>1, <2>4 DEF LeaseInv, LeasesConserved
<1>5. ASSUME NEW e \in Envs, Env(e) \/ EnvRaises(e)
      PROVE  LeaseInv'
  BY <1>1, <1>5 DEF Env, Bootstrap, StepSlots, FinalAnswer, EnvRaises
<1>6. ASSUME NEW r \in Rollouts, Rollout(r) \/ RolloutFails(r)
      PROVE  LeaseInv'
  BY <1>1, <1>6 DEF Rollout, TakeRequest, PutAnswer, RolloutFails
<1>7. CASE StartReal \/ StopReal \/ Drain \/ SkipImagination \/ Receive \/ GuardRaises
           \/ InteractionTimeout
  BY <1>1, <1>7 DEF StartReal, StopReal, Drain, SkipImagination, Receive, GuardRaises,
                    InteractionTimeout
<1>8. CASE UNCHANGED vars
  BY <1>1, <1>8 DEF vars
<1> QED
  BY <1>2, <1>3, <1>4, <1>5, <1>6, <1>7, <1>8 DEF Next, Runner, Faults

-----------------------------------------------------------------------------
(* The work of the env workers.                                            *)

\* A worker that is under way has epochs left, one that is done has none.
WorkInv ==
  /\ left \in [Envs -> Nat]
  /\ chunks \in [Envs -> [Slots -> 0 .. ChunkSteps]]
  /\ emitted \in [Envs -> Nat]
  /\ episode \in [Envs -> [Slots -> Nat]]
  /\ \A e \in Envs :
       /\ pc[e] \in {"bootstrap", "wait", "final"} => left[e] >= 1
       /\ pc[e] = "done" => left[e] = 0
       /\ pc[e] = "wait" => Active(e) # {}

LEMMA WorkStep ==
  ASSUME Shape, PhaseInv, LeaseInv, WorkInv, [Next]_vars
  PROVE  WorkInv'
<1> USE DEF runnerVars, leaseVars, slotVars, envVars, rolloutVars, channelVars
<1>k. /\ ChunkSteps' = ChunkSteps /\ ChunkSteps \in Nat \ {0}
      /\ WMEpochs \in Nat /\ RealEpochs \in Nat /\ Slots # {}
  BY RecipeSame, RecipeFacts, SlotsAssumption DEF Shape
<1>a. \A e \in Envs : Active(e) = {s \in Slots : chunks[e][s] < ChunkSteps}
                      /\ Active(e)' = {s \in Slots : chunks'[e][s] < ChunkSteps}
  BY <1>k DEF Active
<1>1. CASE UNCHANGED <<pc, left, emitted, slotVars>>
  BY <1>1, <1>k DEF WorkInv, Active
<1>2. ASSUME NEW e \in Envs, Bootstrap(e)
      PROVE  WorkInv'
  <2>1. /\ chunks' = [chunks EXCEPT ![e] = Zero] /\ pc' = [pc EXCEPT ![e] = "wait"]
        /\ pc[e] = "bootstrap" /\ UNCHANGED <<left, emitted, episode>>
    BY <1>2 DEF Bootstrap
  <2>2. chunks' \in [Envs -> [Slots -> 0 .. ChunkSteps]]
    BY <1>k, <2>1 DEF WorkInv, Zero
  <2>3. \E s \in Slots : chunks'[e][s] < ChunkSteps
    BY <1>k, <2>1 DEF WorkInv, Zero
  <2>4. \A f \in Envs \ {e} : chunks'[f] = chunks[f] /\ pc'[f] = pc[f]
    BY <2>1 DEF WorkInv, Shape
  <2>5. \A f \in Envs : pc'[f] = "wait" => Active(f)' # {}
    BY <1>a, <2>3, <2>4 DEF WorkInv
  <2> QED
    BY <1>k, <2>1, <2>2, <2>4, <2>5 DEF WorkInv, Shape
<1>3. ASSUME NEW e \in Envs, StepSlots(e)
      PROVE  WorkInv'
  <2>1. pc[e] = "wait"
    BY <1>3 DEF StepSlots
  <2>2. PICK ended \in SUBSET Active(e) :
          LET more == {s \in Slots : ChunksAfter(e, ended)[s] < ChunkSteps} IN
          /\ chunks' = [chunks EXCEPT ![e] = ChunksAfter(e, ended)]
          /\ \/ more # {} /\ UNCHANGED <<pc, left, emitted>>
             \/ /\ \E n \in ShardCounts(e) : emitted' = [emitted EXCEPT ![e] = @ + n]
                /\ \/ pc' = [pc EXCEPT ![e] = "final"] /\ UNCHANGED left
                   \/ pc' = [pc EXCEPT ![e] = AfterEpoch(e)] /\ left' = [left EXCEPT ![e] = @ - 1]
    BY <1>3 DEF StepSlots
  <2>3. ChunksAfter(e, ended) \in [Slots -> 0 .. ChunkSteps]
    <3>1. ASSUME NEW s \in Slots
          PROVE  ChunksAfter(e, ended)[s] \in 0 .. ChunkSteps
      <4>1. chunks[e][s] \in 0 .. ChunkSteps
        BY DEF WorkInv
      <4>2. s \in Active(e) => chunks[e][s] < ChunkSteps
        BY DEF Active
      <4> QED
        BY <1>k, <4>1, <4>2 DEF ChunksAfter
    <3> QED
      BY <3>1 DEF ChunksAfter
  <2>4. chunks' \in [Envs -> [Slots -> 0 .. ChunkSteps]]
    BY <2>2, <2>3 DEF WorkInv
  <2>5. episode' \in [Envs -> [Slots -> Nat]]
    <3>1. CASE UNCHANGED episode
      BY <3>1 DEF WorkInv
    <3>2. ASSUME NEW closing, Close(e, closing)
          PROVE  episode' \in [Envs -> [Slots -> Nat]]
      BY <3>2 DEF Close, WorkInv
    <3> QED
      BY <1>3, <3>1, <3>2 DEF StepSlots
  <2>6. left[e] >= 1 /\ left[e] \in Nat
    BY <2>1 DEF WorkInv
  <2>7. \A f \in Envs \ {e} : /\ chunks'[f] = chunks[f] /\ pc'[f] = pc[f]
                             /\ left'[f] = left[f]
    BY <2>2 DEF WorkInv, Shape
  <2>8. \A f \in Envs \ {e} : Active(f)' = Active(f)
    BY <1>a, <2>7
  <2>9. CASE UNCHANGED <<pc, left, emitted>>
             /\ {s \in Slots : ChunksAfter(e, ended)[s] < ChunkSteps} # {}
    <3>1. chunks'[e] = ChunksAfter(e, ended)
      BY <2>2 DEF WorkInv
    <3>2. Active(e)' # {}
      BY <1>a, <2>9, <3>1
    <3> QED
      BY <1>k, <2>4, <2>5, <2>7, <2>8, <2>9, <3>2 DEF WorkInv
  <2>10. CASE /\ \E n \in ShardCounts(e) : emitted' = [emitted EXCEPT ![e] = @ + n]
              /\ \/ pc' = [pc EXCEPT ![e] = "final"] /\ UNCHANGED left
                 \/ pc' = [pc EXCEPT ![e] = AfterEpoch(e)] /\ left' = [left EXCEPT ![e] = @ - 1]
    <3>1. emitted' \in [Envs -> Nat]
      <4>1. PICK n \in ShardCounts(e) : emitted' = [emitted EXCEPT ![e] = @ + n]
        BY <2>10
      <4>2. n \in Nat
        BY SlotsAssumption, FS_CardinalityType DEF ShardCounts
      <4> QED
        BY <4>1, <4>2 DEF WorkInv
    <3>2. /\ left' \in [Envs -> Nat]
          /\ \/ pc'[e] = "final" /\ left'[e] >= 1
             \/ pc'[e] = "done" /\ left'[e] = 0
             \/ pc'[e] = "bootstrap" /\ left'[e] >= 1
      BY <2>6, <2>10 DEF WorkInv, Shape, AfterEpoch
    <3> QED
      BY <1>k, <2>4, <2>5, <2>7, <2>8, <3>1, <3>2 DEF WorkInv
  <2> QED
    BY <2>2, <2>9, <2>10
<1>4. ASSUME NEW e \in Envs, FinalAnswer(e)
      PROVE  WorkInv'
  <2>1. /\ pc[e] = "final" /\ pc' = [pc EXCEPT ![e] = AfterEpoch(e)]
        /\ left' = [left EXCEPT ![e] = @ - 1] /\ UNCHANGED <<emitted, slotVars>>
    BY <1>4 DEF FinalAnswer
  <2>2. left[e] >= 1 /\ left[e] \in Nat
    BY <2>1 DEF WorkInv
  <2>3. /\ left' \in [Envs -> Nat]
        /\ \/ pc'[e] = "done" /\ left'[e] = 0
           \/ pc'[e] = "bootstrap" /\ left'[e] >= 1
    BY <2>1, <2>2 DEF WorkInv, Shape, AfterEpoch
  <2>4. \A f \in Envs \ {e} : pc'[f] = pc[f] /\ left'[f] = left[f] /\ Active(f)' = Active(f)
    BY <1>a, <2>1 DEF WorkInv, Shape
  <2> QED
    BY <1>k, <2>1, <2>3, <2>4 DEF WorkInv
<1>5. ASSUME NEW e \in Envs, EnvRaises(e)
      PROVE  WorkInv'
  <2>1. pc' = [pc EXCEPT ![e] = "raised"] /\ UNCHANGED <<left, emitted, slotVars>>
    BY <1>5 DEF EnvRaises
  <2>2. \A f \in Envs : Active(f)' = Active(f)
    BY <1>a, <2>1
  <2> QED
    BY <1>k, <2>1, <2>2 DEF WorkInv, Shape
<1>6. CASE StartReal
  <2>1. CASE UNCHANGED <<pc, left, chunks, episode, emitted>>
    BY <1>a, <1>k, <2>1 DEF WorkInv
  <2>2. CASE /\ episode' = [e \in Envs |-> [s \in Slots |->
                   episode[e][s] + IF e \in RealEnvs /\ open[e][s] # {} THEN 1 ELSE 0]]
             /\ pc' = [e \in Envs |-> IF e \in RealEnvs THEN "bootstrap" ELSE "idle"]
             /\ left' = [e \in Envs |-> IF e \in RealEnvs THEN RealShare(e) ELSE 0]
             /\ emitted' = [e \in Envs |-> 0] /\ UNCHANGED chunks
    <3>1. \A e \in RealEnvs : RealShare(e) \in Nat /\ RealShare(e) >= 1
      <4>1. PICK f : f = [e \in RealEnvs |-> RealShare(e)]
        OBVIOUS
      <4>2. \A e \in RealEnvs : f[e] = RealShare(e)
        BY <4>1
      <4>3. \A e \in RealEnvs : f[e] \in 1 .. RealEpochs
        BY <4>2, RealShares DEF Shape
      <4> QED
        BY <1>k, <4>2, <4>3
    <3>2. left' \in [Envs -> Nat] /\ emitted' \in [Envs -> Nat]
      BY <2>2, <3>1
    <3>3. episode' \in [Envs -> [Slots -> Nat]]
      BY <2>2 DEF WorkInv
    <3>4. \A e \in Envs : /\ pc'[e] \in {"bootstrap", "wait", "final"} => left'[e] >= 1
                          /\ pc'[e] \notin {"done", "wait"}
      BY <2>2, <3>1
    <3> QED
      BY <1>k, <2>2, <3>2, <3>3, <3>4 DEF WorkInv
  <2> QED
    BY <1>6, <2>1, <2>2 DEF StartReal
<1>7. CASE StartImagination
  <2>1. /\ lease' = [e \in Envs |-> IF e \in WMEnvs THEN FirstLease(e) ELSE 0]
        /\ pc' = [e \in Envs |-> IF e \in WMEnvs THEN Start(FirstLease(e)) ELSE pc[e]]
        /\ left' = lease' /\ emitted' = [e \in Envs |-> 0] /\ UNCHANGED slotVars
    BY <1>7 DEF StartImagination
  <2>2. \A e \in WMEnvs : FirstLease(e) \in Nat
    <3>1. PICK f : f = [e \in WMEnvs |-> FirstLease(e)]
      OBVIOUS
    <3>2. \A e \in WMEnvs : f[e] = FirstLease(e)
      BY <3>1
    <3>3. \A e \in WMEnvs : f[e] \in 0 .. WMEpochs
      BY <3>2, FirstLeases DEF Shape
    <3> QED
      BY <1>k, <3>2, <3>3
  <2>3. left' \in [Envs -> Nat] /\ emitted' \in [Envs -> Nat]
    BY <2>1, <2>2
  <2>4. ASSUME NEW e \in Envs
        PROVE  /\ pc'[e] \in {"bootstrap", "wait", "final"} => left'[e] >= 1
               /\ pc'[e] = "done" => left'[e] = 0
               /\ pc'[e] = "wait" => Active(e)' # {}
    <3>1. CASE e \in WMEnvs
      BY <2>1, <2>2, <3>1 DEF Start
    <3>2. CASE e \notin WMEnvs
      <4>1. phase = "learn" /\ pc'[e] = pc[e] /\ left'[e] = 0
        BY <1>7, <2>1, <3>2 DEF StartImagination
      <4> QED
        BY <4>1 DEF WorkInv, PhaseInv
    <3> QED
      BY <3>1, <3>2
  <2> QED
    BY <1>k, <2>1, <2>3, <2>4 DEF WorkInv
<1>8. ASSUME NEW e \in WMEnvs, LeaseReturned(e)
      PROVE  WorkInv'
  <2>1. /\ left' = [left EXCEPT ![e] = LeaseOf(remaining)]
        /\ pc' = [pc EXCEPT ![e] = Start(LeaseOf(remaining))]
        /\ emitted' = [emitted EXCEPT ![e] = 0] /\ UNCHANGED slotVars
    BY <1>8 DEF LeaseReturned
  <2>2. LeaseOf(remaining) \in Nat /\ e \in Envs
    BY <1>k, SlotsAssumption, WMFacts DEF LeaseInv, LeaseOf, Lesser
  <2>3. \A f \in Envs : Active(f)' = Active(f)
    BY <1>a, <2>1
  <2> QED
    BY <1>k, <2>1, <2>2, <2>3 DEF WorkInv, Shape, Start
<1>9. ASSUME NEW r \in Rollouts, Rollout(r) \/ RolloutFails(r)
      PROVE  WorkInv'
  BY <1>1, <1>9 DEF Rollout, TakeRequest, PutAnswer, RolloutFails
<1>10. CASE Drain
  BY <1>10, <1>a, <1>k DEF Drain, WorkInv
<1>11. CASE StopReal \/ SkipImagination \/ StopImagination \/ Receive \/ GuardRaises
            \/ InteractionTimeout \/ UNCHANGED vars
  BY <1>1, <1>11 DEF StopReal, SkipImagination, StopImagination, Receive, GuardRaises,
                     InteractionTimeout, vars
<1> QED
  BY <1>2, <1>3, <1>4, <1>5, <1>6, <1>7, <1>8, <1>9, <1>10, <1>11 DEF Next, Env, Runner, Faults

-----------------------------------------------------------------------------
(* The runner's counters.                                                  *)

CounterInv ==
  /\ phase \in {"ready", "real", "realStop", "learn", "imagine", "imagineStop", "failed"}
  /\ step \in 0 .. MaxSteps /\ (phase # "ready" => step >= 1)
  /\ version \in 0 .. 3 * step
  /\ expected \in Nat /\ actorq \in Nat
  /\ rpc \in [Rollouts -> {"idle", "get", "busy", "done", "raised"}]
  /\ failures \in 0 .. recipe.faults

LEMMA CounterStep ==
  ASSUME Shape, WorkInv, CounterInv, [Next]_vars
  PROVE  CounterInv'
<1> USE DEF runnerVars, leaseVars, slotVars, envVars, rolloutVars, channelVars
<1>k. recipe' = recipe /\ Rollouts' = Rollouts /\ recipe.faults \in Nat /\ MaxSteps \in Nat
  BY RecipeSame, RecipeFacts, SlotsAssumption DEF Shape
<1>1. CASE UNCHANGED <<phase, step, version, expected, actorq, rpc, failures>>
  BY <1>1, <1>k DEF CounterInv
<1>2. ASSUME NEW e \in Envs, Bootstrap(e) \/ FinalAnswer(e)
      PROVE  CounterInv'
  BY <1>1, <1>2 DEF Bootstrap, FinalAnswer
<1>3. ASSUME NEW e \in Envs, StepSlots(e)
      PROVE  CounterInv'
  <2>1. UNCHANGED <<phase, step, version, expected, rpc, failures>>
    BY <1>3 DEF StepSlots
  <2>2. actorq' = actorq \/ \E n \in ShardCounts(e) : actorq' = actorq + n
    BY <1>3 DEF StepSlots
  <2>3. ShardCounts(e) \subseteq Nat
    BY DEF ShardCounts
  <2>4. actorq' \in Nat
    BY <2>2, <2>3 DEF CounterInv
  <2> QED
    BY <1>k, <2>1, <2>4 DEF CounterInv
<1>4. ASSUME NEW e \in Envs, EnvRaises(e)
      PROVE  CounterInv'
  <2>1. UNCHANGED <<phase, step, version, expected, actorq, rpc>>
    BY <1>4 DEF EnvRaises
  <2>2. failures' = failures \/ (failures < recipe.faults /\ failures' = failures + 1)
    BY <1>4 DEF EnvRaises
  <2> QED
    BY <1>k, <2>1, <2>2 DEF CounterInv
<1>5. ASSUME NEW r \in Rollouts, TakeRequest(r) \/ PutAnswer(r)
      PROVE  CounterInv'
  <2>1. UNCHANGED <<phase, step, version, expected, actorq, failures>>
    BY <1>5 DEF TakeRequest, PutAnswer
  <2>2. rpc' \in [Rollouts -> {"idle", "get", "busy", "done", "raised"}]
    BY <1>5 DEF TakeRequest, PutAnswer, CounterInv
  <2> QED
    BY <1>k, <2>1, <2>2 DEF CounterInv
<1>6. ASSUME NEW r \in Rollouts, RolloutFails(r)
      PROVE  CounterInv'
  BY <1>6, <1>k DEF RolloutFails, CounterInv
<1>7. CASE StartReal
  <2>1. step' = step + 1 /\ step < MaxSteps /\ UNCHANGED <<expected, actorq, failures>>
        /\ phase' \in {"failed", "real"}
    BY <1>7 DEF StartReal
  <2>2. version' = version \/ version' = 3 * step' - 2
    BY <1>7 DEF StartReal
  <2>3. rpc' \in [Rollouts -> {"idle", "get", "busy", "done", "raised"}]
    BY <1>7 DEF StartReal, CounterInv
  <2>4. step' \in 0 .. MaxSteps /\ step' >= 1 /\ version' \in 0 .. 3 * step'
    BY <1>k, <2>1, <2>2 DEF CounterInv
  <2> QED
    BY <1>k, <2>1, <2>3, <2>4 DEF CounterInv
<1>8. CASE StartImagination
  <2>1. /\ phase = "learn" /\ phase' = "imagine" /\ UNCHANGED <<step, actorq, failures>>
        /\ version' = IF Frozen THEN version ELSE 3 * step - 1
        /\ rpc' = [r \in Rollouts |-> "get"] /\ expected' = 0
    BY <1>8 DEF StartImagination
  <2> QED
    BY <1>k, <2>1 DEF CounterInv
<1>9. ASSUME NEW e \in WMEnvs, LeaseReturned(e)
      PROVE  CounterInv'
  <2>1. UNCHANGED <<phase, step, version, actorq, rpc, failures>> /\ expected' = expected + emitted[e]
    BY <1>9 DEF LeaseReturned
  <2>2. emitted[e] \in Nat
    BY WMFacts DEF WorkInv
  <2> QED
    BY <1>k, <2>1, <2>2 DEF CounterInv
<1>10. CASE Receive
  BY <1>10, <1>k DEF Receive, CounterInv
<1>11. CASE StopReal \/ Drain \/ SkipImagination \/ StopImagination \/ GuardRaises
  <2>1. UNCHANGED <<step, version, expected, actorq, rpc, failures>> /\ phase # "ready"
        /\ phase' \in {"realStop", "failed", "learn", "ready", "imagineStop"}
    BY <1>11 DEF StopReal, Drain, SkipImagination, StopImagination, GuardRaises
  <2> QED
    BY <1>k, <2>1 DEF CounterInv
<1>12. CASE InteractionTimeout
  BY <1>12, <1>k DEF InteractionTimeout, CounterInv
<1>13. CASE UNCHANGED vars
  BY <1>1, <1>13 DEF vars
<1> QED
  BY <1>2, <1>3, <1>4, <1>5, <1>6, <1>7, <1>8, <1>9, <1>10, <1>11, <1>12, <1>13
  DEF Next, Env, Rollout, Runner, Faults

-----------------------------------------------------------------------------
(* What the channels hold.                                                 *)

Queue(key)  == {envq[key][i] : i \in DOMAIN envq[key]}
Replies(k)  == {resq[k][i] : i \in DOMAIN resq[k]}
Ask(e, slots) == [env |-> EnvRank(e), slots |-> slots]

LEMMA QueueAsk ==
  ASSUME Shape, NEW e \in Envs, NEW slots \in SUBSET Slots, AskFor(e, slots), NEW p \in Keys
  PROVE  Queue(p)' \subseteq Queue(p) \cup {Ask(e, slots)}
<1>1. PICK key \in Keys, msg \in Messages : key = RequestKey(e) /\ msg = Ask(e, slots)
  <2>1. Ask(e, slots) \in Messages
    BY RanksAreEnvs, Numbers DEF Ask, Messages
  <2> QED
    BY <2>1, KeysAreKeys
<1>2. envq' = [envq EXCEPT ![key] = Append(@, msg)]
  BY <1>1 DEF AskFor, Ask
<1>3. envq[p] \in Seq(Messages)
  BY DEF Shape
<1>4. envq'[p] = envq[p] \/ envq'[p] = Append(envq[p], msg)
  BY <1>2 DEF Shape
<1>5. ASSUME NEW i \in DOMAIN envq'[p]
      PROVE  envq'[p][i] = msg \/ (i \in DOMAIN envq[p] /\ envq'[p][i] = envq[p][i])
  BY <1>3, <1>4
<1> QED
  BY <1>1, <1>5 DEF Queue

LEMMA QueueTake ==
  ASSUME Shape, NEW key \in Keys, envq[key] # <<>>, envq' = [envq EXCEPT ![key] = Tail(@)]
  PROVE  /\ Head(envq[key]) \in Queue(key)
         /\ \A p \in Keys : Queue(p)' \subseteq Queue(p)
<1>1. envq[key] \in Seq(Messages)
  BY DEF Shape
<1>2. Head(envq[key]) = envq[key][1] /\ 1 \in DOMAIN envq[key]
  BY <1>1
<1>3. ASSUME NEW i \in DOMAIN Tail(envq[key])
      PROVE  i + 1 \in DOMAIN envq[key] /\ Tail(envq[key])[i] = envq[key][i + 1]
  <2>1. /\ Len(Tail(envq[key])) = Len(envq[key]) - 1 /\ Tail(envq[key]) \in Seq(Messages)
        /\ \A j \in 1 .. Len(Tail(envq[key])) : Tail(envq[key])[j] = envq[key][j + 1]
    BY <1>1, HeadTailProperties
  <2>2. Len(envq[key]) \in Nat /\ DOMAIN envq[key] = 1 .. Len(envq[key])
    BY <1>1, LenProperties
  <2>3. i \in 1 .. Len(Tail(envq[key]))
    <3>1. DOMAIN Tail(envq[key]) = 1 .. Len(Tail(envq[key]))
      BY <2>1, LenProperties
    <3> QED
      BY <3>1
  <2> QED
    BY <2>1, <2>2, <2>3
<1>4. ASSUME NEW p \in Keys
      PROVE  Queue(p)' \subseteq Queue(p)
  <2>1. CASE p = key
    <3>1. envq'[p] = Tail(envq[key])
      BY <2>1 DEF Shape
    <3> QED
      BY <1>3, <2>1, <3>1 DEF Queue
  <2>2. CASE p # key
    BY <2>2 DEF Shape, Queue
  <2> QED
    BY <2>1, <2>2
<1> QED
  BY <1>2, <1>4 DEF Queue

LEMMA QueueStops ==
  ASSUME Shape, Keys' = Keys, envq' = StopAll(envq), NEW p \in Keys
  PROVE  Queue(p)' \subseteq Queue(p) \cup {Stop}
<1>1. \A i \in DOMAIN envq'[p] :
        envq'[p][i] = Stop \/ (i \in DOMAIN envq[p] /\ envq'[p][i] = envq[p][i])
  BY QueuedStops DEF Shape
<1> QED
  BY <1>1 DEF Queue

LEMMA RepliesTake ==
  ASSUME Shape, RequestInv, NEW e \in Envs, resq[EnvRank(e)] # <<>>, TakeAnswer(e)
  PROVE  /\ Answer(e) \in Replies(EnvRank(e))
         /\ \A k \in Envs : Replies(k)' \subseteq Replies(k)
         /\ \A k \in Envs : k = EnvRank(e) => Replies(k)' = {}
<1>1. PICK rank \in Envs : rank = EnvRank(e)
  BY RanksAreEnvs
<1>2. resq'[rank] = <<>> /\ \A k \in Envs \ {rank} : resq'[k] = resq[k]
  BY <1>1, AnswerTaken
<1>3. resq[rank] \in Seq(AnswerShape) /\ resq[rank] # <<>>
  BY <1>1 DEF Shape
<1>4. 1 \in DOMAIN resq[rank] /\ Head(resq[rank]) = resq[rank][1]
  BY <1>3
<1>5. Answer(e) \in Replies(rank)
  BY <1>1, <1>4 DEF Answer, Replies
<1>6. {resq'[rank][i] : i \in DOMAIN resq'[rank]} = {}
  BY <1>2
<1>7. Replies(rank)' = {}
  BY <1>6 DEF Replies
<1>8. \A k \in Envs : Replies(k)' \subseteq Replies(k)
  BY <1>2, <1>6 DEF Replies
<1> QED
  BY <1>1, <1>5, <1>7, <1>8

LEMMA RepliesPut ==
  ASSUME Shape, NEW r \in Rollouts, PutAnswer(r), NEW k \in Envs
  PROVE  /\ k # held[r].env => Replies(k)' = Replies(k)
         /\ Replies(k)' \subseteq Replies(k) \cup {[slots |-> held[r].slots, version |-> version]}
<1>1. PICK answer \in AnswerShape : answer = [slots |-> held[r].slots, version |-> version]
  <2>1. held[r] \in Messages /\ version \in Int
    BY DEF Shape
  <2>2. [slots |-> held[r].slots, version |-> version] \in AnswerShape
    BY <2>1 DEF Messages, AnswerShape
  <2> QED
    BY <2>2
<1>2. resq[k] \in Seq(AnswerShape)
  BY DEF Shape
<1>3. resq' = [resq EXCEPT ![held[r].env] = Append(@, answer)]
  BY <1>1 DEF PutAnswer
<1>4. k # held[r].env => resq'[k] = resq[k]
  BY <1>3 DEF Shape
<1>5. resq'[k] = resq[k] \/ resq'[k] = Append(resq[k], answer)
  BY <1>3 DEF Shape
<1>6. ASSUME NEW i \in DOMAIN resq'[k]
      PROVE  resq'[k][i] = answer \/ (i \in DOMAIN resq[k] /\ resq'[k][i] = resq[k][i])
  BY <1>2, <1>5
<1> QED
  BY <1>1, <1>4, <1>6 DEF Replies

\* Requests name a rank and some slots, answers some slots and a version.
MessageInv ==
  /\ \A p \in Keys : Queue(p) \subseteq Requests \cup {Stop}
  /\ \A k \in Envs : Replies(k) \subseteq Answers
  /\ \A r \in Rollouts : held[r] \in Requests \cup {Stop}
  /\ \A e \in Envs, s \in Slots : open[e][s] \subseteq Nat

LEMMA AskIsRequest ==
  ASSUME NEW e \in Envs, NEW slots \in SUBSET Slots, slots # {}
  PROVE  Ask(e, slots) \in Requests
<1>1. EnvRank(e) \in EnvRanks /\ slots \in (SUBSET Slots) \ {{}}
  BY DEF EnvRanks
<1> QED
  BY <1>1 DEF Ask, Requests

LEMMA MessageStep ==
  ASSUME Shape, HoldInv, RequestInv, CounterInv, MessageInv, [Next]_vars
  PROVE  MessageInv'
<1> USE DEF runnerVars, leaseVars, slotVars, envVars, rolloutVars, channelVars
<1>k. Keys' = Keys /\ Rollouts' = Rollouts /\ Requests' = Requests /\ Slots # {}
  BY RecipeSame, SlotsAssumption DEF Requests
<1>q. UNCHANGED envq => \A p \in Keys : Queue(p)' = Queue(p)
  BY DEF Queue
<1>s. UNCHANGED resq => \A k \in Envs : Replies(k)' = Replies(k)
  BY DEF Replies
<1>1. CASE UNCHANGED <<envq, resq, held>> /\ (open' = open \/ open' = [e \in Envs |-> NoEpisode])
  <2>1. \A e \in Envs, s \in Slots : open'[e][s] \subseteq Nat
    BY <1>1 DEF MessageInv, NoEpisode
  <2> QED
    BY <1>1, <1>k, <1>q, <1>s, <2>1 DEF MessageInv, Answers
<1>2. ASSUME NEW e \in Envs, Bootstrap(e)
      PROVE  MessageInv'
  <2>1. AskFor(e, Slots) /\ UNCHANGED <<resq, held>> /\ open' = [open EXCEPT ![e] = NoEpisode]
    BY <1>2 DEF Bootstrap
  <2>2. \A p \in Keys : Queue(p)' \subseteq Requests \cup {Stop}
    BY <1>k, <2>1, QueueAsk, AskIsRequest DEF MessageInv
  <2>3. \A f \in Envs, s \in Slots : open'[f][s] \subseteq Nat
    BY <2>1 DEF MessageInv, NoEpisode, Shape
  <2> QED
    BY <1>k, <1>s, <2>1, <2>2, <2>3 DEF MessageInv, Answers
<1>3. ASSUME NEW e \in Envs, StepSlots(e)
      PROVE  MessageInv'
  <2>1. TakeAnswer(e) /\ resq[EnvRank(e)] # <<>> /\ UNCHANGED held
    BY <1>3 DEF StepSlots
  <2>2. /\ Answer(e) \in Replies(EnvRank(e))
        /\ \A k \in Envs : Replies(k)' \subseteq Replies(k)
    BY <2>1, RepliesTake
  <2>3. Answer(e).version \in Nat
    BY <2>2, RanksAreEnvs DEF MessageInv, Answers
  <2>4. \A s \in Slots : EpisodeWith(e, s) \subseteq Nat
    BY <2>3 DEF EpisodeWith, MessageInv
  <2>5. \A f \in Envs, s \in Slots : open'[f][s] \subseteq Nat
    <3>1. CASE UNCHANGED open
      BY <3>1 DEF MessageInv
    <3>2. ASSUME NEW closing, Close(e, closing)
          PROVE  \A f \in Envs, s \in Slots : open'[f][s] \subseteq Nat
      BY <2>4, <3>2 DEF Close, MessageInv, Shape
    <3> QED
      BY <1>3, <3>1, <3>2 DEF StepSlots
  <2>6. envq' = envq \/ \E slots \in SUBSET Slots : slots # {} /\ AskFor(e, slots)
    BY <1>3, <1>k DEF StepSlots
  <2>7. \A p \in Keys : Queue(p)' \subseteq Requests \cup {Stop}
    BY <1>q, <2>6, QueueAsk, AskIsRequest DEF MessageInv
  <2> QED
    BY <1>k, <2>1, <2>2, <2>5, <2>7 DEF MessageInv, Answers
<1>4. ASSUME NEW e \in Envs, FinalAnswer(e) \/ EnvRaises(e)
      PROVE  MessageInv'
  <2>1. UNCHANGED <<envq, held, open>>
    BY <1>4 DEF FinalAnswer, EnvRaises
  <2>2. resq' = resq \/ (resq[EnvRank(e)] # <<>> /\ TakeAnswer(e))
    BY <1>4 DEF FinalAnswer, EnvRaises
  <2>3. \A k \in Envs : Replies(k)' \subseteq Replies(k)
    BY <1>s, <2>2, RepliesTake
  <2> QED
    BY <1>k, <1>q, <2>1, <2>3 DEF MessageInv, Answers
<1>5. ASSUME NEW r \in Rollouts, TakeRequest(r)
      PROVE  MessageInv'
  <2>1. PICK key \in Keys : key = ReadKey(r)
    BY DEF ReadKey, Keys
  <2>2. /\ envq[key] # <<>> /\ envq' = [envq EXCEPT ![key] = Tail(@)]
        /\ held' = [held EXCEPT ![r] = Head(envq[key])] /\ UNCHANGED <<resq, open>>
    BY <1>5, <2>1 DEF TakeRequest
  <2>3. /\ Head(envq[key]) \in Queue(key)
        /\ \A p \in Keys : Queue(p)' \subseteq Queue(p)
    BY <2>2, QueueTake
  <2>4. \A x \in Rollouts : held'[x] \in Requests \cup {Stop}
    BY <2>2, <2>3 DEF MessageInv, Shape
  <2> QED
    BY <1>k, <1>s, <2>2, <2>3, <2>4 DEF MessageInv, Answers
<1>6. ASSUME NEW r \in Rollouts, PutAnswer(r)
      PROVE  MessageInv'
  <2>1. held[r] \in Requests /\ version \in Nat
    BY <1>6 DEF PutAnswer, HoldInv, MessageInv, CounterInv
  <2>2. [slots |-> held[r].slots, version |-> version] \in Answers
    BY <2>1 DEF Requests, Answers
  <2>3. \A k \in Envs : Replies(k)' \subseteq Answers
    BY <1>6, <2>2, RepliesPut DEF MessageInv
  <2>4. UNCHANGED <<envq, open>> /\ \A x \in Rollouts : held'[x] \in Requests \cup {Stop}
    BY <1>6 DEF PutAnswer, MessageInv, Shape
  <2> QED
    BY <1>k, <1>q, <2>3, <2>4 DEF MessageInv, Answers
<1>7. CASE StopReal \/ StopImagination
  <2>1. envq' = StopAll(envq) /\ UNCHANGED <<resq, held, open>>
    BY <1>7 DEF StopReal, StopImagination
  <2>2. \A p \in Keys : Queue(p)' \subseteq Requests \cup {Stop}
    BY <1>k, <2>1, QueueStops DEF MessageInv
  <2> QED
    BY <1>k, <1>s, <2>1, <2>2 DEF MessageInv, Answers
<1>8. ASSUME NEW r \in Rollouts, RolloutFails(r)
      PROVE  MessageInv'
  BY <1>1, <1>8 DEF RolloutFails
<1>9. ASSUME NEW e \in WMEnvs, LeaseReturned(e)
      PROVE  MessageInv'
  BY <1>1, <1>9 DEF LeaseReturned
<1>10. CASE StartReal \/ Drain \/ SkipImagination \/ StartImagination \/ Receive \/ GuardRaises
            \/ InteractionTimeout \/ UNCHANGED vars
  BY <1>1, <1>10 DEF StartReal, Drain, SkipImagination, StartImagination, Receive, GuardRaises,
                     InteractionTimeout, vars
<1> QED
  BY <1>2, <1>3, <1>4, <1>5, <1>6, <1>7, <1>8, <1>9, <1>10
  DEF Next, Env, Rollout, Runner, Faults

-----------------------------------------------------------------------------
(* An answer is for the slots that wait.                                   *)

Expects(e) == IF pc[e] = "wait" THEN Active(e) ELSE Slots

Fits(e) ==
  /\ \A p \in Keys : \A m \in Queue(p) : m.env = EnvRank(e) => m.slots = Expects(e)
  /\ \A r \in Rollouts : held[r].env = EnvRank(e) => held[r].slots = Expects(e)
  /\ \A k \in Envs : k = EnvRank(e) => \A a \in Replies(k) : a.slots = Expects(e)

FitInv == phase # "failed" => \A e \in Envs : Waits(e) => Fits(e)

LEMMA NoneQueued ==
  ASSUME Shape, NEW k, NotQueued(k)
  PROVE  \A p \in Keys : \A m \in Queue(p) : m.env # k
<1> SUFFICES ASSUME NEW p \in Keys, NEW i \in DOMAIN envq[p], envq[p][i].env = k
             PROVE  FALSE
  BY DEF Queue
<1>1. envq[p] \in Seq(Messages)
  BY DEF Shape
<1>2. i \in Nat
  BY <1>1
<1> QED
  BY <1>2 DEF NotQueued, Queued

\* What a waiting worker expects changes only with its own steps.
LEMMA FitsKept ==
  ASSUME [Next]_vars, NEW f \in Envs, Fits(f), pc'[f] = pc[f], chunks'[f] = chunks[f],
         \A p \in Keys : \A m \in Queue(p)' : m.env = EnvRank(f) => m \in Queue(p),
         \A r \in Rollouts : \/ held'[r] = held[r] \/ held'[r].env # EnvRank(f)
                             \/ \E p \in Keys : held'[r] \in Queue(p),
         \A k \in Envs : k = EnvRank(f) => \A a \in Replies(k)' : \/ a \in Replies(k)
                                                               \/ \E r \in Rollouts : held[r].env = k /\ a.slots = held[r].slots
  PROVE  Fits(f)'
<1>1. Keys' = Keys /\ Rollouts' = Rollouts /\ EnvRank(f)' = EnvRank(f) /\ ChunkSteps' = ChunkSteps
  BY RecipeSame
<1>2. Expects(f)' = Expects(f)
  BY <1>1 DEF Expects, Active
<1>3. \A p \in Keys : \A m \in Queue(p)' : m.env = EnvRank(f) => m.slots = Expects(f)
  BY DEF Fits
<1>4. \A r \in Rollouts : held'[r].env = EnvRank(f) => held'[r].slots = Expects(f)
  BY DEF Fits
<1>5. \A k \in Envs : k = EnvRank(f) => \A a \in Replies(k)' : a.slots = Expects(f)
  BY DEF Fits
<1> QED
  BY <1>1, <1>2, <1>3, <1>4, <1>5 DEF Fits

\* Worker e takes its answer, if it has to, and asks its next request, if any.
LEMMA FitsAsk ==
  ASSUME [Next]_vars, Shape, PhaseInv, RequestInv, FitInv, phase # "failed", UNCHANGED <<phase, held>>,
         NEW e \in Envs, NEW rank \in Envs, rank = EnvRank(e), pc[e] \notin {"idle", "done"},
         NotQueued(rank), NotHeld(rank), \A k \in Envs : Replies(k)' \subseteq Replies(k),
         Replies(rank)' = {},
         \A f \in Envs \ {e} : pc'[f] = pc[f] /\ chunks'[f] = chunks[f],
         NEW slots \in SUBSET Slots,
         \/ UNCHANGED envq
         \/ AskFor(e, slots) /\ (Waits(e)' => slots = Expects(e)')
  PROVE  FitInv'
<1>1. Keys' = Keys /\ Rollouts' = Rollouts /\ \A f \in Envs : EnvRank(f)' = EnvRank(f)
  BY RecipeSame
<1>2. \A p \in Keys : \A m \in Queue(p)' : m \in Queue(p) \/ (m = Ask(e, slots) /\ AskFor(e, slots))
  BY QueueAsk DEF Queue
<1>3. Ask(e, slots).env = rank /\ Ask(e, slots).slots = slots
  BY DEF Ask
<1>4. \A p \in Keys : \A m \in Queue(p) : m.env # rank
  BY NoneQueued
<1>5. ASSUME NEW f \in Envs, f # e, Waits(f)'
      PROVE  Fits(f)'
  <2>1. Waits(f) /\ pc'[f] = pc[f] /\ chunks'[f] = chunks[f]
    BY <1>5 DEF Waits
  <2>2. EnvRank(f) # rank
    BY <1>5, <2>1, RankInjective DEF Waits
  <2>3. Fits(f)
    BY <2>1 DEF FitInv
  <2>4. \A p \in Keys : \A m \in Queue(p)' : m.env = EnvRank(f) => m \in Queue(p)
    BY <1>2, <1>3, <2>2
  <2> QED
    BY <2>1, <2>3, <2>4, FitsKept
<1>6. ASSUME Waits(e)'
      PROVE  Fits(e)'
  <2>1. \A p \in Keys : \A m \in Queue(p)' : m.env = rank => m.slots = Expects(e)'
    <3>1. CASE UNCHANGED envq
      BY <1>4, <3>1 DEF Queue
    <3>2. CASE AskFor(e, slots) /\ (Waits(e)' => slots = Expects(e)')
      BY <1>2, <1>3, <1>4, <1>6, <3>2
    <3> QED
      BY <3>1, <3>2
  <2>2. \A r \in Rollouts : held'[r].env # rank
    BY DEF NotHeld, Held
  <2>3. \A k \in Envs : k = rank => \A a \in Replies(k)' : a.slots = Expects(e)'
    OBVIOUS
  <2> QED
    BY <1>1, <2>1, <2>2, <2>3 DEF Fits
<1> QED
  BY <1>5, <1>6 DEF FitInv

LEMMA FitStep ==
  ASSUME Shape, PhaseInv, RequestInv, WorkInv, FitInv, [Next]_vars
  PROVE  FitInv'
<1> USE DEF runnerVars, leaseVars, slotVars, envVars, rolloutVars, channelVars
<1>k. Keys' = Keys /\ Rollouts' = Rollouts /\ ChunkSteps' = ChunkSteps
      /\ \A f \in Envs : EnvRank(f)' = EnvRank(f)
  BY RecipeSame
<1>q. UNCHANGED envq => \A p \in Keys : Queue(p)' = Queue(p)
  BY DEF Queue
<1>s. UNCHANGED resq => \A k \in Envs : Replies(k)' = Replies(k)
  BY DEF Replies
<1>1. CASE UNCHANGED <<envq, resq, held, pc, chunks>> /\ (phase' # "failed" => phase # "failed")
  <2>1. ASSUME NEW f \in Envs, Waits(f)', phase' # "failed"
        PROVE  Fits(f)'
    <3>1. Waits(f) /\ Fits(f)
      BY <1>1, <2>1 DEF Waits, FitInv
    <3> QED
      BY <1>1, <1>q, <1>s, <3>1, FitsKept
  <2> QED
    BY <2>1 DEF FitInv
<1>2. ASSUME NEW e \in Envs, Bootstrap(e), phase # "failed"
      PROVE  FitInv'
  <2>1. PICK rank \in Envs : rank = EnvRank(e)
    BY RanksAreEnvs
  <2>2. /\ pc[e] = "bootstrap" /\ AskFor(e, Slots) /\ UNCHANGED <<phase, held, resq>>
        /\ pc' = [pc EXCEPT ![e] = "wait"] /\ chunks' = [chunks EXCEPT ![e] = Zero]
    BY <1>2 DEF Bootstrap
  <2>3. ASSUME NEW f \in Envs, EnvRank(f) = rank, Waits(f)
        PROVE  FALSE
    <3>1. e = f
      BY <1>2, <2>1, <2>2, <2>3, RankInjective DEF Waits
    <3> QED
      BY <2>2, <2>3, <3>1 DEF Waits
  <2>4. Nowhere(rank)
    BY <2>3 DEF RequestInv, WaitedFor
  <2>5. NotQueued(rank) /\ NotHeld(rank) /\ resq[rank] = <<>>
    BY <2>4 DEF Nowhere, Answered
  <2>6. Replies(rank)' = {}
    BY <2>2, <2>5 DEF Replies
  <2>7. \A f \in Envs \ {e} : pc'[f] = pc[f] /\ chunks'[f] = chunks[f]
    BY <2>2 DEF Shape, WorkInv
  <2>8. Slots = Expects(e)'
    <3>1. ChunkSteps \in Nat \ {0}
      BY RecipeFacts DEF Shape
    <3>2. chunks'[e] = Zero
      BY <2>2 DEF WorkInv
    <3>3. \A s \in Slots : chunks'[e][s] < ChunkSteps
      BY <3>1, <3>2 DEF Zero
    <3> QED
      BY <1>k, <3>3 DEF Expects, Active
  <2> QED
    BY <1>2, <1>s, <2>1, <2>2, <2>5, <2>6, <2>7, <2>8, FitsAsk
<1>3. ASSUME NEW e \in Envs, StepSlots(e), phase # "failed"
      PROVE  FitInv'
  <2>1. PICK rank \in Envs : rank = EnvRank(e)
    BY RanksAreEnvs
  <2>2. TakeAnswer(e) /\ resq[rank] # <<>> /\ UNCHANGED <<phase, held>> /\ pc[e] = "wait"
    BY <1>3, <2>1 DEF StepSlots
  <2>3. NotQueued(rank) /\ NotHeld(rank)
    BY <2>1, <2>2, AnswerTaken
  <2>4. (\A k \in Envs : Replies(k)' \subseteq Replies(k)) /\ Replies(rank)' = {}
    BY <2>1, <2>2, RepliesTake
  <2>5. PICK more, after :
          /\ more \in SUBSET Slots /\ more = {s \in Slots : after[s] < ChunkSteps}
          /\ chunks' = [chunks EXCEPT ![e] = after]
          /\ \/ AskFor(e, more) /\ UNCHANGED pc
             \/ AskFor(e, Slots) /\ pc' = [pc EXCEPT ![e] = "final"]
             \/ UNCHANGED envq /\ pc' = [pc EXCEPT ![e] = AfterEpoch(e)]
    <3>1. PICK ended : LET after == ChunksAfter(e, ended)
                          more  == {s \in Slots : after[s] < ChunkSteps} IN
          /\ chunks' = [chunks EXCEPT ![e] = after]
          /\ \/ AskFor(e, more) /\ UNCHANGED pc
             \/ AskFor(e, Slots) /\ pc' = [pc EXCEPT ![e] = "final"]
             \/ UNCHANGED envq /\ pc' = [pc EXCEPT ![e] = AfterEpoch(e)]
      BY <1>3 DEF StepSlots
    <3>2. PICK more : more = {s \in Slots : ChunksAfter(e, ended)[s] < ChunkSteps}
      OBVIOUS
    <3>3. more \in SUBSET Slots
      BY <3>2
    <3> QED
      BY <3>1, <3>2, <3>3
  <2>6. \A f \in Envs \ {e} : pc'[f] = pc[f] /\ chunks'[f] = chunks[f]
    BY <2>5 DEF Shape, WorkInv
  <2>7. CASE AskFor(e, more) /\ UNCHANGED pc
    <3>1. Expects(e)' = more
      BY <1>k, <2>2, <2>5, <2>7 DEF Expects, Active, WorkInv
    <3>2. more \in SUBSET Slots
      BY <2>5
    <3> QED
      BY <1>3, <2>1, <2>2, <2>3, <2>4, <2>6, <2>7, <3>1, <3>2, FitsAsk
  <2>8. CASE AskFor(e, Slots) /\ pc' = [pc EXCEPT ![e] = "final"]
    <3>1. Expects(e)' = Slots
      BY <2>8 DEF Expects, Shape
    <3> QED
      BY <1>3, <2>1, <2>2, <2>3, <2>4, <2>6, <2>8, <3>1, FitsAsk
  <2>9. CASE UNCHANGED envq
    BY <1>3, <2>1, <2>2, <2>3, <2>4, <2>5, <2>6, <2>9, FitsAsk
  <2> QED
    BY <2>5, <2>7, <2>8, <2>9
<1>4. ASSUME NEW e \in Envs, FinalAnswer(e) \/ EnvRaises(e), phase # "failed"
      PROVE  FitInv'
  <2>1. PICK rank \in Envs : rank = EnvRank(e)
    BY RanksAreEnvs
  <2>2. /\ UNCHANGED <<phase, held, envq, chunks>> /\ \A f \in Envs \ {e} : pc'[f] = pc[f]
        /\ pc[e] \notin {"idle", "done"}
    BY <1>4 DEF FinalAnswer, EnvRaises, Mismatch, Shape
  <2>3. CASE TakeAnswer(e) /\ resq[rank] # <<>>
    <3>1. NotQueued(rank) /\ NotHeld(rank)
      BY <2>1, <2>3, AnswerTaken
    <3>2. (\A k \in Envs : Replies(k)' \subseteq Replies(k)) /\ Replies(rank)' = {}
      BY <2>1, <2>3, RepliesTake
    <3>3. \A f \in Envs \ {e} : pc'[f] = pc[f] /\ chunks'[f] = chunks[f]
      BY <2>2
    <3>4. Slots \in SUBSET Slots
      OBVIOUS
    <3> QED
      BY <1>4, <2>1, <2>2, <3>1, <3>2, <3>3, <3>4, FitsAsk
  <2>4. CASE UNCHANGED resq /\ pc'[e] = "raised"
    <3>1. ASSUME NEW f \in Envs, Waits(f)'
          PROVE  Fits(f)'
      <4>1. f # e
        BY <2>4, <3>1 DEF Waits
      <4>2. Waits(f) /\ pc'[f] = pc[f] /\ chunks'[f] = chunks[f]
        BY <2>2, <3>1, <4>1 DEF Waits
      <4>3. Fits(f)
        BY <1>4, <4>2 DEF FitInv
      <4> QED
        BY <1>q, <1>s, <2>2, <2>4, <4>2, <4>3, FitsKept
    <3> QED
      BY <3>1 DEF FitInv
  <2>5. \/ TakeAnswer(e) /\ resq[rank] # <<>>
        \/ UNCHANGED resq /\ pc'[e] = "raised"
    BY <1>4, <2>1 DEF FinalAnswer, EnvRaises, Shape
  <2> QED
    BY <2>3, <2>4, <2>5
<1>5. ASSUME NEW r \in Rollouts, TakeRequest(r)
      PROVE  FitInv'
  <2>1. PICK key \in Keys : key = ReadKey(r)
    BY DEF ReadKey, Keys
  <2>2. /\ envq[key] # <<>> /\ envq' = [envq EXCEPT ![key] = Tail(@)]
        /\ held' = [held EXCEPT ![r] = Head(envq[key])] /\ UNCHANGED <<phase, resq, pc, chunks>>
    BY <1>5, <2>1 DEF TakeRequest
  <2>3. /\ Head(envq[key]) \in Queue(key)
        /\ \A p \in Keys : Queue(p)' \subseteq Queue(p)
    BY <2>2, QueueTake
  <2>4. \A x \in Rollouts : held'[x] = held[x] \/ held'[x] \in Queue(key)
    BY <2>2, <2>3 DEF Shape
  <2>5. ASSUME NEW f \in Envs, Waits(f)', phase' # "failed"
        PROVE  Fits(f)'
    <3>1. Waits(f) /\ Fits(f)
      BY <2>2, <2>5 DEF Waits, FitInv
    <3> QED
      BY <1>s, <2>2, <2>3, <2>4, <3>1, FitsKept
  <2> QED
    BY <2>5 DEF FitInv
<1>6. ASSUME NEW r \in Rollouts, PutAnswer(r)
      PROVE  FitInv'
  <2>1. UNCHANGED <<phase, envq, pc, chunks>> /\ held' = [held EXCEPT ![r] = Stop]
    BY <1>6 DEF PutAnswer
  <2>2. ASSUME NEW k \in Envs, NEW a \in Replies(k)'
        PROVE  a \in Replies(k) \/ \E x \in Rollouts : held[x].env = k /\ a.slots = held[x].slots
    <3>1. CASE k # held[r].env
      BY <1>6, <2>2, <3>1, RepliesPut
    <3>2. CASE k = held[r].env
      <4>1. a \in Replies(k) \/ a = [slots |-> held[r].slots, version |-> version]
        BY <1>6, <2>2, RepliesPut
      <4>2. [slots |-> held[r].slots, version |-> version].slots = held[r].slots
        OBVIOUS
      <4> QED
        BY <3>2, <4>1, <4>2
    <3> QED
      BY <3>1, <3>2
  <2>3. ASSUME NEW f \in Envs, Waits(f)', phase' # "failed"
        PROVE  Fits(f)'
    <3>1. Waits(f) /\ Fits(f)
      BY <2>1, <2>3 DEF Waits, FitInv
    <3>2. \A x \in Rollouts : held'[x] = held[x] \/ held'[x].env # EnvRank(f)
      <4>1. EnvRank(f) \in Envs /\ Stop.env \notin Envs
        BY RanksAreEnvs, Numbers DEF Stop
      <4> QED
        BY <2>1, <4>1 DEF Shape
    <3> QED
      BY <1>q, <2>1, <2>2, <3>1, <3>2, FitsKept
  <2> QED
    BY <2>3 DEF FitInv
<1>7. CASE StopReal \/ StopImagination
  <2>1. envq' = StopAll(envq) /\ UNCHANGED <<resq, held, pc, chunks>> /\ phase # "failed"
    BY <1>7 DEF StopReal, StopImagination
  <2>2. ASSUME NEW f \in Envs, Waits(f)'
        PROVE  Fits(f)'
    <3>1. Waits(f) /\ Fits(f)
      BY <2>1, <2>2 DEF Waits, FitInv
    <3>2. \A p \in Keys : \A m \in Queue(p)' : m.env = EnvRank(f) => m \in Queue(p)
      <4>1. EnvRank(f) \in Envs /\ Stop.env \notin Envs
        BY RanksAreEnvs, Numbers DEF Stop
      <4> QED
        BY <1>k, <2>1, <4>1, QueueStops
    <3> QED
      BY <1>s, <2>1, <3>1, <3>2, FitsKept
  <2> QED
    BY <2>2 DEF FitInv
<1>8. CASE StartReal \/ StartImagination
  <2>1. CASE UNCHANGED <<envq, resq, held, pc, chunks>> /\ phase # "failed"
    BY <1>1, <2>1
  <2>2. CASE \A f \in Envs : pc'[f] \notin {"wait", "final"}
    BY <2>2 DEF FitInv, Waits
  <2>3. \/ UNCHANGED <<envq, resq, held, pc, chunks>> /\ phase # "failed"
        \/ \A f \in Envs : pc'[f] \notin {"wait", "final"}
    BY <1>8 DEF StartReal, StartImagination, Start, PhaseInv
  <2> QED
    BY <2>1, <2>2, <2>3
<1>9. ASSUME NEW e \in WMEnvs, LeaseReturned(e)
      PROVE  FitInv'
  <2>1. /\ UNCHANGED <<envq, resq, held, chunks, phase>> /\ phase # "failed"
        /\ \A f \in Envs \ {e} : pc'[f] = pc[f]
        /\ (e \in Envs => pc'[e] \notin {"wait", "final"})
    BY <1>9 DEF LeaseReturned, Shape, Start
  <2>2. ASSUME NEW f \in Envs, Waits(f)'
        PROVE  Fits(f)'
    <3>1. f # e
      BY <2>1, <2>2 DEF Waits
    <3>2. pc'[f] = pc[f] /\ chunks'[f] = chunks[f] /\ Waits(f)
      BY <2>1, <2>2, <3>1 DEF Waits
    <3>3. Fits(f)
      BY <2>1, <3>2 DEF FitInv
    <3> QED
      BY <1>q, <1>s, <2>1, <3>2, <3>3, FitsKept
  <2> QED
    BY <2>2 DEF FitInv
<1>10. ASSUME NEW r \in Rollouts, RolloutFails(r)
       PROVE  FitInv'
  BY <1>1, <1>10 DEF RolloutFails
<1>11. CASE Drain \/ SkipImagination \/ Receive \/ GuardRaises \/ InteractionTimeout \/ UNCHANGED vars
  BY <1>1, <1>11 DEF Drain, SkipImagination, Receive, GuardRaises, InteractionTimeout, vars
<1> QED
  BY <1>2, <1>3, <1>4, <1>5, <1>6, <1>7, <1>8, <1>9, <1>10, <1>11
  DEF Next, Env, Rollout, Runner, Faults

\* So no answer ever is for other slots.
LEMMA NoMismatch ==
  ASSUME Shape, FitInv, phase # "failed", NEW e \in Envs
  PROVE  ~Mismatch(e)
<1> SUFFICES ASSUME Mismatch(e)
             PROVE  FALSE
  OBVIOUS
<1>1. PICK rank \in Envs : rank = EnvRank(e)
  BY RanksAreEnvs
<1>2. Waits(e) /\ resq[rank] # <<>> /\ Answer(e).slots # Expects(e)
  BY <1>1 DEF Mismatch, Waits, Expects
<1>3. resq[rank] \in Seq(AnswerShape)
  BY DEF Shape
<1>4. Answer(e) \in Replies(rank)
  <2>1. 1 \in DOMAIN resq[rank] /\ Head(resq[rank]) = resq[rank][1]
    BY <1>2, <1>3
  <2> QED
    BY <1>1, <2>1 DEF Answer, Replies
<1> QED
  BY <1>1, <1>2, <1>4 DEF FitInv, Fits

-----------------------------------------------------------------------------
(* StopMsgs.                                                               *)

\* The rollout workers that still read under a key.
Readers(p) == {r \in Rollouts : rpc[r] = "get" /\ ReadKey(r) = p}

\* No StopMsg before the env workers are back; then one for each reader.
StopInv ==
  /\ phase \in {"ready", "real", "learn", "imagine"} => \A p \in Keys : Stop \notin Queue(p)
  /\ phase \in {"real", "imagine"} => \A r \in Rollouts : rpc[r] \in {"get", "busy", "raised"}
  /\ phase \in {"realStop", "imagineStop"} =>
       /\ \A r \in Rollouts : rpc[r] \in {"get", "done"}
       /\ \A p \in Keys : Len(envq[p]) = Cardinality(Readers(p))
  /\ \A r \in Rollouts : rpc[r] = "raised" => held[r] # Stop

LEMMA RolloutsFinite ==
  ASSUME recipe \in Recipes
  PROVE  IsFiniteSet(Rollouts) /\ Cardinality(Rollouts) = recipe.rollouts
<1>1. recipe.rollouts \in Nat \ {0}
  BY RecipeFacts
<1>2. PICK n \in Nat \ {0} : n = recipe.rollouts
  BY <1>1
<1>3. IsFiniteSet(0 .. n - 1) /\ Cardinality(0 .. n - 1) = n
  BY FS_Interval
<1> QED
  BY <1>2, <1>3 DEF Rollouts

\* While nobody waits the queues hold StopMsgs only, and nobody works.
LEMMA QuietQueues ==
  ASSUME Shape, RequestInv, \A e \in Envs : ~Waits(e)
  PROVE  /\ \A p \in Keys : Queue(p) \subseteq {Stop}
         /\ \A r \in Rollouts : held[r] = Stop
<1>1. \A k \in Envs : NotQueued(k) /\ NotHeld(k)
  BY DEF RequestInv, WaitedFor, Nowhere
<1>2. \A p \in Keys : Queue(p) \subseteq {Stop}
  <2> SUFFICES ASSUME NEW p \in Keys, NEW m \in Queue(p), m # Stop
               PROVE  FALSE
    OBVIOUS
  <2>1. m.env \in Envs
    BY DEF Queue, RequestInv
  <2> QED
    BY <1>1, <2>1, NoneQueued
<1>3. \A r \in Rollouts : held[r] = Stop
  BY <1>1 DEF RequestInv, NotHeld, Held
<1> QED
  BY <1>2, <1>3

LEMMA EmptyQueue ==
  ASSUME Shape, NEW p \in Keys
  PROVE  /\ Queue(p) = {} => envq[p] = <<>>
         /\ Len(envq[p]) = 0 => Queue(p) = {} /\ envq[p] = <<>>
<1>1. envq[p] \in Seq(Messages) /\ DOMAIN envq[p] = 1 .. Len(envq[p]) /\ Len(envq[p]) \in Nat
  BY DEF Shape
<1>2. Queue(p) = {} => DOMAIN envq[p] = {}
  BY DEF Queue
<1>3. Len(envq[p]) = 0 => envq[p] = <<>>
  BY <1>1, EmptySeq
<1>4. DOMAIN envq[p] = {} => Len(envq[p]) = 0
  <2>1. Len(envq[p]) # 0 => 1 \in 1 .. Len(envq[p])
    BY <1>1
  <2> QED
    BY <1>1, <2>1
<1>5. Len(envq[p]) = 0 => DOMAIN envq[p] = {}
  BY <1>1
<1>6. DOMAIN envq[p] = {} => Queue(p) = {}
  BY DEF Queue
<1> QED
  BY <1>2, <1>3, <1>4, <1>5, <1>6

\* One StopMsg per reader.
LEMMA StopsSent ==
  ASSUME Shape, [Next]_vars, phase \in {"real", "imagine"},
         phase' = IF phase = "real" THEN "realStop" ELSE "imagineStop",
         \A p \in Keys : envq[p] = <<>>, \A r \in Rollouts : rpc'[r] = "get",
         envq' = StopAll(envq), NEW p \in Keys
  PROVE  Len(envq'[p]) = Cardinality(Readers(p)')
<1>k. Rollouts' = Rollouts /\ Frozen' = Frozen
  BY RecipeSame
<1>1. IsFiniteSet(Rollouts) /\ Cardinality(Rollouts) = recipe.rollouts /\ recipe.rollouts \in Nat
  BY RolloutsFinite, RecipeFacts DEF Shape
<1>2. \A x : x \in Readers(p)' <=> x \in Rollouts /\ ReadKey(x)' = p
  BY <1>k DEF Readers
<1>3. SharedKey \in Keys /\ SharedKey \notin Rollouts
  BY <1>1 DEF Keys, SharedKey, Rollouts
<1>4. CASE Frozen /\ phase = "real"
  <2>1. PICK stops \in Seq({Stop}) : stops = [i \in 1 .. recipe.rollouts |-> Stop]
    <3>1. [i \in 1 .. recipe.rollouts |-> Stop] \in Seq({Stop})
      BY <1>1
    <3> QED
      BY <3>1
  <2>2. Len(stops) = recipe.rollouts
    BY <1>1, <2>1
  <2>3. envq' = [envq EXCEPT ![SharedKey] = @ \o stops]
    BY <1>4, <2>1 DEF StopAll, StopShared
  <2>4. \A r \in Rollouts : ReadKey(r)' = SharedKey
    BY <1>k, <1>4 DEF ReadKey
  <2>5. CASE p = SharedKey
    <3>1. Readers(p)' = Rollouts
      BY <1>2, <2>4, <2>5
    <3>2. envq'[p] = <<>> \o stops
      BY <2>3, <2>5 DEF Shape
    <3>3. <<>> \o stops = stops
      BY <2>1
    <3> QED
      BY <1>1, <2>2, <3>1, <3>2, <3>3
  <2>6. CASE p # SharedKey
    <3>1. Readers(p)' = {}
      BY <1>2, <2>4, <2>6
    <3>2. envq'[p] = <<>>
      BY <2>3, <2>6 DEF Shape
    <3> QED
      BY <3>1, <3>2, FS_EmptySet
  <2> QED
    BY <2>5, <2>6
<1>5. CASE ~(Frozen /\ phase = "real")
  <2>1. envq' = [k \in Keys |-> IF k \in Rollouts THEN Append(envq[k], Stop) ELSE envq[k]]
    BY <1>5 DEF StopAll
  <2>2. \A r \in Rollouts : ReadKey(r)' = r
    BY <1>k, <1>5 DEF ReadKey
  <2>3. CASE p \in Rollouts
    <3>1. Readers(p)' = {p}
      BY <1>2, <2>2, <2>3
    <3>2. envq'[p] = Append(<<>>, Stop)
      BY <2>1, <2>3
    <3>3. Len(Append(<<>>, Stop)) = 1
      OBVIOUS
    <3> QED
      BY <3>1, <3>2, <3>3, FS_Singleton
  <2>4. CASE p \notin Rollouts
    <3>1. Readers(p)' = {}
      BY <1>2, <2>2, <2>4
    <3>2. envq'[p] = <<>>
      BY <2>1, <2>4
    <3> QED
      BY <3>1, <3>2, FS_EmptySet
  <2> QED
    BY <2>3, <2>4
<1> QED
  BY <1>4, <1>5

LEMMA StopStep ==
  ASSUME Shape, PhaseInv, HoldInv, RequestInv, LeaseInv, CounterInv, StopInv, [Next]_vars
  PROVE  StopInv'
<1> USE DEF runnerVars, leaseVars, slotVars, envVars, rolloutVars, channelVars
<1>k. Keys' = Keys /\ Rollouts' = Rollouts /\ Frozen' = Frozen
  BY RecipeSame
<1>q. UNCHANGED envq => \A p \in Keys : Queue(p)' = Queue(p)
  BY DEF Queue
<1>r. UNCHANGED <<rpc, phase>> => \A p \in Keys : Readers(p)' = Readers(p)
  BY <1>k DEF Readers, ReadKey
<1>1. CASE UNCHANGED <<phase, envq, rpc, held>>
  BY <1>1, <1>k, <1>q, <1>r DEF StopInv
<1>2. ASSUME NEW e \in Envs, Env(e) \/ EnvRaises(e), phase # "failed"
      PROVE  StopInv'
  <2>1. UNCHANGED <<phase, rpc, held>> /\ phase \in {"real", "imagine"}
    <3>1. UNCHANGED <<phase, rpc, held>> /\ pc[e] \notin {"idle", "done"}
      BY <1>2 DEF Env, Bootstrap, StepSlots, FinalAnswer, EnvRaises, Mismatch
    <3> QED
      BY <1>2, <3>1 DEF PhaseInv
  <2>2. envq' = envq \/ \E slots \in SUBSET Slots : AskFor(e, slots)
    BY <1>2 DEF Env, Bootstrap, StepSlots, FinalAnswer, EnvRaises
  <2>3. ASSUME NEW p \in Keys
        PROVE  Stop \notin Queue(p)'
    <3>1. CASE UNCHANGED envq
      BY <1>q, <2>1, <3>1 DEF StopInv
    <3>2. ASSUME NEW slots \in SUBSET Slots, AskFor(e, slots)
          PROVE  Stop \notin Queue(p)'
      <4>1. Queue(p)' \subseteq Queue(p) \cup {Ask(e, slots)}
        BY <3>2, QueueAsk
      <4>2. Ask(e, slots).env # Stop.env
        BY RanksAreEnvs, Numbers DEF Ask, Stop
      <4> QED
        BY <2>1, <4>1, <4>2 DEF StopInv
    <3> QED
      BY <2>2, <3>1, <3>2
  <2> QED
    BY <1>k, <2>1, <2>3 DEF StopInv
<1>3. ASSUME NEW r \in Rollouts, TakeRequest(r), phase # "failed"
      PROVE  StopInv'
  <2>1. PICK key \in Keys : key = ReadKey(r)
    BY DEF ReadKey, Keys
  <2>2. /\ rpc[r] = "get" /\ envq[key] # <<>> /\ envq' = [envq EXCEPT ![key] = Tail(@)]
        /\ rpc' = [rpc EXCEPT ![r] = IF Head(envq[key]) = Stop THEN "done" ELSE "busy"]
        /\ held' = [held EXCEPT ![r] = Head(envq[key])] /\ UNCHANGED phase
    BY <1>3, <2>1 DEF TakeRequest
  <2>3. /\ Head(envq[key]) \in Queue(key)
        /\ \A p \in Keys : Queue(p)' \subseteq Queue(p)
    BY <2>2, QueueTake
  <2>4. phase \notin {"ready", "learn"}
    BY <2>2 DEF HoldInv
  <2>5. \A x \in Rollouts : rpc'[x] = "raised" => held'[x] # Stop
    BY <2>2 DEF StopInv, Shape
  <2>6. CASE phase \in {"real", "imagine"}
    <3>1. Head(envq[key]) # Stop
      BY <2>3, <2>6 DEF StopInv
    <3>2. \A x \in Rollouts : rpc'[x] \in {"get", "busy", "raised"}
      BY <2>2, <2>6, <3>1 DEF StopInv, Shape
    <3>3. \A p \in Keys : Stop \notin Queue(p)'
      BY <2>3, <2>6 DEF StopInv
    <3> QED
      BY <1>k, <2>2, <2>5, <2>6, <3>2, <3>3 DEF StopInv
  <2>7. CASE phase \in {"realStop", "imagineStop"}
    <3>1. \A e \in Envs : ~Waits(e)
      BY <2>7 DEF PhaseInv, Waits
    <3>2. Head(envq[key]) = Stop
      BY <2>3, <3>1, QuietQueues
    <3>3. rpc' = [rpc EXCEPT ![r] = "done"]
      BY <2>2, <3>2
    <3>4. \A x \in Rollouts : rpc'[x] \in {"get", "done"}
      BY <2>7, <3>3 DEF StopInv, Shape
    <3>5. ASSUME NEW p \in Keys
          PROVE  Len(envq'[p]) = Cardinality(Readers(p)')
      <4>1. Len(envq[p]) = Cardinality(Readers(p)) /\ IsFiniteSet(Readers(p))
        <5>1. Readers(p) \in SUBSET Rollouts
          BY DEF Readers
        <5> QED
          BY <2>7, <5>1, RolloutsFinite, FS_Subset DEF StopInv, Shape
      <4>2. \A x \in Rollouts : ReadKey(x)' = ReadKey(x)
        BY <1>k, <2>2 DEF ReadKey
      <4>3. Readers(p)' = Readers(p) \ {r}
        BY <1>k, <3>3, <4>2 DEF Readers, Shape
      <4>4. CASE p = key
        <5>1. r \in Readers(p)
          BY <2>1, <2>2, <4>4 DEF Readers
        <5>2. Cardinality(Readers(p) \ {r}) = Cardinality(Readers(p)) - 1
          BY <4>1, <5>1, FS_RemoveElement
        <5>3. envq[key] \in Seq(Messages) /\ envq'[p] = Tail(envq[key])
          BY <2>2, <4>4 DEF Shape
        <5>4. Len(Tail(envq[key])) = Len(envq[key]) - 1
          BY <2>2, <5>3, HeadTailProperties
        <5> QED
          BY <4>1, <4>3, <4>4, <5>2, <5>3, <5>4
      <4>5. CASE p # key
        <5>1. r \notin Readers(p)
          BY <2>1, <4>5 DEF Readers
        <5>2. Readers(p) \ {r} = Readers(p)
          BY <5>1
        <5>3. envq'[p] = envq[p]
          BY <2>2, <4>5 DEF Shape
        <5> QED
          BY <4>1, <4>3, <5>2, <5>3
      <4> QED
        BY <4>4, <4>5
    <3> QED
      BY <1>k, <2>2, <2>5, <2>7, <3>4, <3>5 DEF StopInv
  <2> QED
    BY <1>3, <2>4, <2>6, <2>7 DEF CounterInv
<1>4. ASSUME NEW r \in Rollouts, PutAnswer(r) \/ RolloutFails(r), phase # "failed"
      PROVE  StopInv'
  <2>1. /\ rpc[r] = "busy" /\ UNCHANGED <<phase, envq>>
        /\ \/ rpc' = [rpc EXCEPT ![r] = "get"] /\ held' = [held EXCEPT ![r] = Stop]
           \/ rpc' = [rpc EXCEPT ![r] = "raised"] /\ UNCHANGED held
    BY <1>4 DEF PutAnswer, RolloutFails
  <2>2. phase \in {"real", "imagine"}
    BY <1>4, <2>1 DEF StopInv, HoldInv, CounterInv
  <2>3. \A x \in Rollouts : rpc'[x] \in {"get", "busy", "raised"}
    BY <2>1, <2>2 DEF StopInv, Shape
  <2>4. \A x \in Rollouts : rpc'[x] = "raised" => held'[x] # Stop
    BY <2>1 DEF StopInv, HoldInv, Shape
  <2> QED
    BY <1>k, <1>q, <2>1, <2>2, <2>3, <2>4 DEF StopInv
<1>5. CASE StopReal \/ StopImagination
  <2>1. /\ phase \in {"real", "imagine"} /\ UNCHANGED <<rpc, held>> /\ envq' = StopAll(envq)
        /\ phase' = IF phase = "real" THEN "realStop" ELSE "imagineStop"
    BY <1>5 DEF StopReal, StopImagination
  <2>2. \A e \in Envs : ~Waits(e)
    BY <1>5 DEF StopReal, StopImagination, PhaseInv, Waits, Envs
  <2>3. \A r \in Rollouts : held[r] = Stop
    BY <2>2, QuietQueues
  <2>4. \A r \in Rollouts : rpc'[r] = "get"
    BY <2>1, <2>3 DEF StopInv, HoldInv
  <2>5. \A p \in Keys : envq[p] = <<>>
    <3>1. \A p \in Keys : Queue(p) = {}
      BY <2>1, <2>2, QuietQueues DEF StopInv
    <3> QED
      BY <3>1, EmptyQueue
  <2>6. \A p \in Keys : Len(envq'[p]) = Cardinality(Readers(p)')
    BY <2>1, <2>4, <2>5, StopsSent
  <2> QED
    BY <1>k, <2>1, <2>4, <2>6 DEF StopInv
<1>6. CASE Drain \/ Receive
  <2>1. /\ phase \in {"realStop", "imagineStop"} /\ phase' \in {"learn", "ready", "failed"}
        /\ \A r \in Rollouts : rpc[r] = "done"
        /\ UNCHANGED <<rpc, held, envq>>
    BY <1>6 DEF Drain, Receive
  <2>2. \A p \in Keys : Queue(p) = {}
    <3> SUFFICES ASSUME NEW p \in Keys
                 PROVE  Queue(p) = {}
      OBVIOUS
    <3>1. Readers(p) = {}
      BY <2>1 DEF Readers
    <3>2. Len(envq[p]) = 0
      BY <2>1, <3>1, FS_EmptySet DEF StopInv
    <3> QED
      BY <3>2, EmptyQueue
  <2> QED
    BY <1>k, <1>q, <2>1, <2>2 DEF StopInv
<1>7. CASE StartReal \/ StartImagination
  <2>1. /\ phase \in {"ready", "learn"} /\ UNCHANGED <<envq, held>>
        /\ \/ phase' = "failed" /\ UNCHANGED rpc
           \/ phase' \in {"real", "imagine"} /\ rpc' = [r \in Rollouts |-> "get"]
    BY <1>7 DEF StartReal, StartImagination
  <2> QED
    BY <1>k, <1>q, <2>1 DEF StopInv
<1>8. CASE SkipImagination \/ GuardRaises \/ InteractionTimeout
  <2>1. /\ UNCHANGED <<envq, held, rpc>>
        /\ phase' = "failed" \/ (phase = "learn" /\ phase' = "ready")
    BY <1>8 DEF SkipImagination, GuardRaises, InteractionTimeout
  <2> QED
    BY <1>k, <1>q, <2>1 DEF StopInv
<1>9. ASSUME NEW e \in WMEnvs, LeaseReturned(e)
      PROVE  StopInv'
  BY <1>1, <1>9 DEF LeaseReturned
<1>10. CASE UNCHANGED vars
  BY <1>1, <1>10 DEF vars
<1> QED
  BY <1>2, <1>3, <1>4, <1>5, <1>6, <1>7, <1>8, <1>9, <1>10 DEF Next, Rollout, Runner, Faults

-----------------------------------------------------------------------------
(* Trajectory shards.                                                      *)

\* The actor channel holds the shards that were reported, and those of the
\* leases that run.
ShardInv ==
  /\ phase = "imagine" => /\ actorq = expected + Total(emitted, WMEnvs)
                          /\ \A e \in WMEnvs : lease[e] = 0 => emitted[e] = 0
  /\ phase = "imagineStop" => actorq = expected
  /\ phase \in {"ready", "real", "realStop", "learn"} => actorq = 0

LEMMA ShardsOfStep ==
  ASSUME Shape, PhaseInv, WorkInv, CounterInv, ShardInv, NEW e \in Envs, pc[e] = "wait",
         phase \in {"real", "imagine"}, UNCHANGED <<phase, expected, lease>>,
         NEW n \in ShardCounts(e), emitted' = [emitted EXCEPT ![e] = @ + n], actorq' = actorq + n
  PROVE  ShardInv'
<1>1. n \in Nat /\ actorq \in Nat /\ expected \in Nat
  BY SlotsAssumption, FS_CardinalityType DEF ShardCounts, CounterInv
<1>2. CASE phase = "real"
  <2>1. e \notin WMEnvs
    BY <1>2 DEF PhaseInv
  <2>2. n = 0
    BY <2>1 DEF ShardCounts
  <2> QED
    BY <1>1, <1>2, <2>2 DEF ShardInv
<1>3. CASE phase = "imagine"
  <2>1. e \in WMEnvs /\ lease[e] # 0
    BY <1>3 DEF PhaseInv, Envs
  <2>2. PICK f, g : f = emitted /\ g = emitted'
    OBVIOUS
  <2>3. /\ \A x \in WMEnvs : f[x] \in Nat
        /\ g[e] = f[e] + n /\ g[e] \in Nat /\ \A x \in WMEnvs \ {e} : g[x] = f[x]
    BY <1>1, <2>1, <2>2, WMFacts DEF WorkInv
  <2>4. Total(g, WMEnvs) = Total(f, WMEnvs) - f[e] + g[e]
    BY <2>1, <2>3, WMFacts, SumChanges
  <2>5. Total(f, WMEnvs) \in Nat
    BY <2>3, WMFacts, SumFinite
  <2>6. PICK sum \in Nat, mine \in Nat, new \in Nat :
          /\ sum = Total(f, WMEnvs) /\ mine = f[e] /\ new = Total(g, WMEnvs)
          /\ new = sum - mine + (mine + n)
    <3>1. Total(g, WMEnvs) \in Nat
      BY <2>1, <2>3, WMFacts, SumFinite
    <3> QED
      BY <2>1, <2>3, <2>4, <2>5, <3>1
  <2>7. actorq = expected + sum
    BY <1>3, <2>2, <2>6 DEF ShardInv
  <2>8. actorq + n = expected + new
    BY ONLY <1>1, <2>6, <2>7
  <2>9. actorq' = expected' + Total(emitted', WMEnvs)
    BY <2>2, <2>6, <2>8
  <2>10. \A x \in WMEnvs : lease'[x] = 0 => emitted'[x] = 0
    BY <1>3, <2>1, <2>2, <2>3 DEF ShardInv
  <2> QED
    BY <1>3, <2>9, <2>10 DEF ShardInv
<1> QED
  BY <1>2, <1>3

LEMMA ShardStep ==
  ASSUME Shape, PhaseInv, LeaseInv, WorkInv, CounterInv, ShardInv, [Next]_vars
  PROVE  ShardInv'
<1> USE DEF runnerVars, leaseVars, slotVars, envVars, rolloutVars, channelVars
<1>1. CASE UNCHANGED <<phase, actorq, expected, emitted, lease>>
  BY <1>1 DEF ShardInv
<1>2. ASSUME NEW e \in Envs, Bootstrap(e) \/ FinalAnswer(e) \/ EnvRaises(e)
      PROVE  ShardInv'
  BY <1>1, <1>2 DEF Bootstrap, FinalAnswer, EnvRaises
<1>3. ASSUME NEW e \in Envs, StepSlots(e), phase # "failed"
      PROVE  ShardInv'
  <2>1. pc[e] = "wait" /\ UNCHANGED <<phase, expected, lease>>
    BY <1>3 DEF StepSlots
  <2>2. phase \in {"real", "imagine"}
    BY <1>3, <2>1 DEF PhaseInv
  <2>3. \/ UNCHANGED <<emitted, actorq>>
        \/ \E n \in ShardCounts(e) : emitted' = [emitted EXCEPT ![e] = @ + n] /\ actorq' = actorq + n
    BY <1>3 DEF StepSlots
  <2> QED
    BY <1>1, <2>1, <2>2, <2>3, ShardsOfStep
<1>4. ASSUME NEW r \in Rollouts, Rollout(r) \/ RolloutFails(r)
      PROVE  ShardInv'
  BY <1>1, <1>4 DEF Rollout, TakeRequest, PutAnswer, RolloutFails
<1>5. CASE StartReal
  BY <1>5 DEF StartReal, ShardInv
<1>6. CASE StartImagination
  <2>1. /\ phase = "learn" /\ phase' = "imagine" /\ expected' = 0 /\ emitted' = [e \in Envs |-> 0]
        /\ UNCHANGED actorq
    BY <1>6 DEF StartImagination
  <2>2. PICK g : g = emitted'
    OBVIOUS
  <2>3. \A e \in WMEnvs : g[e] = 0
    BY <2>1, <2>2, WMFacts
  <2>4. Total(g, WMEnvs) = 0
    BY <2>3, SumOfNone
  <2> QED
    BY <2>1, <2>2, <2>3, <2>4 DEF ShardInv
<1>7. ASSUME NEW e \in WMEnvs, LeaseReturned(e)
      PROVE  ShardInv'
  <2>1. /\ phase = "imagine" /\ UNCHANGED <<phase, actorq>>
        /\ expected' = expected + emitted[e] /\ emitted' = [emitted EXCEPT ![e] = 0]
        /\ lease' = [lease EXCEPT ![e] = LeaseOf(remaining)]
    BY <1>7 DEF LeaseReturned
  <2>2. PICK f, g : f = emitted /\ g = emitted'
    OBVIOUS
  <2>3. /\ \A x \in WMEnvs : f[x] \in Nat
        /\ g[e] = 0 /\ \A x \in WMEnvs \ {e} : g[x] = f[x]
    BY <2>1, <2>2, WMFacts DEF WorkInv
  <2>4. Total(g, WMEnvs) = Total(f, WMEnvs) - f[e] + g[e] /\ Total(f, WMEnvs) >= f[e]
    BY <2>3, WMFacts, SumChanges
  <2>5. PICK sum \in Nat, mine \in Nat : sum = Total(f, WMEnvs) /\ mine = f[e]
    BY <2>3, WMFacts, SumFinite
  <2>6. actorq = expected + sum /\ expected \in Nat
    BY <2>1, <2>2, <2>5 DEF ShardInv, CounterInv
  <2>7. actorq = (expected + mine) + (sum - mine + 0)
    BY ONLY <2>5, <2>6
  <2>8. actorq' = expected' + Total(emitted', WMEnvs)
    BY <2>1, <2>2, <2>3, <2>4, <2>5, <2>7
  <2>9. \A x \in WMEnvs : lease'[x] = 0 => emitted'[x] = 0
    <3>1. \A x \in WMEnvs \ {e} : lease'[x] = lease[x]
      BY <2>1, WMFacts DEF LeaseInv
    <3> QED
      BY <2>1, <2>2, <2>3, <3>1 DEF ShardInv
  <2> QED
    BY <2>1, <2>8, <2>9 DEF ShardInv
<1>8. CASE StopImagination
  <2>1. /\ phase = "imagine" /\ phase' = "imagineStop" /\ UNCHANGED <<actorq, expected, emitted>>
        /\ \A e \in WMEnvs : lease[e] = 0
    BY <1>8 DEF StopImagination
  <2>2. Total(emitted, WMEnvs) = 0
    BY <2>1, SumOfNone DEF ShardInv
  <2> QED
    BY <2>1, <2>2 DEF ShardInv, CounterInv
<1>9. CASE Receive
  BY <1>9 DEF Receive, ShardInv, CounterInv
<1>10. CASE StopReal \/ Drain \/ SkipImagination \/ GuardRaises \/ InteractionTimeout
  BY <1>10 DEF StopReal, Drain, SkipImagination, GuardRaises, InteractionTimeout, ShardInv
<1>11. CASE UNCHANGED vars
  BY <1>1, <1>11 DEF vars
<1> QED
  BY <1>2, <1>3, <1>4, <1>5, <1>6, <1>7, <1>8, <1>9, <1>10, <1>11
  DEF Next, Env, Runner, Faults

\* Between two interactions the channels are empty.
LEMMA Drained ==
  ASSUME Shape, PhaseInv, RequestInv, StopInv, ShardInv
  PROVE  ChannelsDrained
<1> SUFFICES ASSUME phase \in {"ready", "learn"}
             PROVE  /\ \A p \in Keys : envq[p] = <<>>
                    /\ \A k \in Envs : resq[k] = <<>>
                    /\ actorq = 0
  BY DEF ChannelsDrained
<1>1. \A e \in Envs : ~Waits(e)
  BY DEF PhaseInv, Waits
<1>2. \A p \in Keys : Queue(p) = {}
  BY <1>1, QuietQueues DEF StopInv
<1>3. \A k \in Envs : resq[k] = <<>>
  BY <1>1 DEF RequestInv, WaitedFor, Nowhere, Answered
<1> QED
  BY <1>2, <1>3, EmptyQueue DEF ShardInv

-----------------------------------------------------------------------------
(* Trajectories.                                                           *)

\* What slot s of worker e recorded since the last drain.
Played(e, s) == {t \in completed[e] : t.slot = s}

\* Slot s is through with the running epoch.
Closed(e, s) == chunks[e][s] = ChunkSteps /\ open[e][s] = {}

\* The epochs slot s of real worker e has delivered.
Delivered(e, s) ==
  RealShare(e) - left[e] + (IF pc[e] = "final" \/ (pc[e] = "wait" /\ Closed(e, s)) THEN 1 ELSE 0)

\* Each trajectory of the step under an identity of its own, and the next
\* identity is fresh.
Identified(e) ==
  /\ IsFiniteSet(completed[e])
  /\ \A t \in completed[e] : t.env = e /\ t.step = step /\ t.episode < episode[e][t.slot]
  /\ \A t, u \in completed[e] : t.slot = u.slot /\ t.episode = u.episode => t = u

Collecting == phase \in {"real", "realStop"}

TrajTypes ==
  /\ drained \subseteq Trajectories
  /\ \A e \in Envs : completed[e] \subseteq Trajectories

TrajInv ==
  /\ TrajTypes
  /\ Collecting => \A e \in RealEnvs : Identified(e)
  /\ phase \in {"ready", "learn", "imagine", "imagineStop"} => \A e \in RealEnvs : completed[e] = {}
  /\ phase = "realStop" => \A e \in RealEnvs : pc[e] = "done"
  /\ Collecting /\ OneTrajectory =>
       \A e \in RealEnvs, s \in Slots :
         pc[e] # "raised" => Cardinality(Played(e, s)) = Delivered(e, s)
  /\ EverySlotDelivers

LEMMA RealRank ==
  ASSUME NEW e \in RealEnvs
  PROVE  e \in Envs /\ e \notin WMEnvs /\ EnvRank(e) = e
BY WMFacts DEF EnvRank

\* New trajectories have their type.
LEMMA CloseTypes ==
  ASSUME Shape, PhaseInv, RequestInv, WorkInv, CounterInv, MessageInv, TrajTypes, [Next]_vars,
         phase # "failed",
         NEW e \in Envs, StepSlots(e)
  PROVE  TrajTypes'
<1>k. EnvRanks' = EnvRanks
  BY RecipeSame
<1>1. pc[e] = "wait" /\ resq[EnvRank(e)] # <<>> /\ TakeAnswer(e) /\ UNCHANGED <<drained, step>>
  BY DEF StepSlots, runnerVars
<1>2. phase # "ready"
  BY <1>1 DEF PhaseInv
<1>3. step \in 1 .. MaxSteps
  BY <1>2, SlotsAssumption DEF CounterInv
<1>4. Answer(e) \in Replies(EnvRank(e))
  BY <1>1, RepliesTake
<1>5. Answer(e).version \in Nat
  BY <1>4, RanksAreEnvs DEF MessageInv, Answers
<1>6. \A s \in Slots : EpisodeWith(e, s) \subseteq Nat
  BY <1>5 DEF EpisodeWith, MessageInv
<1>7. \A s \in Slots : episode[e][s] \in Nat /\ EnvRank(e) \in EnvRanks
  BY DEF WorkInv, EnvRanks
<1>8. CASE UNCHANGED completed
  BY <1>k, <1>1, <1>8 DEF TrajTypes, Trajectories
<1>9. ASSUME NEW closing \in SUBSET Slots, Close(e, closing)
      PROVE  TrajTypes'
  <2>1. completed' = [completed EXCEPT ![e] = @ \cup
       {[env |-> EnvRank(e), slot |-> s, episode |-> episode[e][s], step |-> step,
         versions |-> EpisodeWith(e, s)] : s \in closing}]
    BY <1>9 DEF Close
  <2>2. \A s \in closing : [env |-> EnvRank(e), slot |-> s, episode |-> episode[e][s], step |-> step,
         versions |-> EpisodeWith(e, s)] \in Trajectories
    BY <1>3, <1>6, <1>7 DEF Trajectories
  <2>3. Trajectories' = Trajectories
    BY <1>k DEF Trajectories
  <2>4. \A f \in Envs : completed'[f] \subseteq Trajectories
    BY <2>1, <2>2 DEF TrajTypes, Shape
  <2> QED
    BY <1>1, <2>3, <2>4 DEF TrajTypes
<1>10. \/ UNCHANGED completed
       \/ \E closing \in SUBSET Slots : Close(e, closing)
  <2>1. \A ended \in SUBSET Active(e), rest \in SUBSET Slots : ended \cup rest \in SUBSET Slots
    BY DEF Active
  <2> QED
    BY <2>1 DEF StepSlots
<1> QED
  BY <1>8, <1>9, <1>10

\* One more trajectory for every slot that closes.
LEMMA CloseCounts ==
  ASSUME NEW e \in RealEnvs, NEW closing \in SUBSET Slots, Close(e, closing), UNCHANGED step,
         Shape, WorkInv, TrajTypes, Identified(e)
  PROVE  /\ Identified(e)'
         /\ \A s \in Slots : /\ s \in closing => Cardinality(Played(e, s)') = Cardinality(Played(e, s)) + 1
                             /\ s \notin closing => Played(e, s)' = Played(e, s)
<1> DEFINE New(s) == [env |-> EnvRank(e), slot |-> s, episode |-> episode[e][s], step |-> step,
                      versions |-> EpisodeWith(e, s)]
           new == [s \in closing |-> New(s)]
<1>1. /\ completed'[e] = completed[e] \cup {New(s) : s \in closing}
      /\ \A s \in Slots : episode'[e][s] = IF s \in closing THEN episode[e][s] + 1 ELSE episode[e][s]
  BY RealRank DEF Close, Shape, WorkInv
<1>2. \A s \in Slots : episode[e][s] \in Nat
  BY RealRank DEF WorkInv
<1>3. \A t \in completed[e] : t.slot \in Slots /\ t.episode \in Nat /\ t.episode < episode[e][t.slot]
  BY RealRank DEF TrajTypes, Trajectories, Identified
<1>4. \A s \in Slots : /\ New(s).env = e /\ New(s).slot = s /\ New(s).episode = episode[e][s]
                       /\ New(s).step = step
  BY RealRank
<1> HIDE DEF New
<1>5. \A s \in Slots : New(s) \notin completed[e]
  BY <1>2, <1>3, <1>4
<1>6. IsFiniteSet(completed'[e])
  <2>1. IsFiniteSet(closing)
    BY SlotsAssumption, FS_Subset
  <2>2. new \in Surjection(closing, {New(s) : s \in closing})
    BY DEF Surjection
  <2>3. IsFiniteSet({New(s) : s \in closing})
    BY <2>1, <2>2, FS_Surjection
  <2>4. IsFiniteSet(completed[e])
    BY DEF Identified
  <2>5. PICK old, fresh : old = completed[e] /\ fresh = {New(s) : s \in closing}
    OBVIOUS
  <2>6. IsFiniteSet(old \cup fresh)
    BY <2>3, <2>4, <2>5, FS_Union
  <2> QED
    BY <1>1, <2>5, <2>6
<1>7. Identified(e)'
  <2>1. \A t \in completed'[e] : t.env = e /\ t.step = step /\ t.episode < episode'[e][t.slot]
    <3>1. ASSUME NEW t \in completed[e]
          PROVE  t.env = e /\ t.step = step /\ t.episode < episode'[e][t.slot]
      <4>1. episode'[e][t.slot] >= episode[e][t.slot] /\ episode'[e][t.slot] \in Nat
        BY <1>1, <1>2, <1>3
      <4> QED
        BY <1>2, <1>3, <4>1 DEF Identified
    <3>2. ASSUME NEW s \in closing
          PROVE  New(s).env = e /\ New(s).step = step /\ New(s).episode < episode'[e][New(s).slot]
      BY <1>1, <1>2, <1>4
    <3> QED
      BY <1>1, <3>1, <3>2
  <2>2. \A t, u \in completed'[e] : t.slot = u.slot /\ t.episode = u.episode => t = u
    <3>1. \A t \in completed[e], s \in closing : ~(t.slot = s /\ t.episode = New(s).episode)
      BY <1>2, <1>3, <1>4
    <3>2. \A s, r \in closing : New(s).slot = New(r).slot => s = r
      BY <1>4
    <3>3. \A t, u \in completed[e] : t.slot = u.slot /\ t.episode = u.episode => t = u
      BY DEF Identified
    <3> QED
      BY <1>1, <1>4, <3>1, <3>2, <3>3
  <2> QED
    BY <1>6, <2>1, <2>2 DEF Identified
<1>8. ASSUME NEW s \in Slots, s \in closing
      PROVE  Cardinality(Played(e, s)') = Cardinality(Played(e, s)) + 1
  <2>1. Played(e, s)' = Played(e, s) \cup {New(s)}
    BY <1>1, <1>4, <1>8 DEF Played
  <2>2. IsFiniteSet(Played(e, s)) /\ New(s) \notin Played(e, s)
    BY <1>5, FS_Subset DEF Played, Identified
  <2> QED
    BY <2>1, <2>2, FS_AddElement
<1>9. ASSUME NEW s \in Slots, s \notin closing
      PROVE  Played(e, s)' = Played(e, s)
  BY <1>1, <1>4, <1>9 DEF Played
<1> QED
  BY <1>7, <1>8, <1>9

\* A slot that was under way or had not been flushed delivers with the epoch.
LEMMA StepDelivers ==
  ASSUME Shape, PhaseInv, WorkInv, TrajInv, [Next]_vars, phase # "failed", OneTrajectory,
         NEW e \in RealEnvs, StepSlots(e), NEW s \in Slots, pc'[e] # "raised"
  PROVE  Cardinality(Played(e, s)') = Delivered(e, s)'
<1>k. ChunkSteps' = ChunkSteps /\ ChunkSteps \in Nat \ {0} /\ RealShare(e)' = RealShare(e)
  BY RecipeSame, RecipeFacts DEF Shape, RealShare
<1>1. PICK ended \in SUBSET Active(e), closing \in SUBSET Slots, after \in [Slots -> 0 .. ChunkSteps] :
        /\ after = ChunksAfter(e, ended)
        /\ closing = ended \cup {x \in Slots : (\A y \in Slots : after[y] >= ChunkSteps) /\ EpisodeWith(e, x) # {}}
        /\ Close(e, closing)
        /\ chunks' = [chunks EXCEPT ![e] = after]
        /\ \/ (\E y \in Slots : after[y] < ChunkSteps) /\ UNCHANGED <<pc, left>>
           \/ /\ \A y \in Slots : after[y] >= ChunkSteps
              /\ \/ pc' = [pc EXCEPT ![e] = "final"] /\ UNCHANGED left
                 \/ pc' = [pc EXCEPT ![e] = AfterEpoch(e)] /\ left' = [left EXCEPT ![e] = @ - 1]
  <2>1. \A ended \in SUBSET Active(e) : ChunksAfter(e, ended) \in [Slots -> 0 .. ChunkSteps]
    <3>1. ASSUME NEW ended \in SUBSET Active(e), NEW x \in Slots
          PROVE  ChunksAfter(e, ended)[x] \in 0 .. ChunkSteps
      <4>1. chunks[e][x] \in 0 .. ChunkSteps
        BY RealRank DEF WorkInv
      <4>2. x \in Active(e) => chunks[e][x] < ChunkSteps
        BY DEF Active
      <4> QED
        BY <1>k, <4>1, <4>2 DEF ChunksAfter
    <3> QED
      BY <3>1 DEF ChunksAfter
  <2>2. PICK ended \in SUBSET Active(e) :
          LET after == ChunksAfter(e, ended)
              more  == {x \in Slots : after[x] < ChunkSteps} IN
          /\ chunks' = [chunks EXCEPT ![e] = after]
          /\ Close(e, ended \cup {x \in Slots : more = {} /\ EpisodeWith(e, x) # {}})
          /\ \/ more # {} /\ UNCHANGED <<pc, left>>
             \/ /\ more = {}
                /\ \/ pc' = [pc EXCEPT ![e] = "final"] /\ UNCHANGED left
                   \/ pc' = [pc EXCEPT ![e] = AfterEpoch(e)] /\ left' = [left EXCEPT ![e] = @ - 1]
    BY RealRank DEF StepSlots
  <2>3. PICK after \in [Slots -> 0 .. ChunkSteps] : after = ChunksAfter(e, ended)
    BY <2>1
  <2>4. {x \in Slots : after[x] < ChunkSteps} = {} <=> \A y \in Slots : after[y] >= ChunkSteps
    <3>1. \A y \in Slots : after[y] < ChunkSteps <=> ~(after[y] >= ChunkSteps)
      BY <1>k
    <3> QED
      BY <3>1
  <2>5. PICK closing \in SUBSET Slots : closing = ended \cup
          {x \in Slots : (\A y \in Slots : after[y] >= ChunkSteps) /\ EpisodeWith(e, x) # {}}
    BY DEF Active
  <2>6. Close(e, closing) /\ chunks' = [chunks EXCEPT ![e] = after]
    BY <2>2, <2>3, <2>4, <2>5
  <2> QED
    BY <2>2, <2>3, <2>4, <2>5, <2>6
<1>2. pc[e] = "wait" /\ phase = "real" /\ UNCHANGED <<phase, step>>
  BY RealRank DEF StepSlots, PhaseInv, runnerVars
<1>3. /\ s \in closing => Cardinality(Played(e, s)') = Cardinality(Played(e, s)) + 1
      /\ s \notin closing => Played(e, s)' = Played(e, s)
  BY <1>1, <1>2, CloseCounts DEF TrajInv, Collecting
<1>4. Cardinality(Played(e, s)) = Delivered(e, s)
  BY <1>2 DEF TrajInv, Collecting
<1>5. chunks[e][s] \in 0 .. ChunkSteps /\ left[e] \in Nat /\ RealShare(e) \in Int
  <2>1. PICK f : f = [x \in RealEnvs |-> RealShare(x)]
    OBVIOUS
  <2>2. f[e] \in 1 .. RealEpochs
    BY <2>1, RealShares DEF Shape
  <2> QED
    BY <2>1, <2>2, RealRank DEF WorkInv
<1>6. /\ s \in Active(e) <=> chunks[e][s] < ChunkSteps
      /\ s \in Active(e) => EpisodeWith(e, s) # {}
      /\ s \notin Active(e) => EpisodeWith(e, s) = open[e][s] /\ s \notin ended /\ after[s] = chunks[e][s]
      /\ s \in ended => after[s] = ChunkSteps
      /\ open'[e][s] = IF s \in closing THEN {} ELSE EpisodeWith(e, s)
  BY <1>1, RealRank DEF Active, EpisodeWith, ChunksAfter, Close, Shape
<1>7. CASE (\E y \in Slots : after[y] < ChunkSteps) /\ UNCHANGED <<pc, left>>
  <2>1. closing = ended /\ ~(\A y \in Slots : after[y] >= ChunkSteps)
    <3>1. PICK y \in Slots : after[y] < ChunkSteps
      BY <1>7
    <3>2. ~(after[y] >= ChunkSteps)
      BY <1>k, <3>1
    <3> QED
      BY <1>1, <3>2
  <2>2. Closed(e, s)' <=> Closed(e, s) \/ s \in closing
    <3>1. chunks'[e][s] = after[s]
      BY <1>1, RealRank DEF WorkInv
    <3>2. Closed(e, s)' <=> after[s] = ChunkSteps /\ open'[e][s] = {}
      BY <1>k, <3>1 DEF Closed
    <3> QED
      BY <1>5, <1>6, <2>1, <3>2 DEF Closed
  <2>3. s \in closing => ~Closed(e, s)
    BY <1>5, <1>6, <2>1 DEF Closed
  <2>4. /\ Delivered(e, s) = RealShare(e) - left[e] + (IF Closed(e, s) THEN 1 ELSE 0)
        /\ Delivered(e, s)' = RealShare(e) - left[e] + (IF Closed(e, s)' THEN 1 ELSE 0)
    BY <1>k, <1>2, <1>7 DEF Delivered
  <2> QED
    BY <1>3, <1>4, <1>5, <2>2, <2>3, <2>4
<1>8. CASE /\ \A y \in Slots : after[y] >= ChunkSteps
           /\ \/ pc' = [pc EXCEPT ![e] = "final"] /\ UNCHANGED left
              \/ pc' = [pc EXCEPT ![e] = AfterEpoch(e)] /\ left' = [left EXCEPT ![e] = @ - 1]
  <2>1. s \in closing <=> EpisodeWith(e, s) # {}
    <3>1. s \in ended => s \in Active(e)
      OBVIOUS
    <3> QED
      BY <1>1, <1>6, <1>8, <3>1
  <2>2. s \in closing <=> ~Closed(e, s)
    <3>1. s \in Active(e) <=> chunks[e][s] # ChunkSteps
      BY <1>k, <1>5, <1>6
    <3> QED
      BY <1>6, <2>1, <3>1 DEF Closed
  <2>3. Delivered(e, s) = RealShare(e) - left[e] + (IF Closed(e, s) THEN 1 ELSE 0)
    BY <1>2 DEF Delivered
  <2>4. \/ pc'[e] = "final" /\ left'[e] = left[e]
        \/ pc'[e] \in {"bootstrap", "done"} /\ left'[e] = left[e] - 1
    BY <1>8, RealRank DEF AfterEpoch, WorkInv, Shape
  <2>5. Delivered(e, s)' = RealShare(e) - left[e] + 1
    <3>1. Delivered(e, s)' = RealShare(e) - left'[e]
             + (IF pc'[e] = "final" \/ (pc'[e] = "wait" /\ Closed(e, s)') THEN 1 ELSE 0)
      BY <1>k DEF Delivered
    <3>2. RealShare(e) - (left[e] - 1) = RealShare(e) - left[e] + 1
      BY <1>5
    <3> QED
      BY <1>5, <2>4, <3>1, <3>2
  <2> QED
    BY <1>3, <1>4, <1>5, <2>2, <2>3, <2>5
<1> QED
  BY <1>1, <1>7, <1>8

LEMMA Bijective ==
  ASSUME NEW S, NEW T, IsFiniteSet(S), NEW f \in [S -> T], \A y \in T : \E x \in S : f[x] = y,
         \A x, y \in S : f[x] = f[y] => x = y
  PROVE  IsFiniteSet(T) /\ Cardinality(T) = Cardinality(S)
<1>1. f \in Bijection(S, T)
  <2>1. f \in Surjection(S, T)
    BY DEF Surjection
  <2>2. f \in Injection(S, T)
    BY DEF Injection, IsInjective
  <2> QED
    BY <2>1, <2>2 DEF Bijection
<1>2. ExistsBijection(S, T)
  BY <1>1 DEF ExistsBijection
<1> QED
  BY <1>2, FS_Bijection

\* At the drain every slot has delivered its epochs.
LEMMA DrainDelivers ==
  ASSUME Shape, WorkInv, TrajInv, phase = "realStop", OneTrajectory, NEW e \in RealEnvs, NEW s \in Slots
  PROVE  /\ IsFiniteSet(Played(e, s)) /\ Cardinality(Played(e, s)) = RealShare(e)
<1>1. pc[e] = "done" /\ left[e] = 0
  BY RealRank DEF TrajInv, WorkInv
<1>2. Cardinality(Played(e, s)) = Delivered(e, s)
  BY <1>1 DEF TrajInv, Collecting
<1>3. RealShare(e) \in Int
  <2>1. PICK f : f = [x \in RealEnvs |-> RealShare(x)]
    OBVIOUS
  <2>2. f[e] \in 1 .. RealEpochs
    BY <2>1, RealShares DEF Shape
  <2> QED
    BY <2>1, <2>2
<1>4. Delivered(e, s) = RealShare(e)
  BY <1>1, <1>3 DEF Delivered
<1>5. IsFiniteSet(completed[e])
  BY DEF TrajInv, Collecting, Identified
<1>6. IsFiniteSet(Played(e, s))
  BY <1>5, FS_Subset DEF Played
<1> QED
  BY <1>2, <1>4, <1>6

LEMMA DrainShares ==
  ASSUME Shape, WorkInv, TrajInv, Drain, [Next]_vars
  PROVE  EverySlotDelivers'
<1>0. phase = "realStop" /\ drained' = UNION {completed[e] : e \in RealEnvs}
  BY DEF Drain
<1> SUFFICES ASSUME OneTrajectory, NEW e \in RealEnvs, NEW s \in Slots
             PROVE  Cardinality({t.episode : t \in {u \in drained' : u.env = EnvRank(e)' /\ u.slot = s}})
                      = RealShare(e)'
  BY DEF EverySlotDelivers
<1>1. EnvRank(e)' = e /\ RealShare(e)' = RealShare(e)
  BY RealRank, RecipeSame DEF RealShare
<1>2. \A x \in RealEnvs : \A t \in completed[x] : t.env = x
  BY <1>0 DEF TrajInv, Collecting, Identified
<1>3. {u \in drained' : u.env = EnvRank(e)' /\ u.slot = s} = Played(e, s)
  BY <1>0, <1>1, <1>2 DEF Played
<1>4. PICK ids : ids = {t.episode : t \in Played(e, s)}
  OBVIOUS
<1>5. PICK f : f = [t \in Played(e, s) |-> t.episode]
  OBVIOUS
<1>6. \A t, u \in Played(e, s) : f[t] = f[u] => t = u
  BY <1>0, <1>5 DEF Played, TrajInv, Collecting, Identified
<1>7. Cardinality(ids) = RealShare(e)
  <2>1. f \in [Played(e, s) -> ids] /\ \A y \in ids : \E x \in Played(e, s) : f[x] = y
    BY <1>4, <1>5
  <2>2. IsFiniteSet(Played(e, s)) /\ Cardinality(Played(e, s)) = RealShare(e)
    BY <1>0, DrainDelivers
  <2> QED
    BY <1>6, <2>1, <2>2, Bijective
<1> QED
  BY <1>1, <1>3, <1>4, <1>7

\* Together they have delivered the trajectory budget.
LEMMA DrainCount ==
  ASSUME Shape, WorkInv, TrajInv, phase = "realStop", OneTrajectory
  PROVE  Cardinality(UNION {completed[e] : e \in RealEnvs}) = RealEpochs * Cardinality(Slots)
<1>1. PICK f : f = [e \in RealEnvs |-> RealShare(e)]
  OBVIOUS
<1>2. (\A e \in RealEnvs : f[e] \in 1 .. RealEpochs) /\ Total(f, RealEnvs) = RealEpochs
  BY <1>1, RealShares DEF Shape
<1>3. PICK tokens : tokens = Tokens(f, RealEnvs)
  OBVIOUS
<1>4. IsFiniteSet(tokens) /\ Cardinality(tokens) = RealEpochs
  <2>1. \A e \in RealEnvs : f[e] \in Nat
    BY <1>2
  <2> QED
    BY <1>2, <1>3, <2>1, WMFacts, SumFinite DEF Tokens, Total
<1>5. /\ \A k \in tokens : k[1] \in RealEnvs /\ k[2] \in 1 .. f[k[1]] /\ k = <<k[1], k[2]>>
      /\ \A e \in RealEnvs : \A n \in 1 .. f[e] : <<e, n>> \in tokens
  BY <1>3 DEF Tokens
<1>6. PICK nth : nth = [e \in RealEnvs |-> [s \in Slots |-> CHOOSE g : g \in Bijection(1 .. f[e], Played(e, s))]]
  OBVIOUS
<1>7. ASSUME NEW e \in RealEnvs, NEW s \in Slots
      PROVE  nth[e][s] \in Bijection(1 .. f[e], Played(e, s))
  <2>1. IsFiniteSet(Played(e, s)) /\ Cardinality(Played(e, s)) = f[e]
    BY <1>1, DrainDelivers
  <2>2. ExistsBijection(1 .. f[e], Played(e, s))
    BY <2>1, FS_CardinalityType
  <2>3. \E g : g \in Bijection(1 .. f[e], Played(e, s))
    BY <2>2 DEF ExistsBijection
  <2> QED
    BY <1>6, <2>3
<1>8. ASSUME NEW e \in RealEnvs, NEW s \in Slots
      PROVE  /\ \A n \in 1 .. f[e] : nth[e][s][n] \in completed[e] /\ nth[e][s][n].slot = s
             /\ \A t \in completed[e] : t.slot = s => \E n \in 1 .. f[e] : nth[e][s][n] = t
             /\ \A n, m \in 1 .. f[e] : nth[e][s][n] = nth[e][s][m] => n = m
  <2>1. /\ nth[e][s] \in [1 .. f[e] -> Played(e, s)]
        /\ \A t \in Played(e, s) : \E n \in 1 .. f[e] : nth[e][s][n] = t
    BY <1>7 DEF Bijection, Surjection
  <2>2. IsInjective(nth[e][s])
    BY <1>7 DEF Bijection, Injection
  <2> QED
    BY <2>1, <2>2 DEF IsInjective, Played
<1>9. PICK g : g = [p \in tokens \X Slots |-> nth[p[1][1]][p[2]][p[1][2]]]
  OBVIOUS
<1>10. PICK batch : batch = UNION {completed[e] : e \in RealEnvs}
  OBVIOUS
<1>11. \A e \in RealEnvs : \A t \in completed[e] : t.env = e /\ t.slot \in Slots
  BY RealRank DEF TrajInv, TrajTypes, Trajectories, Collecting, Identified
<1>12. \A p \in tokens \X Slots :
         /\ p[1] \in tokens /\ p[2] \in Slots
         /\ g[p] = nth[p[1][1]][p[2]][p[1][2]]
         /\ g[p] \in completed[p[1][1]] /\ g[p].slot = p[2]
  BY <1>5, <1>8, <1>9
<1>13. g \in [tokens \X Slots -> batch]
  BY <1>5, <1>9, <1>10, <1>12
<1>14. \A t \in batch : \E p \in tokens \X Slots : g[p] = t
  <2> SUFFICES ASSUME NEW e \in RealEnvs, NEW t \in completed[e]
               PROVE  \E p \in tokens \X Slots : g[p] = t
    BY <1>10
  <2>1. PICK n \in 1 .. f[e] : nth[e][t.slot][n] = t
    BY <1>8, <1>11
  <2>2. <<<<e, n>>, t.slot>> \in tokens \X Slots
    BY <1>5, <1>11, <2>1
  <2> QED
    BY <1>9, <2>1, <2>2
<1>15. ASSUME NEW p \in tokens \X Slots, NEW q \in tokens \X Slots, g[p] = g[q]
       PROVE  p = q
  <2>1. p[1][1] = q[1][1] /\ p[2] = q[2]
    BY <1>5, <1>11, <1>12, <1>15
  <2>2. p[1][2] = q[1][2]
    <3>1. p[1][1] \in RealEnvs /\ p[2] \in Slots /\ p[1][2] \in 1 .. f[p[1][1]] /\ q[1][2] \in 1 .. f[p[1][1]]
      BY <1>5, <1>12, <2>1
    <3>2. nth[p[1][1]][p[2]][p[1][2]] = nth[p[1][1]][p[2]][q[1][2]]
      BY <1>12, <1>15, <2>1
    <3> QED
      BY <1>8, <3>1, <3>2
  <2>3. p[1] = q[1]
    BY <1>5, <1>12, <2>1, <2>2
  <2> QED
    BY <2>1, <2>3
<1>16. IsFiniteSet(tokens \X Slots) /\ Cardinality(tokens \X Slots) = RealEpochs * Cardinality(Slots)
  BY <1>4, SlotsAssumption, FS_Product
<1>17. PICK all : all = tokens \X Slots
  OBVIOUS
<1>18. g \in [all -> batch] /\ (\A t \in batch : \E p \in all : g[p] = t) /\ IsFiniteSet(all)
  BY <1>13, <1>14, <1>16, <1>17
<1>19. \A p, q \in all : g[p] = g[q] => p = q
  BY <1>15, <1>17
<1>20. Cardinality(batch) = Cardinality(all)
  BY ONLY <1>18, <1>19, Bijective
<1> QED
  BY <1>10, <1>16, <1>17, <1>20

\* A step of another worker leaves the deliveries of this one alone.
LEMMA DeliveryKept ==
  ASSUME [Next]_vars, NEW e \in RealEnvs, step' = step, completed'[e] = completed[e],
         episode'[e] = episode[e]
  PROVE  /\ Identified(e) => Identified(e)'
         /\ \A s \in Slots : Played(e, s)' = Played(e, s)
         /\ pc'[e] = pc[e] /\ left'[e] = left[e] /\ chunks'[e] = chunks[e] /\ open'[e] = open[e]
              => \A s \in Slots : Delivered(e, s)' = Delivered(e, s)
<1>1. ChunkSteps' = ChunkSteps /\ RealShare(e)' = RealShare(e)
  BY RecipeSame DEF RealShare
<1> QED
  BY <1>1 DEF Identified, Played, Delivered, Closed

LEMMA TrajStep ==
  ASSUME Shape, PhaseInv, RequestInv, WorkInv, CounterInv, MessageInv, TrajInv, [Next]_vars
  PROVE  TrajInv'
<1> USE DEF runnerVars, leaseVars, slotVars, envVars, rolloutVars, channelVars
<1>k. /\ Trajectories' = Trajectories /\ ChunkSteps' = ChunkSteps /\ ChunkSteps \in Nat \ {0}
      /\ \A e \in Envs : EnvRank(e)' = EnvRank(e)
      /\ \A e \in RealEnvs : RealShare(e)' = RealShare(e) /\ RealShare(e) \in Int
      /\ recipe' = recipe
  <2>1. PICK f : f = [x \in RealEnvs |-> RealShare(x)]
    OBVIOUS
  <2>2. \A e \in RealEnvs : f[e] \in 1 .. RealEpochs
    BY <2>1, RealShares DEF Shape
  <2>3. \A e \in RealEnvs : RealShare(e) \in Int
    BY <2>1, <2>2
  <2>4. \A e \in RealEnvs : RealShare(e)' = RealShare(e)
    BY RecipeSame DEF RealShare
  <2>5. Trajectories' = Trajectories
    BY RecipeSame DEF Trajectories
  <2>6. ChunkSteps \in Nat \ {0}
    BY RecipeFacts DEF Shape
  <2> QED
    BY <2>3, <2>4, <2>5, <2>6, RecipeSame
<1>e. phase' # "learn" \/ (phase' = phase /\ drained' = drained) => EverySlotDelivers'
  BY <1>k, RealRank DEF TrajInv, EverySlotDelivers
<1>t. UNCHANGED <<completed, drained>> => TrajTypes'
  BY <1>k DEF TrajInv, TrajTypes
\* A step of real worker e, or of no real worker.
<1>c. ASSUME UNCHANGED <<phase, step, drained>>, TrajTypes',
             phase \notin {"real", "realStop", "failed"} => \A e \in RealEnvs : completed'[e] = {},
             phase = "realStop" => \A e \in RealEnvs : pc'[e] = pc[e],
             \A e \in RealEnvs : Collecting =>
               /\ Identified(e)'
               /\ OneTrajectory /\ pc'[e] # "raised" =>
                    \A s \in Slots : Cardinality(Played(e, s)') = Delivered(e, s)'
      PROVE  TrajInv'
  BY <1>c, <1>e DEF TrajInv, Collecting
<1>1. ASSUME UNCHANGED <<phase, step, drained, pc, left, slotVars>>
      PROVE  TrajInv'
  <2>1. /\ \A f \in RealEnvs : Identified(f) => Identified(f)'
        /\ \A f \in RealEnvs : \A s \in Slots : Played(f, s)' = Played(f, s)
        /\ \A f \in RealEnvs : \A s \in Slots : Delivered(f, s)' = Delivered(f, s)
    BY <1>1, DeliveryKept
  <2>2. TrajTypes'
    BY <1>1, <1>t
  <2>3. ASSUME NEW f \in RealEnvs, Collecting
        PROVE  /\ Identified(f)'
               /\ OneTrajectory /\ pc'[f] # "raised" =>
                    \A s \in Slots : Cardinality(Played(f, s)') = Delivered(f, s)'
    BY <1>1, <2>1, <2>3 DEF TrajInv
  <2>4. phase \notin {"real", "realStop", "failed"} => \A f \in RealEnvs : completed'[f] = {}
    BY <1>1 DEF TrajInv, CounterInv
  <2> QED
    BY <1>1, <1>c, <2>2, <2>3, <2>4
<1>2. ASSUME NEW e \in Envs, phase # "failed",
             UNCHANGED <<phase, step, drained, completed, episode>>,
             \A f \in Envs \ {e} : /\ pc'[f] = pc[f] /\ left'[f] = left[f]
                                   /\ chunks'[f] = chunks[f] /\ open'[f] = open[f],
             pc[e] \notin {"idle", "done"},
             e \in RealEnvs /\ pc'[e] # "raised" =>
               /\ pc[e] # "raised"
               /\ \A s \in Slots : Delivered(e, s)' = Delivered(e, s)
      PROVE  TrajInv'
  <2>1. \A f \in RealEnvs : Identified(f) => Identified(f)'
    BY <1>2, DeliveryKept
  <2>2. \A f \in RealEnvs : \A s \in Slots : Played(f, s)' = Played(f, s)
    BY <1>2, DeliveryKept
  <2>3. \A f \in RealEnvs \ {e} : \A s \in Slots : Delivered(f, s)' = Delivered(f, s)
    BY <1>2, DeliveryKept, RealRank
  <2>4. phase # "realStop"
    BY <1>2 DEF PhaseInv
  <2>5. \A f \in RealEnvs \ {e} : pc'[f] = pc[f]
    BY <1>2, RealRank
  <2>6. TrajTypes'
    BY <1>2, <1>t
  <2>7. ASSUME NEW f \in RealEnvs, Collecting
        PROVE  /\ Identified(f)'
               /\ OneTrajectory /\ pc'[f] # "raised" =>
                    \A s \in Slots : Cardinality(Played(f, s)') = Delivered(f, s)'
    <3>1. pc'[f] # "raised" => pc[f] # "raised" /\ \A s \in Slots : Delivered(f, s)' = Delivered(f, s)
      BY <1>2, <2>3, <2>5
    <3> QED
      BY <2>1, <2>2, <2>7, <3>1 DEF TrajInv
  <2>8. phase \notin {"real", "realStop", "failed"} => \A f \in RealEnvs : completed'[f] = {}
    BY <1>2 DEF TrajInv, CounterInv
  <2> QED
    BY <1>2, <1>c, <2>4, <2>6, <2>7, <2>8
<1>3. ASSUME NEW e \in Envs, Bootstrap(e), phase # "failed"
      PROVE  TrajInv'
  <2>1. /\ chunks' = [chunks EXCEPT ![e] = Zero] /\ pc' = [pc EXCEPT ![e] = "wait"]
        /\ pc[e] = "bootstrap" /\ open' = [open EXCEPT ![e] = NoEpisode]
        /\ UNCHANGED <<phase, step, drained, left, episode, completed>>
    BY <1>3 DEF Bootstrap
  <2>2. \A s \in Slots : ~Closed(e, s)'
    BY <1>k, <2>1 DEF Closed, Zero, WorkInv
  <2>3. pc'[e] = "wait"
    BY <2>1 DEF Shape
  <2>4. e \in RealEnvs => \A s \in Slots : Delivered(e, s)' = Delivered(e, s)
    BY <1>k, <2>1, <2>2, <2>3 DEF Delivered
  <2>5. \A f \in Envs \ {e} : /\ pc'[f] = pc[f] /\ chunks'[f] = chunks[f] /\ open'[f] = open[f]
    BY <2>1 DEF Shape, WorkInv
  <2> QED
    BY <1>2, <1>3, <2>1, <2>4, <2>5
<1>4. ASSUME NEW e \in Envs, FinalAnswer(e), phase # "failed"
      PROVE  TrajInv'
  <2>1. /\ pc[e] = "final" /\ pc' = [pc EXCEPT ![e] = AfterEpoch(e)]
        /\ left' = [left EXCEPT ![e] = @ - 1]
        /\ UNCHANGED <<phase, step, drained, slotVars>>
    BY <1>4 DEF FinalAnswer
  <2>2. pc'[e] \in {"done", "bootstrap"} /\ left'[e] = left[e] - 1 /\ left[e] \in Nat
    BY <2>1 DEF AfterEpoch, WorkInv, Shape
  <2>3. e \in RealEnvs => \A s \in Slots : Delivered(e, s)' = Delivered(e, s)
    <3> SUFFICES ASSUME e \in RealEnvs, NEW s \in Slots
                 PROVE  Delivered(e, s)' = Delivered(e, s)
      OBVIOUS
    <3>1. Delivered(e, s) = RealShare(e) - left[e] + 1 /\ Delivered(e, s)' = RealShare(e) - (left[e] - 1) + 0
      BY <1>k, <2>1, <2>2 DEF Delivered
    <3> QED
      BY <1>k, <2>2, <3>1
  <2>4. \A f \in Envs \ {e} : pc'[f] = pc[f] /\ left'[f] = left[f]
    BY <2>1 DEF Shape, WorkInv
  <2> QED
    BY <1>2, <1>4, <2>1, <2>3, <2>4
<1>5. ASSUME NEW e \in Envs, EnvRaises(e), phase # "failed"
      PROVE  TrajInv'
  <2>1. /\ pc[e] \in {"bootstrap", "wait", "final"} /\ pc' = [pc EXCEPT ![e] = "raised"]
        /\ UNCHANGED <<phase, step, drained, left, slotVars>>
    BY <1>5 DEF EnvRaises, Mismatch
  <2>2. pc'[e] = "raised" /\ \A f \in Envs \ {e} : pc'[f] = pc[f]
    BY <2>1 DEF Shape
  <2> QED
    BY <1>2, <1>5, <2>1, <2>2
<1>6. ASSUME NEW e \in Envs, StepSlots(e), phase # "failed"
      PROVE  TrajInv'
  <2>1. pc[e] = "wait" /\ UNCHANGED <<phase, step, drained>>
    BY <1>6 DEF StepSlots
  <2>2. TrajTypes'
    BY <1>6, CloseTypes DEF TrajInv
  <2>3. (phase = "real" /\ e \in RealEnvs) \/ (phase = "imagine" /\ e \notin RealEnvs)
    BY <1>6, <2>1 DEF PhaseInv, Envs
  <2>4. CASE phase = "real" /\ e \in RealEnvs
    <3>1. \E closing \in SUBSET Slots : Close(e, closing)
      <4>1. \A ended \in SUBSET Active(e), rest \in SUBSET Slots : ended \cup rest \in SUBSET Slots
        BY DEF Active
      <4> QED
        BY <1>6, <2>4, <4>1 DEF StepSlots
    <3>2. Identified(e)'
      BY <2>1, <2>4, <3>1, CloseCounts DEF TrajInv, Collecting
    <3>3. /\ \A f \in Envs \ {e} : /\ completed'[f] = completed[f] /\ episode'[f] = episode[f]
                                     /\ open'[f] = open[f]
      BY <3>1 DEF Close, Shape, WorkInv
    <3>4. \A f \in Envs \ {e} : pc'[f] = pc[f] /\ left'[f] = left[f] /\ chunks'[f] = chunks[f]
      BY <1>6 DEF StepSlots, Shape, WorkInv
    <3>5. OneTrajectory /\ pc'[e] # "raised" =>
            \A s \in Slots : Cardinality(Played(e, s)') = Delivered(e, s)'
      BY <1>6, <2>4, StepDelivers
    <3>6. ASSUME NEW f \in RealEnvs \ {e}
          PROVE  /\ Identified(f)'
                 /\ OneTrajectory /\ pc'[f] # "raised" =>
                      \A s \in Slots : Cardinality(Played(f, s)') = Delivered(f, s)'
      <4>1. Identified(f) => Identified(f)'
        BY <2>1, <3>3, RealRank, DeliveryKept
      <4>2. \A s \in Slots : Played(f, s)' = Played(f, s)
        BY <2>1, <3>3, RealRank, DeliveryKept
      <4>3. \A s \in Slots : Delivered(f, s)' = Delivered(f, s)
        BY <2>1, <3>3, <3>4, RealRank, DeliveryKept
      <4> QED
        BY <2>4, <3>4, <4>1, <4>2, <4>3, RealRank DEF TrajInv, Collecting
    <3> QED
      BY <1>c, <2>1, <2>2, <2>4, <3>2, <3>5, <3>6
  <2>5. CASE phase = "imagine" /\ e \notin RealEnvs
    <3>1. UNCHANGED completed
      BY <1>6, <2>5 DEF StepSlots
    <3> QED
      BY <1>c, <2>1, <2>2, <2>5, <3>1 DEF TrajInv, Collecting
  <2> QED
    BY <2>3, <2>4, <2>5
<1>7. CASE StartReal
  <2>1. phase = "ready" /\ \A e \in RealEnvs : completed[e] = {}
    BY <1>7 DEF StartReal, TrajInv
  <2>2. /\ phase' = "real" /\ UNCHANGED <<completed, drained>>
        /\ pc' = [e \in Envs |-> IF e \in RealEnvs THEN "bootstrap" ELSE "idle"]
        /\ left' = [e \in Envs |-> IF e \in RealEnvs THEN RealShare(e) ELSE 0]
    BY <1>7, <2>1 DEF StartReal
  <2>3. \A e \in RealEnvs : completed'[e] = {} /\ pc'[e] = "bootstrap" /\ left'[e] = RealShare(e)
    BY <2>1, <2>2, RealRank
  <2>4. \A e \in RealEnvs : Identified(e)'
    BY <2>3, FS_EmptySet DEF Identified
  <2>5. \A e \in RealEnvs, s \in Slots : Delivered(e, s)' = 0
    BY <1>k, <2>3 DEF Delivered
  <2>6. \A e \in RealEnvs, s \in Slots : Cardinality(Played(e, s)') = 0
    <3>1. \A e \in RealEnvs, s \in Slots : Played(e, s)' = {}
      BY <2>3 DEF Played
    <3> QED
      BY <3>1, FS_EmptySet
  <2> QED
    BY <1>e, <1>t, <2>2, <2>4, <2>5, <2>6 DEF TrajInv, Collecting
<1>8. CASE StopReal
  <2>1. /\ phase = "real" /\ phase' = "realStop" /\ \A e \in RealEnvs : pc[e] = "done"
        /\ UNCHANGED <<step, drained, pc, left, slotVars>>
    BY <1>8 DEF StopReal
  <2>2. \A e \in RealEnvs : Identified(e)'
    BY <2>1, DeliveryKept DEF TrajInv, Collecting
  <2>3. \A e \in RealEnvs, s \in Slots : Played(e, s)' = Played(e, s)
    BY <2>1, DeliveryKept
  <2>4. \A e \in RealEnvs, s \in Slots : Delivered(e, s)' = Delivered(e, s)
    BY <2>1, DeliveryKept
  <2> QED
    BY <1>e, <1>t, <2>1, <2>2, <2>3, <2>4 DEF TrajInv, Collecting
<1>9. CASE Drain
  <2>1. /\ phase = "realStop" /\ phase' \in {"failed", "learn"}
        /\ completed' = [e \in Envs |-> {}] /\ drained' = UNION {completed[e] : e \in RealEnvs}
    BY <1>9 DEF Drain
  <2>2. TrajTypes'
    BY <1>k, <2>1, RealRank DEF TrajInv, TrajTypes
  <2>3. EverySlotDelivers'
    BY <1>9, DrainShares
  <2>4. \A e \in RealEnvs : completed'[e] = {}
    BY <2>1, RealRank
  <2> QED
    BY <2>1, <2>2, <2>3, <2>4 DEF TrajInv, Collecting
<1>10. ASSUME UNCHANGED <<completed, drained>>,
              \/ phase' = "failed"
              \/ /\ phase \in {"ready", "learn", "imagine", "imagineStop"}
                 /\ phase' \in {"ready", "imagine", "imagineStop"}
       PROVE  TrajInv'
  BY <1>10, <1>e, <1>t DEF TrajInv, Collecting
<1>11. CASE SkipImagination \/ StartImagination \/ StopImagination \/ Receive \/ GuardRaises
            \/ InteractionTimeout
  BY <1>10, <1>11 DEF SkipImagination, StartImagination, StopImagination, Receive, GuardRaises,
                      InteractionTimeout
<1>12. ASSUME NEW e \in WMEnvs, LeaseReturned(e)
       PROVE  TrajInv'
  BY <1>10, <1>12 DEF LeaseReturned
<1>13. ASSUME NEW r \in Rollouts, Rollout(r) \/ RolloutFails(r)
       PROVE  TrajInv'
  BY <1>1, <1>13 DEF Rollout, TakeRequest, PutAnswer, RolloutFails
<1>14. CASE UNCHANGED vars
  BY <1>1, <1>14 DEF vars
<1> QED
  BY <1>3, <1>4, <1>5, <1>6, <1>7, <1>8, <1>9, <1>11, <1>12, <1>13, <1>14
  DEF Next, Env, Runner, Faults

-----------------------------------------------------------------------------
(* Who is to blame for a failed run.                                       *)

\* Nothing is raised and the run is not given up before a fault.
BlameInv ==
  failures = 0 => /\ phase # "failed"
                  /\ \A e \in Envs : pc[e] # "raised"
                  /\ \A r \in Rollouts : rpc[r] # "raised"

\* The checks on the drained batch pass.
LEMMA DrainFine ==
  ASSUME Shape, WorkInv, TrajInv, Drain
  PROVE  phase' = "learn"
<1>1. phase = "realStop"
  BY DEF Drain
<1>2. PICK batch : batch = UNION {completed[e] : e \in RealEnvs}
  OBVIOUS
<1>3. \A t \in batch : t.step = step
  BY <1>1, <1>2 DEF TrajInv, Collecting, Identified
<1>4. ASSUME NEW t \in batch, NEW u \in batch, t # u
      PROVE  <<t.env, t.slot, t.episode>> # <<u.env, u.slot, u.episode>>
  <2>1. PICK e \in RealEnvs, f \in RealEnvs : t \in completed[e] /\ u \in completed[f]
    BY <1>2
  <2>2. t.env = e /\ u.env = f
    BY <1>1, <2>1 DEF TrajInv, Collecting, Identified
  <2>3. e = f => ~(t.slot = u.slot /\ t.episode = u.episode)
    BY <1>1, <1>4, <2>1 DEF TrajInv, Collecting, Identified
  <2> QED
    BY <2>2, <2>3
<1>5. recipe.budget => Cardinality(batch) = RealEpochs * Cardinality(Slots)
  BY <1>1, <1>2, DrainCount, RecipeFacts DEF Shape
<1> QED
  BY <1>2, <1>3, <1>4, <1>5 DEF Drain

LEMMA BlameStep ==
  ASSUME Shape, WorkInv, CounterInv, FitInv, StopInv, TrajInv, BlameInv, [Next]_vars
  PROVE  BlameInv'
<1> USE DEF runnerVars, leaseVars, slotVars, envVars, rolloutVars, channelVars
<1>k. Rollouts' = Rollouts /\ failures \in Nat
  BY RecipeSame, RecipeFacts DEF CounterInv, Shape
<1>1. CASE UNCHANGED <<phase, pc, rpc, failures>>
  BY <1>1, <1>k DEF BlameInv
<1>2. CASE failures' = failures + 1
  BY <1>2, <1>k DEF BlameInv
<1>3. ASSUME NEW e \in Envs, Env(e)
      PROVE  BlameInv'
  <2>1. UNCHANGED <<phase, rpc, failures>> /\ pc[e] # "raised"
    BY <1>3 DEF Env, Bootstrap, StepSlots, FinalAnswer
  <2>2. pc' = pc \/ \E state \in EnvStates \ {"raised"} : pc' = [pc EXCEPT ![e] = state]
    BY <1>3 DEF Env, Bootstrap, StepSlots, FinalAnswer, AfterEpoch, EnvStates
  <2> QED
    BY <1>k, <2>1, <2>2 DEF BlameInv, Shape
<1>4. ASSUME NEW e \in Envs, EnvRaises(e), phase # "failed"
      PROVE  BlameInv'
  <2>1. ~Mismatch(e)
    BY <1>4, NoMismatch
  <2> QED
    BY <1>2, <1>4, <2>1 DEF EnvRaises
<1>5. ASSUME NEW r \in Rollouts, Rollout(r)
      PROVE  BlameInv'
  <2>1. UNCHANGED <<phase, pc, failures>>
    BY <1>5 DEF Rollout, TakeRequest, PutAnswer
  <2>2. \E state \in {"done", "busy", "get"} : rpc' = [rpc EXCEPT ![r] = state]
    BY <1>5 DEF Rollout, TakeRequest, PutAnswer
  <2> QED
    BY <1>k, <2>1, <2>2 DEF BlameInv, Shape, CounterInv
<1>6. ASSUME NEW r \in Rollouts, RolloutFails(r)
      PROVE  BlameInv'
  BY <1>2, <1>6 DEF RolloutFails
<1>7. CASE StartReal
  <2>1. \A e \in RealEnvs : completed[e] = {}
    BY <1>7 DEF StartReal, TrajInv
  <2>2. /\ phase' = "real" /\ rpc' = [r \in Rollouts |-> "get"]
        /\ pc' = [e \in Envs |-> IF e \in RealEnvs THEN "bootstrap" ELSE "idle"]
    BY <1>7, <2>1 DEF StartReal
  <2> QED
    BY <1>k, <2>2 DEF BlameInv
<1>8. CASE Drain
  BY <1>8, <1>k, DrainFine DEF Drain, BlameInv
<1>9. CASE StartImagination
  BY <1>9, <1>k DEF StartImagination, Start, BlameInv
<1>10. ASSUME NEW e \in WMEnvs, LeaseReturned(e)
       PROVE  BlameInv'
  BY <1>10, <1>k, WMFacts DEF LeaseReturned, Start, BlameInv, Shape
<1>11. CASE StopReal \/ SkipImagination \/ StopImagination \/ Receive
  BY <1>11, <1>k DEF StopReal, SkipImagination, StopImagination, Receive, BlameInv
<1>12. CASE GuardRaises
  <2>1. phase \in {"real", "imagine"} /\ failures' = failures
    BY <1>12 DEF GuardRaises
  <2>2. (\E r \in Rollouts : Returned(r)) \/ (\E e \in Group : pc[e] = "raised")
    BY <1>12 DEF GuardRaises
  <2>3. CASE \E r \in Rollouts : Returned(r)
    <3>1. \E r \in Rollouts : rpc[r] = "raised"
      BY <2>1, <2>3 DEF StopInv, Returned
    <3> QED
      BY <2>1, <3>1 DEF BlameInv
  <2>4. CASE \E e \in Group : pc[e] = "raised"
    BY <2>1, <2>4, WMFacts DEF Group, BlameInv
  <2> QED
    BY <2>2, <2>3, <2>4
<1>13. CASE InteractionTimeout
  BY <1>2, <1>13 DEF InteractionTimeout
<1>14. CASE UNCHANGED vars
  BY <1>1, <1>14 DEF vars
<1> QED
  BY <1>3, <1>4, <1>5, <1>6, <1>7, <1>8, <1>9, <1>10, <1>11, <1>12, <1>13, <1>14
  DEF Next, Runner, Faults

-----------------------------------------------------------------------------
(* The theorems.                                                           *)

RunInv ==
  /\ IInv /\ LeaseInv /\ WorkInv /\ CounterInv /\ MessageInv /\ FitInv /\ StopInv /\ ShardInv
  /\ TrajInv /\ BlameInv

LEMMA RunInit ==
  ASSUME Init
  PROVE  RunInv
<1>k. /\ WMEpochs \in Nat /\ ChunkSteps \in Nat /\ recipe.faults \in Nat /\ MaxSteps \in Nat
      /\ recipe \in Recipes
  BY RecipeFacts, SlotsAssumption DEF Init
<1>1. IInv
  BY InitInv
<1>2. LeaseInv
  BY <1>k DEF Init, LeaseInv, LeasesConserved
<1>3. WorkInv
  BY <1>k DEF Init, WorkInv, Zero
<1>4. CounterInv
  BY <1>k DEF Init, CounterInv
<1>q. (\A p \in Keys : Queue(p) = {}) /\ (\A k \in Envs : Replies(k) = {})
  <2>1. \A p \in Keys : envq[p] = <<>>
    BY DEF Init
  <2>2. \A k \in Envs : resq[k] = <<>>
    BY DEF Init
  <2> QED
    BY <2>1, <2>2 DEF Queue, Replies
<1>5. MessageInv
  BY <1>q DEF Init, MessageInv, NoEpisode
<1>6. FitInv
  BY DEF Init, FitInv, Waits
<1>7. StopInv
  BY <1>q DEF Init, StopInv
<1>8. ShardInv
  BY DEF Init, ShardInv
<1>9. TrajInv
  BY RealRank DEF Init, TrajInv, TrajTypes, Collecting, EverySlotDelivers
<1>10. BlameInv
  BY DEF Init, BlameInv
<1> QED
  BY <1>1, <1>2, <1>3, <1>4, <1>5, <1>6, <1>7, <1>8, <1>9, <1>10 DEF RunInv

LEMMA RunStep ==
  ASSUME RunInv, [Next]_vars
  PROVE  RunInv'
<1>1. IInv'
  BY ShapeStep, PhaseStep, HoldStep, RequestStep, VersionStep DEF IInv, RunInv
<1>2. /\ Shape /\ PhaseInv /\ HoldInv /\ RequestInv /\ recipe \in Recipes
      /\ LeaseInv /\ WorkInv /\ CounterInv /\ MessageInv /\ FitInv /\ StopInv /\ ShardInv
      /\ TrajInv /\ BlameInv
  BY DEF RunInv, IInv, Shape
<1>3. LeaseInv' /\ WorkInv' /\ CounterInv' /\ MessageInv'
  BY <1>2, LeaseStep, WorkStep, CounterStep, MessageStep
<1>4. FitInv' /\ StopInv' /\ ShardInv'
  BY <1>2, FitStep, StopStep, ShardStep
<1>5. TrajInv' /\ BlameInv'
  BY <1>2, TrajStep, BlameStep
<1> QED
  BY <1>1, <1>3, <1>4, <1>5 DEF RunInv

\* Everything the runner and its workers keep count of is in order.
THEOREM RunInvariant == Spec => []RunInv
<1>1. Init => RunInv
  BY RunInit
<1>2. RunInv /\ [Next]_vars => RunInv'
  BY RunStep
<1> QED
  BY <1>1, <1>2, PTL DEF Spec

\* WM epochs are neither lost nor run twice, and no WM worker idles while the
\* pool has epochs (the lease accounting of CotrainRunner).
THEOREM LeasesBalance == Spec => []LeasesConserved
<1>1. RunInv => LeasesConserved
  BY DEF RunInv, LeaseInv
<1> QED
  BY <1>1, RunInvariant, PTL

\* No request, answer, StopMsg or shard of an interaction reaches the next one.
THEOREM NothingLeftOver == Spec => []ChannelsDrained
<1>1. RunInv => ChannelsDrained
  BY Drained DEF RunInv, IInv
<1> QED
  BY <1>1, RunInvariant, PTL

\* Every slot delivers one trajectory per rollout epoch, each under an identity
\* of its own.
THEOREM OnePerSlotAndEpoch == Spec => []EverySlotDelivers
<1>1. RunInv => EverySlotDelivers
  BY DEF RunInv, TrajInv
<1> QED
  BY <1>1, RunInvariant, PTL

\* No check of the code fires by itself: a run fails after a fault only.
THEOREM NoFalseAlarm == Spec => []FailsOnlyOnFault
<1>1. RunInv => FailsOnlyOnFault
  BY DEF RunInv, BlameInv, FailsOnlyOnFault
<1> QED
  BY <1>1, RunInvariant, PTL

\* Every variable has its type.
THEOREM TypeCorrect == Spec => []TypeOK
<1>1. ASSUME RunInv
      PROVE  TypeOK
  <2>1. /\ Shape /\ LeaseInv /\ WorkInv /\ CounterInv /\ MessageInv /\ TrajTypes
    BY <1>1 DEF RunInv, IInv, TrajInv
  <2>2. recipe \in Recipes /\ pc \in [Envs -> {"idle", "bootstrap", "wait", "final", "done", "raised"}]
    BY <2>1 DEF Shape, EnvStates
  <2>3. remaining \in 0 .. WMEpochs /\ lease \in [Envs -> 0 .. WMEpochs] /\ finished \in Nat
    BY <2>1 DEF LeaseInv
  <2>4. version \in 0 .. 3 * MaxSteps
    BY <2>1, SlotsAssumption DEF CounterInv
  <2>5. /\ \A k \in Keys : \A i \in DOMAIN envq[k] : envq[k][i] \in Requests \cup {Stop}
        /\ \A k \in Envs : \A i \in DOMAIN resq[k] : resq[k][i] \in Answers
        /\ \A e \in Envs, s \in Slots : open[e][s] \subseteq Nat
        /\ \A r \in Rollouts : held[r] \in Requests \cup {Stop}
    BY <2>1 DEF MessageInv, Queue, Replies
  <2>6. drained \subseteq Trajectories /\ \A e \in Envs : completed[e] \subseteq Trajectories
    BY <2>1 DEF TrajTypes
  <2>7. /\ left \in [Envs -> Nat] /\ emitted \in [Envs -> Nat]
        /\ chunks \in [Envs -> [Slots -> 0 .. ChunkSteps]] /\ episode \in [Envs -> [Slots -> Nat]]
    BY <2>1 DEF WorkInv
  <2>8. /\ phase \in {"ready", "real", "realStop", "learn", "imagine", "imagineStop", "failed"}
        /\ step \in 0 .. MaxSteps /\ expected \in Nat /\ actorq \in Nat
        /\ rpc \in [Rollouts -> {"idle", "get", "busy", "done", "raised"}]
        /\ failures \in 0 .. recipe.faults
    BY <2>1 DEF CounterInv
  <2> QED
    BY <2>2, <2>3, <2>4, <2>5, <2>6, <2>7, <2>8 DEF TypeOK
<1> QED
  BY <1>1, RunInvariant, PTL

-----------------------------------------------------------------------------
(* The channels and the rollout workers implement the call.                *)

\* Rank k has a request in a queue or in a rollout worker's hands.
Out(k) == ~NotQueued(k) \/ ~NotHeld(k)

\* The state the implemented service is in, by counting.
ServiceState ==
  \A k \in Envs : /\ RequestsOf(k) = IF Out(k) THEN 1 ELSE 0
                  /\ Len(resq[k]) = IF Answered(k) THEN 1 ELSE 0
                  /\ ~(Out(k) /\ Answered(k))

LEMMA CountRequests ==
  ASSUME Shape, RequestInv, NEW k \in Envs
  PROVE  RequestsOf(k) = IF Out(k) THEN 1 ELSE 0
<1>1. PICK queued : queued = UNION {{p} \X {i \in DOMAIN envq[p] : envq[p][i].env = k} : p \in Keys}
  OBVIOUS
<1>2. PICK working : working = {r \in Rollouts : held[r].env = k}
  OBVIOUS
<1>3. RequestsOf(k) = Cardinality(queued) + Cardinality(working)
  BY <1>1, <1>2 DEF RequestsOf
<1>4. \A p \in Keys : \A i \in DOMAIN envq[p] : i \in Nat
  <2> SUFFICES ASSUME NEW p \in Keys
               PROVE  \A i \in DOMAIN envq[p] : i \in Nat
    OBVIOUS
  <2>1. envq[p] \in Seq(Messages)
    BY DEF Shape
  <2> QED
    BY <2>1
<1>5. \A x : x \in queued <=> \E p \in Keys : \E i \in Nat : x = <<p, i>> /\ Queued(k, p, i)
  BY <1>1, <1>4 DEF Queued
<1>6. Cardinality({}) = 0 /\ \A x : Cardinality({x}) = 1
  BY FS_EmptySet, FS_Singleton
<1>7. NotQueued(k) => Cardinality(queued) = 0
  <2>1. NotQueued(k) => queued = {}
    BY <1>5 DEF NotQueued
  <2> QED
    BY <1>6, <2>1
<1>8. NotHeld(k) => Cardinality(working) = 0
  <2>1. NotHeld(k) => working = {}
    BY <1>2 DEF NotHeld, Held
  <2> QED
    BY <1>6, <2>1
<1>9. QueuedOnce(k) /\ ~NotQueued(k) => Cardinality(queued) = 1
  <2> SUFFICES ASSUME QueuedOnce(k), ~NotQueued(k)
               PROVE  Cardinality(queued) = 1
    OBVIOUS
  <2>1. PICK p \in Keys, i \in Nat : Queued(k, p, i)
    BY DEF NotQueued
  <2>2. queued = {<<p, i>>}
    BY <1>5, <2>1 DEF QueuedOnce
  <2> QED
    BY <1>6, <2>2
<1>10. ~NotHeld(k) /\ (\A r, s \in Rollouts : Held(k, r) /\ Held(k, s) => r = s)
         => Cardinality(working) = 1
  <2> SUFFICES ASSUME ~NotHeld(k), \A r, s \in Rollouts : Held(k, r) /\ Held(k, s) => r = s
               PROVE  Cardinality(working) = 1
    OBVIOUS
  <2>1. PICK r \in Rollouts : Held(k, r)
    BY DEF NotHeld
  <2>2. working = {r}
    BY <1>2, <2>1 DEF Held
  <2> QED
    BY <1>6, <2>2
<1> QED
  BY <1>3, <1>7, <1>8, <1>9, <1>10 DEF RequestInv, AtMostOne, Out

LEMMA InService ==
  ASSUME Shape, RequestInv
  PROVE  ServiceState
<1>1. \A k \in Envs : resq[k] = <<>> => Len(resq[k]) = 0
  OBVIOUS
<1>2. \A k \in Envs : AtMostOne(k)
  BY DEF RequestInv
<1> QED
  BY <1>1, <1>2, CountRequests DEF ServiceState, AtMostOne, Answered, Out, NotHeld

\* The places of rank k stay.
SamePlaces(k) == (Out(k)' <=> Out(k)) /\ (Answered(k)' <=> Answered(k))

LEMMA PlacesSame ==
  ASSUME Kept, NEW k \in Envs,
         \A p \in Keys : \A i \in Nat : Queued(k, p, i)' <=> Queued(k, p, i),
         \A r \in Rollouts : Held(k, r)' <=> Held(k, r)
  PROVE  Out(k)' <=> Out(k)
BY DEF Kept, Out, NotQueued, NotHeld

\* A step moves the request of one rank at most: a first request is not
\* answered, and no request gets lost.
LEMMA OneRankMoves ==
  ASSUME Shape, PhaseInv, HoldInv, RequestInv, [Next]_vars
  PROVE  \E rank \in Envs :
           /\ \A k \in Envs \ {rank} : SamePlaces(k)
           /\ ~Out(rank) /\ ~Answered(rank) => ~Answered(rank)'
           /\ Out(rank) => Out(rank)' \/ Answered(rank)'
<1> USE DEF runnerVars, leaseVars, slotVars, envVars, rolloutVars, channelVars
<1>k. Kept
  BY KeptStep
<1>q. UNCHANGED envq => \A k \in Envs : \A p \in Keys : \A i \in Nat : Queued(k, p, i)' <=> Queued(k, p, i)
  BY DEF Queued
<1>h. UNCHANGED held => \A k \in Envs : \A r \in Rollouts : Held(k, r)' <=> Held(k, r)
  BY DEF Held
<1>s. ASSUME \A k \in Envs : SamePlaces(k)
      PROVE  \E rank \in Envs :
               /\ \A k \in Envs \ {rank} : SamePlaces(k)
               /\ ~Out(rank) /\ ~Answered(rank) => ~Answered(rank)'
               /\ Out(rank) => Out(rank)' \/ Answered(rank)'
  BY <1>s, WMFacts DEF SamePlaces
<1>1. ASSUME UNCHANGED <<envq, resq, held>>
      PROVE  \A k \in Envs : SamePlaces(k)
  BY <1>1, <1>k, <1>q, <1>h, PlacesSame DEF SamePlaces, Answered
<1>2. ASSUME NEW e \in Envs, Bootstrap(e)
      PROVE  \E rank \in Envs :
               /\ \A k \in Envs \ {rank} : SamePlaces(k)
               /\ ~Out(rank) /\ ~Answered(rank) => ~Answered(rank)'
               /\ Out(rank) => Out(rank)' \/ Answered(rank)'
  <2>1. PICK rank \in Envs, key \in Keys : rank = EnvRank(e) /\ key = RequestKey(e)
    BY RanksAreEnvs, KeysAreKeys
  <2>2. AskFor(e, Slots) /\ UNCHANGED <<resq, held>>
    BY <1>2 DEF Bootstrap
  <2>3. \A k \in Envs : \A p \in Keys : \A i \in Nat :
          Queued(k, p, i)' <=> Queued(k, p, i) \/ (p = key /\ i = Len(envq[key]) + 1 /\ k = rank)
    BY <1>k, <2>1, <2>2, QueuedAsk
  <2>4. \A k \in Envs : Answered(k)' <=> Answered(k)
    BY <2>2 DEF Answered
  <2>5. \A k \in Envs \ {rank} : SamePlaces(k)
    BY <1>k, <1>h, <2>2, <2>3, <2>4, PlacesSame DEF SamePlaces
  <2>6. Out(rank) => Out(rank)'
    BY <1>k, <1>h, <2>2, <2>3 DEF Out, NotQueued, NotHeld, Kept
  <2> QED
    BY <2>4, <2>5, <2>6
<1>3. ASSUME NEW e \in Envs, resq[EnvRank(e)] # <<>>, TakeAnswer(e), UNCHANGED held,
             envq' = envq \/ \E slots \in SUBSET Slots : AskFor(e, slots)
      PROVE  \E rank \in Envs :
               /\ \A k \in Envs \ {rank} : SamePlaces(k)
               /\ ~Out(rank) /\ ~Answered(rank) => ~Answered(rank)'
               /\ Out(rank) => Out(rank)' \/ Answered(rank)'
  <2>1. PICK rank \in Envs, key \in Keys : rank = EnvRank(e) /\ key = RequestKey(e)
    BY RanksAreEnvs, KeysAreKeys
  <2>2. NotQueued(rank) /\ NotHeld(rank) /\ \A k \in Envs \ {rank} : resq'[k] = resq[k]
    BY <1>3, <2>1, AnswerTaken
  <2>3. \A k \in Envs \ {rank} : \A p \in Keys : \A i \in Nat : Queued(k, p, i)' <=> Queued(k, p, i)
    <3>1. ASSUME NEW slots \in SUBSET Slots, AskFor(e, slots)
          PROVE  \A k \in Envs \ {rank} : \A p \in Keys : \A i \in Nat : Queued(k, p, i)' <=> Queued(k, p, i)
      BY <1>k, <2>1, <3>1, QueuedAsk
    <3> QED
      BY <1>3, <1>q, <3>1
  <2>4. \A k \in Envs \ {rank} : SamePlaces(k)
    BY <1>3, <1>k, <1>h, <2>2, <2>3, PlacesSame DEF SamePlaces, Answered
  <2>5. ~Out(rank) /\ Answered(rank)
    BY <1>3, <2>1, <2>2 DEF Out, Answered
  <2> QED
    BY <2>4, <2>5
<1>4. ASSUME NEW e \in Envs, StepSlots(e)
      PROVE  \E rank \in Envs :
               /\ \A k \in Envs \ {rank} : SamePlaces(k)
               /\ ~Out(rank) /\ ~Answered(rank) => ~Answered(rank)'
               /\ Out(rank) => Out(rank)' \/ Answered(rank)'
  <2>1. resq[EnvRank(e)] # <<>> /\ TakeAnswer(e) /\ UNCHANGED held
    BY <1>4 DEF StepSlots
  <2>2. envq' = envq \/ \E slots \in SUBSET Slots : AskFor(e, slots)
    BY <1>4 DEF StepSlots
  <2> QED
    BY <1>3, <2>1, <2>2
<1>5. ASSUME NEW e \in Envs, FinalAnswer(e) \/ EnvRaises(e)
      PROVE  \E rank \in Envs :
               /\ \A k \in Envs \ {rank} : SamePlaces(k)
               /\ ~Out(rank) /\ ~Answered(rank) => ~Answered(rank)'
               /\ Out(rank) => Out(rank)' \/ Answered(rank)'
  <2>1. UNCHANGED <<envq, held>>
    BY <1>5 DEF FinalAnswer, EnvRaises
  <2>2. UNCHANGED resq \/ (resq[EnvRank(e)] # <<>> /\ TakeAnswer(e))
    BY <1>5 DEF FinalAnswer, EnvRaises
  <2>3. CASE UNCHANGED resq
    BY <1>1, <1>s, <2>1, <2>3
  <2>4. CASE resq[EnvRank(e)] # <<>> /\ TakeAnswer(e)
    BY <1>3, <2>1, <2>4
  <2> QED
    BY <2>2, <2>3, <2>4
<1>6. ASSUME NEW r \in Rollouts, TakeRequest(r), NEW k \in Envs
      PROVE  SamePlaces(k)
  <2>1. PICK key \in Keys : key = ReadKey(r)
    BY DEF ReadKey, Keys
  <2>2. PICK msg \in Messages : msg = Head(envq[key])
    BY <1>6, <2>1 DEF TakeRequest, Shape
  <2>3. /\ envq[key] # <<>> /\ envq' = [envq EXCEPT ![key] = Tail(@)]
        /\ held' = [held EXCEPT ![r] = msg] /\ UNCHANGED resq
    BY <1>6, <2>1, <2>2 DEF TakeRequest
  <2>4. ~Held(k, r)
    BY <1>6, Numbers DEF TakeRequest, HoldInv, Held, Stop
  <2>5. \A s \in Rollouts : Held(k, s)' <=> IF s = r THEN msg.env = k ELSE Held(k, s)
    BY <2>3 DEF Held, Shape
  <2>6. /\ \A p \in Keys : \A i \in Nat :
             Queued(k, p, i)' <=> IF p = key THEN i # 0 /\ Queued(k, p, i + 1) ELSE Queued(k, p, i)
        /\ Queued(k, key, 1) <=> msg.env = k
    BY <1>k, <2>2, <2>3, QueuedTail DEF Shape, Kept
  <2>7. Answered(k)' <=> Answered(k)
    BY <2>3 DEF Answered
  <2>8. CASE msg.env = k
    BY <1>k, <2>5, <2>6, <2>7, <2>8 DEF SamePlaces, Out, NotQueued, NotHeld, Kept
  <2>9. CASE msg.env # k
    <3>1. NotHeld(k)' <=> NotHeld(k)
      BY <1>k, <2>4, <2>5, <2>9 DEF NotHeld, Kept
    <3>2. NotQueued(k) => NotQueued(k)'
      BY <1>k, <2>6 DEF NotQueued, Kept
    <3>3. ASSUME NotQueued(k)', NEW p \in Keys, NEW i \in Nat, Queued(k, p, i)
          PROVE  FALSE
      <4>1. \A q \in Keys : \A j \in Nat : ~Queued(k, q, j)'
        BY <1>k, <3>3 DEF NotQueued, Kept
      <4>2. p = key
        BY <2>6, <3>3, <4>1
      <4>3. i \in 1 .. Len(envq[key]) /\ i # 1
        <5>1. envq[key] \in Seq(Messages)
          BY DEF Shape
        <5>2. i \in DOMAIN envq[key]
          BY <3>3, <4>2 DEF Queued
        <5> QED
          BY <2>6, <2>9, <3>3, <4>2, <5>1, <5>2
      <4>4. PICK j \in Nat : j # 0 /\ j + 1 = i
        <5>1. i - 1 \in Nat /\ i - 1 # 0 /\ (i - 1) + 1 = i
          BY <3>3, <4>3
        <5> QED
          BY <5>1
      <4>5. Queued(k, key, j + 1)
        BY <3>3, <4>2, <4>4
      <4> QED
        BY <2>6, <4>1, <4>4, <4>5
    <3> QED
      BY <2>7, <3>1, <3>2, <3>3 DEF SamePlaces, Out, NotQueued
  <2> QED
    BY <2>8, <2>9
<1>7. ASSUME NEW r \in Rollouts, PutAnswer(r)
      PROVE  \E rank \in Envs :
               /\ \A k \in Envs \ {rank} : SamePlaces(k)
               /\ ~Out(rank) /\ ~Answered(rank) => ~Answered(rank)'
               /\ Out(rank) => Out(rank)' \/ Answered(rank)'
  <2>1. PICK rank \in Envs : rank = held[r].env
    BY <1>7 DEF PutAnswer, HoldInv, RequestInv
  <2>2. /\ held' = [held EXCEPT ![r] = Stop] /\ UNCHANGED envq
        /\ resq' = [resq EXCEPT ![rank] = Append(@, [slots |-> held[r].slots, version |-> version])]
    BY <1>7, <2>1 DEF PutAnswer
  <2>3. ASSUME NEW k \in Envs \ {rank}
        PROVE  SamePlaces(k)
    <3>1. \A s \in Rollouts : Held(k, s)' <=> Held(k, s)
      BY <2>1, <2>2, Numbers DEF Held, Shape, Stop
    <3>2. Answered(k)' <=> Answered(k)
      BY <2>2 DEF Answered, Shape
    <3> QED
      BY <1>k, <1>q, <2>2, <3>1, <3>2, PlacesSame DEF SamePlaces
  <2>4. Out(rank)
    BY <2>1 DEF Out, NotHeld, Held
  <2>5. Answered(rank)'
    <3>1. resq[rank] \in Seq(AnswerShape)
      BY DEF Shape
    <3>2. resq'[rank] = Append(resq[rank], [slots |-> held[r].slots, version |-> version])
      BY <2>2 DEF Shape
    <3>3. resq'[rank] # <<>>
      BY <3>1, <3>2
    <3> QED
      BY <3>3 DEF Answered
  <2> QED
    BY <2>3, <2>4, <2>5
<1>8. CASE StopReal \/ StopImagination
  <2>1. envq' = StopAll(envq) /\ UNCHANGED <<resq, held>>
    BY <1>8 DEF StopReal, StopImagination
  <2>2. \A k \in Envs : \A p \in Keys : \A i \in Nat : Queued(k, p, i)' <=> Queued(k, p, i)
    BY <1>k, <2>1, QueuedStops DEF Shape, Kept
  <2>3. \A k \in Envs : SamePlaces(k)
    BY <1>k, <1>h, <2>1, <2>2, PlacesSame DEF SamePlaces, Answered
  <2> QED
    BY <1>s, <2>3
<1>9. ASSUME NEW r \in Rollouts, RolloutFails(r)
      PROVE  UNCHANGED <<envq, resq, held>>
  BY <1>9 DEF RolloutFails
<1>10. ASSUME NEW e \in WMEnvs, LeaseReturned(e)
       PROVE  UNCHANGED <<envq, resq, held>>
  BY <1>10 DEF LeaseReturned
<1>11. CASE StartReal \/ Drain \/ SkipImagination \/ StartImagination \/ Receive \/ GuardRaises
            \/ InteractionTimeout \/ UNCHANGED vars
  <2>1. UNCHANGED <<envq, resq, held>>
    BY <1>11 DEF StartReal, Drain, SkipImagination, StartImagination, Receive, GuardRaises,
                 InteractionTimeout, vars
  <2> QED
    BY <1>1, <1>s, <2>1
<1> QED
  BY <1>1, <1>s, <1>2, <1>4, <1>5, <1>6, <1>7, <1>8, <1>9, <1>10, <1>11
  DEF Next, Env, Rollout, Runner, Faults

LEMMA ServiceInit ==
  ASSUME Init, ServiceState
  PROVE  Service!Init
<1>1. \A k \in Envs : ~Out(k) /\ ~Answered(k)
  <2>1. \A k \in Envs : Stop.env # k
    BY Numbers DEF Stop
  <2> QED
    BY <2>1 DEF Init, Out, NotQueued, NotHeld, Queued, Held, Answered
<1> QED
  BY <1>1 DEF ServiceState, Service!Init

LEMMA ServiceStep ==
  ASSUME Shape, PhaseInv, HoldInv, RequestInv, [Next]_vars, ServiceState, ServiceState'
  PROVE  [Service!Next]_(Service!vars)
<1>1. PICK a, b, c, d : /\ a = [k \in Envs |-> RequestsOf(k)] /\ b = [k \in Envs |-> Len(resq[k])]
                        /\ c = [k \in Envs |-> RequestsOf(k)]' /\ d = [k \in Envs |-> Len(resq[k])]'
  OBVIOUS
<1>2. /\ c = [k \in Envs |-> RequestsOf(k)'] /\ d = [k \in Envs |-> Len(resq'[k])]
  BY <1>1
<1>3. PICK rank \in Envs :
        /\ \A k \in Envs \ {rank} : SamePlaces(k)
        /\ ~Out(rank) /\ ~Answered(rank) => ~Answered(rank)'
        /\ Out(rank) => Out(rank)' \/ Answered(rank)'
  BY OneRankMoves
<1>4. \A k \in Envs : /\ a[k] = (IF Out(k) THEN 1 ELSE 0) /\ b[k] = (IF Answered(k) THEN 1 ELSE 0)
                      /\ c[k] = (IF Out(k)' THEN 1 ELSE 0) /\ d[k] = (IF Answered(k)' THEN 1 ELSE 0)
                      /\ ~(Out(k) /\ Answered(k)) /\ ~(Out(k)' /\ Answered(k)')
  BY <1>1, <1>2 DEF ServiceState
<1>5. \A k \in Envs \ {rank} : c[k] = a[k] /\ d[k] = b[k]
  BY <1>3, <1>4 DEF SamePlaces
<1>6. c = [a EXCEPT ![rank] = c[rank]] /\ d = [b EXCEPT ![rank] = d[rank]]
  BY <1>1, <1>2, <1>5
<1>7. a[rank] \in {0, 1} /\ b[rank] \in {0, 1} /\ c[rank] \in {0, 1} /\ d[rank] \in {0, 1}
  BY <1>4
<1>8. \/ a[rank] = c[rank] /\ b[rank] = d[rank]
      \/ a[rank] = 0 /\ b[rank] = 0 /\ c[rank] = 1 /\ d[rank] = 0
      \/ a[rank] = 1 /\ c[rank] = 0 /\ d[rank] = 1
      \/ b[rank] = 1 /\ d[rank] = 0
  BY <1>3, <1>4
<1>9. CASE a[rank] = c[rank] /\ b[rank] = d[rank]
  <2>1. c = a /\ d = b
    BY <1>1, <1>2, <1>5, <1>9
  <2> QED
    BY <1>1, <2>1 DEF Service!vars
<1>10. CASE a[rank] = 0 /\ b[rank] = 0 /\ c[rank] = 1 /\ d[rank] = 0
  <2>1. d = b /\ c = [a EXCEPT ![rank] = 1]
    BY <1>1, <1>6, <1>10
  <2>2. Service!AskFirst(rank)
    BY <1>1, <1>10, <2>1 DEF Service!AskFirst
  <2> QED
    BY <2>2 DEF Service!Next
<1>11. CASE a[rank] = 1 /\ c[rank] = 0 /\ d[rank] = 1
  <2>1. Service!Reply(rank)
    BY <1>1, <1>6, <1>11 DEF Service!Reply
  <2> QED
    BY <2>1 DEF Service!Next
<1>12. CASE b[rank] = 1 /\ d[rank] = 0
  <2>1. Service!Take(rank)
    BY <1>1, <1>6, <1>7, <1>12 DEF Service!Take
  <2> QED
    BY <2>1 DEF Service!Next
<1> QED
  BY <1>8, <1>9, <1>10, <1>11, <1>12

\* The channels and the rollout workers answer every request once, and no key
\* holds two requests or two answers, although the ranks are reused.
THEOREM CallsAnsweredOnce == Spec => AnswersOnce
<1>1. RunInv => Shape /\ PhaseInv /\ HoldInv /\ RequestInv /\ ServiceState
  BY InService DEF RunInv, IInv
<1>2. Init /\ ServiceState => Service!Init
  BY ServiceInit
<1>3. /\ Shape /\ PhaseInv /\ HoldInv /\ RequestInv /\ ServiceState /\ ServiceState' /\ [Next]_vars
      => [Service!Next]_(Service!vars)
  BY ServiceStep
<1> QED
  BY <1>1, <1>2, <1>3, RunInvariant, PTL DEF Spec, AnswersOnce, Service!Spec
=============================================================================
