------------------------- MODULE CollectionRunProofs -------------------------
(***************************************************************************)
(* A collection run leaves nothing out: what the driver's limits and early *)
(* exits, and the queues of predicted actions, do to the episodes, for any *)
(* number of items, workers and launches.                                  *)
(*                                                                         *)
(* Open is what the run still owes: pending items, those of live envs and  *)
(* those that died.  Left are the steps it may still take, one token per   *)
(* step and item, so that a round or batch uses up at least one; when the  *)
(* driver's count reaches its limit there is none left to cut off.         *)
(***************************************************************************)
EXTENDS CollectionProofs, FiniteSetTheorems

LiveItems == {env[e].item : e \in {f \in Envs : Live(f)}}
Open      == pending \cup LiveItems \cup lost

\* The env has a step of its episode yet to take.
AtWork(e) == env[e].st \in {"ready", "infer", "step"} \/ (env[e].st = "back" /\ ~env[e].over)

Flying(e) == IF env[e].st \in {"infer", "step"} THEN 1 ELSE 0
LeftOf(e) == IF env[e].over THEN 0 ELSE Horizon - env[e].taken - Flying(e)
LeftTo(i) == {n \in 1 .. Horizon :
                i \in pending \/ \E e \in Envs : Live(e) /\ env[e].item = i /\ n <= LeftOf(e)}
Left      == {x \in Items \X (1 .. Horizon) : x[2] \in LeftTo(x[1])}

\* Rounds or batches begun: the lock-step driver counts a round at its end.
Begun  == IF ~overlap /\ turn = "wait" THEN steps + 1 ELSE steps
\* With one env or one item to collect, one env at most is ever at work.
Single == NumEnvs = 1 \/ target = 1

\* What env workers count.
Counts ==
  /\ size \in [Ranks -> Nat] /\ respawns \in [Envs -> 0 .. MaxRespawns]
  /\ target \in 0 .. NumItems /\ steps \in Nat /\ steps <= MaxRounds
  /\ stop \in BOOLEAN /\ turn \in {"top", "wait", "handled"} /\ lost \subseteq Items
  /\ \A e \in Envs :
       /\ env[e].taken <= Horizon
       /\ AtWork(e) => ~env[e].over /\ env[e].taken < Horizon

\* Items that are owed and demos that are dumped are what the launch set out to get.
Account ==
  /\ IsFiniteSet(Saved)
  /\ Collected + Cardinality(Open) = target
  /\ Items \ CompleteItems \subseteq Open
  /\ lost \cap (pending \cup LiveItems) = {}
  /\ (\E e \in Envs : env[e].st = "off") => pending = {}

\* The driver's count stays behind the steps that are used up, strictly if two
\* envs had an item to start with.
Pace ==
  /\ Begun + Cardinality(Left) <= MaxRounds
  /\ (overlap /\ steps > 0 /\ ~Single) => steps + Cardinality(Left) < MaxRounds
  /\ (overlap /\ steps = 0) => /\ turn = "top" /\ lost = {} /\ Saved = {}
                               /\ \A e \in Envs : env[e].st \in {"off", "ready"}
  /\ Single => \A e, f \in Active : e = f
  /\ (Single /\ overlap /\ turn = "handled") => In("infer") = {}
  /\ stop => overlap /\ Left = {} /\ In("infer") = {}

\* An env that is at work has its own actions only.
OwnQueues ==
  /\ mixed = {}
  /\ \A e \in Active : \A i \in DOMAIN queue[Owner(e)][e] : queue[Owner(e)][e][i] = env[e].item
  /\ \A e \in In("step") : env[e].act = env[e].item

Ledger ==
  /\ Counts /\ OwnQueues
  /\ phase = "loop" => Account /\ Pace
  /\ RunCollects

-----------------------------------------------------------------------------
(* Sets that are counted.                                                  *)

LEMMA Sizes == /\ Horizon \in Nat \ {0} /\ NumItems \in Nat \ {0} /\ NumEnvs \in Nat \ {0}
               /\ MaxRespawns \in Nat /\ NumInfer \in Nat \ {0} /\ Chunk \in Nat \ {0}
BY SizesAssumption

\* What is open or left is finite.
LEMMA Countable ==
  ASSUME IInv, Counts
  PROVE  /\ IsFiniteSet(Left) /\ Cardinality(Left) \in Nat
         /\ IsFiniteSet(Open) /\ Cardinality(Open) \in Nat /\ Open \subseteq Items
         /\ MaxRounds \in Nat /\ Begun \in Nat
<1>1. IsFiniteSet(Items) /\ IsFiniteSet(1 .. Horizon)
  BY Sizes, FS_Interval DEF Items
<1>2. IsFiniteSet(Items \X (1 .. Horizon))
  BY <1>1, FS_Product
<1>3. Left \in SUBSET (Items \X (1 .. Horizon))
  BY DEF Left
<1>4. IsFiniteSet(Left)
  BY <1>2, <1>3, FS_Subset
<1>5. Open \in SUBSET Items
  BY DEF Open, LiveItems, IInv, Shape, Claims, Counts
<1>6. IsFiniteSet(Open)
  BY <1>1, <1>5, FS_Subset
<1>7. target \in Nat /\ steps \in Nat
  BY Sizes DEF Counts
<1>8. MaxRounds \in Nat /\ Begun \in Nat
  BY <1>7, Sizes DEF MaxRounds, Begun
<1> QED BY <1>4, <1>5, <1>6, <1>8, FS_CardinalityType

\* A token is left to a pending item or to the env that has the item.
LEMMA InLeft ==
  ASSUME NEW i \in Items, NEW n \in 1 .. Horizon
  PROVE  <<i, n>> \in Left <=>
           i \in pending \/ \E e \in Envs : Live(e) /\ env[e].item = i /\ n <= LeftOf(e)
BY DEF Left, LeftTo

\* The steps that are left to an env.
LEMMA LeftRange ==
  ASSUME IInv, Counts, NEW e \in Envs
  PROVE  /\ LeftOf(e) \in Int /\ LeftOf(e) <= Horizon
         /\ Live(e) => LeftOf(e) \in 0 .. Horizon
         /\ env[e].st = "ready" \/ (env[e].st = "back" /\ ~env[e].over) => LeftOf(e) >= 1
<1>1. env[e].taken \in Nat /\ Horizon \in Nat \ {0}
  BY Sizes DEF IInv, Shape, EnvRecords
<1>2. env[e].taken <= Horizon /\ (AtWork(e) => ~env[e].over /\ env[e].taken < Horizon)
  BY DEF Counts
<1>3. Live(e) => AtWork(e) \/ env[e].over
  BY DEF IInv, Stages, Live, AtWork, Shape, EnvRecords, EnvStates
<1> QED BY <1>1, <1>2, <1>3 DEF LeftOf, Flying, AtWork

\* Tokens are used up as long as no env goes back behind its count.
LEMMA LeftShrinks ==
  ASSUME IInv, Counts, IInv', Counts', pending' \subseteq pending,
         \A e \in Envs : Live(e)' =>
            \/ env'[e].item \in pending
            \/ Live(e) /\ env'[e].item = env[e].item /\ LeftOf(e)' <= LeftOf(e)
  PROVE  Left' \subseteq Left /\ Cardinality(Left') <= Cardinality(Left)
<1>1. ASSUME NEW i \in Items, NEW n \in 1 .. Horizon, <<i, n>> \in Left'
      PROVE  <<i, n>> \in Left
  <2>1. i \in pending' \/ \E e \in Envs : Live(e)' /\ env'[e].item = i /\ n <= LeftOf(e)'
    BY <1>1 DEF Left, LeftTo
  <2>2. CASE i \in pending'
    BY <2>2, InLeft
  <2>3. ASSUME NEW e \in Envs, Live(e)', env'[e].item = i, n <= LeftOf(e)'
        PROVE  <<i, n>> \in Left
    <3>1. LeftOf(e) \in Int /\ LeftOf(e)' \in Int
      BY Sizes DEF IInv, Shape, EnvRecords, LeftOf, Flying
    <3> QED BY <2>3, <3>1, InLeft
  <2> QED BY <2>1, <2>2, <2>3
<1>2. Left' \subseteq Left
  <2>1. \A x \in Left' : x \in Items \X (1 .. Horizon)
    BY DEF Left
  <2>2. \A x \in Left' : x = <<x[1], x[2]>> /\ x[1] \in Items /\ x[2] \in 1 .. Horizon
    BY <2>1
  <2> QED BY <2>2, <1>1
<1> QED BY <1>2, Countable, FS_Subset

\* The token of the step an env takes up is used.
LEMMA TokenGone ==
  ASSUME IInv, Counts, IInv', NEW e \in Envs, Live(e), Live(e)', env'[e].item = env[e].item,
         LeftOf(e) >= 1, LeftOf(e)' < LeftOf(e)
  PROVE  <<env[e].item, LeftOf(e)>> \in Left \ Left'
<1> DEFINE i == env[e].item
           n == LeftOf(e)
<1>1. i \in Items /\ n \in 1 .. Horizon
  BY LeftRange DEF IInv, Claims
<1>2. <<i, n>> \in Left
  <2>1. n <= LeftOf(e)
    BY <1>1
  <2> QED BY <1>1, <2>1, InLeft
<1>3. i \notin pending'
  BY DEF IInv, Claims
<1>4. \A f \in Envs : Live(f)' /\ env'[f].item = i => f = e
  BY DEF IInv, Claims
<1>5. ~(n <= LeftOf(e)')
  <2>1. LeftOf(e)' \in Int
    BY Sizes DEF IInv, Shape, EnvRecords, LeftOf, Flying
  <2> QED BY <1>1, <2>1
<1> HIDE DEF i, n
<1>6. <<i, n>> \notin Left'
  BY <1>1, <1>3, <1>4, <1>5 DEF Left, LeftTo
<1> QED BY <1>2, <1>6 DEF i, n

\* One or two tokens less.
LEMMA FewerLeft ==
  ASSUME IInv, Counts, Left' \subseteq Left, NEW x \in Left \ Left'
  PROVE  /\ Cardinality(Left') + 1 <= Cardinality(Left)
         /\ \A y \in Left \ Left' : y # x => Cardinality(Left') + 2 <= Cardinality(Left)
<1>1. IsFiniteSet(Left) /\ Cardinality(Left) \in Nat
  BY Countable
<1>2. IsFiniteSet(Left \ {x}) /\ Cardinality(Left \ {x}) = Cardinality(Left) - 1
  BY <1>1, FS_RemoveElement
<1>3. IsFiniteSet(Left') /\ Cardinality(Left') <= Cardinality(Left \ {x}) /\ Cardinality(Left') \in Nat
  <2>1. Left' \in SUBSET (Left \ {x})
    OBVIOUS
  <2> QED BY <2>1, <1>2, FS_Subset, FS_CardinalityType
<1>4. ASSUME NEW y \in Left \ Left', y # x
      PROVE  Cardinality(Left') + 2 <= Cardinality(Left)
  <2>1. IsFiniteSet((Left \ {x}) \ {y}) /\ Cardinality((Left \ {x}) \ {y}) = Cardinality(Left) - 2
    <3>1. y \in Left \ {x}
      BY <1>4
    <3>2. /\ IsFiniteSet((Left \ {x}) \ {y})
          /\ Cardinality((Left \ {x}) \ {y}) = Cardinality(Left \ {x}) - 1
      BY <1>2, <3>1, FS_RemoveElement
    <3> QED BY <1>1, <1>2, <3>2
  <2>2. Left' \in SUBSET ((Left \ {x}) \ {y})
    BY <1>4
  <2>3. Cardinality(Left') <= Cardinality((Left \ {x}) \ {y})
    BY <2>1, <2>2, FS_Subset
  <2> QED BY <2>1, <2>3, <1>1, <1>3
<1> QED BY <1>1, <1>2, <1>3, <1>4

-----------------------------------------------------------------------------
(* What the counts say of the run.                                         *)

\* Nothing is open once as many demos are dumped as the launch set out to get.
LEMMA NothingOpen ==
  ASSUME IInv, Counts, Account, Collected >= target
  PROVE  /\ Open = {} /\ pending = {} /\ lost = {} /\ Left = {}
         /\ \A e \in Envs : ~Live(e)
<1>1. Collected \in Nat /\ target \in Nat
  BY FS_CardinalityType, Sizes DEF Account, Collected, Counts
<1>2. Cardinality(Open) = 0
  BY <1>1, Countable DEF Account
<1>3. Open = {}
  BY <1>2, Countable, FS_EmptySet
<1>4. pending = {} /\ lost = {} /\ \A e \in Envs : ~Live(e)
  BY <1>3 DEF Open, LiveItems
<1>5. Left = {}
  BY <1>4 DEF Left, LeftTo
<1> QED BY <1>3, <1>4, <1>5

\* When no step is left, no env has one to take.
LEMMA NothingLeft ==
  ASSUME IInv, Counts, Left = {}
  PROVE  /\ pending = {}
         /\ \A e \in Envs : env[e].st # "ready" /\ ~(env[e].st = "back" /\ ~env[e].over)
<1>1. 1 \in 1 .. Horizon
  BY Sizes
<1>2. pending = {}
  BY <1>1, InLeft DEF IInv, Shape
<1>3. ASSUME NEW e \in Envs, env[e].st = "ready" \/ (env[e].st = "back" /\ ~env[e].over)
      PROVE  FALSE
  <2>1. Live(e) /\ env[e].item \in Items
    BY <1>3 DEF Live, IInv, Claims
  <2>2. 1 <= LeftOf(e)
    BY <1>3, LeftRange
  <2> QED BY <2>1, <2>2, <1>1, InLeft
<1> QED BY <1>2, <1>3

\* What is owed stays the same if every env keeps its item.
LEMMA SameItems ==
  ASSUME pending' = pending, lost' = lost,
         \A e \in Envs : /\ Live(e)' <=> Live(e)
                         /\ Live(e) => env'[e].item = env[e].item
  PROVE  LiveItems' = LiveItems /\ Open' = Open
<1>1. LiveItems' = LiveItems
  BY DEF LiveItems
<1> QED BY <1>1 DEF Open

LEMMA AccountKept ==
  ASSUME Account, Open' = Open, UNCHANGED <<size, target>>, CompleteItems' = CompleteItems,
         lost' \cap (pending' \cup LiveItems') = {},
         (\E e \in Envs : env'[e].st = "off") => pending' = {}
  PROVE  Account'
<1>1. Saved' = Saved
  BY DEF Saved
<1>2. Collected' = Collected
  BY <1>1 DEF Collected
<1> QED BY <1>1, <1>2 DEF Account

\* The driver stays as far behind if it counts nothing and no env gains a step.
LEMMA PaceKept ==
  ASSUME IInv, Counts, Pace, Counts', IInv',
         UNCHANGED <<overlap, target>>, overlap => steps' = steps /\ steps > 0, Begun' = Begun,
         Left' \subseteq Left, Cardinality(Left') <= Cardinality(Left),
         \A e \in Envs : env[e].st = "off" => env'[e].st = "off",
         In("infer")' \subseteq In("infer"),
         stop' => stop \/ (overlap /\ Left' = {} /\ In("infer")' = {}),
         overlap /\ turn' = "handled" /\ Single => turn = "handled" \/ In("infer")' = {}
  PROVE  Pace'
<1>1. Single' = Single /\ MaxRounds' = MaxRounds /\ Active' \subseteq Active
  BY DEF Single, MaxRounds, Active
<1>2. /\ Cardinality(Left) \in Nat /\ MaxRounds \in Nat /\ Begun \in Nat /\ steps \in Nat
      /\ Cardinality(Left') \in Nat
  <2>1. Cardinality(Left') \in Nat
    BY Countable, FS_Subset, FS_CardinalityType
  <2> QED BY <2>1, Countable DEF Counts
<1>3. Begun' + Cardinality(Left') <= MaxRounds'
  BY <1>1, <1>2 DEF Pace
<1>4. (overlap' /\ steps' > 0 /\ ~Single') => steps' + Cardinality(Left') < MaxRounds'
  BY <1>1, <1>2 DEF Pace
<1>5. ~(overlap' /\ steps' = 0)
  BY <1>2
<1>6. Single' => \A e, f \in Active' : e = f
  BY <1>1 DEF Pace
<1>7. (Single' /\ overlap' /\ turn' = "handled") => In("infer")' = {}
  BY <1>1 DEF Pace
<1>8. stop' => overlap' /\ Left' = {} /\ In("infer")' = {}
  BY DEF Pace
<1> QED BY <1>3, <1>4, <1>5, <1>6, <1>7, <1>8 DEF Pace

\* In an overlapped run that has not begun a batch nobody is at work.
LEMMA BatchBegun ==
  ASSUME Counts, Pace, overlap, \/ \E e \in Envs : env[e].st \notin {"off", "ready"}
                                \/ turn # "top"
  PROVE  steps > 0
BY DEF Pace, Counts

-----------------------------------------------------------------------------
(* Steps of the env workers.                                               *)

LEMMA StepEnvLedger ==
  ASSUME IInv, Ledger, NEW e \in Envs, StepEnv(e)
  PROVE  Ledger'
<1>1. IInv' /\ CompleteItems' = CompleteItems
  BY StepEnvKeeps
<1>2. /\ env[e].st = "step" /\ phase = "loop" /\ Account /\ Pace /\ Counts /\ OwnQueues
      /\ mixed' = (IF env[e].act = env[e].item THEN mixed ELSE mixed \cup {e})
      /\ UNCHANGED <<phase, overlap, turn, pending, target, steps, stop, respawns, queue, lost,
                     dumps, writer, shard, size, job, reward, hidden, manifest, kept, launches>>
  BY DEF StepEnv, driver, dumpers, disk, IInv, Stages, Ledger
<1>3. env \in [Envs -> EnvRecords] /\ env[e] \in EnvRecords
  BY DEF IInv, Shape
<1>4. PICK over \in BOOLEAN :
        /\ Truncated(env[e].taken + 1) => over
        /\ env' = [env EXCEPT ![e].taken = @ + 1, ![e].act = NoItem, ![e].over = over,
                              ![e].st = IF over THEN "dump" ELSE "back"]
  BY DEF StepEnv
<1>5. /\ env'[e].taken = env[e].taken + 1 /\ env'[e].over = over
      /\ env'[e].st = (IF over THEN "dump" ELSE "back")
      /\ env'[e].item = env[e].item
  BY <1>3, <1>4 DEF EnvRecords
<1>6. \A f \in Envs : f # e => env'[f] = env[f]
  BY <1>3, <1>4
<1>7. Live(e) /\ Live(e)'
  BY <1>2, <1>5 DEF Live
<1>8. env[e].taken \in Nat /\ Horizon \in Nat /\ ~env[e].over /\ env[e].taken < Horizon
  BY <1>2, <1>3, Sizes DEF Counts, AtWork, EnvRecords
<1>9. Counts'
  <2>1. env'[e].taken <= Horizon /\ (AtWork(e)' => ~env'[e].over /\ env'[e].taken < Horizon)
    BY <1>4, <1>5, <1>8 DEF AtWork, Truncated
  <2>2. \A f \in Envs : env'[f].taken <= Horizon /\ (AtWork(f)' => ~env'[f].over /\ env'[f].taken < Horizon)
    BY <1>2, <1>6, <2>1 DEF Counts, AtWork
  <2>3. MaxRounds' = MaxRounds
    BY <1>2 DEF MaxRounds
  <2> QED BY <1>2, <2>2, <2>3 DEF Counts
<1>10. OwnQueues'
  <2>1. mixed' = {}
    BY <1>2 DEF OwnQueues, In
  <2>2. \A f \in Envs : /\ Owner(f)' = Owner(f) /\ env'[f].item = env[f].item
                        /\ env'[f].st = "step" => f # e
                        /\ env'[f].st # "off" => env[f].st # "off"
    BY <1>2, <1>5, <1>6 DEF Owner
  <2> QED BY <2>1, <2>2, <1>2, <1>6 DEF OwnQueues, Active, In
<1>11. \A f \in Envs : (Live(f)' <=> Live(f)) /\ (Live(f) => env'[f].item = env[f].item)
  BY <1>5, <1>6, <1>7 DEF Live
<1>12. Account'
  BY <1>1, <1>2, <1>5, <1>6, <1>11, SameItems, AccountKept DEF Account
<1>13. Left' \subseteq Left /\ Cardinality(Left') <= Cardinality(Left)
  <2>1. LeftOf(e)' <= LeftOf(e)
    BY <1>2, <1>5, <1>8 DEF LeftOf, Flying
  <2>2. \A f \in Envs : f # e => LeftOf(f)' = LeftOf(f)
    BY <1>6 DEF LeftOf, Flying
  <2>3. ASSUME NEW f \in Envs, Live(f)'
        PROVE  Live(f) /\ env'[f].item = env[f].item /\ LeftOf(f)' <= LeftOf(f)
    <3>1. LeftOf(f) \in Int
      BY <1>2, LeftRange
    <3> QED BY <3>1, <2>1, <2>2, <2>3, <1>11
  <2> QED BY <2>3, <1>1, <1>2, <1>9, LeftShrinks
<1>14. Pace'
  <2>1. overlap => steps > 0
    BY <1>2, BatchBegun
  <2>2. Begun' = Begun
    BY <1>2 DEF Begun
  <2>3. \A f \in Envs : env[f].st = "off" => env'[f].st = "off"
    BY <1>2, <1>6
  <2>4. In("infer")' \subseteq In("infer")
    BY <1>5, <1>6 DEF In
  <2> QED BY <2>1, <2>2, <2>3, <2>4, <1>1, <1>2, <1>9, <1>13, PaceKept
<1> QED BY <1>2, <1>9, <1>10, <1>12, <1>14 DEF Ledger, RunCollects

LEMMA RespawnLedger ==
  ASSUME IInv, Ledger, NEW e \in Envs, Respawn(e)
  PROVE  Ledger'
<1>1. IInv' /\ CompleteItems' = CompleteItems
  BY RespawnKeeps
<1>2. /\ env[e].st = "step" /\ phase = "loop" /\ Account /\ Pace /\ Counts /\ OwnQueues
      /\ respawns[e] < MaxRespawns /\ respawns' = [respawns EXCEPT ![e] = @ + 1]
      /\ lost' = lost \cup {env[e].item}
      /\ env' = [env EXCEPT ![e].over = TRUE, ![e].st = "back"]
      /\ UNCHANGED <<phase, overlap, turn, pending, target, steps, stop, queue, mixed,
                     dumps, writer, shard, size, job, reward, hidden, manifest, kept, launches>>
  BY DEF Respawn, driver, dumpers, disk, IInv, Stages, Ledger
<1>3. env \in [Envs -> EnvRecords] /\ env[e] \in EnvRecords
  BY DEF IInv, Shape
<1>4. /\ env'[e].taken = env[e].taken /\ env'[e].over = TRUE /\ env'[e].st = "back"
      /\ env'[e].item = env[e].item
  BY <1>2, <1>3 DEF EnvRecords
<1>5. \A f \in Envs : f # e => env'[f] = env[f]
  BY <1>2, <1>3
<1>6. Live(e) /\ ~Live(e)' /\ env[e].item \in Items \ (pending \cup CompleteItems)
  BY <1>2, <1>4 DEF Live, IInv, Claims
<1>7. \A f \in Envs : f # e => (Live(f)' <=> Live(f)) /\ (Live(f) => env'[f].item = env[f].item)
  BY <1>5 DEF Live
<1>8. Counts'
  <2>1. \A f \in Envs : env'[f].taken <= Horizon /\ (AtWork(f)' => ~env'[f].over /\ env'[f].taken < Horizon)
    BY <1>2, <1>4, <1>5 DEF Counts, AtWork
  <2>2. MaxRounds' = MaxRounds
    BY <1>2 DEF MaxRounds
  <2>3. respawns' \in [Envs -> 0 .. MaxRespawns]
    BY <1>2, Sizes DEF Counts
  <2>4. lost' \subseteq Items
    BY <1>2, <1>6 DEF Counts
  <2> QED BY <1>2, <2>1, <2>2, <2>3, <2>4 DEF Counts
<1>9. OwnQueues'
  <2>1. \A f \in Envs : /\ Owner(f)' = Owner(f) /\ env'[f].item = env[f].item
                        /\ env'[f].st = "step" => f # e
                        /\ env'[f].st # "off" => env[f].st # "off"
    BY <1>2, <1>4, <1>5 DEF Owner
  <2>2. OwnQueues /\ UNCHANGED <<mixed, queue>>
    BY <1>2
  <2> QED BY <2>1, <2>2, <1>5 DEF OwnQueues, Active, In
<1>10. LiveItems = LiveItems' \cup {env[e].item} /\ env[e].item \notin LiveItems'
  <2>1. \A f \in Envs : Live(f)' <=> Live(f) /\ f # e
    BY <1>6, <1>7
  <2>2. \A f \in Envs : Live(f) /\ f # e => env[f].item # env[e].item
    BY <1>6 DEF IInv, Claims
  <2> QED BY <2>1, <2>2, <1>6, <1>7 DEF LiveItems
<1>11. Account'
  <2>1. Open' = Open
    BY <1>2, <1>10 DEF Open
  <2>2. lost' \cap (pending' \cup LiveItems') = {}
    BY <1>2, <1>6, <1>10 DEF Account
  <2> QED BY <2>1, <2>2, <1>1, <1>2, <1>4, <1>5, AccountKept DEF Account
<1>12. Left' \subseteq Left /\ Cardinality(Left') <= Cardinality(Left)
  <2>1. ASSUME NEW f \in Envs, Live(f)'
        PROVE  Live(f) /\ env'[f].item = env[f].item /\ LeftOf(f)' <= LeftOf(f)
    <3>1. f # e
      BY <2>1, <1>6
    <3>2. LeftOf(f)' = LeftOf(f)
      BY <3>1, <1>5 DEF LeftOf, Flying
    <3>3. LeftOf(f) \in Int
      BY <1>2, LeftRange
    <3> QED BY <3>1, <3>2, <3>3, <2>1, <1>7
  <2> QED BY <2>1, <1>1, <1>2, <1>8, LeftShrinks
<1>13. Pace'
  <2>1. overlap => steps > 0
    BY <1>2, BatchBegun
  <2>2. Begun' = Begun
    BY <1>2 DEF Begun
  <2>3. \A f \in Envs : env[f].st = "off" => env'[f].st = "off"
    BY <1>2, <1>5
  <2>4. In("infer")' \subseteq In("infer")
    BY <1>4, <1>5 DEF In
  <2> QED BY <2>1, <2>2, <2>3, <2>4, <1>1, <1>2, <1>8, <1>12, PaceKept
<1> QED BY <1>2, <1>8, <1>9, <1>11, <1>13 DEF Ledger, RunCollects

-----------------------------------------------------------------------------
(* Steps of the dump workers.                                              *)

\* What happens to files alone leaves the ledger as it is.
LEMMA LedgerAside ==
  ASSUME Ledger, CompleteItems' = CompleteItems,
         phase' = phase \/ (phase = "manifest" /\ phase' = "done"),
         UNCHANGED <<overlap, turn, pending, target, steps, stop, env, respawns, queue,
                     mixed, lost, size>>
  PROVE  Ledger'
<1>1. Left' = Left /\ LiveItems' = LiveItems /\ Open' = Open /\ Active' = Active
  BY DEF Left, LeftTo, LeftOf, Flying, Live, LiveItems, Open, Active
<1>2. Saved' = Saved /\ Collected' = Collected
  BY DEF Saved, Collected
<1>3. Counts'
  BY DEF Ledger, Counts, MaxRounds, AtWork
<1>4. OwnQueues'
  BY <1>1 DEF Ledger, OwnQueues, Owner, In
<1>5. phase' = "loop" => Account'
  BY <1>1, <1>2 DEF Ledger, Account
<1>6. phase' = "loop" => Pace'
  BY <1>1, <1>2 DEF Ledger, Pace, Begun, MaxRounds, Single, In
<1> QED BY <1>3, <1>4, <1>5, <1>6 DEF Ledger, RunCollects

LEMMA AddEpisodeLedger ==
  ASSUME IInv, Ledger, NEW e \in Envs, AddEpisode(e)
  PROVE  Ledger'
BY AddEpisodeKeeps, LedgerAside DEF AddEpisode, driver, workers

LEMMA RenameRewardLedger ==
  ASSUME IInv, Ledger, NEW d \in Ranks, RenameReward(d)
  PROVE  Ledger'
BY RenameRewardKeeps, LedgerAside DEF RenameReward, driver, workers

\* One more demo is one more counted.
LEMMA OneMoreSaved ==
  ASSUME Counts, IsFiniteSet(Saved), NEW d \in Ranks, size' = [size EXCEPT ![d] = @ + 1]
  PROVE  IsFiniteSet(Saved') /\ Collected' = Collected + 1
<1>1. size \in [Ranks -> Nat] /\ size[d] \in Nat
  BY DEF Counts
<1> DEFINE x == <<d, size[d] + 1>>
<1>2. Saved' = Saved \cup {x}
  <2>1. \A r \in Ranks : r # d => size'[r] = size[r]
    BY <1>1
  <2>2. size'[d] = size[d] + 1
    BY <1>1
  <2>3. 1 .. size'[d] = (1 .. size[d]) \cup {size[d] + 1}
    BY <1>1, <2>2
  <2>4. {d} \X (1 .. size'[d]) = ({d} \X (1 .. size[d])) \cup {x}
    BY <2>3
  <2> HIDE DEF x
  <2>5. \A y : y \in Saved' <=> \E r \in Ranks : y \in {r} \X (1 .. size'[r])
    BY DEF Saved
  <2>6. \A y : y \in Saved <=> \E r \in Ranks : y \in {r} \X (1 .. size[r])
    BY DEF Saved
  <2>7. ASSUME NEW y
        PROVE  y \in Saved' <=> y \in Saved \/ y = x
    <3>1. ASSUME y \in Saved'
          PROVE  y \in Saved \/ y = x
      <4>1. PICK r \in Ranks : y \in {r} \X (1 .. size'[r])
        BY <3>1, <2>5
      <4>2. CASE r = d
        BY <4>1, <4>2, <2>4, <2>6
      <4>3. CASE r # d
        <5>1. {r} \X (1 .. size'[r]) = {r} \X (1 .. size[r])
          BY <4>3, <2>1
        <5> QED BY <4>1, <5>1, <2>6
      <4> QED BY <4>2, <4>3
    <3>2. ASSUME y \in Saved
          PROVE  y \in Saved'
      <4>1. PICK r \in Ranks : y \in {r} \X (1 .. size[r])
        BY <3>2, <2>6
      <4>2. CASE r = d
        BY <4>1, <4>2, <2>4, <2>5
      <4>3. CASE r # d
        <5>1. {r} \X (1 .. size'[r]) = {r} \X (1 .. size[r])
          BY <4>3, <2>1
        <5> QED BY <4>1, <5>1, <2>5
      <4> QED BY <4>2, <4>3
    <3>3. ASSUME y = x
          PROVE  y \in Saved'
      BY <3>3, <2>4, <2>5
    <3> QED BY <3>1, <3>2, <3>3
  <2> QED BY <2>7
<1>3. x \notin Saved
  <2>1. ASSUME NEW r \in Ranks, x \in {r} \X (1 .. size[r])
        PROVE  FALSE
    <3>1. r = d /\ size[d] + 1 \in 1 .. size[r]
      BY <2>1
    <3> QED BY <3>1, <1>1
  <2> HIDE DEF x
  <2> QED BY <2>1 DEF Saved
<1> HIDE DEF x
<1>4. IsFiniteSet(Saved \cup {x}) /\ Cardinality(Saved \cup {x}) = Cardinality(Saved) + 1
  BY <1>3, FS_AddElement
<1> QED BY <1>2, <1>4 DEF Collected

LEMMA RenameHiddenLedger ==
  ASSUME IInv, Ledger, NEW d \in Ranks, RenameHidden(d)
  PROVE  Ledger'
<1>0. PICK e \in Envs, i \in Items : e = JobEnv(d) /\ i = env[e].item
  BY JobFacts DEF RenameHidden
<1>1. IInv' /\ CompleteItems' = CompleteItems \cup {i}
  BY <1>0, RenameHiddenKeeps
<1>2. /\ job[d] # <<>> /\ phase = "loop" /\ Account /\ Pace /\ Counts /\ OwnQueues
      /\ env' = [env EXCEPT ![e].st = "back"] /\ size' = [size EXCEPT ![d] = @ + 1]
      /\ UNCHANGED <<phase, overlap, turn, pending, target, steps, stop, respawns, queue, mixed,
                     lost, dumps, reward, manifest, launches>>
  BY <1>0, JobFacts DEF RenameHidden, driver, Ledger
<1>3. /\ Live(e) /\ i \in Items \ (pending \cup CompleteItems)
      /\ env[e].st = "dump" /\ env[e].over
  BY <1>0, <1>2, JobFacts DEF IInv, Calls, Call, Stages
<1>4. env \in [Envs -> EnvRecords] /\ env[e] \in EnvRecords
  BY <1>3 DEF IInv, Shape
<1>5. /\ env'[e].taken = env[e].taken /\ env'[e].over /\ env'[e].st = "back"
      /\ env'[e].item = env[e].item
  BY <1>2, <1>3, <1>4 DEF EnvRecords
<1>6. \A f \in Envs : f # e => env'[f] = env[f]
  BY <1>2, <1>4
<1>7. ~Live(e)' /\ \A f \in Envs : f # e => (Live(f)' <=> Live(f)) /\ (Live(f) => env'[f].item = env[f].item)
  BY <1>5, <1>6 DEF Live
<1>8. Counts'
  <2>1. \A f \in Envs : env'[f].taken <= Horizon /\ (AtWork(f)' => ~env'[f].over /\ env'[f].taken < Horizon)
    BY <1>2, <1>5, <1>6 DEF Counts, AtWork
  <2>2. MaxRounds' = MaxRounds
    BY <1>2 DEF MaxRounds
  <2>3. size' \in [Ranks -> Nat]
    BY <1>2 DEF Counts
  <2> QED BY <1>2, <2>1, <2>2, <2>3 DEF Counts
<1>9. OwnQueues'
  <2>1. \A f \in Envs : /\ Owner(f)' = Owner(f) /\ env'[f].item = env[f].item
                        /\ env'[f].st = "step" => f # e
                        /\ env'[f].st # "off" => env[f].st # "off"
    BY <1>2, <1>3, <1>5, <1>6 DEF Owner
  <2>2. OwnQueues /\ UNCHANGED <<mixed, queue>>
    BY <1>2
  <2> QED BY <2>1, <2>2, <1>6 DEF OwnQueues, Active, In
<1>10. LiveItems = LiveItems' \cup {i} /\ i \notin LiveItems'
  <2>1. \A f \in Envs : Live(f)' <=> Live(f) /\ f # e
    BY <1>3, <1>7
  <2>2. \A f \in Envs : Live(f) /\ f # e => env[f].item # i
    BY <1>0, <1>3 DEF IInv, Claims
  <2> QED BY <2>1, <2>2, <1>0, <1>3, <1>7 DEF LiveItems
<1>11. Account'
  <2>1. i \notin lost /\ i \in Open
    BY <1>2, <1>10 DEF Account, Open
  <2>2. Open' = Open \ {i}
    BY <2>1, <1>2, <1>3, <1>10 DEF Open
  <2>3. Cardinality(Open') = Cardinality(Open) - 1 /\ Cardinality(Open) \in Nat
    BY <2>1, <2>2, <1>2, Countable, FS_RemoveElement
  <2>4. IsFiniteSet(Saved') /\ Collected' = Collected + 1
    BY <1>2, OneMoreSaved DEF Account
  <2>5. Collected \in Nat
    BY <1>2, FS_CardinalityType DEF Account, Collected
  <2>6. Collected' + Cardinality(Open') = target'
    BY <2>3, <2>4, <2>5, <1>2 DEF Account
  <2>7. Items \ CompleteItems' \subseteq Open'
    BY <2>2, <1>1, <1>2 DEF Account
  <2>8. lost' \cap (pending' \cup LiveItems') = {}
    BY <1>2, <1>10 DEF Account
  <2>9. (\E f \in Envs : env'[f].st = "off") => pending' = {}
    BY <1>2, <1>5, <1>6 DEF Account
  <2> QED BY <2>4, <2>6, <2>7, <2>8, <2>9 DEF Account
<1>12. Left' \subseteq Left /\ Cardinality(Left') <= Cardinality(Left)
  <2>1. ASSUME NEW f \in Envs, Live(f)'
        PROVE  Live(f) /\ env'[f].item = env[f].item /\ LeftOf(f)' <= LeftOf(f)
    <3>1. f # e
      BY <2>1, <1>7
    <3>2. LeftOf(f)' = LeftOf(f)
      BY <3>1, <1>6 DEF LeftOf, Flying
    <3>3. LeftOf(f) \in Int
      BY <1>2, LeftRange
    <3> QED BY <3>1, <3>2, <3>3, <2>1, <1>7
  <2> QED BY <2>1, <1>1, <1>2, <1>8, LeftShrinks
<1>13. Pace'
  <2>1. overlap => steps > 0
    BY <1>2, <1>3, BatchBegun
  <2>2. Begun' = Begun
    BY <1>2 DEF Begun
  <2>3. \A f \in Envs : env[f].st = "off" => env'[f].st = "off"
    BY <1>3, <1>6
  <2>4. In("infer")' \subseteq In("infer")
    BY <1>5, <1>6 DEF In
  <2> QED BY <2>1, <2>2, <2>3, <2>4, <1>1, <1>2, <1>8, <1>12, PaceKept
<1> QED BY <1>2, <1>8, <1>9, <1>11, <1>13 DEF Ledger, RunCollects

-----------------------------------------------------------------------------
(* Driver and inference: rounds and batches.                               *)

\* Moving envs to another state changes nothing else of them.
LEMMA StatesMoved ==
  ASSUME IInv, NEW es, NEW s, env' = SetStates(es, s)
  PROVE  \A f \in Envs :
           /\ env'[f].item = env[f].item /\ env'[f].taken = env[f].taken
           /\ env'[f].act = env[f].act /\ env'[f].over = env[f].over
           /\ env'[f].st = IF f \in es THEN s ELSE env[f].st
<1>1. ASSUME NEW f \in Envs
      PROVE  /\ env'[f].item = env[f].item /\ env'[f].taken = env[f].taken
             /\ env'[f].act = env[f].act /\ env'[f].over = env[f].over
             /\ env'[f].st = IF f \in es THEN s ELSE env[f].st
  <2>1. env[f] \in EnvRecords
    BY DEF IInv, Shape
  <2>2. env'[f] = IF f \in es THEN [env[f] EXCEPT !.st = s] ELSE env[f]
    BY DEF SetStates
  <2> QED BY <2>1, <2>2 DEF EnvRecords
<1> QED BY <1>1

\* Moving nobody changes nothing.
LEMMA NobodyMoved ==
  ASSUME IInv, NEW es, es = {}, NEW s
  PROVE  SetStates(es, s) = env
BY DEF SetStates, IInv, Shape

\* Ready envs that take up a step use up a token each.
LEMMA ReadyTakeUp ==
  ASSUME IInv, Ledger, phase = "loop", IInv', CompleteItems' = CompleteItems,
         env' = SetStates(In("ready"), "infer"),
         UNCHANGED <<phase, overlap, pending, target, respawns, queue, mixed, lost, size>>,
         stop' \in BOOLEAN, turn' = "wait", steps' \in Nat, steps' <= MaxRounds
  PROVE  /\ Counts' /\ OwnQueues' /\ Account' /\ Left' \subseteq Left
         /\ Cardinality(Left') <= Cardinality(Left)
         /\ Active' = Active
         /\ \A e \in In("ready") : <<env[e].item, LeftOf(e)>> \in Left \ Left'
<1>1. Counts /\ OwnQueues /\ Account /\ Pace
  BY DEF Ledger
<1>2. \A f \in Envs :
           /\ env'[f].item = env[f].item /\ env'[f].taken = env[f].taken
           /\ env'[f].act = env[f].act /\ env'[f].over = env[f].over
           /\ env'[f].st = IF env[f].st = "ready" THEN "infer" ELSE env[f].st
  BY StatesMoved DEF In
<1>3. \A f \in Envs : (Live(f)' <=> Live(f)) /\ (env'[f].st = "off" <=> env[f].st = "off")
  BY <1>2 DEF Live
<1>4. Counts'
  <2>1. \A f \in Envs : env'[f].taken <= Horizon /\ (AtWork(f)' => ~env'[f].over /\ env'[f].taken < Horizon)
    BY <1>1, <1>2 DEF Counts, AtWork
  <2>2. MaxRounds' = MaxRounds
    BY DEF MaxRounds
  <2> QED BY <1>1, <2>1, <2>2 DEF Counts
<1>5. OwnQueues'
  <2>1. \A f \in Envs : Owner(f)' = Owner(f) /\ (env'[f].st = "step" => env[f].st = "step")
    BY <1>2 DEF Owner
  <2> QED BY <2>1, <1>1, <1>2, <1>3 DEF OwnQueues, Active, In
<1>6. Account'
  <2>1. LiveItems' = LiveItems /\ Open' = Open
    BY <1>2, <1>3, SameItems
  <2> QED BY <2>1, <1>1, <1>3, AccountKept DEF Account
<1>7. ASSUME NEW f \in Envs
      PROVE  /\ LeftOf(f) \in Int /\ LeftOf(f)' <= LeftOf(f)
             /\ env[f].st = "ready" => Live(f) /\ LeftOf(f) >= 1 /\ LeftOf(f)' < LeftOf(f)
  <2>1. LeftOf(f) \in Int /\ env[f].taken \in Nat /\ Horizon \in Nat
    BY <1>1, LeftRange, Sizes DEF IInv, Shape, EnvRecords
  <2>2. LeftOf(f)' <= LeftOf(f)
    BY <1>2, <2>1 DEF LeftOf, Flying
  <2>3. ASSUME env[f].st = "ready"
        PROVE  Live(f) /\ LeftOf(f) >= 1 /\ LeftOf(f)' < LeftOf(f)
    <3>1. Live(f) /\ LeftOf(f) >= 1 /\ ~env[f].over
      BY <2>3, <1>1, LeftRange DEF Live, Counts, AtWork
    <3>2. LeftOf(f)' < LeftOf(f)
      BY <2>3, <2>1, <3>1, <1>2 DEF LeftOf, Flying
    <3> QED BY <3>1, <3>2
  <2> QED BY <2>1, <2>2, <2>3
<1>8. Left' \subseteq Left /\ Cardinality(Left') <= Cardinality(Left)
  BY <1>1, <1>2, <1>3, <1>4, <1>7, LeftShrinks
<1>9. ASSUME NEW e \in In("ready")
      PROVE  <<env[e].item, LeftOf(e)>> \in Left \ Left'
  <2>1. e \in Envs /\ env[e].st = "ready"
    BY DEF In
  <2>2. /\ Live(e) /\ Live(e)' /\ env'[e].item = env[e].item
        /\ LeftOf(e) >= 1 /\ LeftOf(e)' < LeftOf(e)
    BY <2>1, <1>2, <1>3, <1>7
  <2> QED BY <2>1, <2>2, <1>1, TokenGone
<1>10. Active' = Active
  BY <1>3 DEF Active
<1> QED BY <1>4, <1>5, <1>6, <1>8, <1>9, <1>10

LEMMA StartRoundLedger ==
  ASSUME IInv, Ledger, StartRound
  PROVE  Ledger'
<1>1. IInv' /\ CompleteItems' = CompleteItems
  BY StartRoundKeeps
<1>2. /\ phase = "loop" /\ ~overlap /\ turn = "top" /\ turn' = "wait" /\ Active # {}
      /\ env' = SetStates(Active, "infer") /\ Counts /\ Account /\ Pace
      /\ UNCHANGED <<phase, overlap, pending, target, steps, stop, respawns, queue, mixed, lost, size>>
  BY DEF StartRound, RoundsOver, dumpers, Ledger
<1>3. Active = In("ready")
  BY <1>2 DEF IInv, Stages, Active, In
<1>4. /\ Counts' /\ OwnQueues' /\ Account' /\ Left' \subseteq Left /\ Active' = Active
      /\ \A e \in In("ready") : <<env[e].item, LeftOf(e)>> \in Left \ Left'
  <2>1. steps \in Nat /\ steps <= MaxRounds /\ stop' \in BOOLEAN
    BY <1>2 DEF Counts
  <2> QED BY <2>1, <1>1, <1>2, <1>3, ReadyTakeUp
<1>5. Pace'
  <2>1. PICK e \in In("ready") : TRUE
    BY <1>2, <1>3
  <2>2. Cardinality(Left') + 1 <= Cardinality(Left)
    BY <2>1, <1>2, <1>4, FewerLeft
  <2>3. Cardinality(Left) \in Nat /\ Cardinality(Left') \in Nat /\ MaxRounds \in Nat /\ steps \in Nat
    BY <1>2, <1>4, Countable, FS_Subset, FS_CardinalityType DEF Counts
  <2>4. Begun = steps /\ Begun' = steps + 1 /\ MaxRounds' = MaxRounds
    BY <1>2 DEF Begun, MaxRounds
  <2>5. Begun' + Cardinality(Left') <= MaxRounds'
    BY <2>2, <2>3, <2>4, <1>2 DEF Pace
  <2>6. ~overlap' /\ ~stop' /\ (Single' => \A e1, f \in Active' : e1 = f)
    BY <1>2, <1>4 DEF Pace, Single
  <2> QED BY <2>5, <2>6 DEF Pace
<1> QED BY <1>2, <1>4, <1>5 DEF Ledger, RunCollects

\* Two items are open at the start, with two envs to have them.
LEMMA TwoReady ==
  ASSUME IInv, Counts, Account, Pace, overlap, steps = 0, ~Single, Collected < target
  PROVE  \E e, f \in In("ready") : e # f
<1>1. /\ Saved = {} /\ lost = {} /\ (\A e \in Envs : env[e].st \in {"off", "ready"})
      /\ target \in Nat /\ target # 1 /\ NumEnvs \in Nat /\ NumEnvs >= 2
  BY Sizes DEF Pace, Single, Counts
<1>2. Cardinality(Open) = target /\ target >= 2
  <2>1. Collected = 0
    BY <1>1, FS_EmptySet DEF Collected
  <2> QED BY <2>1, <1>1, Countable DEF Account
<1>3. SUFFICES ASSUME \A e, f \in In("ready") : e = f
               PROVE  FALSE
  OBVIOUS
<1>4. PICK g \in Envs : env[g].st = "off"
  <2>1. 0 \in Envs /\ 1 \in Envs
    BY <1>1 DEF Envs
  <2>2. ~(0 \in In("ready") /\ 1 \in In("ready"))
    BY <1>3
  <2> QED BY <2>1, <2>2, <1>1 DEF In
<1>5. pending = {}
  BY <1>4 DEF Account
<1>6. Open = LiveItems /\ Open # {}
  <2>1. Open # {}
    BY <1>2, FS_EmptySet
  <2> QED BY <2>1, <1>1, <1>5 DEF Open
<1>7. PICK e \in Envs : Live(e)
  BY <1>6 DEF LiveItems
<1>8. \A f \in Envs : Live(f) => f = e
  BY <1>1, <1>3, <1>7 DEF In, Live
<1>9. Open = {env[e].item}
  BY <1>6, <1>7, <1>8 DEF LiveItems
<1>10. Cardinality({env[e].item}) = 1
  BY FS_Singleton
<1> QED BY <1>1, <1>2, <1>9, <1>10

\* The batch uses up a token, and two if it is the first and two envs are ready.
LEMMA BatchUsesTokens ==
  ASSUME IInv, Counts, Account, Pace, overlap, CanLaunch, Left' \subseteq Left,
         \A e \in In("ready") : <<env[e].item, LeftOf(e)>> \in Left \ Left'
  PROVE  /\ steps + 1 + Cardinality(Left') <= MaxRounds
         /\ ~Single => steps + 1 + Cardinality(Left') < MaxRounds
<1>1. In("ready") # {} /\ Collected < target /\ Collected \in Nat /\ target \in Nat
  <2>1. Collected \in Nat /\ target \in Nat
    BY FS_CardinalityType DEF Account, Collected, Counts
  <2> QED BY <2>1 DEF CanLaunch, Ready, StopNow
<1>2. PICK e \in In("ready") : TRUE
  BY <1>1
<1>3. Cardinality(Left') + 1 <= Cardinality(Left)
  BY <1>2, FewerLeft
<1>4. Cardinality(Left) \in Nat /\ Cardinality(Left') \in Nat /\ MaxRounds \in Nat /\ steps \in Nat
  BY Countable, FS_Subset, FS_CardinalityType DEF Counts
<1>5. steps + Cardinality(Left) <= MaxRounds
  BY DEF Pace, Begun
<1>6. ASSUME ~Single
      PROVE  steps + 1 + Cardinality(Left') < MaxRounds
  <2>1. CASE steps > 0
    BY <1>3, <1>4, <1>6, <2>1 DEF Pace
  <2>2. CASE steps = 0
    <3>1. PICK f \in In("ready"), g \in In("ready") : f # g
      BY <1>1, <1>6, <2>2, TwoReady
    <3>2. env[f].item # env[g].item
      BY <3>1 DEF IInv, Claims, In, Live
    <3>3. <<env[f].item, LeftOf(f)>> # <<env[g].item, LeftOf(g)>>
      BY <3>2
    <3>4. Cardinality(Left') + 2 <= Cardinality(Left)
      BY <3>1, <3>3, FewerLeft
    <3> QED BY <2>2, <3>4, <1>4, <1>5
  <2> QED BY <2>1, <2>2, <1>4
<1> QED BY <1>3, <1>4, <1>5, <1>6

\* Between batches the driver changes its turn only, and stops when nothing is left.
LEMMA LedgerTurns ==
  ASSUME IInv, Ledger, IInv', CompleteItems' = CompleteItems, phase = "loop", overlap, steps > 0,
         UNCHANGED <<phase, overlap, pending, target, steps, env, respawns, queue, mixed, lost, size>>,
         turn' \in {"top", "wait"}, stop' \in BOOLEAN,
         stop' => Left = {} /\ In("infer") = {}
  PROVE  Ledger'
<1>1. Left' = Left /\ LiveItems' = LiveItems /\ Open' = Open /\ In("infer")' = In("infer")
  BY DEF Left, LeftTo, LeftOf, Flying, Live, LiveItems, Open, In
<1>2. Counts /\ OwnQueues /\ Account /\ Pace /\ Cardinality(Left) \in Nat
  BY Countable DEF Ledger
<1>3. Counts'
  BY <1>2 DEF Counts, MaxRounds, AtWork
<1>4. OwnQueues'
  BY <1>2 DEF OwnQueues, Owner, In, Active
<1>5. Account'
  BY <1>1, <1>2, AccountKept DEF Account
<1>6. Pace'
  <2>1. Begun' = Begun
    BY DEF Begun
  <2> QED BY <2>1, <1>1, <1>2, <1>3, PaceKept
<1> QED BY <1>3, <1>4, <1>5, <1>6 DEF Ledger, RunCollects

LEMMA StartTurnLedger ==
  ASSUME IInv, Ledger, StartTurn
  PROVE  Ledger'
<1>1. IInv' /\ CompleteItems' = CompleteItems
  BY StartTurnKeeps
<1>2. /\ phase = "loop" /\ overlap /\ turn = "top" /\ turn' = "wait" /\ stop' = StopNow
      /\ Counts /\ Account /\ Pace
      /\ UNCHANGED <<phase, overlap, pending, target, respawns, queue, mixed, lost, size>>
  BY DEF StartTurn, dumpers, Ledger
<1>3. stop' \in BOOLEAN /\ steps \in Nat
  BY <1>2 DEF StopNow, Counts
<1>4. CASE CanLaunch
  <2>1. /\ env' = SetStates(In("ready"), "infer") /\ steps' = steps + 1 /\ ~stop' /\ steps < MaxRounds
    BY <1>2, <1>4 DEF StartTurn, CanLaunch, Ready
  <2>2. steps' \in Nat /\ steps' <= MaxRounds /\ MaxRounds \in Nat
    BY <1>2, <1>3, <2>1, Countable
  <2>3. /\ Counts' /\ OwnQueues' /\ Account' /\ Left' \subseteq Left /\ Active' = Active
        /\ \A e \in In("ready") : <<env[e].item, LeftOf(e)>> \in Left \ Left'
    BY <1>1, <1>2, <1>3, <2>1, <2>2, ReadyTakeUp
  <2>4. Pace'
    <3>1. Single' = Single /\ MaxRounds' = MaxRounds /\ Begun' = steps + 1
      BY <1>2, <2>1 DEF Single, MaxRounds, Begun
    <3>2. /\ steps + 1 + Cardinality(Left') <= MaxRounds
          /\ ~Single => steps + 1 + Cardinality(Left') < MaxRounds
      BY <1>2, <1>4, <2>3, BatchUsesTokens
    <3>3. steps' # 0
      BY <1>3, <2>1
    <3>4. Single' => \A e, f \in Active' : e = f
      BY <1>2, <2>3, <3>1 DEF Pace
    <3> QED BY <1>2, <2>1, <3>1, <3>2, <3>3, <3>4 DEF Pace
  <2> QED BY <1>2, <2>3, <2>4 DEF Ledger, RunCollects
<1>5. CASE ~CanLaunch
  <2>1. steps' = steps /\ env' = (IF StopNow THEN SetStates(In("ready"), "off") ELSE env) /\ Busy # {}
    BY <1>2, <1>5 DEF StartTurn
  <2>2. steps > 0
    <3>1. \E e \in Envs : env[e].st \notin {"off", "ready"}
      BY <2>1 DEF Busy, In
    <3> QED BY <3>1, <1>2, BatchBegun
  <2>3. StopNow => Left = {} /\ In("infer") = {} /\ In("ready") = {}
    <3>1. CASE stop
      BY <1>2, <3>1, NothingLeft DEF Pace, In
    <3>2. CASE Collected >= target
      BY <1>2, <3>2, NothingOpen DEF In, Live
    <3> QED BY <3>1, <3>2 DEF StopNow
  <2>4. env' = env
    BY <2>1, <2>3, NobodyMoved
  <2> QED BY <1>1, <1>2, <1>3, <2>1, <2>2, <2>3, <2>4, LedgerTurns
<1> QED BY <1>4, <1>5

LEMMA EndTurnLedger ==
  ASSUME IInv, Ledger, EndTurn
  PROVE  Ledger'
<1>1. IInv' /\ CompleteItems' = CompleteItems
  BY EndTurnKeeps
<1>2. /\ phase = "loop" /\ overlap /\ turn = "handled" /\ turn' = "top"
      /\ stop' = (stop \/ LimitReached(steps))
      /\ env' = IF LimitReached(steps) THEN SetStates(In("ready"), "off") ELSE env
      /\ Counts /\ Account /\ Pace
      /\ UNCHANGED <<phase, overlap, pending, target, steps, respawns, queue, mixed, lost, size>>
  BY DEF EndTurn, dumpers, Ledger
<1>3. steps > 0
  BY <1>2, BatchBegun
<1>4. LimitReached(steps) => Left = {} /\ In("infer") = {}
  <2>1. SUFFICES ASSUME steps >= MaxRounds
                 PROVE  Left = {} /\ In("infer") = {}
    BY DEF LimitReached
  <2>2. /\ Cardinality(Left) \in Nat /\ IsFiniteSet(Left) /\ MaxRounds \in Nat /\ steps \in Nat
        /\ steps + Cardinality(Left) <= MaxRounds
    BY <1>2, Countable DEF Pace, Begun, Counts
  <2>3. Cardinality(Left) = 0 /\ Single
    BY <2>1, <2>2, <1>2, <1>3 DEF Pace
  <2> QED BY <2>2, <2>3, <1>2, FS_EmptySet DEF Pace
<1>5. stop' => Left = {} /\ In("infer") = {}
  BY <1>2, <1>4 DEF Pace
<1>6. env' = env
  <2>1. LimitReached(steps) => In("ready") = {}
    BY <1>2, <1>4, NothingLeft DEF In
  <2> QED BY <2>1, <1>2, NobodyMoved
<1>7. stop' \in BOOLEAN
  BY <1>2 DEF Counts, LimitReached
<1> QED BY <1>1, <1>2, <1>3, <1>5, <1>6, <1>7, LedgerTurns

LEMMA InferLedger ==
  ASSUME IInv, Ledger, Infer
  PROVE  Ledger'
<1>1. IInv' /\ CompleteItems' = CompleteItems
  BY InferKeeps
<1>2. PICK f \in Envs : env[f].st = "infer"
  BY DEF Infer, In
<1>3. phase = "loop" /\ Counts /\ OwnQueues /\ Account /\ Pace
  BY <1>2 DEF IInv, Stages, Ledger
<1>4. ~stop /\ stop \in BOOLEAN
  BY <1>2, <1>3 DEF Pace, In, Counts
<1>5. /\ turn' = (IF overlap THEN "handled" ELSE turn)
      /\ UNCHANGED <<phase, overlap, pending, target, steps, stop, respawns, mixed, lost, size>>
  BY DEF Infer, dumpers
<1>6. ASSUME NEW e \in Envs
      PROVE  /\ env'[e].item = env[e].item /\ env'[e].taken = env[e].taken /\ env'[e].over = env[e].over
             /\ env'[e].st = (IF env[e].st = "infer" THEN "step" ELSE env[e].st)
             /\ env'[e].act = (IF env[e].st = "infer" THEN Head(Filled(e)) ELSE env[e].act)
  <2>1. env[e] \in EnvRecords
    BY DEF IInv, Shape
  <2>2. env'[e] = IF env[e].st = "infer" THEN [env[e] EXCEPT !.st = "step", !.act = Head(Filled(e))]
                  ELSE env[e]
    BY <1>4 DEF Infer, In
  <2> QED BY <2>1, <2>2 DEF EnvRecords
<1>7. \A e \in Envs : (Live(e)' <=> Live(e)) /\ (env'[e].st = "off" <=> env[e].st = "off")
  BY <1>6 DEF Live
<1>8. Counts'
  <2>1. \A e \in Envs : env'[e].taken <= Horizon /\ (AtWork(e)' => ~env'[e].over /\ env'[e].taken < Horizon)
    BY <1>3, <1>6 DEF Counts, AtWork
  <2>2. MaxRounds' = MaxRounds
    BY <1>5 DEF MaxRounds
  <2>3. turn' \in {"top", "wait", "handled"}
    BY <1>3, <1>5 DEF Counts
  <2> QED BY <1>3, <1>5, <2>1, <2>2, <2>3 DEF Counts
\* An env's predictions are its own, from the queue or fresh.
<1>9. ASSUME NEW e \in Envs, env[e].st = "infer"
      PROVE  /\ Head(Filled(e)) = env[e].item
             /\ \A i \in DOMAIN Tail(Filled(e)) : Tail(Filled(e))[i] = env[e].item
  <2>1. queue[Owner(e)][e] \in Seq(Items) /\ env[e].item \in Items /\ Chunk \in Nat \ {0}
    BY <1>9, OwnerRange, Sizes DEF IInv, Shape, Claims, Live
  <2>2. Filled(e) \in Seq(Items) /\ Filled(e) # <<>> /\ \A i \in DOMAIN Filled(e) : Filled(e)[i] = env[e].item
    <3>1. CASE queue[Owner(e)][e] = <<>>
      <4>1. Filled(e) = [i \in 1 .. Chunk |-> env[e].item]
        BY <3>1 DEF Filled
      <4>2. Filled(e) \in Seq(Items) /\ Len(Filled(e)) = Chunk
        BY <2>1, <4>1
      <4>3. \A i \in DOMAIN Filled(e) : Filled(e)[i] = env[e].item
        BY <4>1
      <4> QED BY <2>1, <4>2, <4>3
    <3>2. CASE queue[Owner(e)][e] # <<>>
      <4>1. Filled(e) = queue[Owner(e)][e]
        BY <3>2 DEF Filled
      <4>2. e \in Active
        BY <1>9 DEF Active
      <4> QED BY <2>1, <3>2, <4>1, <4>2, <1>3 DEF OwnQueues
    <3> QED BY <3>1, <3>2
  <2> DEFINE q == Filled(e)
  <2> HIDE DEF q
  <2>3. ASSUME NEW s \in Seq(Items), s # <<>>, NEW x, \A i \in DOMAIN s : s[i] = x
        PROVE  Head(s) = x /\ \A i \in DOMAIN Tail(s) : Tail(s)[i] = x
    <3>1. Len(s) \in Nat /\ Len(s) >= 1 /\ DOMAIN s = 1 .. Len(s)
      BY <2>3
    <3>2. Head(s) = s[1] /\ DOMAIN Tail(s) = 1 .. Len(s) - 1
      BY <2>3
    <3>3. \A i \in 1 .. Len(s) - 1 : Tail(s)[i] = s[i + 1]
      BY <2>3
    <3>4. \A i \in 1 .. Len(s) - 1 : i + 1 \in 1 .. Len(s)
      BY <3>1
    <3> QED BY <3>1, <3>2, <3>3, <3>4, <2>3
  <2> QED BY <2>2, <2>3
<1>10. OwnQueues'
  <2>1. mixed' = {} /\ \A e \in Envs : Owner(e)' = Owner(e)
    BY <1>3, <1>5 DEF OwnQueues, Owner
  <2>2. ASSUME NEW e \in Active', NEW i \in DOMAIN queue'[Owner(e)'][e]
        PROVE  queue'[Owner(e)'][e][i] = env'[e].item
    <3>1. e \in Envs /\ e \in Active
      BY <1>7 DEF Active
    <3>2. queue'[Owner(e)][e] = IF env[e].st = "infer" THEN Tail(Filled(e)) ELSE queue[Owner(e)][e]
      <4>1. Owner(e) \in DOMAIN queue
        BY <3>1, OwnerRange DEF IInv, Shape
      <4> QED BY <3>1, <4>1 DEF Infer, In
    <3>3. queue'[Owner(e)'][e] = queue'[Owner(e)][e] /\ env'[e].item = env[e].item
      BY <2>1, <3>1, <1>6
    <3>4. CASE env[e].st = "infer"
      <4>1. i \in DOMAIN Tail(Filled(e)) /\ queue'[Owner(e)'][e][i] = Tail(Filled(e))[i]
        BY <2>2, <3>2, <3>3, <3>4
      <4> QED BY <3>1, <3>3, <3>4, <4>1, <1>9
    <3>5. CASE env[e].st # "infer"
      <4>1. i \in DOMAIN queue[Owner(e)][e] /\ queue'[Owner(e)'][e][i] = queue[Owner(e)][e][i]
        BY <2>2, <3>2, <3>3, <3>5
      <4> QED BY <3>1, <3>3, <4>1, <1>3 DEF OwnQueues
    <3> QED BY <3>4, <3>5
  <2>3. \A e \in In("step")' : env'[e].act = env'[e].item
    BY <1>3, <1>6, <1>9 DEF OwnQueues, In
  <2> QED BY <2>1, <2>2, <2>3 DEF OwnQueues
<1>11. Account'
  <2>1. LiveItems' = LiveItems /\ Open' = Open
    BY <1>5, <1>6, <1>7, SameItems
  <2> QED BY <2>1, <1>1, <1>3, <1>5, <1>7, AccountKept DEF Account
<1>12. Left' \subseteq Left /\ Cardinality(Left') <= Cardinality(Left)
  <2>1. ASSUME NEW e \in Envs, Live(e)'
        PROVE  Live(e) /\ env'[e].item = env[e].item /\ LeftOf(e)' <= LeftOf(e)
    <3>1. LeftOf(e)' = LeftOf(e)
      BY <1>6 DEF LeftOf, Flying
    <3>2. LeftOf(e) \in Int
      BY <1>3, LeftRange
    <3> QED BY <3>1, <3>2, <2>1, <1>6, <1>7
  <2> QED BY <2>1, <1>1, <1>3, <1>5, <1>8, LeftShrinks
<1>13. Pace'
  <2>1. overlap => steps > 0
    BY <1>2, <1>3, BatchBegun
  <2>2. Begun' = Begun
    BY <1>5 DEF Begun
  <2>3. In("infer")' = {}
    BY <1>6 DEF In
  <2> QED BY <2>1, <2>2, <2>3, <1>1, <1>3, <1>5, <1>7, <1>8, <1>12, PaceKept
<1> QED BY <1>3, <1>5, <1>8, <1>10, <1>11, <1>13 DEF Ledger, RunCollects

-----------------------------------------------------------------------------
(* Driver: results, and items handed on.                                   *)

\* A finished env that gets nothing leaves nothing pending.
LEMMA AllDealt ==
  ASSUME NEW es, NEW work, NEW deal \in Deals(es, work), NEW e \in es, deal[e] = NoItem
  PROVE  work \ Dealt(deal) = {}
<1>1. \A i \in work \ {deal[f] : f \in es} : deal[e] # NoItem
  BY DEF Deals
<1>2. DOMAIN deal = es
  BY DEF Deals
<1> QED BY <1>1, <1>2 DEF Dealt

LEMMA NextItemsLedger ==
  ASSUME IInv, Ledger, IInv', CompleteItems' = CompleteItems, phase = "loop",
         NEW es \in SUBSET Envs, \A e \in es : env[e].st = "back", NextItems(es),
         UNCHANGED <<phase, overlap, target, stop, respawns, mixed, lost, size>>,
         turn' \in {"top", "handled"}, Begun' = Begun, overlap => steps' = steps /\ steps > 0,
         steps' \in Nat, steps' <= MaxRounds,
         overlap /\ turn' = "handled" /\ Single => In("infer") = {}
  PROVE  Ledger'
<1>1. Counts /\ OwnQueues /\ Account /\ Pace
  BY DEF Ledger
<1>0. PICK finished \in SUBSET es : finished = {e \in es : env[e].over}
  OBVIOUS
<1>2. PICK deal \in Deals(finished, pending) :
        /\ pending' = pending \ Dealt(deal)
        /\ queue' = Forget(queue, finished)
        /\ env' = [e \in Envs |->
             IF e \in finished THEN SetTo(deal[e])
             ELSE IF e \in es THEN [env[e] EXCEPT !.st = IF stop THEN "off" ELSE "ready"]
             ELSE env[e]]
  <2> DEFINE ended == {e \in es : env[e].over}
  <2>1. \E deal \in Deals(ended, pending) :
          /\ pending' = pending \ Dealt(deal)
          /\ queue' = Forget(queue, ended)
          /\ env' = [e \in Envs |->
               IF e \in ended THEN SetTo(deal[e])
               ELSE IF e \in es THEN [env[e] EXCEPT !.st = IF stop THEN "off" ELSE "ready"]
               ELSE env[e]]
    BY DEF NextItems
  <2>2. ended = finished
    BY <1>0
  <2> HIDE DEF ended
  <2> QED BY <2>1, <2>2
<1>3. /\ \A e \in finished : deal[e] = NoItem \/ deal[e] \in pending
      /\ \A e \in finished : deal[e] # NoItem => deal[e] \in Dealt(deal)
      /\ DOMAIN deal = finished
  <2>1. finished \subseteq Envs /\ pending \subseteq Items
    BY DEF IInv, Shape
  <2> QED BY <2>1, DealtItems
<1>4. Dealt(deal) \subseteq pending \cup {NoItem} /\ NoItem \notin Items /\ pending \subseteq Items
  BY <1>3, ItemsAreNumbers DEF Dealt, NoItem, IInv, Shape
\* What becomes of each env.
<1>5. ASSUME NEW e \in finished
      PROVE  /\ env[e].st = "back" /\ ~Live(e) /\ e \in Envs
             /\ env'[e].item = deal[e] /\ env'[e].taken = 0 /\ ~env'[e].over
             /\ env'[e].st = (IF deal[e] = NoItem THEN "off" ELSE "ready")
  <2>1. env'[e] = SetTo(deal[e]) /\ e \in es /\ env[e].over
    BY <1>0, <1>2
  <2>2. env'[e].item = deal[e] /\ env'[e].taken = 0 /\ ~env'[e].over
        /\ env'[e].st = (IF deal[e] = NoItem THEN "off" ELSE "ready")
    BY <2>1 DEF SetTo, Idle
  <2> QED BY <2>1, <2>2 DEF Live
<1>6. ASSUME NEW e \in es \ finished
      PROVE  /\ env[e].st = "back" /\ ~env[e].over /\ Live(e) /\ e \in Envs
             /\ env'[e].item = env[e].item /\ env'[e].taken = env[e].taken /\ ~env'[e].over
             /\ env'[e].st = "ready"
  <2>1. env[e].st = "back" /\ ~env[e].over /\ env[e] \in EnvRecords
    BY <1>0 DEF IInv, Shape
  <2>2. ~stop
    BY <2>1, <1>1, NothingLeft DEF Pace
  <2>3. env'[e] = [env[e] EXCEPT !.st = "ready"]
    BY <1>2, <2>2
  <2> QED BY <2>1, <2>3 DEF Live, EnvRecords
<1>7. \A e \in Envs \ es : env'[e] = env[e]
  BY <1>2
<1>8. /\ \A e \in finished : Live(e)' <=> deal[e] # NoItem
      /\ \A e \in Envs \ finished : (Live(e)' <=> Live(e)) /\ env'[e].item = env[e].item
  BY <1>5, <1>6, <1>7 DEF Live
<1>9. Counts'
  <2>1. Horizon > 0 /\ Horizon \in Nat
    BY Sizes
  <2>2. ASSUME NEW e \in Envs
        PROVE  env'[e].taken <= Horizon /\ (AtWork(e)' => ~env'[e].over /\ env'[e].taken < Horizon)
    <3>1. CASE e \in finished
      BY <3>1, <2>1, <1>5
    <3>2. CASE e \in es \ finished
      BY <3>2, <1>1, <1>6 DEF Counts, AtWork
    <3>3. CASE e \notin es
      BY <3>3, <1>1, <1>7 DEF Counts, AtWork
    <3> QED BY <3>1, <3>2, <3>3
  <2>3. MaxRounds' = MaxRounds
    BY DEF MaxRounds
  <2> QED BY <2>2, <2>3, <1>1 DEF Counts
<1>10. OwnQueues'
  <2>1. mixed' = {} /\ \A e \in Envs : Owner(e)' = Owner(e)
    BY <1>1 DEF OwnQueues, Owner
  <2>2. \A e \in Envs : queue'[Owner(e)][e] = IF e \in finished THEN <<>> ELSE queue[Owner(e)][e]
    <3>1. \A e \in Envs : Owner(e) \in DOMAIN queue
      BY OwnerRange DEF IInv, Shape
    <3> QED BY <3>1, <1>2 DEF Forget
  <2>3. ASSUME NEW e \in Active', NEW i \in DOMAIN queue'[Owner(e)'][e]
        PROVE  queue'[Owner(e)'][e][i] = env'[e].item
    <3>1. e \in Envs /\ queue'[Owner(e)'][e] = queue'[Owner(e)][e]
      BY <2>1 DEF Active
    <3>2. e \notin finished
      BY <2>2, <2>3, <3>1
    <3>3. i \in DOMAIN queue[Owner(e)][e] /\ queue'[Owner(e)'][e][i] = queue[Owner(e)][e][i]
      BY <2>2, <2>3, <3>1, <3>2
    <3>4. e \in Active /\ env'[e].item = env[e].item
      BY <2>3, <3>1, <3>2, <1>6, <1>7 DEF Active
    <3> QED BY <3>3, <3>4, <1>1 DEF OwnQueues
  <2>4. \A e \in In("step")' : e \in In("step") /\ env'[e] = env[e]
    BY <1>5, <1>6, <1>7 DEF In
  <2> QED BY <2>1, <2>3, <2>4, <1>1 DEF OwnQueues
<1>11. pending' \cup LiveItems' = pending \cup LiveItems
  <2>1. \A e \in finished : ~Live(e)
    BY <1>5
  <2>2. \A i : i \in LiveItems' <=> i \in LiveItems \/ (i \in Dealt(deal) /\ i # NoItem)
    <3>1. \A i : i \in LiveItems' <=> \E e \in Envs : Live(e)' /\ env'[e].item = i
      BY DEF LiveItems
    <3>2. \A i : i \in LiveItems <=> \E e \in Envs : Live(e) /\ env[e].item = i
      BY DEF LiveItems
    <3>3. \A i : i \in Dealt(deal) <=> \E e \in finished : deal[e] = i
      BY <1>3 DEF Dealt
    <3>4. \A e \in finished : e \in Envs /\ env'[e].item = deal[e]
      BY <1>5
    <3> QED BY <3>1, <3>2, <3>3, <3>4, <2>1, <1>8
  <2> QED BY <2>2, <1>2, <1>4
<1>12. Account'
  <2>1. Open' = Open /\ lost' \cap (pending' \cup LiveItems') = {}
    BY <1>1, <1>11 DEF Open, Account
  <2>2. ASSUME NEW e \in Envs, env'[e].st = "off"
        PROVE  pending' = {}
    <3>1. CASE e \in finished
      <4>1. deal[e] = NoItem
        BY <2>2, <3>1, <1>5
      <4> QED BY <3>1, <4>1, <1>2, AllDealt
    <3>2. CASE e \notin finished
      <4>1. env[e].st = "off"
        BY <2>2, <3>2, <1>6, <1>7
      <4> QED BY <4>1, <1>1, <1>2 DEF Account
    <3> QED BY <3>1, <3>2
  <2> QED BY <2>1, <2>2, <1>1, AccountKept
<1>13. Left' \subseteq Left /\ Cardinality(Left') <= Cardinality(Left)
  <2>1. ASSUME NEW e \in Envs, Live(e)', e \notin finished
        PROVE  Live(e) /\ env'[e].item = env[e].item /\ LeftOf(e)' <= LeftOf(e)
    <3>1. LeftOf(e)' = LeftOf(e)
      BY <2>1, <1>6, <1>7 DEF LeftOf, Flying
    <3>2. LeftOf(e) \in Int
      BY <1>1, LeftRange
    <3> QED BY <3>1, <3>2, <2>1, <1>8
  <2>2. \A e \in finished : Live(e)' => env'[e].item \in pending
    BY <1>3, <1>5, <1>8
  <2>3. pending' \subseteq pending
    BY <1>2
  <2> QED BY <2>1, <2>2, <2>3, <1>1, <1>9, LeftShrinks
<1>14. Pace'
  <2>1. \A e \in Envs : env[e].st = "off" => env'[e].st = "off"
    BY <1>7
  <2>2. In("infer")' \subseteq In("infer")
    BY <1>5, <1>6, <1>7 DEF In
  <2> QED BY <2>1, <2>2, <1>1, <1>9, <1>13, PaceKept
<1> QED BY <1>9, <1>10, <1>12, <1>14 DEF Ledger, RunCollects

LEMMA HandleRoundLedger ==
  ASSUME IInv, Ledger, HandleRound
  PROVE  Ledger'
<1>1. IInv' /\ CompleteItems' = CompleteItems
  BY HandleRoundKeeps
<1>2. /\ phase = "loop" /\ ~overlap /\ turn = "wait" /\ turn' = "top" /\ steps' = steps + 1
      /\ Active \subseteq In("back") /\ NextItems(Active) /\ Counts /\ Pace
      /\ UNCHANGED <<phase, overlap, target, stop, respawns, mixed, lost, size>>
  BY DEF HandleRound, dumpers, Ledger
<1>3. Active \in SUBSET Envs /\ \A e \in Active : env[e].st = "back"
  BY <1>2 DEF Active, In
<1>4. Begun = steps + 1 /\ Begun' = Begun /\ steps' \in Nat /\ steps' <= MaxRounds
  <2>1. Begun = steps + 1 /\ Begun' = Begun
    BY <1>2 DEF Begun
  <2>2. Begun + Cardinality(Left) <= MaxRounds
    BY <1>2 DEF Pace
  <2> QED BY <2>1, <2>2, <1>2, Countable DEF Counts
<1> QED BY <1>1, <1>2, <1>3, <1>4, NextItemsLedger

LEMMA HandleStepLedger ==
  ASSUME IInv, Ledger, NEW e \in Envs, HandleStep(e)
  PROVE  Ledger'
<1>1. IInv' /\ CompleteItems' = CompleteItems
  BY HandleStepKeeps
<1>2. /\ phase = "loop" /\ overlap /\ turn' = "handled" /\ env[e].st = "back" /\ NextItems({e})
      /\ Counts /\ Pace
      /\ UNCHANGED <<phase, overlap, target, steps, stop, respawns, mixed, lost, size>>
  BY DEF HandleStep, dumpers, Ledger
<1>3. steps > 0 /\ Begun' = Begun /\ steps' \in Nat /\ steps' <= MaxRounds
  BY <1>2, BatchBegun DEF Begun, Counts
<1>4. Single => In("infer") = {}
  <2>1. SUFFICES ASSUME Single, NEW f \in In("infer")
                 PROVE  FALSE
    OBVIOUS
  <2>2. e \in Active /\ f \in Active
    BY <1>2 DEF Active, In
  <2>3. e = f
    BY <2>1, <2>2, <1>2 DEF Pace
  <2> QED BY <2>3, <1>2 DEF In
<1>5. {e} \in SUBSET Envs /\ \A f \in {e} : env[f].st = "back"
  BY <1>2
<1> QED BY <1>1, <1>2, <1>3, <1>4, <1>5, NextItemsLedger

-----------------------------------------------------------------------------
(* Ends and beginnings of a run.                                           *)

\* At the end of a loop only items that died are open.
LEMMA OnlyLostOpen ==
  ASSUME IInv, Ledger, phase = "loop", \A e \in Envs : env[e].st \in {"off", "ready"},
         Collected >= target \/ Left = {} \/ In("ready") = {}
  PROVE  Open \subseteq lost
<1>1. Counts /\ Account
  BY DEF Ledger
<1>2. CASE Collected >= target
  BY <1>1, <1>2, NothingOpen
<1>3. CASE In("ready") = {}
  <2>1. \A e \in Envs : env[e].st = "off"
    BY <1>3 DEF In
  <2>2. 0 \in Envs
    BY Sizes DEF Envs
  <2>3. pending = {} /\ LiveItems = {}
    BY <2>1, <2>2, <1>1 DEF Account, LiveItems, Live
  <2> QED BY <2>3 DEF Open
<1>4. CASE Left = {}
  <2>1. pending = {} /\ \A e \in Envs : ~Live(e)
    BY <1>1, <1>4, NothingLeft DEF Live
  <2> QED BY <2>1 DEF Open, LiveItems
<1> QED BY <1>2, <1>3, <1>4

\* Outside the loop no env is on.
LEMMA OffLedger ==
  ASSUME \A e \in Envs : env'[e] = Idle, mixed' = {}
  PROVE  OwnQueues' /\ \A e \in Envs : env'[e].taken <= Horizon /\ ~AtWork(e)'
<1>1. Idle.st = "off" /\ Idle.taken = 0 /\ 0 <= Horizon
  BY Sizes DEF Idle
<1>2. Active' = {} /\ In("step")' = {}
  BY <1>1 DEF Active, In
<1> QED BY <1>1, <1>2 DEF OwnQueues, AtWork

LEMMA LeaveLoopLedger ==
  ASSUME IInv, Ledger, LeaveLoop
  PROVE  Ledger'
<1>1. CompleteItems' = CompleteItems
  BY LeaveLoopKeeps
<1>2. /\ phase = "loop" /\ phase' = "manifest" /\ turn = "top"
      /\ (IF overlap THEN TurnsOver ELSE RoundsOver)
      /\ env' = [e \in Envs |-> Idle] /\ Counts /\ OwnQueues /\ Account /\ Pace
      /\ UNCHANGED <<turn, target, steps, stop, respawns, mixed, lost, size>>
  BY DEF LeaveLoop, Ledger
<1>3. steps \in Nat /\ IsFiniteSet(Left) /\ Cardinality(Left) \in Nat /\ MaxRounds \in Nat
  BY <1>2, Countable DEF Counts
<1>4. steps >= MaxRounds => Left = {}
  <2>1. steps + Cardinality(Left) <= MaxRounds
    BY <1>2 DEF Pace, Begun
  <2>2. steps >= MaxRounds => Cardinality(Left) = 0
    BY <2>1, <1>3
  <2> QED BY <2>2, <1>3, FS_EmptySet
<1>5. \A e \in Envs : env[e].st \in {"off", "ready"}
  <2>1. CASE overlap
    <3>1. Busy = {}
      BY <1>2, <2>1 DEF TurnsOver
    <3>2. ASSUME NEW e \in Envs
          PROVE  env[e].st \in {"off", "ready"}
      <4>1. env[e].st \in EnvStates
        BY DEF IInv, Shape, EnvRecords
      <4> QED BY <3>1, <4>1 DEF Busy, In, EnvStates
    <3> QED BY <3>2
  <2>2. CASE ~overlap
    BY <1>2, <2>2 DEF IInv, Stages
  <2> QED BY <2>1, <2>2
<1>6. Collected >= target \/ Left = {} \/ In("ready") = {}
  <2>1. CASE overlap
    <3>1. stop \/ Collected >= target \/ In("infer") # {} \/ In("ready") = {} \/ steps >= MaxRounds
      BY <1>2, <1>3, <2>1 DEF TurnsOver, CanLaunch, Ready, StopNow
    <3>2. In("infer") = {}
      BY <1>5 DEF In
    <3> QED BY <3>1, <3>2, <1>2, <1>4 DEF Pace
  <2>2. CASE ~overlap
    <3>1. Active = {} \/ steps >= MaxRounds \/ Collected >= target
      BY <1>2, <2>2 DEF RoundsOver
    <3>2. Active = {} => In("ready") = {}
      BY DEF Active, In
    <3> QED BY <3>1, <3>2, <1>4
  <2> QED BY <2>1, <2>2
<1>7. Items \ lost \subseteq CompleteItems
  BY <1>2, <1>5, <1>6, OnlyLostOpen DEF Account
<1>8. OwnQueues' /\ \A e \in Envs : env'[e].taken <= Horizon /\ ~AtWork(e)'
  BY <1>2, OffLedger DEF OwnQueues
<1>9. Counts'
  <2>1. MaxRounds' = MaxRounds
    BY <1>2 DEF MaxRounds
  <2> QED BY <2>1, <1>2, <1>8 DEF Counts
<1> QED BY <1>1, <1>2, <1>7, <1>8, <1>9 DEF Ledger, RunCollects

LEMMA WriteManifestLedger ==
  ASSUME IInv, Ledger, WriteManifest
  PROVE  Ledger'
BY WriteManifestKeeps, LedgerAside DEF WriteManifest, workers, dumpers

LEMMA CrashLedger ==
  ASSUME IInv, Ledger, Crash
  PROVE  Ledger'
<1>1. /\ phase' = "off" /\ turn' = "top" /\ target' = 0 /\ steps' = 0 /\ stop' = FALSE
      /\ env' = [e \in Envs |-> Idle] /\ mixed' = {} /\ lost' = {}
      /\ respawns' = [e \in Envs |-> 0] /\ size' = [d \in Ranks |-> 0]
  BY DEF Crash
<1>2. OwnQueues' /\ \A e \in Envs : env'[e].taken <= Horizon /\ ~AtWork(e)'
  BY <1>1, OffLedger
<1>3. MaxRounds' = 0
  BY <1>1, Sizes DEF MaxRounds
<1>4. Counts'
  <2>1. size' \in [Ranks -> Nat] /\ respawns' \in [Envs -> 0 .. MaxRespawns]
    BY <1>1, Sizes
  <2>2. /\ target' \in 0 .. NumItems /\ steps' \in Nat /\ steps' <= MaxRounds'
        /\ turn' \in {"top", "wait", "handled"} /\ lost' \subseteq Items
    BY <1>1, <1>3, Sizes
  <2>3. stop' \in BOOLEAN
    BY <1>1
  <2> QED BY <2>1, <2>2, <1>2, <2>3 DEF Counts
<1> QED BY <1>1, <1>2, <1>4 DEF Ledger, RunCollects

LEMMA InitLedger == Init => Ledger
<1> SUFFICES ASSUME Init
             PROVE  Ledger
  OBVIOUS
<1>1. /\ phase = "off" /\ turn = "top" /\ target = 0 /\ steps = 0 /\ stop = FALSE
      /\ (\A e \in Envs : env[e] = Idle) /\ mixed = {} /\ lost = {}
      /\ respawns = [e \in Envs |-> 0] /\ size = [d \in Ranks |-> 0]
  BY DEF Init
<1>2. Idle.st = "off" /\ Idle.taken = 0 /\ Horizon \in Nat /\ MaxRespawns \in Nat /\ NumItems \in Nat
  BY Sizes DEF Idle
<1>3. Active = {} /\ In("step") = {}
  BY <1>1, <1>2 DEF Active, In
<1>4. OwnQueues
  BY <1>1, <1>3 DEF OwnQueues
<1>5. MaxRounds = 0
  BY <1>1, <1>2 DEF MaxRounds
<1>6. Counts
  <2>1. size \in [Ranks -> Nat] /\ respawns \in [Envs -> 0 .. MaxRespawns]
    BY <1>1, <1>2
  <2>2. \A e \in Envs : env[e].taken <= Horizon /\ ~AtWork(e)
    BY <1>1, <1>2 DEF AtWork
  <2>3. /\ target \in 0 .. NumItems /\ steps \in Nat /\ steps <= MaxRounds
        /\ turn \in {"top", "wait", "handled"} /\ lost \subseteq Items
    BY <1>1, <1>2, <1>5
  <2>4. stop \in BOOLEAN
    BY <1>1
  <2> QED BY <2>1, <2>2, <2>3, <2>4 DEF Counts
<1> QED BY <1>1, <1>4, <1>6 DEF Ledger, RunCollects

LEMMA LaunchLedger ==
  ASSUME IInv, Ledger, Launch
  PROVE  Ledger'
<1>1. IInv' /\ CompleteItems' = CompleteItems
  BY LaunchKeeps
<1>2. PICK deal \in Deals(Envs, MissingItems) :
        pending' = MissingItems \ Dealt(deal) /\ env' = [e \in Envs |-> SetTo(deal[e])]
  BY DEF Launch
<1>3. /\ target' = Cardinality(MissingItems) /\ phase' = "loop" /\ turn' = "top" /\ steps' = 0
      /\ stop' = FALSE /\ respawns' = [e \in Envs |-> 0]
      /\ queue' = [w \in 0 .. NumInfer - 1 |-> [e \in Envs |-> <<>>]]
      /\ size' = [d \in Ranks |-> 0] /\ mixed' = {} /\ lost' = {}
  BY DEF Launch
<1>4. /\ \A e \in Envs : deal[e] = NoItem \/ deal[e] \in MissingItems
      /\ \A e, f \in Envs : deal[e] = deal[f] /\ deal[e] # NoItem => e = f
      /\ \A e \in Envs : deal[e] # NoItem => deal[e] \in Dealt(deal)
      /\ DOMAIN deal = Envs
  <2> DEFINE es == Envs
  <2>1. es \subseteq Envs /\ MissingItems \subseteq Items /\ deal \in Deals(es, MissingItems)
    BY DEF MissingItems
  <2> HIDE DEF es
  <2>2. /\ \A e \in es : deal[e] = NoItem \/ deal[e] \in MissingItems
        /\ \A e, f \in es : deal[e] = deal[f] /\ deal[e] # NoItem => e = f
        /\ \A e \in es : deal[e] # NoItem => deal[e] \in Dealt(deal)
        /\ DOMAIN deal = es
    BY <2>1, DealtItems
  <2> QED BY <2>2 DEF es
<1>5. IsFiniteSet(MissingItems) /\ Cardinality(MissingItems) \in 0 .. NumItems
  <2>1. IsFiniteSet(Items) /\ Cardinality(Items) = NumItems
    BY Sizes, FS_Interval DEF Items
  <2>2. MissingItems \in SUBSET Items
    BY DEF MissingItems
  <2>3. IsFiniteSet(MissingItems) /\ Cardinality(MissingItems) <= NumItems
    BY <2>1, <2>2, FS_Subset
  <2>4. Cardinality(MissingItems) \in Nat
    BY <2>3, FS_CardinalityType
  <2> QED BY <2>3, <2>4, Sizes
<1>6. NoItem \notin Items
  BY ItemsAreNumbers DEF NoItem
<1>7. ASSUME NEW e \in Envs
      PROVE  /\ env'[e].item = deal[e] /\ env'[e].taken = 0 /\ ~env'[e].over
             /\ env'[e].st = (IF deal[e] = NoItem THEN "off" ELSE "ready")
             /\ Live(e)' <=> deal[e] # NoItem
  <2>1. env'[e] = SetTo(deal[e])
    BY <1>2
  <2>2. /\ env'[e].item = deal[e] /\ env'[e].taken = 0 /\ ~env'[e].over
        /\ env'[e].st = (IF deal[e] = NoItem THEN "off" ELSE "ready")
    BY <2>1 DEF SetTo, Idle
  <2> QED BY <2>2 DEF Live
<1>8. MaxRounds' = Cardinality(MissingItems) * Horizon /\ MaxRounds' \in Nat
  BY <1>3, <1>5, Sizes DEF MaxRounds
<1>9. Counts'
  <2>1. \A e \in Envs : env'[e].taken <= Horizon /\ (AtWork(e)' => ~env'[e].over /\ env'[e].taken < Horizon)
    BY <1>7, Sizes DEF AtWork
  <2>2. size' \in [Ranks -> Nat] /\ respawns' \in [Envs -> 0 .. MaxRespawns]
    BY <1>3, Sizes
  <2>3. /\ target' \in 0 .. NumItems /\ steps' \in Nat /\ steps' <= MaxRounds'
        /\ turn' \in {"top", "wait", "handled"} /\ lost' \subseteq Items
    BY <1>3, <1>5, <1>8
  <2>4. stop' \in BOOLEAN
    BY <1>3
  <2> QED BY <2>1, <2>2, <2>3, <2>4 DEF Counts
<1>10. OwnQueues'
  <2>1. \A e \in Envs : queue'[Owner(e)'][e] = <<>>
    <3>1. \A e \in Envs : Owner(e)' \in 0 .. NumInfer - 1
      BY SizesAssumption DEF Owner, Envs
    <3> QED BY <3>1, <1>3
  <2>2. \A e \in Active' : e \in Envs
    BY DEF Active
  <2>3. In("step")' = {}
    BY <1>7 DEF In
  <2>4. mixed' = {}
    BY <1>3
  <2>5. \A e \in Active' : \A i \in DOMAIN queue'[Owner(e)'][e] : queue'[Owner(e)'][e][i] = env'[e].item
    BY <2>1, <2>2
  <2> QED BY <2>3, <2>4, <2>5 DEF OwnQueues
<1>11. Open' = MissingItems
  <2>1. \A i : i \in LiveItems' <=> i \in Dealt(deal) /\ i # NoItem
    <3>1. \A i : i \in LiveItems' <=> \E e \in Envs : Live(e)' /\ env'[e].item = i
      BY DEF LiveItems
    <3>2. \A i : i \in Dealt(deal) <=> \E e \in Envs : deal[e] = i
      BY <1>4 DEF Dealt
    <3> QED BY <3>1, <3>2, <1>7
  <2>2. \A i \in Dealt(deal) : i = NoItem \/ i \in MissingItems
    BY <1>4 DEF Dealt
  <2>3. NoItem \notin MissingItems
    BY <1>6 DEF MissingItems
  <2> QED BY <2>1, <2>2, <2>3, <1>2, <1>3 DEF Open
<1>12. Saved' = {}
  <2>1. \A d \in Ranks : {d} \X (1 .. size'[d]) = {}
    BY <1>3
  <2> QED BY <2>1 DEF Saved
<1>13. Account'
  <2>1. IsFiniteSet(Saved') /\ Collected' = 0
    BY <1>12, FS_EmptySet DEF Collected
  <2>2. Collected' + Cardinality(Open') = target'
    BY <2>1, <1>3, <1>5, <1>11
  <2>3. Items \ CompleteItems' \subseteq Open'
    BY <1>1, <1>11 DEF MissingItems
  <2>4. ASSUME NEW e \in Envs, env'[e].st = "off"
        PROVE  pending' = {}
    <3>1. deal[e] = NoItem
      BY <2>4, <1>7
    <3> QED BY <3>1, <1>2, AllDealt
  <2> QED BY <2>1, <2>2, <2>3, <2>4, <1>3 DEF Account
<1>14. Cardinality(Left') \in Nat /\ Cardinality(Left') <= MaxRounds'
  <2>1. IsFiniteSet(1 .. Horizon) /\ Cardinality(1 .. Horizon) = Horizon
    BY Sizes, FS_Interval
  <2>2. /\ IsFiniteSet(MissingItems \X (1 .. Horizon))
        /\ Cardinality(MissingItems \X (1 .. Horizon)) = MaxRounds'
    BY <2>1, <1>5, <1>8, FS_Product
  <2>3. Left' \in SUBSET (MissingItems \X (1 .. Horizon))
    <3>1. \A x \in Left' : x[1] \in Open'
      BY DEF Left, LeftTo, Open, LiveItems
    <3>2. \A x \in Left' : x \in Items \X (1 .. Horizon)
      BY DEF Left
    <3> QED BY <3>1, <3>2, <1>11
  <2> QED BY <2>2, <2>3, FS_Subset, FS_CardinalityType
<1>15. Pace'
  <2>1. Begun' + Cardinality(Left') <= MaxRounds'
    BY <1>3, <1>14 DEF Begun
  <2>2. \A e \in Envs : env'[e].st \in {"off", "ready"}
    BY <1>7
  <2>3. ASSUME Single', NEW e \in Active', NEW f \in Active'
        PROVE  e = f
    <3>1. e \in Envs /\ f \in Envs /\ deal[e] # NoItem /\ deal[f] # NoItem
      BY <2>3, <1>7 DEF Active
    <3>2. CASE NumEnvs = 1
      BY <3>1, <3>2 DEF Envs
    <3>3. CASE target' = 1
      <4>1. PICK x : MissingItems = {x}
        BY <3>3, <1>3, <1>5, FS_Singleton
      <4> QED BY <4>1, <3>1, <1>4
    <3> QED BY <2>3, <3>2, <3>3 DEF Single
  <2> QED BY <2>1, <2>2, <2>3, <1>3, <1>12 DEF Pace
<1> QED BY <1>3, <1>9, <1>10, <1>13, <1>15 DEF Ledger, RunCollects

-----------------------------------------------------------------------------
(* The theorems.                                                           *)

LEMMA NextLedger ==
  ASSUME IInv, Ledger, [Next]_vars
  PROVE  Ledger'
<1>1. CASE Launch
  BY <1>1, LaunchLedger
<1>2. CASE Drive
  BY <1>2, StartRoundLedger, StartTurnLedger, EndTurnLedger, HandleRoundLedger, LeaveLoopLedger,
     WriteManifestLedger, HandleStepLedger DEF Drive
<1>3. CASE Infer
  BY <1>3, InferLedger
<1>4. CASE \E e \in Envs : StepEnv(e) \/ Respawn(e) \/ AddEpisode(e)
  BY <1>4, StepEnvLedger, RespawnLedger, AddEpisodeLedger
<1>5. CASE \E d \in Ranks : RenameReward(d) \/ RenameHidden(d)
  BY <1>5, RenameRewardLedger, RenameHiddenLedger
<1>6. CASE Crash
  BY <1>6, CrashLedger
<1>7. CASE UNCHANGED vars
  BY <1>7, SameFiles, LedgerAside DEF vars, driver, workers, dumpers, disk
<1> QED BY <1>1, <1>2, <1>3, <1>4, <1>5, <1>6, <1>7 DEF Next

\* The ledger of open items and steps that are left balances in every state
\* (rollout_collection_ray.py: _run_loop, _run_loop_overlap).
THEOREM LedgerBalances == Spec => [](IInv /\ Ledger)
<1>1. Init => IInv /\ Ledger
  BY InitIInv, InitLedger
<1>2. IInv /\ Ledger /\ [Next]_vars => IInv' /\ Ledger'
  BY NextIInv, NextLedger
<1> QED BY <1>1, <1>2, PTL DEF Spec

\* A launch that ends normally has collected every item but those whose env died:
\* max_steps, the target count and a stopped launch never cut an episode off.
THEOREM NothingCutOff == Spec => []RunCollects
<1>1. Ledger => RunCollects
  BY DEF Ledger
<1> QED BY <1>1, LedgerBalances, PTL

\* No action predicted in one episode is executed in the next one of the env: the
\* queue is forgotten whenever an episode ends, by the worker that holds it.
THEOREM NoForeignActions == Spec => []OwnActions
<1>1. Ledger => OwnActions
  BY DEF Ledger, OwnQueues, OwnActions
<1> QED BY <1>1, LedgerBalances, PTL

\* Every count stays within its bound, the rounds and batches of a run included.
THEOREM TypeCorrect == Spec => []TypeOK
<1>1. ASSUME IInv, Ledger
      PROVE  TypeOK
  <2>1. Shape /\ Counts
    BY <1>1 DEF IInv, Ledger
  <2>2. steps \in 0 .. NumItems * Horizon /\ target \in 0 .. NumItems
    <3>1. target \in 0 .. NumItems /\ steps \in Nat /\ steps <= target * Horizon
      BY <2>1 DEF Counts, MaxRounds
    <3>2. \A a, b, c \in Nat : a <= b => a * c <= b * c /\ a * c \in Nat /\ b * c \in Nat
      OBVIOUS
    <3>3. target * Horizon <= NumItems * Horizon /\ target * Horizon \in Nat /\ NumItems * Horizon \in Nat
      BY <3>1, <3>2, Sizes
    <3> QED BY <3>1, <3>3
  <2>3. env \in [Envs -> [st : EnvStates, item : Items \cup {NoItem},
                          taken : 0 .. Horizon, act : Items \cup {NoItem}, over : BOOLEAN]]
    <3>1. ASSUME NEW e \in Envs
          PROVE  env[e] \in [st : EnvStates, item : Items \cup {NoItem},
                             taken : 0 .. Horizon, act : Items \cup {NoItem}, over : BOOLEAN]
      <4>1. env[e] \in EnvRecords /\ env[e].taken <= Horizon
        BY <2>1 DEF Shape, Counts
      <4>2. env[e].taken \in 0 .. Horizon
        BY <4>1, Sizes DEF EnvRecords
      <4> QED BY <4>1, <4>2 DEF EnvRecords
    <3>2. env \in [Envs -> EnvRecords]
      BY <2>1 DEF Shape
    <3> QED BY <3>1, <3>2
  <2>4. \A d \in Ranks : writer[d] # <<>> => writer[d][1] \in DOMAIN reward \cup DOMAIN hidden
    <3>1. ASSUME NEW d \in Ranks, writer[d] # <<>>
          PROVE  Written(d) \in DOMAIN reward \cup DOMAIN hidden /\ writer[d] = <<Written(d)>>
      BY <1>1, <3>1 DEF IInv, Writers, Calls, Call
    <3> QED BY <3>1
  <2>5. kept \subseteq Items
    <3>1. \A n \in CompletePairs : reward[n] \in Contents /\ reward[n].item # NoItem
      BY <2>1 DEF CompletePairs, PairAt, Shape
    <3>2. CompleteItems \subseteq Items
      BY <3>1 DEF CompleteItems, Contents
    <3> QED BY <3>2, <1>1 DEF IInv, KeptOnDisk
  <2>6. mixed \subseteq Envs
    BY <1>1 DEF Ledger, OwnQueues
  <2>7. /\ phase \in {"off", "loop", "manifest", "done"} /\ overlap \in BOOLEAN
        /\ pending \subseteq Items
        /\ queue \in [0 .. NumInfer - 1 -> [Envs -> Seq(Items)]]
        /\ dumps \in 1 .. MaxDumps /\ shard \in [Ranks -> Nat]
    BY <2>1 DEF Shape
  <2>8. /\ stop \in BOOLEAN /\ turn \in {"top", "wait", "handled"}
        /\ respawns \in [Envs -> 0 .. MaxRespawns] /\ size \in [Ranks -> Nat]
    BY <2>1 DEF Counts
  <2>9. /\ DOMAIN reward \subseteq Names /\ \A n \in DOMAIN reward : reward[n] \in Contents
        /\ DOMAIN hidden \subseteq Names /\ \A n \in DOMAIN hidden : hidden[n] \in Contents
    BY <2>1 DEF Shape
  <2> QED BY <2>2, <2>3, <2>4, <2>5, <2>6, <2>7, <2>8, <2>9 DEF TypeOK
<1> QED BY <1>1, LedgerBalances, PTL
=============================================================================
