-------------------------- MODULE EnvRolloutProofs --------------------------
(***************************************************************************)
(* Proofs about EnvRollout for any number of workers, slots, chunks,       *)
(* epochs, leases, steps and faults: real trajectories are decided by one  *)
(* policy.  It takes that an env worker has at most one request on its     *)
(* way, in a queue, in a rollout worker's hands or answered, and none      *)
(* when it is not waiting, so that no answer outlives an interaction.      *)
(***************************************************************************)
EXTENDS EnvRollout, SequenceTheorems, TLAPS

Messages    == [env : Int, slots : SUBSET Slots]
AnswerShape == [slots : SUBSET Slots, version : Int]
EnvStates   == {"idle", "bootstrap", "wait", "final", "done", "raised"}

Shape ==
  /\ recipe \in Recipes
  /\ step \in Nat /\ version \in Int
  /\ envq \in [Keys -> Seq(Messages)]
  /\ resq \in [Envs -> Seq(AnswerShape)]
  /\ pc \in [Envs -> EnvStates]
  /\ DOMAIN lease = Envs
  /\ open \in [Envs -> [Slots -> SUBSET Int]]
  /\ DOMAIN completed = Envs
  /\ DOMAIN rpc = Rollouts
  /\ held \in [Rollouts -> Messages]

Waits(e) == pc[e] \in {"wait", "final"}

\* Only the workers of the running interaction are under way.
PhaseInv ==
  /\ phase \notin {"real", "imagine", "failed"} => \A e \in Envs : pc[e] \in {"idle", "done"}
  /\ phase = "real" => \A e \in WMEnvs : pc[e] = "idle"
  /\ phase = "imagine" =>
       /\ \A e \in RealEnvs : pc[e] \in {"idle", "done"}
       /\ \A e \in WMEnvs : lease[e] = 0 => pc[e] = "idle"

\* A rollout worker that holds a request is working on it.
HoldInv ==
  /\ \A r \in Rollouts : rpc[r] \in {"idle", "get", "done"} => held[r] = Stop
  /\ \A r \in Rollouts : rpc[r] = "busy" => held[r] # Stop
  /\ phase \in {"ready", "learn"} => \A r \in Rollouts : rpc[r] \in {"idle", "done"}

\* Where the request of rank k is.
Queued(k, key, i) == i \in DOMAIN envq[key] /\ envq[key][i].env = k
Held(k, r)        == held[r].env = k
Answered(k)       == resq[k] # <<>>

NotQueued(k) == \A key \in Keys : \A i \in Nat : ~Queued(k, key, i)
NotHeld(k)   == \A r \in Rollouts : ~Held(k, r)
Nowhere(k)   == NotQueued(k) /\ NotHeld(k) /\ ~Answered(k)

QueuedOnce(k) ==
  \A p, q \in Keys : \A i, j \in Nat :
    Queued(k, p, i) /\ Queued(k, q, j) => p = q /\ i = j

\* At most one request of rank k is under way ...
AtMostOne(k) ==
  \/ QueuedOnce(k) /\ NotHeld(k) /\ ~Answered(k)
  \/ NotQueued(k) /\ (\A r, s \in Rollouts : Held(k, r) /\ Held(k, s) => r = s) /\ ~Answered(k)
  \/ NotQueued(k) /\ NotHeld(k) /\ Len(resq[k]) = 1

WaitedFor(k) == \E e \in Envs : EnvRank(e) = k /\ Waits(e)

\* ... and only while its worker waits; ranks that ask are ranks.
RequestInv ==
  /\ \A key \in Keys : \A i \in DOMAIN envq[key] : envq[key][i] = Stop \/ envq[key][i].env \in Envs
  /\ \A r \in Rollouts : held[r] = Stop \/ held[r].env \in Envs
  /\ \A k \in Envs : AtMostOne(k) /\ (Nowhere(k) \/ WaitedFor(k))

\* Answers, open episodes and trajectories, by the policy that decided them.
VersionInv ==
  /\ phase \in {"real", "realStop", "learn"} => version = 3 * step - 2
  /\ \A k \in Envs : \A i \in DOMAIN resq[k] : resq[k][i].version = version
  /\ phase # "failed" => \A e \in RealEnvs : \A s \in Slots : open[e][s] \subseteq {3 * step - 2}
  /\ OneDecisionPolicy

IInv == Shape /\ PhaseInv /\ HoldInv /\ RequestInv /\ VersionInv

-----------------------------------------------------------------------------
(* Ranks and keys.                                                         *)

LEMMA Numbers ==
  /\ RealWorkers \in Nat \ {0} /\ WMWorkers \in Nat \ {0}
  /\ Envs = 0 .. RealWorkers + WMWorkers - 1
  /\ -1 \notin Envs
BY RecipesAssumption DEF Envs, RealEnvs, WMEnvs

LEMMA RanksAreEnvs ==
  ASSUME NEW e \in Envs
  PROVE  EnvRank(e) \in Envs
BY Numbers DEF EnvRank, Envs, RealEnvs, WMEnvs

LEMMA KeysAreKeys ==
  ASSUME NEW e \in Envs
  PROVE  RequestKey(e) \in Keys
BY RanksAreEnvs DEF RequestKey, Keys

\* What depends on the recipe alone stays.
LEMMA RecipeKept ==
  ASSUME [Next]_vars
  PROVE  /\ recipe' = recipe /\ Keys' = Keys /\ Rollouts' = Rollouts /\ Frozen' = Frozen
         /\ \A e \in Envs : EnvRank(e)' = EnvRank(e) /\ RequestKey(e)' = RequestKey(e)
<1>1. recipe' = recipe
  BY DEF Next, vars
<1> QED
  BY <1>1 DEF Keys, Rollouts, Frozen, EnvRank, RequestKey

\* Two workers that are under way have different ranks.
LEMMA RankInjective ==
  ASSUME PhaseInv, phase # "failed", NEW e \in Envs, NEW f \in Envs,
         pc[e] \notin {"idle", "done"}, pc[f] \notin {"idle", "done"}, EnvRank(e) = EnvRank(f)
  PROVE  e = f
<1>1. CASE phase = "real"
  <2>1. e \in RealEnvs /\ f \in RealEnvs
    BY <1>1 DEF PhaseInv, Envs
  <2> QED
    BY <2>1, Numbers DEF EnvRank, RealEnvs, WMEnvs
<1>2. CASE phase = "imagine"
  <2>1. e \in WMEnvs /\ f \in WMEnvs
    BY <1>2 DEF PhaseInv, Envs
  <2> QED
    BY <2>1, Numbers DEF EnvRank, RealEnvs, WMEnvs
<1> QED
  BY <1>1, <1>2 DEF PhaseInv

-----------------------------------------------------------------------------
(* Queues.                                                                 *)

LEMMA QueuedTail ==
  ASSUME envq \in [Keys -> Seq(Messages)], Keys' = Keys, NEW key \in Keys, envq[key] # <<>>,
         envq' = [envq EXCEPT ![key] = Tail(@)],
         NEW k, NEW p \in Keys, NEW i \in Nat
  PROVE  /\ Queued(k, p, i)' <=> IF p = key THEN i # 0 /\ Queued(k, p, i + 1)
                                            ELSE Queued(k, p, i)
         /\ Queued(k, key, 1) <=> Head(envq[key]).env = k
<1>1. envq[key] \in Seq(Messages) /\ envq[p] \in Seq(Messages)
  OBVIOUS
<1>2. CASE p = key
  <2>1. envq'[p] = Tail(envq[key])
    BY <1>2
  <2> QED
    BY <1>1, <1>2, <2>1 DEF Queued
<1>3. CASE p # key
  BY <1>1, <1>3 DEF Queued
<1> QED
  BY <1>2, <1>3

\* Stop messages are nobody's request.
LEMMA QueuedStops ==
  ASSUME envq \in [Keys -> Seq(Messages)], recipe \in Recipes, Keys' = Keys,
         envq' = StopAll(envq)
  PROVE  /\ envq' \in [Keys -> Seq(Messages)]
         /\ \A p \in Keys : \A i \in DOMAIN envq'[p] :
              envq'[p][i] = Stop \/ (i \in DOMAIN envq[p] /\ envq'[p][i] = envq[p][i])
         /\ \A k \in Envs : \A p \in Keys : \A i \in Nat : Queued(k, p, i)' <=> Queued(k, p, i)
<1>1. Stop \in Messages
  BY DEF Stop, Messages
<1>2. recipe.rollouts \in Nat
  BY RecipesAssumption DEF Recipe
<1> DEFINE stops == [i \in 1 .. recipe.rollouts |-> Stop]
<1>3. stops \in Seq(Messages) /\ Len(stops) = recipe.rollouts
  BY <1>1, <1>2
<1>4. SharedKey \in Keys
  BY DEF Keys
<1>5. ASSUME NEW p \in Keys
      PROVE  \/ envq'[p] = envq[p] \o stops
             \/ envq'[p] = Append(envq[p], Stop)
             \/ envq'[p] = envq[p]
  BY <1>4 DEF StopAll, StopShared
<1>6. ASSUME NEW p \in Keys
      PROVE  /\ envq'[p] \in Seq(Messages)
             /\ Len(envq'[p]) >= Len(envq[p])
             /\ \A i \in 1 .. Len(envq[p]) : envq'[p][i] = envq[p][i]
             /\ \A i \in DOMAIN envq'[p] : i \notin DOMAIN envq[p] => envq'[p][i] = Stop
  <2>1. envq[p] \in Seq(Messages)
    OBVIOUS
  <2>2. CASE envq'[p] = envq[p] \o stops
    <3>1. \A i \in 1 .. Len(stops) : stops[i] = Stop
      BY <1>3
    <3> HIDE DEF stops
    <3>2. /\ envq[p] \o stops \in Seq(Messages) /\ Len(envq[p] \o stops) = Len(envq[p]) + Len(stops)
          /\ \A i \in 1 .. Len(envq[p]) + Len(stops) :
               (envq[p] \o stops)[i] = IF i <= Len(envq[p]) THEN envq[p][i] ELSE stops[i - Len(envq[p])]
      BY <1>3, <2>1, ConcatProperties
    <3>4. Len(stops) \in Nat /\ Len(envq[p]) \in Nat
      BY <1>3, <2>1
    <3> QED
      BY <2>1, <2>2, <3>1, <3>2, <3>4
  <2>3. CASE envq'[p] = Append(envq[p], Stop)
    BY <1>1, <2>1, <2>3
  <2>4. CASE envq'[p] = envq[p]
    BY <2>1, <2>4
  <2> QED
    BY <1>5, <2>2, <2>3, <2>4
<1>7. DOMAIN envq' = Keys
  BY <1>4 DEF StopAll, StopShared
<1>8. envq' \in [Keys -> Seq(Messages)]
  <2>1. envq' = [p \in Keys |-> envq'[p]]
    BY <1>7 DEF StopAll, StopShared
  <2> QED
    BY <1>6, <2>1
<1>9. \A k \in Envs : \A p \in Keys : \A i \in Nat : Queued(k, p, i)' <=> Queued(k, p, i)
  <2> SUFFICES ASSUME NEW k \in Envs, NEW p \in Keys, NEW i \in Nat
               PROVE  Queued(k, p, i)' <=> Queued(k, p, i)
    OBVIOUS
  <2>1. Stop.env # k
    BY Numbers DEF Stop
  <2>2. envq[p] \in Seq(Messages) /\ envq'[p] \in Seq(Messages)
    BY <1>6
  <2> QED
    BY <1>6, <2>1, <2>2 DEF Queued
<1>10. \A p \in Keys : \A i \in DOMAIN envq'[p] :
         envq'[p][i] = Stop \/ (i \in DOMAIN envq[p] /\ envq'[p][i] = envq[p][i])
  <2> SUFFICES ASSUME NEW p \in Keys, NEW i \in DOMAIN envq'[p], i \in DOMAIN envq[p]
               PROVE  envq'[p][i] = envq[p][i]
    BY <1>6
  <2>1. envq[p] \in Seq(Messages)
    OBVIOUS
  <2>2. i \in 1 .. Len(envq[p])
    BY <2>1
  <2> QED
    BY <1>6, <2>2
<1> QED
  BY <1>8, <1>9, <1>10

-----------------------------------------------------------------------------
(* Shapes.                                                                 *)

LEMMA AskShape ==
  ASSUME Shape, NEW e \in Envs, NEW slots \in SUBSET Slots, AskFor(e, slots)
  PROVE  envq' \in [Keys -> Seq(Messages)]
<1>1. [env |-> EnvRank(e), slots |-> slots] \in Messages
  BY RanksAreEnvs, Numbers DEF Messages
<1> DEFINE msg == [env |-> EnvRank(e), slots |-> slots]
<1>2. envq[RequestKey(e)] \in Seq(Messages)
  BY KeysAreKeys DEF Shape
<1>3. Append(envq[RequestKey(e)], msg) \in Seq(Messages)
  BY <1>1, <1>2
<1> QED
  BY <1>3 DEF AskFor, Shape

LEMMA TakeShape ==
  ASSUME Shape, NEW e \in Envs, resq[EnvRank(e)] # <<>>, TakeAnswer(e)
  PROVE  resq' \in [Envs -> Seq(AnswerShape)] /\ Answer(e) \in AnswerShape
<1>1. resq[EnvRank(e)] \in Seq(AnswerShape)
  BY RanksAreEnvs DEF Shape
<1>2. /\ Head(resq[EnvRank(e)]) \in AnswerShape
      /\ Tail(resq[EnvRank(e)]) \in Seq(AnswerShape)
  BY <1>1
<1> QED
  BY <1>2 DEF TakeAnswer, Shape, Answer

LEMMA EpisodeShape ==
  ASSUME Shape, NEW e \in Envs, Answer(e) \in AnswerShape, NEW closing \in SUBSET Slots,
         Close(e, closing)
  PROVE  open' \in [Envs -> [Slots -> SUBSET Int]] /\ DOMAIN completed' = Envs
<1>1. Answer(e).version \in Int
  BY DEF AnswerShape
<1>2. \A s \in Slots : EpisodeWith(e, s) \in SUBSET Int
  BY <1>1 DEF EpisodeWith, Shape
<1>3. [s \in Slots |-> IF s \in closing THEN {} ELSE EpisodeWith(e, s)] \in [Slots -> SUBSET Int]
  BY <1>2
<1> QED
  BY <1>3 DEF Close, Shape

LEMMA ShapeStep ==
  ASSUME Shape, PhaseInv, RequestInv, [Next]_vars
  PROVE  Shape'
<1> USE DEF runnerVars, leaseVars, slotVars, envVars, rolloutVars, channelVars
<1>k. recipe' = recipe /\ Keys' = Keys /\ Rollouts' = Rollouts
  BY RecipeKept
<1>1. CASE UNCHANGED vars
  BY <1>1, <1>k DEF vars, Shape
<1>2. ASSUME NEW e \in Envs, Bootstrap(e)
      PROVE  Shape'
  <2>1. envq' \in [Keys -> Seq(Messages)]
    BY <1>2, AskShape DEF Bootstrap
  <2> QED
    BY <1>2, <1>k, <2>1 DEF Bootstrap, Shape, EnvStates, NoEpisode
<1>3. ASSUME NEW e \in Envs, StepSlots(e)
      PROVE  Shape'
  <2>1. resq' \in [Envs -> Seq(AnswerShape)] /\ Answer(e) \in AnswerShape
    BY <1>3, TakeShape DEF StepSlots
  <2>2. envq' \in [Keys -> Seq(Messages)]
    <3>1. envq' = envq \/ \E slots \in SUBSET Slots : AskFor(e, slots)
      BY <1>3 DEF StepSlots
    <3> QED
      BY <3>1, AskShape DEF Shape
  <2>3. open' \in [Envs -> [Slots -> SUBSET Int]] /\ DOMAIN completed' = Envs
    <3>1. UNCHANGED <<open, completed>> \/ \E closing \in SUBSET Slots : Close(e, closing)
      <4>1. Active(e) \subseteq Slots
        BY DEF Active
      <4> QED
        BY <1>3, <4>1 DEF StepSlots
    <3> QED
      BY <2>1, <3>1, EpisodeShape DEF Shape
  <2>4. pc' \in [Envs -> EnvStates]
    BY <1>3 DEF StepSlots, Shape, EnvStates, AfterEpoch
  <2> QED
    BY <1>3, <1>k, <2>1, <2>2, <2>3, <2>4 DEF StepSlots, Shape
<1>4. ASSUME NEW e \in Envs, FinalAnswer(e)
      PROVE  Shape'
  <2>1. resq' \in [Envs -> Seq(AnswerShape)]
    BY <1>4, TakeShape DEF FinalAnswer
  <2> QED
    BY <1>4, <1>k, <2>1 DEF FinalAnswer, Shape, EnvStates, AfterEpoch
<1>5. ASSUME NEW e \in Envs, EnvRaises(e)
      PROVE  Shape'
  <2>1. resq' \in [Envs -> Seq(AnswerShape)]
    BY <1>5, TakeShape DEF EnvRaises, Shape
  <2> QED
    BY <1>5, <1>k, <2>1 DEF EnvRaises, Shape, EnvStates
<1>6. ASSUME NEW r \in Rollouts, TakeRequest(r)
      PROVE  Shape'
  <2>1. ReadKey(r) \in Keys
    BY DEF ReadKey, Keys
  <2>2. envq[ReadKey(r)] \in Seq(Messages) /\ envq[ReadKey(r)] # <<>>
    BY <1>6, <2>1 DEF Shape, TakeRequest
  <2>3. Head(envq[ReadKey(r)]) \in Messages /\ Tail(envq[ReadKey(r)]) \in Seq(Messages)
    BY <2>2
  <2> QED
    BY <1>6, <1>k, <2>3 DEF TakeRequest, Shape
<1>7. ASSUME NEW r \in Rollouts, PutAnswer(r)
      PROVE  Shape'
  <2>1. Stop \in Messages
    BY DEF Stop, Messages
  <2>2. held[r] \in Messages
    BY DEF Shape
  <2>3. [slots |-> held[r].slots, version |-> version] \in AnswerShape
    BY <2>2 DEF AnswerShape, Messages, Shape
  <2> DEFINE answer == [slots |-> held[r].slots, version |-> version]
  <2>4. ASSUME NEW k \in Envs
        PROVE  Append(resq[k], answer) \in Seq(AnswerShape)
    <3>1. resq[k] \in Seq(AnswerShape)
      BY DEF Shape
    <3> QED
      BY <2>3, <3>1
  <2>5. resq' \in [Envs -> Seq(AnswerShape)]
    BY <1>7, <2>4 DEF PutAnswer, Shape
  <2> QED
    BY <1>7, <1>k, <2>1, <2>5 DEF PutAnswer, Shape
<1>8. ASSUME NEW r \in Rollouts, RolloutFails(r)
      PROVE  Shape'
  BY <1>8, <1>k DEF RolloutFails, Shape
<1>9. CASE StartReal
  BY <1>9, <1>k DEF StartReal, Shape, EnvStates, NoEpisode
<1>10. CASE StopReal \/ StopImagination
  BY <1>10, <1>k, QueuedStops DEF StopReal, StopImagination, Shape
<1>11. CASE Drain
  BY <1>11, <1>k DEF Drain, Shape
<1>12. CASE StartImagination
  <2>1. DOMAIN lease' = Envs
    BY <1>12 DEF StartImagination
  <2>2. pc' \in [Envs -> EnvStates]
    BY <1>12 DEF StartImagination, Shape, EnvStates, Start
  <2>3. version' \in Int
    BY <1>12 DEF StartImagination, Shape
  <2> QED
    BY <1>12, <1>k, <2>1, <2>2, <2>3 DEF StartImagination, Shape
<1>13. ASSUME NEW e \in WMEnvs, LeaseReturned(e)
       PROVE  Shape'
  BY <1>13, <1>k DEF LeaseReturned, Shape, EnvStates, Start
<1>14. CASE SkipImagination \/ Receive \/ GuardRaises \/ InteractionTimeout
  BY <1>14, <1>k DEF SkipImagination, Receive, GuardRaises, InteractionTimeout, Shape
<1> QED
  BY <1>1, <1>2, <1>3, <1>4, <1>5, <1>6, <1>7, <1>8, <1>9, <1>10, <1>11, <1>12, <1>13, <1>14
  DEF Next, Env, Rollout, Runner, Faults

-----------------------------------------------------------------------------
(* Phases and rollout workers.                                             *)

LEMMA PhaseStep ==
  ASSUME Shape, PhaseInv, [Next]_vars
  PROVE  PhaseInv'
<1> USE DEF runnerVars, leaseVars, slotVars, envVars, rolloutVars, channelVars
<1>1. CASE UNCHANGED vars
  BY <1>1 DEF vars, PhaseInv
<1>2. ASSUME NEW e \in Envs, UNCHANGED <<phase, lease>>,
             pc[e] \notin {"idle", "done"}, phase # "failed",
             \E st \in EnvStates : pc' = [pc EXCEPT ![e] = st]
      PROVE  PhaseInv'
  <2>1. PICK st \in EnvStates : pc' = [pc EXCEPT ![e] = st]
    BY <1>2
  <2>2. phase \in {"real", "imagine"}
    BY <1>2 DEF PhaseInv
  <2>3. phase = "real" => e \notin WMEnvs
    BY <1>2 DEF PhaseInv
  <2>4. phase = "imagine" => e \notin RealEnvs /\ (e \in WMEnvs => lease[e] # 0)
    BY <1>2 DEF PhaseInv
  <2> QED
    BY <1>2, <2>1, <2>2, <2>3, <2>4 DEF PhaseInv, Shape, Envs
<1>3. ASSUME phase # "failed", NEW e \in Envs, Env(e) \/ EnvRaises(e)
      PROVE  PhaseInv'
  <2>1. UNCHANGED <<phase, lease>>
    BY <1>3 DEF Env, Bootstrap, StepSlots, FinalAnswer, EnvRaises
  <2>2. pc[e] \notin {"idle", "done"}
    BY <1>3 DEF Env, Bootstrap, StepSlots, FinalAnswer, EnvRaises, Mismatch
  <2>3. pc' = pc \/ \E st \in EnvStates : pc' = [pc EXCEPT ![e] = st]
    BY <1>3 DEF Env, Bootstrap, StepSlots, FinalAnswer, EnvRaises, AfterEpoch, EnvStates
  <2>4. CASE pc' = pc
    BY <2>1, <2>4 DEF PhaseInv
  <2> QED
    BY <1>2, <1>3, <2>1, <2>2, <2>3, <2>4
<1>4. ASSUME NEW r \in Rollouts, Rollout(r) \/ RolloutFails(r)
      PROVE  PhaseInv'
  BY <1>4 DEF Rollout, TakeRequest, PutAnswer, RolloutFails, PhaseInv
<1>5. CASE StartReal
  <2>1. \A e \in WMEnvs : e \in Envs /\ e \notin RealEnvs
    BY Numbers DEF Envs, RealEnvs, WMEnvs
  <2> QED
    BY <1>5, <2>1 DEF StartReal, PhaseInv
<1>6. CASE StopReal
  BY <1>6 DEF StopReal, PhaseInv, Envs
<1>7. CASE StopImagination
  BY <1>7 DEF StopImagination, PhaseInv, Envs
<1>8. CASE StartImagination
  BY <1>8, Numbers DEF StartImagination, PhaseInv, Envs, RealEnvs, WMEnvs, Start
<1>9. ASSUME NEW e \in WMEnvs, LeaseReturned(e)
      PROVE  PhaseInv'
  <2>1. e \notin RealEnvs
    BY Numbers DEF RealEnvs, WMEnvs
  <2> QED
    BY <1>9, <2>1 DEF LeaseReturned, PhaseInv, Shape, Start, Envs
<1>10. CASE Drain \/ SkipImagination \/ Receive \/ GuardRaises \/ InteractionTimeout
  BY <1>10 DEF Drain, SkipImagination, Receive, GuardRaises, InteractionTimeout, PhaseInv
<1> QED
  BY <1>1, <1>3, <1>4, <1>5, <1>6, <1>7, <1>8, <1>9, <1>10 DEF Next, Runner, Faults

LEMMA HoldStep ==
  ASSUME Shape, HoldInv, [Next]_vars
  PROVE  HoldInv'
<1> USE DEF runnerVars, leaseVars, slotVars, envVars, rolloutVars, channelVars
<1>k. Rollouts' = Rollouts
  BY RecipeKept
<1>1. CASE UNCHANGED <<phase, rpc, held>>
  BY <1>1, <1>k DEF HoldInv
<1>2. ASSUME NEW r \in Rollouts, TakeRequest(r)
      PROVE  HoldInv'
  BY <1>2, <1>k DEF TakeRequest, HoldInv, Shape
<1>3. ASSUME NEW r \in Rollouts, PutAnswer(r)
      PROVE  HoldInv'
  BY <1>3, <1>k DEF PutAnswer, HoldInv, Shape
<1>4. ASSUME NEW r \in Rollouts, RolloutFails(r)
      PROVE  HoldInv'
  BY <1>4, <1>k DEF RolloutFails, HoldInv, Shape
<1>5. CASE StartReal
  BY <1>5, <1>k DEF StartReal, HoldInv
<1>6. CASE StartImagination
  BY <1>6, <1>k DEF StartImagination, HoldInv
<1>7. CASE Drain \/ Receive
  BY <1>7, <1>k DEF Drain, Receive, HoldInv
<1>8. CASE StopReal \/ StopImagination \/ SkipImagination \/ GuardRaises \/ InteractionTimeout
  BY <1>8, <1>k DEF StopReal, StopImagination, SkipImagination, GuardRaises,
                    InteractionTimeout, HoldInv
<1>9. ASSUME NEW e \in Envs, Env(e) \/ EnvRaises(e)
      PROVE  HoldInv'
  BY <1>1, <1>9 DEF Env, Bootstrap, StepSlots, FinalAnswer, EnvRaises
<1>10. ASSUME NEW e \in WMEnvs, LeaseReturned(e)
       PROVE  HoldInv'
  BY <1>1, <1>10 DEF LeaseReturned
<1> QED
  BY <1>1, <1>2, <1>3, <1>4, <1>5, <1>6, <1>7, <1>8, <1>9, <1>10
  DEF Next, vars, Runner, Faults, Rollout

-----------------------------------------------------------------------------
(* Requests and answers.                                                   *)

Kept == recipe' = recipe /\ Keys' = Keys /\ Rollouts' = Rollouts
        /\ \A e \in Envs : EnvRank(e)' = EnvRank(e) /\ RequestKey(e)' = RequestKey(e)

\* A rank whose places are the same, and whose worker waits on, is in order.
LEMMA SameRank ==
  ASSUME Kept, NEW k \in Envs,
         AtMostOne(k), Nowhere(k) \/ WaitedFor(k),
         \A p \in Keys : \A i \in Nat : Queued(k, p, i)' <=> Queued(k, p, i),
         \A r \in Rollouts : Held(k, r)' <=> Held(k, r),
         resq'[k] = resq[k],
         \A e \in Envs : EnvRank(e) = k /\ Waits(e) => Waits(e)'
  PROVE  AtMostOne(k)' /\ (Nowhere(k)' \/ WaitedFor(k)')
<1>1. Answered(k)' <=> Answered(k)
  BY DEF Answered
<1>2. /\ NotQueued(k)' <=> NotQueued(k)
      /\ NotHeld(k)' <=> NotHeld(k)
      /\ QueuedOnce(k)' <=> QueuedOnce(k)
  BY DEF Kept, NotQueued, NotHeld, QueuedOnce
<1>3. AtMostOne(k)'
  BY <1>1, <1>2 DEF AtMostOne, Kept
<1>4. Nowhere(k) => Nowhere(k)'
  BY <1>1, <1>2 DEF Nowhere
<1>5. WaitedFor(k) => WaitedFor(k)'
  BY DEF WaitedFor, Kept
<1> QED
  BY <1>3, <1>4, <1>5

\* Nothing moves and nobody stops to wait.
LEMMA NothingMoves ==
  ASSUME Kept, RequestInv, UNCHANGED <<envq, resq, held>>,
         \A e \in Envs : Waits(e) => Waits(e)'
  PROVE  RequestInv'
<1>1. /\ \A k \in Envs : \A p \in Keys : \A i \in Nat : Queued(k, p, i)' <=> Queued(k, p, i)
      /\ \A k \in Envs : \A r \in Rollouts : Held(k, r)' <=> Held(k, r)
  BY DEF Queued, Held
<1>2. \A k \in Envs : AtMostOne(k)' /\ (Nowhere(k)' \/ WaitedFor(k)')
  BY <1>1, SameRank DEF RequestInv
<1> QED
  BY <1>2 DEF RequestInv, Kept

\* While nobody waits there is no request, so the workers may start anew.
LEMMA NobodyWaits ==
  ASSUME Kept, RequestInv, UNCHANGED <<envq, resq, held>>, \A e \in Envs : ~Waits(e)
  PROVE  RequestInv'
<1>1. \A k \in Envs : Nowhere(k) /\ AtMostOne(k)
  BY DEF RequestInv, WaitedFor
<1>2. ASSUME NEW k \in Envs
      PROVE  Nowhere(k)' /\ AtMostOne(k)'
  <2>1. Nowhere(k)'
    BY <1>1 DEF Nowhere, NotQueued, NotHeld, Answered, Queued, Held, Kept
  <2> QED
    BY <2>1 DEF AtMostOne, Nowhere, QueuedOnce, NotQueued
<1> QED
  BY <1>2 DEF RequestInv, Kept

\* A request is queued last under the key of its worker.
LEMMA QueuedAsk ==
  ASSUME Kept, Shape, NEW e \in Envs, NEW rank \in Envs, rank = EnvRank(e),
         NEW key \in Keys, key = RequestKey(e), NEW slots \in SUBSET Slots, AskFor(e, slots),
         NEW k \in Envs, NEW p \in Keys, NEW i \in Nat
  PROVE  Queued(k, p, i)' <=> Queued(k, p, i) \/ (p = key /\ i = Len(envq[key]) + 1 /\ k = rank)
<1>1. PICK msg \in Messages : msg = [env |-> rank, slots |-> slots]
  <2>1. [env |-> rank, slots |-> slots] \in Messages
    BY Numbers DEF Messages
  <2> QED
    BY <2>1
<1>2. envq' = [envq EXCEPT ![key] = Append(@, msg)] /\ msg.env = rank
  BY <1>1 DEF AskFor
<1>3. envq[key] \in Seq(Messages) /\ envq[p] \in Seq(Messages)
  BY DEF Shape
<1>4. CASE p = key
  <2>1. envq'[p] = Append(envq[key], msg)
    BY <1>2, <1>4 DEF Shape
  <2> QED
    BY <1>2, <1>3, <1>4, <2>1 DEF Queued
<1>5. CASE p # key
  <2>1. envq'[p] = envq[p]
    BY <1>2, <1>5 DEF Shape
  <2> QED
    BY <1>5, <2>1 DEF Queued
<1> QED
  BY <1>4, <1>5

\* Worker e has no request under way any more, or asks its next one and waits.
LEMMA AskOrStop ==
  ASSUME Kept, Shape, RequestInv, NEW e \in Envs,
         NEW rank \in Envs, rank = EnvRank(e), NEW key \in Keys, key = RequestKey(e),
         NotQueued(rank), NotHeld(rank),
         resq'[rank] = <<>>, \A k \in Envs \ {rank} : resq'[k] = resq[k],
         UNCHANGED held,
         \A f \in Envs \ {e} : pc'[f] = pc[f],
         \/ UNCHANGED envq
         \/ (\E slots \in SUBSET Slots : AskFor(e, slots)) /\ pc'[e] \in {"wait", "final"}
  PROVE  RequestInv'
<1>1. Kept /\ rank \in Envs /\ key \in Keys
  OBVIOUS
<1>2. \A k \in Envs : \A r \in Rollouts : Held(k, r)' <=> Held(k, r)
  BY DEF Held
<1>3. ASSUME NEW f \in Envs, Waits(f), EnvRank(f) # rank
      PROVE  Waits(f)'
  BY <1>3 DEF Waits
<1>4. \A r \in Rollouts : held'[r] = Stop \/ held'[r].env \in Envs
  BY DEF RequestInv
<1>7. NotQueued(rank)
  OBVIOUS
<1>5. CASE UNCHANGED envq
  <2>1. \A k \in Envs : \A p \in Keys : \A i \in Nat : Queued(k, p, i)' <=> Queued(k, p, i)
    BY <1>5 DEF Queued
  <2>2. ASSUME NEW k \in Envs, k # rank
        PROVE  AtMostOne(k)' /\ (Nowhere(k)' \/ WaitedFor(k)')
    BY <1>2, <1>3, <2>1, <2>2, SameRank DEF RequestInv
  <2>3. Nowhere(rank)'
    BY <1>1, <1>2, <2>1 DEF Nowhere, NotQueued, NotHeld, Answered, Kept
  <2>4. AtMostOne(rank)'
    BY <2>3 DEF AtMostOne, Nowhere, QueuedOnce, NotQueued
  <2> QED
    BY <1>4, <1>5, <2>2, <2>3, <2>4 DEF RequestInv, Kept
<1>6. CASE (\E slots \in SUBSET Slots : AskFor(e, slots)) /\ pc'[e] \in {"wait", "final"}
  <2>1. PICK slots \in SUBSET Slots : AskFor(e, slots)
    BY <1>6
  <2>2. PICK msg \in Messages : msg = [env |-> rank, slots |-> slots]
    <3>1. [env |-> rank, slots |-> slots] \in Messages
      BY <1>1, Numbers DEF Messages
    <3> QED
      BY <3>1
  <2>3. envq' = [envq EXCEPT ![key] = Append(@, msg)]
    BY <2>1, <2>2 DEF AskFor
  <2>4. \A k \in Envs : \A p \in Keys : \A i \in Nat :
          Queued(k, p, i)' <=> Queued(k, p, i) \/ (p = key /\ i = Len(envq[key]) + 1 /\ k = rank)
    BY <2>1, QueuedAsk
  <2>5. ASSUME NEW k \in Envs, k # rank
        PROVE  AtMostOne(k)' /\ (Nowhere(k)' \/ WaitedFor(k)')
    BY <1>2, <1>3, <2>4, <2>5, SameRank DEF RequestInv
  <2>6. \A p \in Keys : \A i \in Nat :
          Queued(rank, p, i)' <=> (p = key /\ i = Len(envq[key]) + 1)
    BY <1>1, <1>7, <2>4 DEF NotQueued
  <2>7. QueuedOnce(rank)' /\ NotHeld(rank)' /\ ~Answered(rank)'
    BY <1>1, <1>2, <2>6 DEF QueuedOnce, NotHeld, Answered, Kept
  <2>8. WaitedFor(rank)'
    BY <1>6 DEF WaitedFor, Waits, Kept
  <2>9. \A p \in Keys : \A i \in DOMAIN envq'[p] :
          envq'[p][i] = Stop \/ envq'[p][i].env \in Envs
    <3> SUFFICES ASSUME NEW p \in Keys, NEW i \in DOMAIN envq'[p]
                 PROVE  envq'[p][i] = Stop \/ envq'[p][i].env \in Envs
      OBVIOUS
    <3>1. envq[p] \in Seq(Messages)
      BY DEF Shape
    <3>2. CASE p = key
      <4>1. envq'[p] = Append(envq[p], msg)
        BY <1>1, <2>3, <3>2 DEF Shape
      <4> QED
        BY <1>1, <2>2, <3>1, <4>1 DEF RequestInv
    <3>3. CASE p # key
      BY <2>3, <3>3 DEF RequestInv, Shape
    <3> QED
      BY <3>2, <3>3
  <2> QED
    BY <1>4, <2>5, <2>7, <2>8, <2>9 DEF RequestInv, AtMostOne, Kept
<1> QED
  BY <1>5, <1>6

LEMMA KeptStep ==
  ASSUME [Next]_vars
  PROVE  Kept
BY RecipeKept DEF Kept

\* The answer a worker takes is the last that is under way for its rank.
LEMMA AnswerTaken ==
  ASSUME Shape, RequestInv, NEW e \in Envs, NEW rank \in Envs, rank = EnvRank(e),
         resq[rank] # <<>>, TakeAnswer(e)
  PROVE  /\ NotQueued(rank) /\ NotHeld(rank)
         /\ resq'[rank] = <<>> /\ \A k \in Envs \ {rank} : resq'[k] = resq[k]
<1>1. AtMostOne(rank) /\ Answered(rank)
  BY DEF RequestInv, Answered
<1>2. NotQueued(rank) /\ NotHeld(rank) /\ Len(resq[rank]) = 1
  BY <1>1 DEF AtMostOne
<1>3. resq[rank] \in Seq(AnswerShape)
  BY DEF Shape
<1>4. Tail(resq[rank]) = <<>>
  <2>1. Tail(resq[rank]) \in Seq(AnswerShape) /\ Len(Tail(resq[rank])) = 0
    BY <1>2, <1>3, HeadTailProperties
  <2> QED
    BY <2>1, EmptySeq
<1> QED
  BY <1>2, <1>4 DEF TakeAnswer, Shape

LEMMA AskStep ==
  ASSUME Shape, PhaseInv, RequestInv, Kept, phase # "failed", NEW e \in Envs, Env(e) \/ EnvRaises(e)
  PROVE  RequestInv'
<1> USE DEF rolloutVars, channelVars, slotVars
<1>1. PICK rank \in Envs, key \in Keys : rank = EnvRank(e) /\ key = RequestKey(e)
  BY RanksAreEnvs, KeysAreKeys
<1>2. CASE Bootstrap(e)
  <2>1. ASSUME NEW f \in Envs, EnvRank(f) = rank, Waits(f)
        PROVE  FALSE
    <3>1. e = f
      BY <1>1, <1>2, <2>1, RankInjective DEF Bootstrap, Waits
    <3> QED
      BY <1>2, <2>1, <3>1 DEF Bootstrap, Waits
  <2>2. Nowhere(rank)
    BY <2>1 DEF RequestInv, WaitedFor
  <2>3. NotQueued(rank) /\ NotHeld(rank) /\ resq[rank] = <<>>
    BY <2>2 DEF Nowhere, Answered
  <2>4. UNCHANGED <<resq, held>> /\ AskFor(e, Slots) /\ pc' = [pc EXCEPT ![e] = "wait"]
    BY <1>2 DEF Bootstrap
  <2>5. pc'[e] = "wait" /\ \A f \in Envs \ {e} : pc'[f] = pc[f]
    BY <2>4 DEF Shape
  <2> QED
    BY <1>1, <2>3, <2>4, <2>5, AskOrStop
<1>3. CASE StepSlots(e)
  <2>1. resq[rank] # <<>> /\ TakeAnswer(e) /\ pc[e] = "wait" /\ UNCHANGED held
    BY <1>1, <1>3 DEF StepSlots
  <2>2. /\ NotQueued(rank) /\ NotHeld(rank)
        /\ resq'[rank] = <<>> /\ \A k \in Envs \ {rank} : resq'[k] = resq[k]
    BY <1>1, <2>1, AnswerTaken
  <2>3. \/ UNCHANGED envq
        \/ (\E slots \in SUBSET Slots : AskFor(e, slots)) /\ pc'[e] \in {"wait", "final"}
    BY <1>3 DEF StepSlots, Shape
  <2>4. \A f \in Envs \ {e} : pc'[f] = pc[f]
    BY <1>3 DEF StepSlots, Shape
  <2> QED
    BY <1>1, <2>1, <2>2, <2>3, <2>4, AskOrStop
<1>4. CASE FinalAnswer(e)
  <2>1. /\ resq[rank] # <<>> /\ TakeAnswer(e) /\ UNCHANGED <<envq, held>>
        /\ \A f \in Envs \ {e} : pc'[f] = pc[f]
    BY <1>1, <1>4 DEF FinalAnswer, Shape
  <2>2. /\ NotQueued(rank) /\ NotHeld(rank)
        /\ resq'[rank] = <<>> /\ \A k \in Envs \ {rank} : resq'[k] = resq[k]
    BY <1>1, <2>1, AnswerTaken
  <2> QED
    BY <1>1, <2>1, <2>2, AskOrStop
<1>5. CASE EnvRaises(e) /\ TakeAnswer(e) /\ resq[rank] # <<>>
  <2>1. UNCHANGED <<envq, held>> /\ \A f \in Envs \ {e} : pc'[f] = pc[f]
    BY <1>5 DEF EnvRaises, Shape
  <2>2. /\ NotQueued(rank) /\ NotHeld(rank)
        /\ resq'[rank] = <<>> /\ \A k \in Envs \ {rank} : resq'[k] = resq[k]
    BY <1>1, <1>5, AnswerTaken
  <2> QED
    BY <1>1, <2>1, <2>2, AskOrStop
<1>6. CASE EnvRaises(e) /\ pc[e] = "bootstrap" /\ UNCHANGED resq
  <2>1. UNCHANGED <<envq, resq, held>> /\ \A f \in Envs \ {e} : pc'[f] = pc[f]
    BY <1>6 DEF EnvRaises, Shape
  <2>2. \A f \in Envs : Waits(f) => Waits(f)'
    BY <1>6, <2>1 DEF Waits
  <2> QED
    BY <2>1, <2>2, NothingMoves
<1> QED
  BY <1>1, <1>2, <1>3, <1>4, <1>5, <1>6 DEF Env, EnvRaises

LEMMA TakeStep ==
  ASSUME Shape, HoldInv, RequestInv, Kept, NEW r \in Rollouts, TakeRequest(r)
  PROVE  RequestInv'
<1>1. PICK key \in Keys : key = ReadKey(r)
  BY DEF ReadKey, Keys
<1>2. PICK msg \in Messages : msg = Head(envq[key])
  BY <1>1 DEF TakeRequest, Shape
<1>3. /\ envq[key] \in Seq(Messages) /\ envq[key] # <<>>
      /\ envq' = [envq EXCEPT ![key] = Tail(@)]
      /\ held' = [held EXCEPT ![r] = msg]
      /\ UNCHANGED <<resq, pc>>
  BY <1>1, <1>2 DEF TakeRequest, Shape, envVars
<1>4. \A k \in Envs : ~Held(k, r)
  BY Numbers DEF TakeRequest, HoldInv, Held, Stop
<1>5. \A k \in Envs : WaitedFor(k)' <=> WaitedFor(k)
  BY <1>3 DEF WaitedFor, Waits, Kept
<1>6. ASSUME NEW k \in Envs
      PROVE  /\ \A s \in Rollouts : Held(k, s)' <=> IF s = r THEN msg.env = k ELSE Held(k, s)
             /\ Answered(k)' <=> Answered(k)
  BY <1>3 DEF Held, Answered, Shape
<1>7. ASSUME NEW k \in Envs
      PROVE  /\ \A p \in Keys : \A i \in Nat :
                  Queued(k, p, i)' <=> IF p = key THEN i # 0 /\ Queued(k, p, i + 1)
                                                  ELSE Queued(k, p, i)
             /\ Queued(k, key, 1) <=> msg.env = k
  BY <1>2, <1>3, QueuedTail DEF Shape, Kept
<1>8. ASSUME NEW k \in Envs, msg.env # k
      PROVE  AtMostOne(k)' /\ (Nowhere(k)' \/ WaitedFor(k)')
  <2>1. \A s \in Rollouts : Held(k, s)' <=> Held(k, s)
    BY <1>4, <1>6, <1>8
  <2>2. NotHeld(k)' <=> NotHeld(k)
    BY <2>1 DEF NotHeld, Kept
  <2>3. NotQueued(k) => NotQueued(k)'
    BY <1>7 DEF NotQueued, Kept
  <2>4. QueuedOnce(k) => QueuedOnce(k)'
    <3> SUFFICES ASSUME QueuedOnce(k), NEW p \in Keys, NEW q \in Keys, NEW i \in Nat, NEW j \in Nat,
                        Queued(k, p, i)', Queued(k, q, j)'
                 PROVE  p = q /\ i = j
      BY DEF QueuedOnce, Kept
    <3> QED
      BY <1>7 DEF QueuedOnce
  <2>5. Nowhere(k) => Nowhere(k)'
    BY <1>6, <2>2, <2>3 DEF Nowhere
  <2>6. AtMostOne(k) => AtMostOne(k)'
    BY <1>3, <1>6, <2>1, <2>2, <2>3, <2>4 DEF AtMostOne, Kept
  <2> QED
    BY <1>5, <2>5, <2>6 DEF RequestInv
<1>9. ASSUME NEW k \in Envs, msg.env = k
      PROVE  AtMostOne(k)' /\ (Nowhere(k)' \/ WaitedFor(k)')
  <2>1. Queued(k, key, 1)
    BY <1>7, <1>9
  <2>2. ~NotQueued(k) /\ ~Nowhere(k)
    BY <2>1 DEF NotQueued, Nowhere
  <2>3. QueuedOnce(k) /\ NotHeld(k) /\ ~Answered(k) /\ WaitedFor(k)
    BY <2>2 DEF RequestInv, AtMostOne
  <2>4. NotQueued(k)'
    <3> SUFFICES ASSUME NEW p \in Keys, NEW i \in Nat, Queued(k, p, i)'
                 PROVE  FALSE
      BY DEF NotQueued, Kept
    <3> QED
      BY <1>7, <2>1, <2>3 DEF QueuedOnce
  <2>5. \A s, t \in Rollouts : Held(k, s)' /\ Held(k, t)' => s = t
    BY <1>6, <2>3 DEF NotHeld
  <2> QED
    BY <1>5, <1>6, <2>3, <2>4, <2>5 DEF AtMostOne, Kept
<1>10. msg = Stop \/ msg.env \in Envs
  <2>1. 1 \in DOMAIN envq[key] /\ envq[key][1] = msg
    BY <1>2, <1>3
  <2> QED
    BY <2>1 DEF RequestInv
<1>11. \A s \in Rollouts : held'[s] = Stop \/ held'[s].env \in Envs
  BY <1>3, <1>10 DEF RequestInv, Shape
<1>12. \A p \in Keys : \A i \in DOMAIN envq'[p] : envq'[p][i] = Stop \/ envq'[p][i].env \in Envs
  <2> SUFFICES ASSUME NEW p \in Keys, NEW i \in DOMAIN envq'[p]
               PROVE  envq'[p][i] = Stop \/ envq'[p][i].env \in Envs
    OBVIOUS
  <2>1. CASE p = key
    <3>1. envq'[p] = Tail(envq[key])
      BY <1>3, <2>1 DEF Shape
    <3>2. i \in Nat /\ i + 1 \in DOMAIN envq[key] /\ envq'[p][i] = envq[key][i + 1]
      <4>1. /\ Len(Tail(envq[key])) = Len(envq[key]) - 1 /\ Tail(envq[key]) \in Seq(Messages)
            /\ \A j \in 1 .. Len(Tail(envq[key])) : Tail(envq[key])[j] = envq[key][j + 1]
        BY <1>3, HeadTailProperties
      <4>2. Len(envq[key]) \in Nat /\ Len(Tail(envq[key])) \in Nat
        BY <1>3, <4>1, LenProperties
      <4>3. i \in 1 .. Len(Tail(envq[key])) /\ DOMAIN envq[key] = 1 .. Len(envq[key])
        <5>1. DOMAIN Tail(envq[key]) = 1 .. Len(Tail(envq[key]))
          BY <4>1
        <5>2. DOMAIN envq[key] = 1 .. Len(envq[key])
          BY <1>3
        <5> QED
          BY <3>1, <5>1, <5>2
      <4>4. i \in Nat /\ i + 1 \in DOMAIN envq[key]
        BY <4>1, <4>2, <4>3
      <4> QED
        BY <3>1, <4>1, <4>3, <4>4
    <3> QED
      BY <3>2 DEF RequestInv
  <2>2. CASE p # key
    BY <1>3, <2>2 DEF RequestInv, Shape
  <2> QED
    BY <2>1, <2>2
<1> QED
  BY <1>8, <1>9, <1>11, <1>12 DEF RequestInv, Kept

LEMMA PutStep ==
  ASSUME Shape, HoldInv, RequestInv, Kept, NEW r \in Rollouts, PutAnswer(r)
  PROVE  RequestInv'
<1>1. PICK rank \in Envs : rank = held[r].env
  BY DEF PutAnswer, HoldInv, RequestInv
<1>2. /\ held' = [held EXCEPT ![r] = Stop] /\ UNCHANGED <<envq, pc>>
      /\ resq' = [resq EXCEPT ![rank] = Append(@, [slots |-> held[r].slots, version |-> version])]
  BY <1>1 DEF PutAnswer, envVars
<1>3. \A k \in Envs : \A s \in Rollouts : Held(k, s)' <=> Held(k, s) /\ s # r
  BY <1>2, Numbers DEF Held, Shape, Stop
<1>4. \A k \in Envs : \A p \in Keys : \A i \in Nat : Queued(k, p, i)' <=> Queued(k, p, i)
  BY <1>2 DEF Queued
<1>5. \A e \in Envs : Waits(e)' <=> Waits(e)
  BY <1>2 DEF Waits
<1>6. ASSUME NEW k \in Envs, k # rank
      PROVE  AtMostOne(k)' /\ (Nowhere(k)' \/ WaitedFor(k)')
  <2>1. ~Held(k, r)
    BY <1>1, <1>6 DEF Held
  <2>2. \A s \in Rollouts : Held(k, s)' <=> Held(k, s)
    BY <1>3, <2>1
  <2>3. resq'[k] = resq[k]
    BY <1>2, <1>6 DEF Shape
  <2> QED
    BY <1>4, <1>5, <2>2, <2>3, SameRank DEF RequestInv
<1>7. AtMostOne(rank)' /\ WaitedFor(rank)'
  <2>1. Held(rank, r)
    BY <1>1 DEF Held
  <2>2. ~NotHeld(rank) /\ ~Nowhere(rank)
    BY <2>1 DEF NotHeld, Nowhere
  <2>3. /\ NotQueued(rank) /\ (\A s \in Rollouts : Held(rank, s) => s = r) /\ ~Answered(rank)
        /\ WaitedFor(rank)
    BY <2>1, <2>2 DEF RequestInv, AtMostOne
  <2>4. NotQueued(rank)' /\ NotHeld(rank)'
    BY <1>3, <1>4, <2>3 DEF NotQueued, NotHeld, Kept
  <2>5. resq'[rank] = Append(<<>>, [slots |-> held[r].slots, version |-> version])
    BY <1>2, <2>3 DEF Answered, Shape
  <2>6. Len(resq'[rank]) = 1
    BY <2>5
  <2> QED
    BY <1>5, <2>3, <2>4, <2>6 DEF AtMostOne, WaitedFor, Kept
<1>8. \A s \in Rollouts : held'[s] = Stop \/ held'[s].env \in Envs
  BY <1>2 DEF RequestInv, Shape
<1> QED
  BY <1>2, <1>6, <1>7, <1>8 DEF RequestInv, Kept

LEMMA RequestStep ==
  ASSUME Shape, PhaseInv, HoldInv, RequestInv, [Next]_vars
  PROVE  RequestInv'
<1> USE DEF runnerVars, leaseVars, slotVars, envVars, rolloutVars, channelVars
<1>k. Kept
  BY KeptStep
<1>1. CASE UNCHANGED vars
  BY <1>1, <1>k, NothingMoves DEF vars, Waits
<1>2. ASSUME phase # "failed", NEW e \in Envs, Env(e) \/ EnvRaises(e)
      PROVE  RequestInv'
  BY <1>2, <1>k, AskStep
<1>3. ASSUME NEW r \in Rollouts, Rollout(r)
      PROVE  RequestInv'
  BY <1>3, <1>k, TakeStep, PutStep DEF Rollout
<1>4. ASSUME NEW r \in Rollouts, RolloutFails(r)
      PROVE  RequestInv'
  BY <1>4, <1>k, NothingMoves DEF RolloutFails, Waits
<1>5. CASE StartReal
  <2>1. UNCHANGED <<envq, resq, held>> /\ \A e \in Envs : ~Waits(e)
    BY <1>5 DEF StartReal, PhaseInv, Waits
  <2> QED
    BY <1>k, <2>1, NobodyWaits
<1>6. CASE StartImagination
  <2>1. UNCHANGED <<envq, resq, held>> /\ \A e \in Envs : ~Waits(e)
    BY <1>6 DEF StartImagination, PhaseInv, Waits
  <2> QED
    BY <1>k, <2>1, NobodyWaits
<1>7. CASE StopReal \/ StopImagination
  <2>1. envq' = StopAll(envq) /\ UNCHANGED <<resq, held, pc>>
    BY <1>7 DEF StopReal, StopImagination
  <2>2. /\ \A p \in Keys : \A i \in DOMAIN envq'[p] :
             envq'[p][i] = Stop \/ (i \in DOMAIN envq[p] /\ envq'[p][i] = envq[p][i])
        /\ \A k \in Envs : \A p \in Keys : \A i \in Nat : Queued(k, p, i)' <=> Queued(k, p, i)
    BY <1>k, <2>1, QueuedStops DEF Shape, Kept
  <2>3. \A k \in Envs : AtMostOne(k)' /\ (Nowhere(k)' \/ WaitedFor(k)')
    <3>1. \A k \in Envs : \A r \in Rollouts : Held(k, r)' <=> Held(k, r)
      BY <2>1 DEF Held
    <3>2. \A e \in Envs : Waits(e) => Waits(e)'
      BY <2>1 DEF Waits
    <3> QED
      BY <1>k, <2>1, <2>2, <3>1, <3>2, SameRank DEF RequestInv
  <2> QED
    BY <1>k, <2>1, <2>2, <2>3 DEF RequestInv, Kept
<1>8. ASSUME NEW e \in WMEnvs, LeaseReturned(e)
      PROVE  RequestInv'
  <2>1. UNCHANGED <<envq, resq, held>>
    BY <1>8 DEF LeaseReturned
  <2>2. \A f \in Envs : Waits(f) => Waits(f)'
    BY <1>8 DEF LeaseReturned, Waits, Shape
  <2> QED
    BY <1>k, <2>1, <2>2, NothingMoves
<1>9. CASE Drain \/ SkipImagination \/ Receive \/ GuardRaises \/ InteractionTimeout
  <2>1. UNCHANGED <<envq, resq, held, pc>>
    BY <1>9 DEF Drain, SkipImagination, Receive, GuardRaises, InteractionTimeout
  <2> QED
    BY <1>k, <2>1, NothingMoves DEF Waits
<1> QED
  BY <1>1, <1>2, <1>3, <1>4, <1>5, <1>6, <1>7, <1>8, <1>9 DEF Next, Runner, Faults

-----------------------------------------------------------------------------
(* Versions.                                                               *)

AnswersCurrent == \A k \in Envs : \A i \in DOMAIN resq[k] : resq[k][i].version = version

LEMMA AnswersTaken ==
  ASSUME Shape, RequestInv, AnswersCurrent, UNCHANGED version, NEW e \in Envs,
         resq[EnvRank(e)] # <<>>, TakeAnswer(e)
  PROVE  AnswersCurrent' /\ Answer(e).version = version
<1>1. PICK rank \in Envs : rank = EnvRank(e)
  BY RanksAreEnvs
<1>2. resq'[rank] = <<>> /\ \A k \in Envs \ {rank} : resq'[k] = resq[k]
  BY <1>1, AnswerTaken
<1>3. AnswersCurrent'
  <2> SUFFICES ASSUME NEW k \in Envs, NEW i \in DOMAIN resq'[k]
               PROVE  resq'[k][i].version = version
    BY DEF AnswersCurrent
  <2> QED
    BY <1>2 DEF AnswersCurrent
<1>4. resq[rank] \in Seq(AnswerShape) /\ resq[rank] # <<>>
  BY <1>1 DEF Shape
<1>5. 1 \in DOMAIN resq[rank] /\ Head(resq[rank]) = resq[rank][1]
  BY <1>4
<1> QED
  BY <1>1, <1>3, <1>5 DEF AnswersCurrent, Answer

LEMMA AnswersStep ==
  ASSUME Shape, PhaseInv, RequestInv, AnswersCurrent, [Next]_vars
  PROVE  AnswersCurrent'
<1> USE DEF runnerVars, leaseVars, slotVars, envVars, rolloutVars, channelVars
<1>1. CASE UNCHANGED <<version, resq>>
  BY <1>1 DEF AnswersCurrent
<1>2. ASSUME NEW e \in Envs, Env(e) \/ EnvRaises(e)
      PROVE  AnswersCurrent'
  BY <1>1, <1>2, AnswersTaken DEF Env, Bootstrap, StepSlots, FinalAnswer, EnvRaises
<1>3. ASSUME NEW r \in Rollouts, PutAnswer(r)
      PROVE  AnswersCurrent'
  <2> SUFFICES ASSUME NEW k \in Envs, NEW i \in DOMAIN resq'[k]
               PROVE  resq'[k][i].version = version
    BY <1>3 DEF PutAnswer, AnswersCurrent
  <2>1. PICK answer \in AnswerShape : answer = [slots |-> held[r].slots, version |-> version]
    <3>1. [slots |-> held[r].slots, version |-> version] \in AnswerShape
      BY DEF Shape, AnswerShape, Messages
    <3> QED
      BY <3>1
  <2>2. resq[k] \in Seq(AnswerShape) /\ (resq'[k] = resq[k] \/ resq'[k] = Append(resq[k], answer))
    BY <1>3, <2>1 DEF PutAnswer, Shape
  <2>3. answer.version = version
    BY <2>1
  <2> QED
    BY <2>2, <2>3 DEF AnswersCurrent
<1>4. CASE phase \in {"ready", "learn"} /\ UNCHANGED resq
  <2>1. \A k \in Envs : resq'[k] = <<>>
    BY <1>4 DEF PhaseInv, RequestInv, WaitedFor, Waits, Nowhere, Answered
  <2> QED
    BY <2>1 DEF AnswersCurrent
<1>5. CASE StartReal \/ StartImagination
  BY <1>4, <1>5 DEF StartReal, StartImagination
<1>6. ASSUME NEW r \in Rollouts, TakeRequest(r) \/ RolloutFails(r)
      PROVE  AnswersCurrent'
  BY <1>1, <1>6 DEF TakeRequest, RolloutFails
<1>7. CASE StopReal \/ StopImagination \/ Drain \/ SkipImagination \/ Receive \/ GuardRaises
           \/ InteractionTimeout \/ \E e \in WMEnvs : LeaseReturned(e)
  BY <1>1, <1>7 DEF StopReal, StopImagination, Drain, SkipImagination, Receive, GuardRaises,
                    InteractionTimeout, LeaseReturned
<1> QED
  BY <1>1, <1>2, <1>3, <1>5, <1>6, <1>7 DEF Next, vars, Rollout, Runner, Faults

\* Slots stepped by an answer of this step's policy.
LEMMA EpisodesOfOnePolicy ==
  ASSUME Shape, VersionInv, NEW e \in RealEnvs, phase = "real", UNCHANGED <<phase, step, version, drained>>,
         Answer(e).version = version,
         NEW closing \in SUBSET Slots, \A s \in closing : EpisodeWith(e, s) # {}, Close(e, closing)
  PROVE  /\ \A f \in RealEnvs : \A s \in Slots : open'[f][s] \subseteq {3 * step - 2}
         /\ OneDecisionPolicy'
<1>1. version = 3 * step - 2 /\ e \in Envs /\ RealEnvs \subseteq Envs
  BY DEF VersionInv, Envs
<1>2. \A f \in RealEnvs : \A s \in Slots : open[f][s] \subseteq {3 * step - 2}
  BY DEF VersionInv
<1>3. \A s \in Slots : EpisodeWith(e, s) \subseteq {3 * step - 2}
  BY <1>1, <1>2 DEF EpisodeWith
<1>4. \A s \in closing : EpisodeWith(e, s) = {3 * step - 2}
  BY <1>3
<1>5. \A f \in RealEnvs : \A s \in Slots : open'[f][s] \subseteq {3 * step - 2}
  BY <1>1, <1>2, <1>3 DEF Close, Shape
<1>6. ASSUME NEW f \in RealEnvs, NEW t \in completed'[f]
      PROVE  t.versions = {3 * t.step - 2}
  <2>1. CASE t \in completed[f]
    BY <2>1 DEF VersionInv, OneDecisionPolicy
  <2>2. CASE t \notin completed[f]
    <3>1. PICK s \in closing : t = [env |-> EnvRank(e), slot |-> s, episode |-> episode[e][s],
                                    step |-> step, versions |-> EpisodeWith(e, s)]
      BY <1>1, <1>6, <2>2 DEF Close, Shape
    <3>2. t.step = step /\ t.versions = EpisodeWith(e, s)
      BY <3>1
    <3> QED
      BY <1>4, <3>2
  <2> QED
    BY <2>1, <2>2
<1>7. \A t \in drained' : t.versions = {3 * t.step - 2}
  BY DEF VersionInv, OneDecisionPolicy
<1> QED
  BY <1>5, <1>6, <1>7 DEF OneDecisionPolicy

LEMMA VersionStep ==
  ASSUME Shape, PhaseInv, RequestInv, VersionInv, [Next]_vars
  PROVE  VersionInv'
<1> USE DEF runnerVars, leaseVars, slotVars, envVars, rolloutVars, channelVars
<1>1. AnswersCurrent'
  BY AnswersStep DEF VersionInv, AnswersCurrent
<1>2. CASE UNCHANGED <<step, version, open, completed, drained>>
           /\ (phase' \in {"real", "realStop", "learn"} => phase \in {"real", "realStop", "learn"})
           /\ (phase' # "failed" => phase # "failed")
  BY <1>1, <1>2 DEF VersionInv, AnswersCurrent, OneDecisionPolicy
<1>3. ASSUME NEW e \in Envs, StepSlots(e), phase # "failed"
      PROVE  VersionInv'
  <2>1. CASE e \in RealEnvs
    <3>1. phase = "real"
      BY <1>3, <2>1 DEF StepSlots, PhaseInv
    <3>2. Answer(e).version = version
      BY <1>3, AnswersTaken DEF StepSlots, VersionInv, AnswersCurrent
    <3>3. PICK closing \in SUBSET Slots : Close(e, closing) /\ \A s \in closing : EpisodeWith(e, s) # {}
      <4>1. PICK ended \in SUBSET Active(e) : \E more \in SUBSET Slots :
              Close(e, ended \cup {s \in Slots : more = {} /\ EpisodeWith(e, s) # {}})
        BY <1>3, <2>1 DEF StepSlots
      <4>2. PICK more \in SUBSET Slots :
              Close(e, ended \cup {s \in Slots : more = {} /\ EpisodeWith(e, s) # {}})
        BY <4>1
      <4>3. Active(e) \subseteq Slots /\ \A s \in Active(e) : EpisodeWith(e, s) # {}
        BY DEF Active, EpisodeWith
      <4> QED
        BY <4>2, <4>3
    <3>4. UNCHANGED <<phase, step, version, drained>>
      BY <1>3 DEF StepSlots
    <3>5. /\ \A f \in RealEnvs : \A s \in Slots : open'[f][s] \subseteq {3 * step - 2}
          /\ OneDecisionPolicy'
      BY <2>1, <3>1, <3>2, <3>3, <3>4, EpisodesOfOnePolicy
    <3> QED
      BY <1>1, <3>4, <3>5 DEF VersionInv, AnswersCurrent
  <2>2. CASE e \notin RealEnvs
    BY <1>2, <1>3, <2>2 DEF StepSlots
  <2> QED
    BY <2>1, <2>2
<1>4. ASSUME NEW e \in Envs, Bootstrap(e), phase # "failed"
      PROVE  VersionInv'
  <2>1. \A f \in RealEnvs : \A s \in Slots : open'[f][s] \subseteq {3 * step - 2}
    BY <1>4 DEF Bootstrap, VersionInv, NoEpisode, Shape, Envs
  <2>2. UNCHANGED <<phase, step, version, drained, completed>>
    BY <1>4 DEF Bootstrap
  <2> QED
    BY <1>1, <2>1, <2>2 DEF VersionInv, AnswersCurrent, OneDecisionPolicy
<1>5. ASSUME NEW e \in Envs, FinalAnswer(e) \/ EnvRaises(e), phase # "failed"
      PROVE  VersionInv'
  BY <1>2, <1>5 DEF FinalAnswer, EnvRaises
<1>6. ASSUME NEW r \in Rollouts, Rollout(r) \/ RolloutFails(r)
      PROVE  VersionInv'
  BY <1>2, <1>6 DEF Rollout, TakeRequest, PutAnswer, RolloutFails
<1>7. CASE StartReal
  <2>1. UNCHANGED <<drained, completed>>
    BY <1>7 DEF StartReal
  <2>2. CASE phase' = "failed"
    BY <1>1, <2>1, <2>2 DEF VersionInv, AnswersCurrent, OneDecisionPolicy
  <2>3. CASE phase' # "failed"
    <3>1. version' = 3 * step' - 2 /\ open' = [e \in Envs |-> NoEpisode]
      BY <1>7, <2>3 DEF StartReal
    <3> QED
      BY <1>1, <2>1, <3>1 DEF VersionInv, AnswersCurrent, OneDecisionPolicy, NoEpisode, Envs
  <2> QED
    BY <2>2, <2>3
<1>8. CASE Drain
  <2>1. UNCHANGED <<step, version, open>> /\ phase = "realStop"
        /\ drained' = UNION {completed[e] : e \in RealEnvs} /\ completed' = [e \in Envs |-> {}]
        /\ phase' \in {"failed", "learn"}
    BY <1>8 DEF Drain
  <2>2. OneDecisionPolicy'
    BY <2>1 DEF VersionInv, OneDecisionPolicy, Envs
  <2> QED
    BY <1>1, <2>1, <2>2 DEF VersionInv, AnswersCurrent
<1>9. CASE StartImagination
  <2>1. UNCHANGED <<step, open, completed, drained>> /\ phase' = "imagine" /\ phase = "learn"
    BY <1>9 DEF StartImagination
  <2> QED
    BY <1>1, <2>1 DEF VersionInv, AnswersCurrent, OneDecisionPolicy
<1>10. CASE StopReal \/ StopImagination \/ SkipImagination \/ Receive \/ GuardRaises
            \/ InteractionTimeout \/ \E e \in WMEnvs : LeaseReturned(e)
  BY <1>2, <1>10 DEF StopReal, StopImagination, SkipImagination, Receive, GuardRaises,
                     InteractionTimeout, LeaseReturned
<1>11. CASE UNCHANGED vars
  BY <1>2, <1>11 DEF vars
<1> QED
  BY <1>3, <1>4, <1>5, <1>6, <1>7, <1>8, <1>9, <1>10, <1>11
  DEF Next, Env, Runner, Faults

-----------------------------------------------------------------------------
(* The theorems.                                                           *)

LEMMA InitInv ==
  ASSUME Init
  PROVE  IInv
<1>1. Stop \in Messages /\ \A k \in Envs : Stop.env # k
  BY Numbers DEF Stop, Messages
<1>2. Shape
  BY <1>1 DEF Init, Shape, EnvStates, NoEpisode
<1>3. PhaseInv /\ HoldInv
  BY Numbers DEF Init, PhaseInv, HoldInv, Envs
<1>4. \A k \in Envs : Nowhere(k)
  BY <1>1 DEF Init, Nowhere, NotQueued, NotHeld, Answered, Queued, Held
<1>5. \A k \in Envs : AtMostOne(k)
  BY <1>4 DEF AtMostOne, Nowhere, QueuedOnce, NotQueued
<1>6. RequestInv
  BY <1>4, <1>5 DEF Init, RequestInv
<1>7. VersionInv
  BY DEF Init, VersionInv, OneDecisionPolicy, NoEpisode, Envs
<1> QED
  BY <1>2, <1>3, <1>6, <1>7 DEF IInv

\* The workers, the queues and the versions are in order in every state.
THEOREM InteractionInvariant == Spec => []IInv
<1>1. Init => IInv
  BY InitInv
<1>2. IInv /\ [Next]_vars => IInv'
  BY ShapeStep, PhaseStep, HoldStep, RequestStep, VersionStep DEF IInv
<1> QED
  BY <1>1, <1>2, PTL DEF Spec

\* At most one request of an env worker is under way, and none unless it waits.
THEOREM OneCallPerWorker == Spec => []RequestInv
<1>1. IInv => RequestInv
  BY DEF IInv
<1> QED
  BY <1>1, InteractionInvariant, PTL

\* A real trajectory only holds decisions of the policy synced at the entry of
\* its step.
THEOREM OnePolicyPerTrajectory == Spec => []OneDecisionPolicy
<1>1. IInv => OneDecisionPolicy
  BY DEF IInv, VersionInv
<1> QED
  BY <1>1, InteractionInvariant, PTL
=============================================================================
