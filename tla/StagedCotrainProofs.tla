------------------------ MODULE StagedCotrainProofs ------------------------
(***************************************************************************)
(* Proofs about StagedCotrain for any number of trajectories, capacity,    *)
(* optimizer steps, global steps, resumes and divergences.  What belongs   *)
(* to a policy (its optimizers, its step counter, the shards it is trained *)
(* on, its success rate) stays with it through rollbacks, failures and     *)
(* resumes; a batch is imagined in one latent space as far as its starts   *)
(* were drawn for it, the budget of a step is kept, and all values stay in *)
(* their types.                                                            *)
(***************************************************************************)
EXTENDS StagedCotrain, FiniteSetTheorems, SequenceTheorems, WellFoundedInduction, TLAPS

PolicyRecords == [enc : Nat, act : Nat, updates : Nat]

Snapshot(p)   == [policy |-> p, opt |-> OptOf(p)]

\* The stages of a step that only staged_full_cotrain goes through.
FullStages == {"sft", "sftEnd", "reencode", "replace", "update", "load", "sync"}

Shape ==
  /\ stage \in Stages
  /\ policy \in PolicyRecords /\ rollout \in PolicyRecords
  /\ minted \in Nat /\ applied \in Nat /\ taken \in Nat
  /\ \/ saved = <<>>
     \/ /\ saved = <<Snapshot(saved[1].policy)>>
        /\ saved[1].policy \in PolicyRecords

\* A transaction is open while its update runs, and what it would restore has
\* as many optimizer steps as the runner has counted.
TransactionInv ==
  /\ saved # <<>> => Bounded /\ stage \in {"sft", "sftEnd", "train", "trainEnd", "down"}
  /\ Bounded /\ stage \in {"sftEnd", "trainEnd"} => saved # <<>>
  /\ saved # <<>> /\ stage # "down" => saved[1].policy.updates = applied

CounterInv ==
  /\ stage = "trainEnd" => policy.updates = applied + taken
  /\ stage \notin {"trainEnd", "down"} => policy.updates = applied

\* The rollout copy is the actor's policy whenever trajectories are generated; the
\* frozen modes never touch the policy between entry sync and imagination.
ServingInv ==
  /\ IF Full THEN stage # "store" ELSE stage \notin FullStages
  /\ stage \in {"collect", "imagine"} => rollout = policy
  /\ stage \in {"store", "refresh"} /\ ~Full => rollout = policy
  /\ OnPolicy

MetricInv ==
  /\ metric # <<>> => stage \in {"save", "down"}
  /\ metric # <<>> /\ stage = "save" => metric[1] = policy

CheckpointInv ==
  \A c \in ckpts :
    /\ c.policy \in PolicyRecords
    /\ c.opt = OptOf(c.policy)
    /\ c.applied = c.policy.updates
    /\ c.metric # <<>> => c.metric[1] = c.policy

IInv ==
  /\ Shape
  /\ OptimizerFollowsPolicy
  /\ TransactionInv
  /\ CounterInv
  /\ ServingInv
  /\ MetricInv
  /\ CheckpointInv

-----------------------------------------------------------------------------
(* Typing.                                                                 *)

\* A path of divergences has a natural number of optimizer steps.
LEMMA PathLength ==
  ASSUME NEW path \in Paths
  PROVE  Len(path) \in Nat
BY DEF Paths

\* The steps an actor update reports are those it adds to the policy.
LEMMA TrainedPolicy ==
  ASSUME Shape, TrainActor
  PROVE  /\ policy' \in PolicyRecords /\ minted' \in Nat /\ taken' \in Nat
         /\ policy'.updates = policy.updates + taken'
<1>1. policy \in PolicyRecords /\ policy.updates \in Nat /\ minted \in Nat
  BY DEF Shape, PolicyRecords
<1>2. PICK path \in Paths :
        /\ taken' = Len(path)
        /\ \/ path = <<>> /\ UNCHANGED <<policy, minted>>
           \/ /\ minted' = minted + 1
              /\ policy' = [policy EXCEPT !.act = minted', !.updates = @ + Len(path)]
  BY DEF TrainActor
<1>3. Len(path) \in Nat
  BY PathLength
<1>4. CASE path = <<>> /\ UNCHANGED <<policy, minted>>
  BY <1>1, <1>2, <1>3, <1>4
<1>5. CASE /\ minted' = minted + 1
           /\ policy' = [policy EXCEPT !.act = minted', !.updates = @ + Len(path)]
  <2>1. PICK m \in Nat : m = minted'
    BY <1>1, <1>5
  <2> DEFINE minting == [policy EXCEPT !.act = m]
  <2>2. minting \in PolicyRecords /\ minting.updates = policy.updates
    BY <1>1 DEF PolicyRecords
  <2>3. policy' = [minting EXCEPT !.updates = minting.updates + Len(path)]
    BY <1>5, <2>1, <2>2
  <2> HIDE DEF minting
  <2>4. policy' \in PolicyRecords /\ policy'.updates = policy.updates + Len(path)
    BY <1>1, <1>3, <2>2, <2>3 DEF PolicyRecords
  <2> QED
    BY <1>2, <1>3, <2>1, <2>4
<1> QED
  BY <1>2, <1>4, <1>5

\* An update keeps the policy a record, and minted ids are fresh numbers.
LEMMA ShapeStep ==
  ASSUME IInv, [Next]_vars
  PROVE  Shape'
<1> USE DEF Shape, Stages, Snapshot, runnerVars, actorVars, wmVars, dataVars, history, disk
<1> Shape
  BY DEF IInv
<1>1. CASE UNCHANGED vars
  BY <1>1 DEF vars
<1>2. CASE EnterStep
  BY <1>2 DEF EnterStep
<1>3. CASE CollectReal \/ AppendReal \/ Reencode \/ ReplaceReal
  BY <1>3 DEF CollectReal, AppendReal, Reencode, ReplaceReal
<1>4. CASE UpdateLearner \/ LoadWM \/ Refresh \/ RefreshRaises \/ SyncPostSft \/ Imagine
  BY <1>4 DEF UpdateLearner, LoadWM, Refresh, RefreshRaises, SyncPostSft, Imagine
<1>5. CASE BeginTransaction
  BY <1>5 DEF IInv, BeginTransaction, OptimizerFollowsPolicy
<1>6. CASE EncoderSft
  BY <1>6 DEF EncoderSft, PolicyRecords
<1>7. CASE TrainActor
  BY <1>7, TrainedPolicy DEF TrainActor
<1>8. CASE FinalizeEncoder
  BY <1>8 DEF IInv, TransactionInv, FinalizeEncoder, CommitOrRestore, Accepted
<1>9. CASE FinalizeActor
  <2>1. policy' \in PolicyRecords /\ saved' = <<>>
    BY <1>9 DEF IInv, TransactionInv, FinalizeActor, CommitOrRestore, Accepted
  <2>2. applied' \in Nat
    BY <1>9 DEF FinalizeActor, AppliedSteps
  <2> QED
    BY <1>9, <2>1, <2>2 DEF FinalizeActor
<1>10. CASE Evaluate \/ Save \/ Fail
  BY <1>10 DEF Evaluate, Save, Fail
<1>11. CASE Resume
  <2>1. PICK c \in ckpts : applied' = c.applied /\ policy' = c.policy
    BY <1>11 DEF Resume
  <2>2. c.policy \in PolicyRecords /\ c.applied = c.policy.updates
    BY DEF IInv, CheckpointInv
  <2>3. policy' \in PolicyRecords /\ applied' \in Nat
    BY <2>1, <2>2 DEF PolicyRecords
  <2> QED
    BY <1>11, <2>3 DEF Resume, Base, PolicyRecords
<1> QED
  BY <1>1, <1>2, <1>3, <1>4, <1>5, <1>6, <1>7, <1>8, <1>9, <1>10, <1>11 DEF Next

-----------------------------------------------------------------------------
(* Optimizers and transactions.                                            *)

\* Updates move parameters and optimizer state together, a rollback restores
\* both from the snapshot, a resume both from the checkpoint.
LEMMA OptimizerStep ==
  ASSUME IInv, [Next]_vars
  PROVE  OptimizerFollowsPolicy'
<1> USE DEF IInv, Shape, PolicyRecords, OptimizerFollowsPolicy, OptOf,
        runnerVars, actorVars, wmVars, dataVars, history, disk
<1>1. CASE UNCHANGED <<policy, opt>>
  BY <1>1
<1>2. CASE EncoderSft
  BY <1>2 DEF EncoderSft
<1>3. CASE TrainActor
  BY <1>3 DEF TrainActor
<1>4. CASE FinalizeEncoder \/ FinalizeActor
  BY <1>4 DEF TransactionInv, FinalizeEncoder, FinalizeActor, CommitOrRestore, Accepted, Snapshot
<1>5. CASE Resume
  BY <1>5 DEF CheckpointInv, Resume
<1> QED
  BY <1>1, <1>2, <1>3, <1>4, <1>5
  DEF Next, vars, EnterStep, CollectReal, AppendReal, Reencode, ReplaceReal, UpdateLearner,
      LoadWM, Refresh, RefreshRaises, SyncPostSft, Imagine, BeginTransaction, Evaluate, Save,
      Fail

LEMMA TransactionStep ==
  ASSUME IInv, [Next]_vars
  PROVE  TransactionInv'
<1> USE DEF IInv, Shape, TransactionInv, Snapshot,
        runnerVars, actorVars, wmVars, dataVars, history, disk
<1>1. CASE UNCHANGED vars
  BY <1>1 DEF vars
<1>2. CASE EnterStep \/ CollectReal \/ AppendReal \/ Reencode \/ ReplaceReal
  BY <1>2 DEF EnterStep, CollectReal, AppendReal, Reencode, ReplaceReal
<1>3. CASE UpdateLearner \/ LoadWM \/ Refresh \/ RefreshRaises \/ SyncPostSft \/ Imagine
  BY <1>3 DEF UpdateLearner, LoadWM, Refresh, RefreshRaises, Refreshing, SyncPostSft, Imagine
<1>4. CASE BeginTransaction
  BY <1>4 DEF BeginTransaction, CounterInv
<1>5. CASE EncoderSft
  BY <1>5 DEF EncoderSft, Ready
<1>6. CASE TrainActor
  BY <1>6 DEF TrainActor, Ready
<1>7. CASE FinalizeEncoder \/ FinalizeActor
  BY <1>7 DEF FinalizeEncoder, FinalizeActor, CommitOrRestore
<1>8. CASE Evaluate \/ Save \/ Fail \/ Resume
  BY <1>8 DEF Evaluate, Save, Fail, Resume
<1> QED
  BY <1>1, <1>2, <1>3, <1>4, <1>5, <1>6, <1>7, <1>8 DEF Next

\* The runner counts the steps of an accepted update when it is finalized, and
\* a rollback takes the uncounted steps out of the policy.
LEMMA CounterStep ==
  ASSUME IInv, [Next]_vars
  PROVE  CounterInv'
<1> USE DEF IInv, CounterInv, Shape,
        runnerVars, actorVars, wmVars, dataVars, history, disk
<1>1. CASE UNCHANGED vars
  BY <1>1 DEF vars
<1>2. CASE EnterStep \/ CollectReal \/ AppendReal \/ Reencode \/ ReplaceReal
  BY <1>2 DEF EnterStep, CollectReal, AppendReal, Reencode, ReplaceReal
<1>3. CASE UpdateLearner \/ LoadWM \/ Refresh \/ RefreshRaises \/ SyncPostSft \/ Imagine
  BY <1>3 DEF UpdateLearner, LoadWM, Refresh, RefreshRaises, Refreshing, SyncPostSft, Imagine
<1>4. CASE BeginTransaction
  BY <1>4 DEF BeginTransaction
<1>5. CASE EncoderSft
  BY <1>5 DEF EncoderSft, Ready, PolicyRecords
<1>6. CASE TrainActor
  BY <1>6, TrainedPolicy DEF TrainActor, Ready
<1>7. CASE FinalizeEncoder
  BY <1>7 DEF TransactionInv, FinalizeEncoder, CommitOrRestore, Accepted
<1>8. CASE FinalizeActor
  BY <1>8 DEF TransactionInv, FinalizeActor, CommitOrRestore, Accepted, AppliedSteps
<1>9. CASE Evaluate \/ Save \/ Fail
  BY <1>9 DEF Evaluate, Save, Fail
<1>10. CASE Resume
  BY <1>10 DEF Resume, CheckpointInv
<1> QED
  BY <1>1, <1>2, <1>3, <1>4, <1>5, <1>6, <1>7, <1>8, <1>9, <1>10 DEF Next

-----------------------------------------------------------------------------
(* The rollout copy, the metric and the checkpoints.                       *)

LEMMA ServingStep ==
  ASSUME IInv, [Next]_vars
  PROVE  ServingInv'
<1> USE DEF IInv, ServingInv, OnPolicy, FullStages, Full,
        runnerVars, actorVars, wmVars, dataVars, history, disk
<1> UNCHANGED mode
  BY DEF Next, vars
<1>1. CASE UNCHANGED vars
  BY <1>1 DEF vars
<1>2. CASE EnterStep \/ CollectReal
  BY <1>2 DEF EnterStep, CollectReal
<1>3. CASE AppendReal \/ Reencode \/ ReplaceReal
  BY <1>3 DEF AppendReal, Reencode, ReplaceReal
<1>4. CASE UpdateLearner \/ LoadWM
  BY <1>4 DEF UpdateLearner, LoadWM
<1>5. CASE Refresh \/ RefreshRaises \/ SyncPostSft
  BY <1>5 DEF Refresh, RefreshRaises, Refreshing, SyncPostSft
<1>6. CASE Imagine
  BY <1>6 DEF Imagine
<1>7. CASE BeginTransaction
  BY <1>7 DEF BeginTransaction
<1>8. CASE EncoderSft \/ TrainActor
  BY <1>8 DEF EncoderSft, TrainActor, Ready
<1>9. CASE FinalizeEncoder \/ FinalizeActor
  BY <1>9 DEF FinalizeEncoder, FinalizeActor
<1>10. CASE Evaluate \/ Save \/ Fail \/ Resume
  BY <1>10 DEF Evaluate, Save, Fail, Resume
<1> QED
  BY <1>1, <1>2, <1>3, <1>4, <1>5, <1>6, <1>7, <1>8, <1>9, <1>10 DEF Next

LEMMA MetricStep ==
  ASSUME IInv, [Next]_vars
  PROVE  MetricInv'
<1> USE DEF IInv, MetricInv, runnerVars, actorVars, wmVars, dataVars, history, disk
<1>1. CASE UNCHANGED vars
  BY <1>1 DEF vars
<1>2. CASE EnterStep \/ CollectReal \/ AppendReal \/ Reencode \/ ReplaceReal
  BY <1>2 DEF EnterStep, CollectReal, AppendReal, Reencode, ReplaceReal
<1>3. CASE UpdateLearner \/ LoadWM \/ Refresh \/ RefreshRaises \/ SyncPostSft \/ Imagine
  BY <1>3 DEF UpdateLearner, LoadWM, Refresh, RefreshRaises, Refreshing, SyncPostSft, Imagine
<1>4. CASE BeginTransaction \/ EncoderSft \/ TrainActor
  BY <1>4 DEF BeginTransaction, EncoderSft, TrainActor, Ready
<1>5. CASE FinalizeEncoder \/ FinalizeActor
  BY <1>5 DEF FinalizeEncoder, FinalizeActor
<1>6. CASE Evaluate
  BY <1>6 DEF Evaluate
<1>7. CASE Save \/ Fail \/ Resume
  BY <1>7 DEF Save, Fail, Resume
<1> QED
  BY <1>1, <1>2, <1>3, <1>4, <1>5, <1>6, <1>7 DEF Next

\* A checkpoint is written between steps, when policy, optimizers, counter and
\* metric belong together.
LEMMA CheckpointStep ==
  ASSUME IInv, [Next]_vars
  PROVE  CheckpointInv'
<1> USE DEF IInv, CheckpointInv, runnerVars, actorVars, wmVars, dataVars, history, disk
<1>1. CASE UNCHANGED ckpts
  BY <1>1
<1>2. CASE Save
  <2> DEFINE new == [step |-> step, policy |-> policy, opt |-> opt,
                     applied |-> applied, model |-> learner, metric |-> metric]
  <2>1. ckpts' \subseteq ckpts \cup {new}
    BY <1>2 DEF Save
  <2>2. stage = "save"
    BY <1>2 DEF Save
  <2>3. /\ new.policy \in PolicyRecords
        /\ new.opt = OptOf(new.policy)
        /\ new.applied = new.policy.updates
        /\ new.metric # <<>> => new.metric[1] = new.policy
    BY <2>2 DEF Shape, OptimizerFollowsPolicy, CounterInv, MetricInv
  <2> QED
    BY <2>1, <2>3
<1> QED
  BY <1>1, <1>2
  DEF Next, vars, EnterStep, CollectReal, AppendReal, Reencode, ReplaceReal, UpdateLearner,
      LoadWM, Refresh, RefreshRaises, SyncPostSft, Imagine, BeginTransaction, EncoderSft,
      TrainActor, FinalizeEncoder, FinalizeActor, Evaluate, Fail, Resume

-----------------------------------------------------------------------------
LEMMA InitInv == Init => IInv
BY DEF Init, IInv, Shape, Stages, PolicyRecords, OptimizerFollowsPolicy, TransactionInv,
       CounterInv, ServingInv, OnPolicy, FullStages, MetricInv, CheckpointInv, Base, OptOf

LEMMA NextInv == IInv /\ [Next]_vars => IInv'
BY ShapeStep, OptimizerStep, TransactionStep, CounterStep, ServingStep, MetricStep,
   CheckpointStep
   DEF IInv

\* What belongs to a policy stays with it in every reachable state.
THEOREM InductiveInvariant == Spec => []IInv
BY InitInv, NextInv, PTL DEF Spec

\* No rollback, failure or resume separates the optimizer states from the
\* parameters they were built for.
THEOREM OptimizerSafe == Spec => []OptimizerFollowsPolicy
<1>1. IInv => OptimizerFollowsPolicy
  BY DEF IInv
<1> QED
  BY <1>1, InductiveInvariant, PTL

\* The actor only ever trains on shards that its present policy produced.
THEOREM OnPolicySafe == Spec => []OnPolicy
<1>1. IInv => OnPolicy
  BY DEF IInv, ServingInv
<1> QED
  BY <1>1, InductiveInvariant, PTL

\* Between steps, and in every checkpoint, the runner's count of optimizer steps
\* is the number of steps in the policy.
THEOREM CounterSafe == Spec => []AppliedMatchesPolicy
<1>1. IInv => AppliedMatchesPolicy
  BY DEF IInv, CounterInv, CheckpointInv, AppliedMatchesPolicy
<1> QED
  BY <1>1, InductiveInvariant, PTL

\* The success rate in a checkpoint was measured on the policy in it.
THEOREM MetricSafe == Spec => []MetricOfSavedPolicy
<1>1. IInv => MetricOfSavedPolicy
  BY DEF IInv, CheckpointInv, MetricOfSavedPolicy
<1> QED
  BY <1>1, InductiveInvariant, PTL

-----------------------------------------------------------------------------
(* What the frozen modes imagine with.                                     *)

\* WM and classifier keep their origin wherever they are copied to.
ModelInv ==
  /\ learner = [from |-> "given", enc |-> learner.enc]
  /\ wm.from = "given"
  /\ \A c \in ckpts : c.model.from = "given"
  /\ stage = "train" => shards[1].wm.from = "given"

LEMMA ModelInit == Init => ModelInv
BY DEF Init, ModelInv, Given

\* A resume reads them from a checkpoint or, when they are given again, anew.
LEMMA ModelStep ==
  ASSUME InitAgain, ModelInv, [Next]_vars
  PROVE  ModelInv'
<1> USE DEF ModelInv, runnerVars, actorVars, wmVars, dataVars, history, disk
<1>1. CASE UNCHANGED vars
  BY <1>1 DEF vars
<1>2. CASE EnterStep \/ CollectReal \/ AppendReal \/ Reencode \/ ReplaceReal
  BY <1>2 DEF EnterStep, CollectReal, AppendReal, Reencode, ReplaceReal
<1>3. CASE UpdateLearner
  BY <1>3 DEF UpdateLearner
<1>4. CASE LoadWM \/ Refresh \/ RefreshRaises \/ SyncPostSft
  BY <1>4 DEF LoadWM, Refresh, RefreshRaises, SyncPostSft
<1>5. CASE Imagine
  BY <1>5 DEF Imagine
<1>6. CASE BeginTransaction \/ EncoderSft \/ TrainActor
  BY <1>6 DEF BeginTransaction, EncoderSft, TrainActor
<1>7. CASE FinalizeEncoder \/ FinalizeActor \/ Evaluate \/ Fail
  BY <1>7 DEF FinalizeEncoder, FinalizeActor, Evaluate, Fail
<1>8. CASE Save
  <2>1. ckpts' \subseteq ckpts \cup {[step |-> step, policy |-> policy, opt |-> opt,
                     applied |-> applied, model |-> learner, metric |-> metric]}
    BY <1>8 DEF Save
  <2>2. \A c \in ckpts' : c.model.from = "given"
    BY <2>1
  <2> QED
    BY <1>8, <2>2 DEF Save
<1>9. CASE Resume
  BY <1>9 DEF Resume, LearnerAtLaunch, Given
<1> QED
  BY <1>1, <1>2, <1>3, <1>4, <1>5, <1>6, <1>7, <1>8, <1>9 DEF Next

\* Given again at each resume, the frozen WM and classifier stay the given ones
\* in every imagined batch.
THEOREM FrozenModelSafe ==
  ASSUME InitAgain
  PROVE  Spec => []FrozenModelKept
<1>1. ModelInv /\ [Next]_vars => ModelInv'
  BY ModelStep
<1>2. ModelInv => FrozenModelKept
  BY DEF ModelInv, FrozenModelKept
<1> QED
  BY ModelInit, <1>1, <1>2, PTL DEF Spec

\* A start that is drawn is that of an episode in the replay.
LEMMA StartsInReplay ==
  ASSUME NEW q, NEW e \in StartRecords(q)
  PROVE  \E i \in DOMAIN q : e = q[i]
BY DEF StartRecords, EnvEligible, RunnerEligible, OfTaskId

\* Start states of failure_imagined_rl: when the refresh begins there is a failed
\* episode, and afterwards the workers hold the start of one.
AnchorInv ==
  Failure =>
    /\ stage \notin FullStages
    /\ stage \in {"refresh", "imagine"} => RunnerEligible(replay) # {}
    /\ stage = "imagine" => anchor # <<>> /\ anchor[1].outcome = "failure"
    /\ AnchorsFailed

LEMMA AnchorInit == Init => AnchorInv
BY DEF Init, AnchorInv, AnchorsFailed, FullStages

LEMMA AnchorStep ==
  ASSUME AnchorInv, [Next]_vars
  PROVE  AnchorInv'
<1> USE DEF AnchorInv, AnchorsFailed, FullStages, Failure,
        runnerVars, actorVars, wmVars, dataVars, history, disk
<1> SUFFICES ASSUME Failure
             PROVE  AnchorInv'
  BY DEF Next, vars
<1>m. UNCHANGED mode /\ ~Full
  BY DEF Next, vars, Full
<1>1. CASE UNCHANGED vars
  BY <1>1 DEF vars, RunnerEligible
<1>2. CASE EnterStep \/ CollectReal
  BY <1>2, <1>m DEF EnterStep, CollectReal
<1>3. CASE AppendReal
  BY <1>3, <1>m DEF AppendReal, RunnerEligible
<1>4. CASE Reencode \/ ReplaceReal \/ UpdateLearner \/ LoadWM \/ SyncPostSft
  BY <1>4 DEF Reencode, ReplaceReal, UpdateLearner, LoadWM, SyncPostSft
<1>5. CASE Refresh
  <2>1. EnvEligible(replay) # {} /\ stage \in {"refresh", "imagine"}
    BY <1>5 DEF Refresh, Refreshing, EnvEligible
  <2>2. StartRecords(replay) = EnvEligible(replay)
    BY <2>1 DEF StartRecords, CanDraw
  <2>3. PICK e \in EnvEligible(replay) : anchor' = <<e>>
    BY <1>5, <2>1, <2>2 DEF Refresh
  <2>4. e.outcome = "failure"
    BY DEF EnvEligible, RunnerEligible
  <2>5. stage' = "imagine" /\ UNCHANGED replay
    BY <1>5, <1>m DEF Refresh
  <2>6. RunnerEligible(replay)' # {}
    BY <1>m, <2>1, <2>5 DEF EnvEligible, RunnerEligible
  <2> QED
    BY <1>m, <2>3, <2>4, <2>5, <2>6
<1>r. CASE RefreshRaises
  BY <1>r, <1>m DEF RefreshRaises
<1>6. CASE Imagine
  BY <1>6, <1>m DEF Imagine
<1>7. CASE BeginTransaction
  BY <1>7, <1>m DEF BeginTransaction
<1>8. CASE EncoderSft \/ TrainActor
  BY <1>8, <1>m DEF EncoderSft, TrainActor, Ready
<1>9. CASE FinalizeEncoder \/ FinalizeActor
  <2>1. stage # "sftEnd"
    OBVIOUS
  <2> QED
    BY <1>9, <1>m, <2>1 DEF FinalizeEncoder, FinalizeActor
<1>10. CASE Evaluate \/ Save \/ Fail \/ Resume
  BY <1>10, <1>m DEF Evaluate, Save, Fail, Resume
<1> QED
  BY <1>1, <1>2, <1>3, <1>4, <1>5, <1>r, <1>6, <1>7, <1>8, <1>9, <1>10 DEF Next

\* failure_imagined_rl learns only from imagination that started where a real
\* episode that failed had started.
THEOREM AnchorsSafe == Spec => []AnchorsFailed
<1>1. AnchorInv /\ [Next]_vars => AnchorInv'
  BY AnchorStep
<1>2. AnchorInv => AnchorsFailed
  BY DEF AnchorInv, AnchorsFailed
<1> QED
  BY AnchorInit, <1>1, <1>2, PTL DEF Spec

-----------------------------------------------------------------------------
(* Selecting and evicting episodes.                                        *)

\* Every nonempty set of numbers has a least member: the form in which the
\* proofs below use induction.
LEMMA LeastNumber ==
  ASSUME NEW T \in SUBSET Nat, T # {}
  PROVE  \E n \in T : \A m \in T : n <= m
<1>1. PICK n \in T : \A m \in T : <<m, n>> \notin OpToRel(<, Nat)
  BY NatLessThanWellFounded, WFMin
<1>2. \A m \in T : n <= m
  <2>1. SUFFICES ASSUME NEW m \in T
                 PROVE  n <= m
    OBVIOUS
  <2>2. m \in Nat /\ n \in Nat
    OBVIOUS
  <2>3. ~ (m < n)
    BY <1>1, <2>2 DEF OpToRel
  <2> QED
    BY <2>2, <2>3
<1> QED
  BY <1>2

Increasing(f, S) ==
  /\ f \in [1 .. Cardinality(S) -> S]
  /\ \A i, j \in DOMAIN f : i < j => f[i] < f[j]

\* The positions of a sequence can be put in order; by induction on the last one.
LEMMA Enumerated ==
  ASSUME NEW n \in Nat, NEW S \in SUBSET (1 .. n)
  PROVE  \E f : Increasing(f, S)
<1> DEFINE T == {m \in Nat : \E R \in SUBSET (1 .. m) : \A f : ~Increasing(f, R)}
<1>1. SUFFICES ASSUME T # {}
               PROVE  FALSE
  OBVIOUS
<1>2. PICK m \in T : \A k \in T : m <= k
  BY <1>1, LeastNumber
<1>n. m \in Nat
  OBVIOUS
<1>3. PICK R \in SUBSET (1 .. m) : \A f : ~Increasing(f, R)
  OBVIOUS
<1>4. m # 0
  <2>1. SUFFICES ASSUME m = 0
                 PROVE  FALSE
    OBVIOUS
  <2>2. R = {} /\ Cardinality(R) = 0
    <3>1. R = {}
      BY <2>1
    <3> QED
      BY <3>1, FS_EmptySet
  <2>3. Increasing([i \in 1 .. 0 |-> 0], R)
    BY <2>2 DEF Increasing
  <2> QED
    BY <1>3, <2>3
<1>5. m - 1 \notin T /\ m - 1 \in Nat
  BY <1>2, <1>n, <1>4
<1>6. CASE m \notin R
  <2>1. R \in SUBSET (1 .. m - 1)
    BY <1>5, <1>6
  <2> QED
    BY <1>3, <1>5, <2>1
<1>7. CASE m \in R
  <2> DEFINE Q == R \ {m}
  <2>1. Q \in SUBSET (1 .. m - 1)
    BY <1>5
  <2>2. PICK g : Increasing(g, Q)
    BY <1>5, <2>1
  <2>3. IsFiniteSet(R)
    <3>1. IsFiniteSet(1 .. m)
      BY <1>n, FS_Interval
    <3> QED
      BY <3>1, FS_Subset
  <2>4. /\ Cardinality(R) = Cardinality(Q) + 1 /\ Cardinality(Q) \in Nat
        /\ Q \subseteq R /\ \A q \in Q : q \in Nat /\ q < m
    BY <1>n, <1>7, <2>3, FS_RemoveElement, FS_CardinalityType, FS_Subset
  <2> HIDE DEF Q
  <2>5. PICK c \in Nat : c = Cardinality(Q)
    BY <2>4
  <2>6. /\ \A i \in 1 .. c : g[i] \in Q
        /\ \A i, j \in 1 .. c : i < j => g[i] < g[j]
    BY <2>2, <2>5 DEF Increasing
  <2> DEFINE f == [i \in 1 .. c + 1 |-> IF i = c + 1 THEN m ELSE g[i]]
  <2>7. \A i \in 1 .. c + 1 : f[i] \in R
    <3> SUFFICES ASSUME NEW i \in 1 .. c + 1
                 PROVE  f[i] \in R
      OBVIOUS
    <3>1. CASE i = c + 1
      BY <1>7, <3>1
    <3>2. CASE i # c + 1
      <4>1. i \in 1 .. c
        BY <3>2
      <4>2. f[i] = g[i]
        BY <3>2
      <4> HIDE DEF f
      <4> QED
        BY <2>4, <2>6, <4>1, <4>2
    <3> QED
      BY <3>1, <3>2
  <2>8. \A i, j \in 1 .. c + 1 : i < j => f[i] < f[j]
    <3> SUFFICES ASSUME NEW i \in 1 .. c + 1, NEW j \in 1 .. c + 1, i < j
                 PROVE  f[i] < f[j]
      OBVIOUS
    <3>1. i \in 1 .. c /\ f[i] = g[i] /\ g[i] < m
      <4>1. i \in 1 .. c /\ f[i] = g[i]
        OBVIOUS
      <4> HIDE DEF f
      <4> QED
        BY <2>4, <2>6, <4>1
    <3>2. CASE j = c + 1
      BY <3>1, <3>2
    <3>3. CASE j # c + 1
      BY <2>6, <3>1, <3>3
    <3> QED
      BY <3>2, <3>3
  <2>9. Increasing(f, R)
    BY <2>4, <2>5, <2>7, <2>8 DEF Increasing
  <2> QED
    BY <1>3, <2>9
<1> QED
  BY <1>6, <1>7

\* What InOrder chooses is such an enumeration.
LEMMA InOrderIncreasing ==
  ASSUME NEW n \in Nat, NEW S \in SUBSET (1 .. n)
  PROVE  Increasing(InOrder(S), S)
BY Enumerated DEF InOrder, Increasing

\* All episodes of p are episodes of q.
From(p, q) == \A i \in DOMAIN p : \E j \in DOMAIN q : p[i] = q[j]

\* Choosing some episodes adds none, and where each was is a number that grows.
LEMMA ChosenAre ==
  ASSUME NEW S, NEW q \in Seq(S), NEW R \in SUBSET DOMAIN q
  PROVE  /\ Chosen(q, R) \in Seq(S) /\ From(Chosen(q, R), q)
         /\ DOMAIN InOrder(R) = DOMAIN Chosen(q, R)
         /\ \A k \in DOMAIN Chosen(q, R) :
              InOrder(R)[k] \in R /\ Chosen(q, R)[k] = q[InOrder(R)[k]]
         /\ \A k, l \in DOMAIN Chosen(q, R) : k < l => InOrder(R)[k] < InOrder(R)[l]
         /\ DOMAIN Chosen(q, R) \subseteq Nat /\ IsFiniteSet(DOMAIN Chosen(q, R))
<1>1. PICK n \in Nat : n = Len(q) /\ DOMAIN q = 1 .. n
  BY LenProperties
<1>2. R \in SUBSET (1 .. n)
  BY <1>1
<1>3. Increasing(InOrder(R), R)
  BY <1>2, InOrderIncreasing
<1>f. IsFiniteSet(1 .. n)
  BY <1>1, FS_Interval
<1>4. Cardinality(R) \in Nat
  BY <1>2, <1>f, FS_Subset, FS_CardinalityType
<1>c. PICK c \in Nat : c = Cardinality(R)
  BY <1>4
<1>5. PICK at \in [1 .. c -> R] : at = InOrder(R) /\ \A k, l \in 1 .. c : k < l => at[k] < at[l]
  BY <1>3, <1>c DEF Increasing
<1>6. Chosen(q, R) = [k \in 1 .. c |-> q[at[k]]]
  BY <1>5 DEF Chosen
<1>7. \A k \in 1 .. c : at[k] \in DOMAIN q /\ q[at[k]] \in S
  BY <1>1, ElementOfSeq
<1>8. Chosen(q, R) \in Seq(S) /\ From(Chosen(q, R), q)
  BY <1>6, <1>7, IsASeq DEF From
<1>9. 1 .. c \subseteq Nat /\ IsFiniteSet(1 .. c)
  BY FS_Interval
<1> QED
  BY <1>5, <1>6, <1>8, <1>9

LEMMA LongOnesSelect ==
  ASSUME NEW S, NEW q \in Seq(S)
  PROVE  LongOnes(q) \in Seq(S) /\ From(LongOnes(q), q)
<1>1. {i \in DOMAIN q : IsLong(q[i])} \in SUBSET DOMAIN q
  OBVIOUS
<1> QED
  BY <1>1, ChosenAre DEF LongOnes

OfTask(q, t) == {i \in DOMAIN q : q[i].task = t}
PerTask(q)   == \A t : Cardinality(OfTask(q, t)) <= Capacity

\* Evicting the oldest adds none.  It keeps the capacity of each task: all that
\* stays of a task but its first episode came later than that one.
LEMMA NewestFits ==
  ASSUME NEW S, NEW q \in Seq(S)
  PROVE  Newest(q) \in Seq(S) /\ From(Newest(q), q) /\ PerTask(Newest(q))
<1> DEFINE R == {i \in DOMAIN q : Cardinality(LaterOfTask(q, i)) < Capacity}
<1>c. Capacity \in Nat \ {0}
  BY NumbersAssumption
<1>q. IsFiniteSet(DOMAIN q) /\ DOMAIN q \subseteq Nat
  <2>1. PICK n \in Nat : DOMAIN q = 1 .. n
    BY LenProperties
  <2> QED
    BY <2>1, FS_Interval
<1>r. R \in SUBSET DOMAIN q
  OBVIOUS
<1>1. PICK p : p = Newest(q)
  OBVIOUS
<1>2. PICK at : at = InOrder(R)
  OBVIOUS
<1>3. /\ p \in Seq(S) /\ From(p, q)
      /\ \A k \in DOMAIN p : at[k] \in R /\ p[k] = q[at[k]]
      /\ \A k, l \in DOMAIN p : k < l => at[k] < at[l]
      /\ DOMAIN p \subseteq Nat /\ IsFiniteSet(DOMAIN p)
  BY <1>1, <1>2, <1>r, ChosenAre DEF Newest
<1>4. ASSUME NEW t
      PROVE  Cardinality(OfTask(p, t)) <= Capacity
  <2>1. OfTask(p, t) \subseteq DOMAIN p /\ OfTask(p, t) \in SUBSET Nat
    BY <1>3 DEF OfTask
  <2>2. IsFiniteSet(OfTask(p, t))
    BY <1>3, <2>1, FS_Subset
  <2>3. CASE OfTask(p, t) = {}
    BY <1>c, <2>3, FS_EmptySet
  <2>4. CASE OfTask(p, t) # {}
    <3>1. PICK k \in OfTask(p, t) : \A l \in OfTask(p, t) : k <= l
      BY <2>1, <2>4, LeastNumber
    <3> DEFINE rest == OfTask(p, t) \ {k}
               later == LaterOfTask(q, at[k])
    <3>2. k \in DOMAIN p /\ at[k] \in R /\ q[at[k]].task = t
      BY <1>3, <2>1, <3>1 DEF OfTask
    <3>3. \A l \in rest : at[l] \in later
      <4> SUFFICES ASSUME NEW l \in rest
                   PROVE  at[l] \in later
        OBVIOUS
      <4>1. l \in DOMAIN p /\ p[l].task = t /\ k < l
        BY <1>3, <2>1, <3>1 DEF OfTask
      <4>2. at[l] \in DOMAIN q /\ q[at[l]].task = t /\ at[k] < at[l]
        BY <1>3, <3>2, <4>1
      <4> QED
        BY <3>2, <4>2, <1>q DEF LaterOfTask
    <3>4. \A l, m \in rest : at[l] = at[m] => l = m
      <4> SUFFICES ASSUME NEW l \in rest, NEW m \in rest, l # m
                   PROVE  at[l] # at[m]
        OBVIOUS
      <4>1. l \in DOMAIN p /\ m \in DOMAIN p /\ l \in Nat /\ m \in Nat
        BY <1>3, <2>1
      <4>2. at[l] \in Nat /\ at[m] \in Nat
        BY <1>3, <1>q, <4>1
      <4> QED
        BY <1>3, <4>1, <4>2
    <3>5. IsFiniteSet(later)
      BY <1>q, FS_Subset DEF LaterOfTask
    <3> HIDE DEF later
    <3>6. Cardinality(rest) <= Cardinality(later)
      <4> DEFINE f == [l \in rest |-> at[l]]
      <4>1. f \in Injection(rest, later)
        BY <3>3, <3>4 DEF Injection, IsInjective
      <4> QED
        BY <3>5, <4>1, FS_Injection
    <3>7. Cardinality(later) < Capacity /\ Cardinality(later) \in Nat
      BY <3>2, <3>5, FS_CardinalityType DEF later
    <3>8. Cardinality(rest) = Cardinality(OfTask(p, t)) - 1 /\ Cardinality(OfTask(p, t)) \in Nat
      BY <2>2, FS_RemoveElement, FS_CardinalityType
    <3> QED
      BY <1>c, <3>6, <3>7, <3>8
  <2> QED
    BY <2>3, <2>4
<1> QED
  BY <1>1, <1>3, <1>4 DEF PerTask

\* An empty replay has room.
LEMMA EmptyFits == PerTask(<<>>)
<1>1. \A t : OfTask(<<>>, t) = {}
  BY DEF OfTask
<1> QED
  BY <1>1, FS_EmptySet, NumbersAssumption DEF PerTask

-----------------------------------------------------------------------------
(* Numbers: steps, ids and counters.                                       *)

Known   == 0 .. minted
Updates == 0 .. MaxUpdates * MaxSteps

\* The stages after the actor update of a step, and those before it.
Settled == {"ready", "eval", "save", "down"}
Before  == Stages \ (Settled \cup {"trainEnd"})

\* Updates that the current step may still make, and optimizer steps that it
\* may still count.
ToCome  == IF stage \in {"collect", "sft"} THEN 2 ELSE IF stage \in Before THEN 1 ELSE 0
ToCount == IF stage \in Settled THEN 0 ELSE MaxUpdates

\* Two ids and one actor update a step: what is still to come is already paid
\* for, also when a resume goes back to an earlier step.
Numbers ==
  /\ mode \in Modes /\ strict \in BOOLEAN
  /\ step \in 0 .. MaxSteps /\ restarts \in 0 .. MaxRestarts
  /\ stage \notin {"ready", "down"} => step > 0
  /\ minted + ToCome <= 2 * (MaxSteps * restarts + step)
  /\ taken \in 0 .. MaxUpdates
  /\ applied + ToCount <= MaxUpdates * step
  /\ \A c \in ckpts : c.step \in 1 .. MaxSteps /\ c.applied <= MaxUpdates * c.step

\* Products of numbers keep their order.
LEMMA TimesMonotone ==
  ASSUME NEW a \in Nat, NEW b \in Nat, NEW c \in Nat, a <= b
  PROVE  c * a \in Nat /\ c * b \in Nat /\ c * a <= c * b
OBVIOUS

LEMMA NumbersInit == Init => Numbers
<1> SUFFICES ASSUME Init
             PROVE  Numbers
  OBVIOUS
<1> USE NumbersAssumption
<1>1. MaxUpdates * 0 = 0 /\ MaxSteps * 0 = 0
  OBVIOUS
<1> QED
  BY <1>1 DEF Init, Numbers, Settled, Before, Stages, ToCome, ToCount

\* An actor update reports no more steps than it may make.
LEMMA TakenBounded ==
  ASSUME TrainActor
  PROVE  taken' \in 0 .. MaxUpdates
<1>1. PICK path \in Paths : taken' = Len(path)
  BY DEF TrainActor
<1>2. PICK n \in 0 .. MaxUpdates : path \in [1 .. n -> Kl]
  BY DEF Paths
<1>3. n \in Nat
  BY NumbersAssumption
<1>4. Len(path) = n
  BY <1>2, <1>3
<1> QED
  BY <1>1, <1>2, <1>4

\* A call inside a step that uses up no more than was to come.
LEMMA NumbersWithin ==
  ASSUME Numbers, UNCHANGED <<mode, strict, step, restarts, ckpts>>,
         stage \notin {"ready", "down"} \/ stage' \in {"ready", "down"},
         taken' \in 0 .. MaxUpdates, minted \in Nat, applied \in Nat,
         NEW ids \in Nat, NEW steps \in Nat, ids = minted', steps = applied',
         NEW a \in Nat, NEW b \in Nat, NEW c \in Nat, NEW d \in Nat,
         a = ToCome, b = ToCount, c = ToCome', d = ToCount',
         ids + c <= minted + a,
         steps + d <= applied + b
  PROVE  Numbers'
<1> USE NumbersAssumption
<1>1. PICK most \in Nat, all \in Nat :
        most = 2 * (MaxSteps * restarts + step) /\ all = MaxUpdates * step
  BY DEF Numbers
<1>2. minted + a <= most /\ applied + b <= all
  BY <1>1 DEF Numbers
<1>3. ids + c <= minted + a /\ steps + d <= applied + b /\ minted \in Nat /\ applied \in Nat
  OBVIOUS
<1>4. ids + c <= most /\ steps + d <= all
  BY ONLY <1>2, <1>3
<1> QED
  BY <1>1, <1>4 DEF Numbers

LEMMA NumbersStep ==
  ASSUME IInv, Numbers, [Next]_vars
  PROVE  Numbers'
<1> USE DEF runnerVars, actorVars, wmVars, dataVars, history, disk
<1>m. UNCHANGED <<mode, strict>>
  BY DEF Next, vars
<1>s. /\ stage \in Stages /\ minted \in Nat /\ applied \in Nat /\ taken \in 0 .. MaxUpdates
      /\ step \in 0 .. MaxSteps /\ restarts \in 0 .. MaxRestarts
      /\ MaxSteps \in Nat /\ MaxUpdates \in Nat /\ MaxRestarts \in Nat
  BY NumbersAssumption DEF IInv, Shape, Numbers
<1>1. CASE UNCHANGED vars
  BY <1>1 DEF vars, Numbers, ToCome, ToCount
<1>2. CASE EnterStep
  <2>1. PICK spent \in Nat, now \in Nat : spent = MaxSteps * restarts /\ now = MaxUpdates * step
    BY <1>s
  <2>2. /\ step' = step + 1 /\ step' \in 0 .. MaxSteps /\ MaxUpdates * step' = now + MaxUpdates
        /\ UNCHANGED <<restarts, minted, taken, applied, ckpts>>
        /\ stage = "ready" /\ stage' = "collect"
    BY <1>2, <1>s, <2>1 DEF EnterStep
  <2>3. minted <= 2 * (spent + step) /\ applied <= now
    BY <1>s, <2>1, <2>2 DEF Numbers, ToCome, ToCount, Before, Settled, Stages
  <2>4. ToCome' = 2 /\ ToCount' = MaxUpdates
    BY <2>2 DEF ToCome, ToCount, Settled
  <2>5. minted' + ToCome' <= 2 * (spent + step')
    BY <1>s, <2>1, <2>2, <2>3, <2>4
  <2>6. applied' + ToCount' <= MaxUpdates * step'
    BY <1>s, <2>1, <2>2, <2>3, <2>4
  <2> QED
    BY <1>m, <1>s, <2>1, <2>2, <2>5, <2>6 DEF Numbers
<1>3. CASE \/ CollectReal \/ Reencode \/ ReplaceReal \/ UpdateLearner \/ LoadWM
           \/ Refresh \/ RefreshRaises \/ SyncPostSft \/ Imagine \/ BeginTransaction
           \/ AppendReal \/ Fail \/ Evaluate \/ FinalizeEncoder
  <2>1. /\ UNCHANGED <<step, restarts, minted, taken, applied, ckpts>>
        /\ stage \notin {"ready", "down"} \/ stage' \in {"ready", "down"}
    BY <1>3 DEF CollectReal, Reencode, ReplaceReal, UpdateLearner, LoadWM, Refresh,
                RefreshRaises, Refreshing, SyncPostSft, Imagine, BeginTransaction, AppendReal,
                Fail, Evaluate, FinalizeEncoder
  <2>2. ToCome' <= ToCome
    BY <1>3, <1>s
       DEF CollectReal, Reencode, ReplaceReal, UpdateLearner, LoadWM, Refresh, RefreshRaises,
           Refreshing, SyncPostSft, Imagine, BeginTransaction, AppendReal, Fail, Evaluate,
           FinalizeEncoder, ToCome, Before, Settled, Stages
  <2>3. ToCount' <= ToCount
    BY <1>3, <1>s
       DEF CollectReal, Reencode, ReplaceReal, UpdateLearner, LoadWM, Refresh, RefreshRaises,
           Refreshing, SyncPostSft, Imagine, BeginTransaction, AppendReal, Fail, Evaluate,
           FinalizeEncoder, ToCount, Settled
  <2>4. PICK a \in Nat, b \in Nat, c \in Nat, d \in Nat :
          a = ToCome /\ b = ToCount /\ c = ToCome' /\ d = ToCount'
    BY <1>s DEF ToCome, ToCount
  <2>5. c <= a /\ d <= b
    BY <2>2, <2>3, <2>4
  <2>6. minted + c <= minted + a /\ applied + d <= applied + b
    BY <1>s, <2>5
  <2> QED
    BY <1>m, <1>s, <2>1, <2>4, <2>6, NumbersWithin
<1>4. CASE EncoderSft
  <2>1. /\ UNCHANGED <<step, restarts, taken, applied, ckpts>>
        /\ minted' \in {minted, minted + 1} /\ stage = "sft" /\ stage' = "sftEnd"
    BY <1>4 DEF EncoderSft, Ready
  <2>2. 2 = ToCome /\ 1 = ToCome' /\ MaxUpdates = ToCount /\ MaxUpdates = ToCount'
    BY <1>s, <2>1 DEF ToCome, ToCount, Before, Settled, Stages
  <2>3. PICK ids \in Nat : ids = minted' /\ ids <= minted + 1
    BY <1>s, <2>1
  <2>s. ids <= minted + 1
    BY <2>3
  <2>4. ids + 1 <= minted + 2 /\ applied + MaxUpdates <= applied + MaxUpdates
    BY ONLY <1>s, <2>s
  <2> QED
    BY <1>m, <1>s, <2>1, <2>2, <2>3, <2>4, NumbersWithin
<1>5. CASE TrainActor
  <2>1. /\ UNCHANGED <<step, restarts, applied, ckpts>>
        /\ minted' \in {minted, minted + 1} /\ stage = "train" /\ stage' = "trainEnd"
    BY <1>5 DEF TrainActor, Ready
  <2>2. 1 = ToCome /\ 0 = ToCome' /\ MaxUpdates = ToCount /\ MaxUpdates = ToCount'
    BY <1>s, <2>1 DEF ToCome, ToCount, Before, Settled, Stages
  <2>3. PICK ids \in Nat : ids = minted' /\ ids <= minted + 1
    BY <1>s, <2>1
  <2>s. ids <= minted + 1
    BY <2>3
  <2>4. ids + 0 <= minted + 1 /\ applied + MaxUpdates <= applied + MaxUpdates
    BY ONLY <1>s, <2>s
  <2>5. taken' \in 0 .. MaxUpdates
    BY <1>5, TakenBounded
  <2> QED
    BY <1>m, <1>s, <2>1, <2>2, <2>3, <2>4, <2>5, NumbersWithin
<1>6. CASE FinalizeActor
  <2>1. /\ UNCHANGED <<step, restarts, taken, minted, ckpts>>
        /\ applied' \in {applied, applied + taken} /\ stage = "trainEnd" /\ stage' = "eval"
    BY <1>6, <1>s DEF FinalizeActor, AppliedSteps
  <2>2. 0 = ToCome /\ 0 = ToCome' /\ MaxUpdates = ToCount /\ 0 = ToCount'
    BY <1>s, <2>1 DEF ToCome, ToCount, Before, Settled, Stages
  <2>3. PICK steps \in Nat : steps = applied' /\ steps <= applied + taken
    BY <1>s, <2>1
  <2>s. steps <= applied + taken
    BY <2>3
  <2>4. minted + 0 <= minted + 0 /\ steps + 0 <= applied + MaxUpdates
    BY ONLY <1>s, <2>s
  <2> QED
    BY <1>m, <1>s, <2>1, <2>2, <2>3, <2>4, NumbersWithin
<1>7. CASE Save
  <2>1. /\ UNCHANGED <<step, restarts, taken, minted, applied>>
        /\ stage = "save" /\ stage' = "ready"
    BY <1>7 DEF Save
  <2>2. ToCome = 0 /\ ToCome' = 0 /\ ToCount' = 0 /\ ToCount = 0
    BY <1>s, <2>1 DEF ToCome, ToCount, Before, Settled, Stages
  <2>3. ckpts' \subseteq ckpts \cup {[step |-> step, policy |-> policy, opt |-> opt,
                     applied |-> applied, model |-> learner, metric |-> metric]}
    BY <1>7 DEF Save
  <2>4. step \in 1 .. MaxSteps /\ applied <= MaxUpdates * step
    BY <1>s, <2>1, <2>2 DEF Numbers
  <2>5. \A c \in ckpts' : c.step \in 1 .. MaxSteps /\ c.applied <= MaxUpdates * c.step
    BY <2>3, <2>4 DEF Numbers
  <2> QED
    BY <1>m, <1>s, <2>1, <2>2, <2>5 DEF Numbers
<1>8. CASE Resume
  <2>1. PICK c \in ckpts : step' = c.step /\ applied' = c.applied
    BY <1>8 DEF Resume
  <2>2. /\ step' \in 1 .. MaxSteps /\ applied' <= MaxUpdates * step' /\ applied' \in Nat
    BY <2>1 DEF Numbers, IInv, CheckpointInv, PolicyRecords
  <2>3. /\ restarts' = restarts + 1 /\ restarts' \in 0 .. MaxRestarts /\ taken' = 0
        /\ stage = "down" /\ stage' = "ready" /\ UNCHANGED <<minted, ckpts>>
    BY <1>8, <1>s DEF Resume
  <2>4. ToCome = 0 /\ ToCome' = 0 /\ ToCount' = 0
    BY <1>s, <2>3 DEF ToCome, ToCount, Before, Settled, Stages
  <2>5. PICK spent \in Nat : spent = MaxSteps * restarts
    BY <1>s
  <2>6. MaxSteps * restarts' = spent + MaxSteps
    BY <1>s, <2>3, <2>5
  <2>7. minted <= 2 * (spent + step)
    BY <1>s, <2>4, <2>5 DEF Numbers
  <2>8. minted' + ToCome' <= 2 * (MaxSteps * restarts' + step')
    <3>1. PICK again \in Nat : again = step'
      BY <2>2
    <3>2. minted <= 2 * ((spent + MaxSteps) + again)
      BY ONLY <1>s, <2>7
    <3>3. MaxSteps * restarts' + step' = (spent + MaxSteps) + again
      BY <2>6, <3>1
    <3>4. minted' + ToCome' = minted
      BY <1>s, <2>3, <2>4
    <3> QED
      BY <3>2, <3>3, <3>4
  <2>9. applied' + ToCount' <= MaxUpdates * step'
    BY <2>2, <2>4
  <2> QED
    BY <1>m, <1>s, <2>2, <2>3, <2>8, <2>9 DEF Numbers
<1> QED
  BY <1>1, <1>2, <1>3, <1>4, <1>5, <1>6, <1>7, <1>8 DEF Next

-----------------------------------------------------------------------------
(* Values: policies, models and episodes carry minted ids only.            *)

PolicyKnown  == [enc : Known, act : Known, updates : Updates]
OptKnown     == [enc : Known, act : Known]
ModelKnown   == [from : {"given", "random"}, enc : Known]
EpisodeKnown == [outcome : Outcomes, task : Tasks[mode], enc : Known]

PoliciesHeld ==
  /\ policy \in PolicyKnown /\ rollout \in PolicyKnown
  /\ saved # <<>> => saved[1].policy \in PolicyKnown
  /\ metric = <<>> \/ \E p \in PolicyKnown : metric = <<p>>

ModelsHeld ==
  /\ learner \in ModelKnown /\ wm \in ModelKnown
  /\ anchor = <<>> \/ \E e \in EpisodeKnown : anchor = <<e>>
  /\ shards = <<>> \/ \E x : shards = <<x>>

EpisodesHeld ==
  /\ batch \in Seq(EpisodeKnown) /\ Len(batch) \in {0, Trajectories[mode]}
  /\ replay \in Seq(EpisodeKnown) /\ PerTask(replay)

Held == PoliciesHeld /\ ModelsHeld /\ EpisodesHeld

CheckpointKnown ==
  [step : 1 .. MaxSteps, policy : PolicyKnown, opt : OptKnown, applied : Nat,
   model : ModelKnown, metric : {<<>>} \cup {<<p>> : p \in PolicyKnown}]

Stored == ckpts \subseteq CheckpointKnown

\* What is known stays known.
LEMMA KnownGrows ==
  ASSUME Shape, [Next]_vars
  PROVE  /\ Known \subseteq Known' /\ PolicyKnown \subseteq PolicyKnown'
         /\ ModelKnown \subseteq ModelKnown' /\ EpisodeKnown \subseteq EpisodeKnown'
         /\ Seq(EpisodeKnown) \subseteq Seq(EpisodeKnown')
         /\ CheckpointKnown \subseteq CheckpointKnown'
<1>m. mode' = mode
  BY DEF Next, vars
<1>1. minted \in Nat /\ minted' \in {minted, minted + 1}
  <2> USE DEF runnerVars, actorVars, wmVars, dataVars, history, disk
  <2>1. minted' = minted \/ minted' = minted + 1
    BY DEF Next, vars, EnterStep, CollectReal, AppendReal, Reencode, ReplaceReal, UpdateLearner,
           LoadWM, Refresh, RefreshRaises, SyncPostSft, Imagine, BeginTransaction, EncoderSft,
           TrainActor, FinalizeEncoder, FinalizeActor, Evaluate, Save, Fail, Resume
  <2> QED
    BY <2>1 DEF Shape
<1>2. \A m \in Nat : 0 .. m \subseteq 0 .. m + 1
  OBVIOUS
<1>3. Known \subseteq Known'
  BY <1>1, <1>2 DEF Known
<1>4. /\ PolicyKnown \subseteq PolicyKnown' /\ OptKnown \subseteq OptKnown'
      /\ ModelKnown \subseteq ModelKnown' /\ EpisodeKnown \subseteq EpisodeKnown'
  BY <1>3, <1>m DEF PolicyKnown, OptKnown, ModelKnown, EpisodeKnown, Updates
<1>5. Seq(EpisodeKnown) \subseteq Seq(EpisodeKnown')
  BY <1>4, SeqMonotonic
<1>6. CheckpointKnown \subseteq CheckpointKnown'
  BY <1>4 DEF CheckpointKnown
<1> QED
  BY <1>3, <1>4, <1>5, <1>6

LEMMA HeldInit == Init => Held /\ Stored
<1> SUFFICES ASSUME Init
             PROVE  Held /\ Stored
  OBVIOUS
<1>1. minted = 0
  BY DEF Init
<1>2. 0 \in Known /\ 0 \in Updates
  <2>1. MaxUpdates * MaxSteps \in Nat
    BY NumbersAssumption
  <2> QED
    BY <1>1, <2>1 DEF Known, Updates
<1>3. Base \in PolicyKnown /\ Given \in ModelKnown
  BY <1>2 DEF Base, Given, PolicyKnown, ModelKnown
<1>4. <<>> \in Seq(EpisodeKnown) /\ Len(<<>>) = 0
  BY EmptySeq
<1> QED
  BY <1>3, <1>4, EmptyFits DEF Init, Held, PoliciesHeld, ModelsHeld, EpisodesHeld, Stored

\* The episodes that a step collects, appends and re-encodes.
LEMMA CollectedKnown ==
  ASSUME Held, Numbers, CollectReal
  PROVE  batch' \in Seq(EpisodeKnown) /\ Len(batch') = Trajectories[mode]
<1>1. PICK n \in Nat : n = Trajectories[mode]
  BY NumbersAssumption DEF Numbers
<1>2. PICK real \in [1 .. n -> [outcome : Outcomes, task : Tasks[mode]]] :
        batch' = [i \in 1 .. n |->
                    [outcome |-> real[i].outcome, task |-> real[i].task, enc |-> rollout.enc]]
  BY <1>1 DEF CollectReal
<1>3. rollout.enc \in Known
  BY DEF Held, PoliciesHeld, PolicyKnown
<1>4. batch' \in [1 .. n -> EpisodeKnown]
  BY <1>2, <1>3 DEF EpisodeKnown
<1> QED
  BY <1>1, <1>4

LEMMA ReencodedKnown ==
  ASSUME Held, Reencode
  PROVE  batch' \in Seq(EpisodeKnown) /\ Len(batch') = Len(batch)
<1>1. PICK n \in Nat : n = Len(batch) /\ batch \in [1 .. n -> EpisodeKnown]
  BY LenProperties DEF Held, EpisodesHeld
<1>2. batch' = [i \in 1 .. n |-> [batch[i] EXCEPT !.enc = policy.enc]]
  BY <1>1 DEF Reencode
<1>3. policy.enc \in Known
  BY DEF Held, PoliciesHeld, PolicyKnown
<1>4. \A i \in 1 .. n : batch[i] \in EpisodeKnown
  BY <1>1
<1>5. batch' \in [1 .. n -> EpisodeKnown]
  BY <1>2, <1>3, <1>4 DEF EpisodeKnown
<1> QED
  BY <1>1, <1>5

LEMMA AppendedKnown ==
  ASSUME Held, AppendReal \/ ReplaceReal
  PROVE  replay' \in Seq(EpisodeKnown) /\ PerTask(replay')
<1>1. LongOnes(batch) \in Seq(EpisodeKnown)
  BY LongOnesSelect DEF Held, EpisodesHeld
<1>2. replay \o LongOnes(batch) \in Seq(EpisodeKnown)
  BY <1>1, ConcatProperties DEF Held, EpisodesHeld
<1> QED
  BY <1>1, <1>2, NewestFits DEF AppendReal, ReplaceReal

\* A policy that a transaction restores, or keeps, is a known one.
LEMMA RestoredKnown ==
  ASSUME IInv, Held, FinalizeEncoder \/ FinalizeActor
  PROVE  policy' \in PolicyKnown
BY DEF IInv, TransactionInv, Held, PoliciesHeld, FinalizeEncoder, FinalizeActor, CommitOrRestore, Accepted

\* An update mints one more id, and its steps are within what a run can make.
LEMMA TrainedKnown ==
  ASSUME IInv, Numbers, Held, TrainActor
  PROVE  policy' \in PolicyKnown'
<1>1. policy' \in PolicyRecords /\ policy'.updates = policy.updates + taken' /\ minted' \in Nat
  BY TrainedPolicy DEF IInv
<1>2. policy.updates = applied /\ stage = "train" /\ applied \in Nat
  BY DEF IInv, CounterInv, TrainActor, Ready, Shape
<1>3. taken' \in 0 .. MaxUpdates
  BY TakenBounded
<1>4. PICK t \in 0 .. MaxUpdates : t = taken'
  BY <1>3
<1>5. applied + MaxUpdates <= MaxUpdates * step
  BY <1>2 DEF Numbers, ToCount, Settled
<1>6. MaxUpdates * step \in Nat /\ MaxUpdates * MaxSteps \in Nat
      /\ MaxUpdates * step <= MaxUpdates * MaxSteps
  BY TimesMonotone, NumbersAssumption DEF Numbers
<1>7. MaxUpdates \in Nat
  BY NumbersAssumption
<1>a. applied \in Nat
  BY <1>2
<1>8. applied + t \in 0 .. MaxUpdates * MaxSteps
  BY ONLY <1>a, <1>5, <1>6, <1>7
<1>9. policy'.updates \in Updates
  BY <1>1, <1>2, <1>4, <1>8 DEF Updates
<1>10. minted \in Nat /\ policy.enc \in Known /\ policy.act \in Known
  BY DEF IInv, Shape, Held, PoliciesHeld, PolicyKnown
<1>11. policy'.enc \in Known' /\ policy'.act \in Known'
  <2>1. CASE UNCHANGED <<policy, minted>>
    BY <1>10, <2>1 DEF Known
  <2>2. CASE /\ minted' = minted + 1
             /\ \E path \in Paths :
                  policy' = [policy EXCEPT !.act = minted', !.updates = @ + Len(path)]
    <3>1. policy'.enc = policy.enc /\ policy'.act = minted + 1
      BY <2>2, <1>1 DEF IInv, Shape, PolicyRecords
    <3>2. Known' = 0 .. minted + 1
      BY <2>2 DEF Known
    <3>3. minted + 1 \in 0 .. minted + 1 /\ 0 .. minted \subseteq 0 .. minted + 1
      BY ONLY <1>10
    <3> QED
      BY <1>10, <3>1, <3>2, <3>3 DEF Known
  <2> QED
    BY <2>1, <2>2 DEF TrainActor
<1> QED
  BY <1>1, <1>9, <1>11 DEF PolicyKnown, PolicyRecords, Updates

LEMMA SftKnown ==
  ASSUME IInv, Held, EncoderSft
  PROVE  policy' \in PolicyKnown'
<1>1. minted \in Nat /\ policy \in PolicyKnown
  BY DEF IInv, Shape, Held, PoliciesHeld
<1>2. CASE UNCHANGED <<policy, history>>
  BY <1>1, <1>2 DEF PolicyKnown, Known, history
<1>3. CASE minted' = minted + 1 /\ policy' = [policy EXCEPT !.enc = minted']
  <2>1. Known' = 0 .. minted + 1
    BY <1>3 DEF Known
  <2>2. minted + 1 \in 0 .. minted + 1 /\ 0 .. minted \subseteq 0 .. minted + 1
    BY ONLY <1>1
  <2>3. minted' \in Known' /\ Known \subseteq Known' /\ Updates' = Updates
    BY <1>3, <2>1, <2>2 DEF Known, Updates
  <2> QED
    BY <1>1, <1>3, <2>3 DEF PolicyKnown
<1> QED
  BY <1>2, <1>3 DEF EncoderSft

LEMMA PoliciesStep ==
  ASSUME IInv, Numbers, Held, Stored, [Next]_vars
  PROVE  PoliciesHeld'
<1> USE DEF PoliciesHeld, runnerVars, actorVars, wmVars, dataVars, history, disk
<1>h. PoliciesHeld
  BY DEF Held
<1>g. PolicyKnown \subseteq PolicyKnown'
  BY KnownGrows DEF IInv
<1>1. CASE UNCHANGED vars
  BY <1>1, <1>h, <1>g DEF vars
<1>2. CASE EnterStep \/ CollectReal \/ AppendReal \/ Reencode \/ ReplaceReal
  BY <1>2, <1>h, <1>g DEF EnterStep, CollectReal, AppendReal, Reencode, ReplaceReal
<1>3. CASE UpdateLearner \/ LoadWM \/ Refresh \/ RefreshRaises \/ SyncPostSft \/ Imagine
  BY <1>3, <1>h, <1>g DEF UpdateLearner, LoadWM, Refresh, RefreshRaises, SyncPostSft, Imagine
<1>4. CASE BeginTransaction
  BY <1>4, <1>h, <1>g DEF BeginTransaction
<1>5. CASE EncoderSft
  BY <1>5, <1>h, <1>g, SftKnown DEF EncoderSft
<1>6. CASE TrainActor
  BY <1>6, <1>h, <1>g, TrainedKnown DEF TrainActor
<1>7. CASE FinalizeEncoder
  BY <1>7, <1>h, <1>g, RestoredKnown DEF FinalizeEncoder, CommitOrRestore
<1>8. CASE FinalizeActor
  BY <1>8, <1>h, <1>g, RestoredKnown DEF FinalizeActor, CommitOrRestore
<1>9. CASE Evaluate
  BY <1>9, <1>h, <1>g DEF Evaluate
<1>10. CASE Save \/ Fail
  BY <1>10, <1>h, <1>g DEF Save, Fail
<1>11. CASE Resume
  <2>1. PICK c \in ckpts : policy' = c.policy
    BY <1>11 DEF Resume
  <2>2. policy' \in PolicyKnown
    BY <2>1 DEF Stored, CheckpointKnown
  <2>3. 0 \in Known /\ 0 \in Updates
    <3>1. MaxUpdates * MaxSteps \in Nat /\ minted \in Nat
      BY NumbersAssumption DEF IInv, Shape
    <3> QED
      BY <3>1 DEF Known, Updates
  <2>4. Base \in PolicyKnown
    BY <2>3 DEF Base, PolicyKnown
  <2> QED
    BY <1>11, <1>g, <2>2, <2>4 DEF Resume
<1> QED
  BY <1>1, <1>2, <1>3, <1>4, <1>5, <1>6, <1>7, <1>8, <1>9, <1>10, <1>11 DEF Next

LEMMA ModelsStep ==
  ASSUME IInv, Held, Stored, [Next]_vars
  PROVE  ModelsHeld'
<1> USE DEF ModelsHeld, runnerVars, actorVars, wmVars, dataVars, history, disk
<1>h. ModelsHeld
  BY DEF Held
<1>g. ModelKnown \subseteq ModelKnown' /\ EpisodeKnown \subseteq EpisodeKnown'
  BY KnownGrows DEF IInv
<1>1. CASE UNCHANGED vars
  BY <1>1, <1>h, <1>g DEF vars
<1>2. CASE EnterStep \/ CollectReal \/ AppendReal \/ Reencode \/ ReplaceReal
  BY <1>2, <1>h, <1>g DEF EnterStep, CollectReal, AppendReal, Reencode, ReplaceReal
<1>3. CASE UpdateLearner
  <2>1. CASE replay = <<>>
    BY <1>3, <1>h, <1>g, <2>1 DEF UpdateLearner
  <2>2. CASE replay # <<>>
    <3>1. Last(replay) \in EpisodeKnown
      BY <2>2, LenProperties, ElementOfSeq, EmptySeq DEF Held, EpisodesHeld, Last
    <3>2. learner' \in ModelKnown
      BY <1>3, <1>h, <2>2, <3>1 DEF UpdateLearner, ModelKnown, EpisodeKnown
    <3> QED
      BY <1>3, <1>h, <1>g, <3>2 DEF UpdateLearner
  <2> QED
    BY <2>1, <2>2
<1>4. CASE LoadWM \/ SyncPostSft \/ Imagine
  BY <1>4, <1>h, <1>g DEF LoadWM, SyncPostSft, Imagine
<1>5. CASE Refresh
  <2>1. \A e \in StartRecords(replay) : e \in EpisodeKnown
    BY StartsInReplay, ElementOfSeq, LenProperties DEF Held, EpisodesHeld
  <2> QED
    BY <1>5, <1>h, <1>g, <2>1 DEF Refresh
<1>r. CASE RefreshRaises
  BY <1>r, <1>h, <1>g DEF RefreshRaises
<1>6. CASE BeginTransaction \/ EncoderSft \/ TrainActor
  BY <1>6, <1>h, <1>g DEF BeginTransaction, EncoderSft, TrainActor
<1>7. CASE FinalizeEncoder \/ FinalizeActor \/ Evaluate \/ Save \/ Fail
  BY <1>7, <1>h, <1>g DEF FinalizeEncoder, FinalizeActor, Evaluate, Save, Fail
<1>8. CASE Resume
  <2>1. wm' \in ModelKnown
    BY <1>8 DEF Resume, Stored, CheckpointKnown
  <2>2. 0 \in Known
    BY DEF IInv, Shape, Known
  <2>3. LearnerAtLaunch \in ModelKnown
    BY <2>2 DEF LearnerAtLaunch, Given, RandomAtLaunch, ModelKnown
  <2> QED
    BY <1>8, <1>g, <2>1, <2>3 DEF Resume
<1> QED
  BY <1>1, <1>2, <1>3, <1>4, <1>5, <1>r, <1>6, <1>7, <1>8 DEF Next

LEMMA EpisodesStep ==
  ASSUME IInv, Numbers, Held, [Next]_vars
  PROVE  EpisodesHeld'
<1> USE DEF EpisodesHeld, runnerVars, actorVars, wmVars, dataVars, history, disk
<1>h. EpisodesHeld /\ UNCHANGED mode
  BY DEF Held, Next, vars
<1>g. Seq(EpisodeKnown) \subseteq Seq(EpisodeKnown')
  BY KnownGrows DEF IInv
<1>1. CASE UNCHANGED <<batch, replay>>
  BY <1>1, <1>h, <1>g
<1>2. CASE CollectReal
  BY <1>2, <1>h, <1>g, CollectedKnown DEF CollectReal
<1>3. CASE AppendReal \/ ReplaceReal
  BY <1>3, <1>h, <1>g, AppendedKnown DEF AppendReal, ReplaceReal
<1>4. CASE Reencode
  BY <1>4, <1>h, <1>g, ReencodedKnown DEF Reencode
<1>5. CASE Resume
  <2>1. batch' = <<>> /\ replay' = <<>>
    BY <1>5 DEF Resume
  <2>2. <<>> \in Seq(EpisodeKnown) /\ Len(<<>>) = 0
    BY EmptySeq
  <2> QED
    BY <1>g, <2>1, <2>2, EmptyFits
<1> QED
  BY <1>1, <1>2, <1>3, <1>4, <1>5
  DEF Next, vars, EnterStep, UpdateLearner, LoadWM, Refresh, RefreshRaises, SyncPostSft,
      Imagine, BeginTransaction, EncoderSft, TrainActor, FinalizeEncoder, FinalizeActor,
      Evaluate, Save, Fail

LEMMA StoredStep ==
  ASSUME IInv, Numbers, Held, Stored, [Next]_vars
  PROVE  Stored'
<1> USE DEF Stored, runnerVars, actorVars, wmVars, dataVars, history, disk
<1>g. CheckpointKnown \subseteq CheckpointKnown'
  BY KnownGrows DEF IInv
<1>1. CASE UNCHANGED ckpts
  BY <1>1, <1>g
<1>2. CASE Save
  <2> DEFINE new == [step |-> step, policy |-> policy, opt |-> opt,
                     applied |-> applied, model |-> learner, metric |-> metric]
  <2>1. ckpts' \subseteq ckpts \cup {new} /\ stage = "save"
    BY <1>2 DEF Save
  <2>2. step \in 1 .. MaxSteps /\ applied \in Nat
    BY <2>1, NumbersAssumption DEF Numbers, IInv, Shape
  <2>3. policy \in PolicyKnown /\ learner \in ModelKnown
    BY DEF Held, PoliciesHeld, ModelsHeld
  <2>4. opt \in OptKnown
    BY <2>3 DEF IInv, OptimizerFollowsPolicy, OptOf, PolicyKnown, OptKnown
  <2>5. metric \in {<<>>} \cup {<<p>> : p \in PolicyKnown}
    BY DEF Held, PoliciesHeld
  <2>6. new \in CheckpointKnown
    BY <2>2, <2>3, <2>4, <2>5 DEF CheckpointKnown
  <2> QED
    BY <1>g, <2>1, <2>6
<1> QED
  BY <1>1, <1>2
  DEF Next, vars, EnterStep, CollectReal, AppendReal, Reencode, ReplaceReal, UpdateLearner,
      LoadWM, Refresh, RefreshRaises, SyncPostSft, Imagine, BeginTransaction, EncoderSft,
      TrainActor, FinalizeEncoder, FinalizeActor, Evaluate, Fail, Resume

-----------------------------------------------------------------------------
(* Divergences.                                                            *)

\* A mean of n - 1 numbers up to k, taken over n, is at most k.
LEMMA MeanBounded ==
  ASSUME NEW a \in Nat, NEW n \in Nat \ {0}, NEW k \in Nat, a <= (n - 1) * k
  PROVE  a \div n \in 0 .. k
<1>1. PICK q \in Int, rest \in 0 .. n - 1 : a = q * n + rest /\ a \div n = q
  <2>1. a \div n \in Int /\ a % n \in 0 .. n - 1 /\ a = n * (a \div n) + (a % n)
    OBVIOUS
  <2> QED
    BY <2>1
<1>2. q >= 0
  <2>1. SUFFICES ASSUME q <= -1
                 PROVE  FALSE
    OBVIOUS
  <2>2. q * n <= -1 * n
    BY <2>1
  <2> QED
    BY <1>1, <2>2
<1>3. q <= k
  <2>1. SUFFICES ASSUME k + 1 <= q
                 PROVE  FALSE
    OBVIOUS
  <2>2. n * (k + 1) <= n * q
    BY <2>1, TimesMonotone
  <2>3. (n - 1) * k + k + n <= n * q
    BY <2>2
  <2> QED
    BY <1>1, <2>3
<1> QED
  BY <1>1, <1>2, <1>3

LEMMA ObservedBounded ==
  ASSUME NEW path \in Paths
  PROVE  BeforeEachStep(path) \in Kl /\ AfterLastStep(path) \in Kl
<1>k. MaxKl \in Nat /\ MaxUpdates \in Nat
  BY NumbersAssumption
<1>1. PICK n \in 0 .. MaxUpdates : path \in [1 .. n -> Kl]
  BY DEF Paths
<1>2. n \in Nat /\ Len(path) = n
  BY <1>1, <1>k
<1>3. CASE n = 0
  <2>1. path = <<>>
    BY <1>1, <1>2, <1>3
  <2> QED
    BY <2>1, <1>k DEF BeforeEachStep, AfterLastStep, Kl
<1>4. CASE n > 0
  <2>1. path # <<>> /\ \A i \in 1 .. n : path[i] \in 0 .. MaxKl + 1
    BY <1>1, <1>2, <1>4 DEF Kl
  <2> DEFINE box == (1 .. n - 1) \X (1 .. MaxKl + 1)
  <2>2. Units(path) \subseteq box
    <3> SUFFICES ASSUME NEW i \in 1 .. n - 1, NEW u \in 1 .. path[i]
                 PROVE  u \in 1 .. MaxKl + 1
      BY <1>2 DEF Units
    <3>1. path[i] \in 0 .. MaxKl + 1
      BY <2>1, <1>2
    <3> QED
      BY <3>1, <1>k
  <2>3. IsFiniteSet(box) /\ Cardinality(box) = (n - 1) * (MaxKl + 1)
    <3>1. IsFiniteSet(1 .. n - 1) /\ Cardinality(1 .. n - 1) = n - 1
      BY <1>2, <1>4, FS_Interval
    <3>2. IsFiniteSet(1 .. MaxKl + 1) /\ Cardinality(1 .. MaxKl + 1) = MaxKl + 1
      BY <1>k, FS_Interval
    <3> QED
      BY <3>1, <3>2, FS_Product
  <2> HIDE DEF box
  <2>4. Cardinality(Units(path)) \in Nat /\ Cardinality(Units(path)) <= (n - 1) * (MaxKl + 1)
    BY <2>2, <2>3, FS_Subset, FS_CardinalityType
  <2>5. Cardinality(Units(path)) \div n \in 0 .. MaxKl + 1
    BY <1>2, <1>4, <1>k, <2>4, MeanBounded
  <2> QED
    BY <1>2, <1>4, <2>1, <2>5 DEF BeforeEachStep, AfterLastStep, Kl, Last
<1> QED
  BY <1>2, <1>3, <1>4

\* What a step has accepted, and what imagined_success_sft has really moved.
KlInv ==
  /\ encKl \in Kl /\ observed \in Kl /\ moved \in Nat /\ booked \in Nat
  /\ Bounded => encKl <= MaxKl
  /\ ~Full => encKl = 0
  /\ Success /\ stage = "trainEnd" => moved = encKl + observed
  /\ WithinBudget

LEMMA KlInit == Init => KlInv
BY NumbersAssumption DEF Init, KlInv, Kl, WithinBudget, CommittedWithinBudget

LEMMA KlStep ==
  ASSUME IInv, Numbers, KlInv, [Next]_vars
  PROVE  KlInv'
<1> USE DEF runnerVars, actorVars, wmVars, dataVars, history, disk
<1>m. UNCHANGED mode /\ MaxKl \in Nat
  BY NumbersAssumption DEF Next, vars
<1>k. /\ encKl \in 0 .. MaxKl + 1 /\ observed \in 0 .. MaxKl + 1 /\ moved \in Nat /\ booked \in Nat
      /\ Bounded => encKl <= MaxKl /\ booked <= MaxKl
      /\ ~Full => encKl = 0
      /\ Success => /\ ~Full
                    /\ stage = "trainEnd" => moved = encKl + observed
                    /\ Bounded /\ stage \in {"eval", "save", "ready"} => moved <= MaxKl
  BY DEF KlInv, Kl, WithinBudget, CommittedWithinBudget, Full, Success
<1>f. ~Full => stage \notin FullStages
  BY DEF IInv, ServingInv
<1>r. SUFFICES /\ encKl' \in 0 .. MaxKl + 1 /\ observed' \in 0 .. MaxKl + 1
               /\ moved' \in Nat /\ booked' \in Nat
               /\ Bounded => encKl' <= MaxKl /\ booked' <= MaxKl
               /\ ~Full => encKl' = 0
               /\ Success => /\ stage' = "trainEnd" => moved' = encKl' + observed'
                             /\ Bounded /\ stage' \in {"eval", "save", "ready"} => moved' <= MaxKl
  BY <1>m DEF KlInv, Kl, WithinBudget, CommittedWithinBudget, Full, Success
<1>1. CASE UNCHANGED vars
  BY <1>1, <1>k DEF vars
<1>2. CASE EnterStep
  BY <1>2, <1>k, <1>m DEF EnterStep
<1>3. CASE CollectReal \/ Reencode \/ ReplaceReal \/ UpdateLearner \/ LoadWM
  BY <1>3, <1>k DEF CollectReal, Reencode, ReplaceReal, UpdateLearner, LoadWM
<1>4. CASE AppendReal
  <2>1. /\ UNCHANGED runnerVars /\ UNCHANGED moved /\ stage = "store"
        /\ stage' \in {"eval", "refresh"}
        /\ stage' = "eval" => Failure
    BY <1>4 DEF AppendReal
  <2> QED
    BY <1>k, <2>1 DEF Success, Failure
<1>5. CASE Refresh \/ RefreshRaises \/ SyncPostSft \/ Imagine \/ BeginTransaction \/ Fail
  BY <1>5, <1>k DEF Refresh, RefreshRaises, SyncPostSft, Imagine, BeginTransaction, Fail
<1>6. CASE EncoderSft
  <2>1. /\ stage = "sft" /\ stage' = "sftEnd" /\ UNCHANGED <<encKl, booked>>
        /\ observed' \in Kl \cup {0} /\ moved' \in Kl \cup {moved}
    BY <1>6 DEF EncoderSft, Ready
  <2>2. Full
    BY <1>f, <2>1 DEF FullStages
  <2> QED
    BY <1>k, <1>m, <2>1, <2>2 DEF Kl
<1>7. CASE TrainActor
  <2>1. PICK path \in Paths :
          observed' = Observe(path) /\ moved' = encKl + AfterLastStep(path)
    BY <1>7 DEF TrainActor
  <2>2. BeforeEachStep(path) \in 0 .. MaxKl + 1 /\ AfterLastStep(path) \in 0 .. MaxKl + 1
    BY ObservedBounded DEF Kl
  <2>3. observed' \in 0 .. MaxKl + 1 /\ (Success => observed' = AfterLastStep(path))
    BY <2>1, <2>2 DEF Observe
  <2>4. /\ stage' = "trainEnd" /\ UNCHANGED <<encKl, booked>> /\ moved' \in Nat
    BY <1>7, <1>k, <1>m, <2>1, <2>2 DEF TrainActor
  <2> QED
    BY <1>k, <2>1, <2>3, <2>4
<1>8. CASE FinalizeEncoder
  <2>1. /\ stage = "sftEnd" /\ stage' = "reencode" /\ UNCHANGED observed
        /\ encKl' = IF Accepted(MaxKl) THEN observed ELSE 0
        /\ booked' = encKl' /\ moved' \in {moved, 0}
    BY <1>8 DEF FinalizeEncoder
  <2>2. Full
    BY <1>f, <2>1 DEF FullStages
  <2>3. encKl' \in 0 .. MaxKl + 1 /\ (Bounded => encKl' <= MaxKl)
    BY <1>k, <1>m, <2>1 DEF Accepted
  <2> QED
    BY <1>k, <1>m, <2>1, <2>2, <2>3
<1>9. CASE FinalizeActor
  <2>1. /\ stage = "trainEnd" /\ stage' = "eval" /\ UNCHANGED <<encKl, observed>>
        /\ booked' = encKl + (IF Accepted(ActorBudget) THEN observed ELSE 0)
        /\ moved' = IF Accepted(ActorBudget) THEN moved ELSE encKl
    BY <1>9 DEF FinalizeActor
  <2>2. Bounded => ActorBudget = MaxKl - encKl
    BY <1>k, <1>m DEF ActorBudget
  <2>3. booked' \in Nat /\ moved' \in Nat
    BY <1>k, <1>m, <2>1
  <2>4. Bounded => booked' <= MaxKl
    BY <1>k, <1>m, <2>1, <2>2 DEF Accepted
  <2>5. Success /\ Bounded => moved' <= MaxKl
    BY <1>k, <1>m, <2>1, <2>2 DEF Accepted
  <2> QED
    BY <1>k, <2>1, <2>3, <2>4, <2>5
<1>10. CASE Evaluate \/ Save
  BY <1>10, <1>k DEF Evaluate, Save
<1>11. CASE Resume
  BY <1>11, <1>k, <1>m DEF Resume
<1> QED
  BY <1>1, <1>2, <1>3, <1>4, <1>5, <1>6, <1>7, <1>8, <1>9, <1>10, <1>11 DEF Next

-----------------------------------------------------------------------------
(* Latent spaces.                                                          *)

InSpace(q, e) == \A i \in DOMAIN q : q[i].enc = e

\* The frozen modes never leave the encoder they were launched with.
FrozenInv ==
  ~Full =>
    /\ policy.enc = 0 /\ rollout.enc = 0 /\ learner.enc = 0 /\ wm.enc = 0
    /\ saved # <<>> => saved[1].policy.enc = 0
    /\ InSpace(batch, 0) /\ InSpace(replay, 0) /\ InSpace(anchor, 0)
    /\ \A c \in ckpts : c.policy.enc = 0 /\ c.model.enc = 0

\* staged_full_cotrain carries the encoder the transaction left from the batch
\* through the replay into WM, start states and shards.  A step that finds no
\* episode to learn from ends before it reaches the WM workers.
FullInv ==
  Full =>
    /\ stage = "replace" => InSpace(batch, policy.enc)
    /\ stage \in {"update", "load", "refresh", "sync", "imagine"} => InSpace(replay, policy.enc)
    /\ stage \in {"load", "refresh", "sync", "imagine"} => replay # <<>>
    /\ stage = "load" => learner.enc = policy.enc
    /\ stage \in {"refresh", "sync", "imagine"} => wm.enc = policy.enc
    /\ stage \in {"sync", "imagine"} /\ RefreshDraws => InSpace(anchor, policy.enc)

LatentInv == FrozenInv /\ FullInv /\ LatentSpacesAgree

LEMMA DrawsKept ==
  ASSUME UNCHANGED <<mode, strict, replay>>
  PROVE  RefreshDraws' = RefreshDraws
BY DEF RefreshDraws, StartRecords, CanDraw, EnvEligible, RunnerEligible, OfTaskId, Failure

LEMMA LatentInit == Init => LatentInv
BY DEF Init, LatentInv, FrozenInv, FullInv, LatentSpacesAgree, InSpace, Base, Given

LEMMA FromSpace ==
  ASSUME NEW p, NEW q, NEW e, From(p, q), InSpace(q, e)
  PROVE  InSpace(p, e)
BY DEF From, InSpace

\* The replay lies where the episodes it was filled from lie.
LEMMA AppendedSpace ==
  ASSUME Held, NEW e, InSpace(batch, e), AppendReal => InSpace(replay, e),
         AppendReal \/ ReplaceReal
  PROVE  InSpace(replay', e)
<1>1. LongOnes(batch) \in Seq(EpisodeKnown) /\ From(LongOnes(batch), batch)
  BY LongOnesSelect DEF Held, EpisodesHeld
<1>2. InSpace(LongOnes(batch), e)
  BY <1>1, FromSpace
<1>3. CASE AppendReal
  <2>1. PICK q \in Seq(EpisodeKnown) : q = replay \o LongOnes(batch)
    BY <1>1, ConcatProperties DEF Held, EpisodesHeld
  <2>2. InSpace(q, e)
    <3>1. /\ Len(q) = Len(replay) + Len(LongOnes(batch))
          /\ \A i \in 1 .. Len(q) : q[i] = IF i <= Len(replay) THEN replay[i]
                                           ELSE LongOnes(batch)[i - Len(replay)]
      BY <1>1, <2>1, ConcatProperties DEF Held, EpisodesHeld
    <3>2. PICK m \in Nat, n \in Nat : /\ m = Len(replay) /\ DOMAIN replay = 1 .. m
                                      /\ n = Len(LongOnes(batch)) /\ DOMAIN LongOnes(batch) = 1 .. n
      BY <1>1, LenProperties DEF Held, EpisodesHeld
    <3>3. DOMAIN q = 1 .. m + n
      BY <3>1, <3>2, <2>1, LenProperties
    <3> SUFFICES ASSUME NEW i \in 1 .. m + n
                 PROVE  q[i].enc = e
      BY <3>3 DEF InSpace
    <3>4. CASE i <= m
      BY <1>3, <3>1, <3>2, <3>4 DEF InSpace
    <3>5. CASE i > m
      <4>1. i - m \in 1 .. n /\ q[i] = LongOnes(batch)[i - m]
        BY <3>1, <3>2, <3>5
      <4> QED
        BY <1>2, <3>2, <4>1 DEF InSpace
    <3> QED
      BY <3>2, <3>4, <3>5
  <2>3. From(Newest(q), q)
    BY NewestFits
  <2> QED
    BY <1>3, <2>1, <2>2, <2>3, FromSpace DEF AppendReal
<1>4. CASE ReplaceReal
  BY <1>1, <1>2, <1>4, NewestFits, FromSpace DEF ReplaceReal
<1> QED
  BY <1>3, <1>4

LEMMA FrozenStep ==
  ASSUME IInv, Held, LatentInv, [Next]_vars
  PROVE  FrozenInv'
<1> USE DEF FrozenInv, runnerVars, actorVars, wmVars, dataVars, history, disk
<1>m. UNCHANGED mode
  BY DEF Next, vars
<1> SUFFICES ASSUME ~Full
             PROVE  FrozenInv'
  BY <1>m DEF Full
<1>h. /\ policy.enc = 0 /\ rollout.enc = 0 /\ learner.enc = 0 /\ wm.enc = 0
      /\ saved # <<>> => saved[1].policy.enc = 0
      /\ InSpace(batch, 0) /\ InSpace(replay, 0) /\ InSpace(anchor, 0)
      /\ \A c \in ckpts : c.policy.enc = 0 /\ c.model.enc = 0
      /\ stage \notin FullStages
  BY DEF LatentInv, IInv, ServingInv
<1>1. CASE UNCHANGED vars
  BY <1>1, <1>h DEF vars, InSpace
<1>2. CASE EnterStep
  BY <1>2, <1>h DEF EnterStep, InSpace
<1>3. CASE CollectReal
  <2>1. InSpace(batch', 0)
    BY <1>3, <1>h DEF CollectReal, InSpace
  <2> QED
    BY <1>3, <1>h, <2>1 DEF CollectReal, InSpace
<1>4. CASE AppendReal
  <2>1. InSpace(replay', 0)
    BY <1>4, <1>h, AppendedSpace
  <2> QED
    BY <1>4, <1>h, <2>1 DEF AppendReal, InSpace
<1>5. CASE Reencode \/ ReplaceReal \/ UpdateLearner \/ LoadWM \/ SyncPostSft \/ FinalizeEncoder
  BY <1>5, <1>h DEF Reencode, ReplaceReal, UpdateLearner, LoadWM, SyncPostSft, FinalizeEncoder,
                    FullStages
<1>6. CASE Refresh
  <2>1. \A e \in StartRecords(replay) : e.enc = 0
    BY <1>h, StartsInReplay DEF InSpace
  <2>2. InSpace(anchor', 0)
    BY <1>6, <1>h, <2>1 DEF Refresh, InSpace
  <2> QED
    BY <1>6, <1>h, <2>2 DEF Refresh, InSpace
<1>r. CASE RefreshRaises
  BY <1>r, <1>h DEF RefreshRaises, InSpace
<1>7. CASE Imagine
  BY <1>7, <1>h DEF Imagine, InSpace
<1>8. CASE BeginTransaction
  BY <1>8, <1>h DEF BeginTransaction, InSpace
<1>9. CASE EncoderSft
  BY <1>9, <1>h DEF EncoderSft, Ready, FullStages
<1>10. CASE TrainActor
  <2>1. policy'.enc = policy.enc
    BY <1>10 DEF TrainActor, IInv, Shape, PolicyRecords
  <2> QED
    BY <1>10, <1>h, <2>1 DEF TrainActor, InSpace
<1>11. CASE FinalizeActor
  <2>1. saved' = <<>> /\ policy'.enc = 0
    BY <1>11, <1>h DEF FinalizeActor, CommitOrRestore, Accepted, IInv, TransactionInv
  <2> QED
    BY <1>11, <1>h, <2>1 DEF FinalizeActor, InSpace
<1>12. CASE Evaluate
  BY <1>12, <1>h DEF Evaluate, InSpace
<1>13. CASE Save
  <2>1. ckpts' \subseteq ckpts \cup {[step |-> step, policy |-> policy, opt |-> opt,
                     applied |-> applied, model |-> learner, metric |-> metric]}
    BY <1>13 DEF Save
  <2>2. \A c \in ckpts' : c.policy.enc = 0 /\ c.model.enc = 0
    BY <1>h, <2>1
  <2> QED
    BY <1>13, <1>h, <2>2 DEF Save, InSpace
<1>14. CASE Fail
  BY <1>14, <1>h DEF Fail, InSpace
<1>15. CASE Resume
  BY <1>15, <1>h DEF Resume, InSpace, Base, LearnerAtLaunch, Given, RandomAtLaunch
<1> QED
  BY <1>1, <1>2, <1>3, <1>4, <1>5, <1>6, <1>r, <1>7, <1>8, <1>9, <1>10, <1>11, <1>12, <1>13,
     <1>14, <1>15 DEF Next

LEMMA FullStep ==
  ASSUME IInv, Held, LatentInv, [Next]_vars
  PROVE  FullInv'
<1> USE DEF FullInv, runnerVars, actorVars, wmVars, dataVars, history, disk
<1>m. UNCHANGED mode
  BY DEF Next, vars
<1> SUFFICES ASSUME Full
             PROVE  FullInv'
  BY <1>m DEF Full
<1>h. FullInv /\ stage # "store"
  BY DEF LatentInv, IInv, ServingInv
<1>d. UNCHANGED replay => RefreshDraws' = RefreshDraws
  BY DrawsKept DEF Next, vars
<1>1. CASE UNCHANGED vars
  BY <1>1, <1>d, <1>h DEF vars, InSpace
<1>2. CASE EnterStep \/ CollectReal \/ AppendReal
  BY <1>2, <1>h DEF EnterStep, CollectReal, AppendReal
<1>3. CASE Reencode
  <2>1. PICK n \in Nat : DOMAIN batch = 1 .. n /\ \A i \in 1 .. n : batch[i] \in EpisodeKnown
    BY LenProperties, ElementOfSeq DEF Held, EpisodesHeld
  <2>2. batch' = [i \in 1 .. n |-> [batch[i] EXCEPT !.enc = policy.enc]]
    BY <1>3, <2>1 DEF Reencode
  <2>3. InSpace(batch', policy.enc)
    BY <2>1, <2>2 DEF InSpace, EpisodeKnown
  <2> QED
    BY <1>3, <2>3 DEF Reencode, InSpace
<1>4. CASE ReplaceReal
  <2>1. InSpace(replay', policy.enc)
    BY <1>4, <1>h, AppendedSpace DEF AppendReal, ReplaceReal
  <2> QED
    BY <1>4, <2>1 DEF ReplaceReal, InSpace
<1>5. CASE UpdateLearner
  <2>1. CASE replay = <<>>
    BY <1>5, <2>1 DEF UpdateLearner
  <2>2. CASE replay # <<>>
    <3>1. /\ learner' = [learner EXCEPT !.enc = Last(replay).enc]
          /\ stage = "update" /\ stage' = "load" /\ UNCHANGED <<policy, replay>>
      BY <1>5, <2>2 DEF UpdateLearner
    <3>2. Last(replay).enc = policy.enc
      <4>1. Len(replay) \in DOMAIN replay
        BY <2>2, LenProperties, EmptySeq DEF Held, EpisodesHeld
      <4> QED
        BY <1>h, <3>1, <4>1 DEF InSpace, Last
    <3>3. learner'.enc = policy.enc
      BY <3>1, <3>2 DEF Held, ModelsHeld, ModelKnown
    <3> QED
      BY <1>h, <2>2, <3>1, <3>3 DEF InSpace
  <2> QED
    BY <2>1, <2>2
<1>6. CASE LoadWM
  BY <1>6, <1>h DEF LoadWM, InSpace
<1>7. CASE Refresh
  <2>1. replay # <<>> /\ InSpace(replay, policy.enc)
    BY <1>7, <1>h DEF Refresh, Refreshing
  <2>2. \A e \in StartRecords(replay) : e.enc = policy.enc
    BY <2>1, StartsInReplay DEF InSpace
  <2>3. RefreshDraws => StartRecords(replay) # {}
    BY <1>7, <2>1 DEF Refresh, RaisesUnbalanced, RefreshDraws, StartRecords, CanDraw
  <2>4. RefreshDraws => InSpace(anchor', policy.enc)
    BY <1>7, <2>2, <2>3 DEF Refresh, InSpace
  <2> QED
    BY <1>7, <1>d, <1>h, <2>4 DEF Refresh, Refreshing, InSpace
<1>r. CASE RefreshRaises
  BY <1>r DEF RefreshRaises
<1>8. CASE SyncPostSft \/ Imagine
  BY <1>8, <1>d, <1>h DEF SyncPostSft, Imagine, InSpace
<1>9. CASE BeginTransaction
  BY <1>9, <1>d, <1>h DEF BeginTransaction, InSpace
<1>10. CASE EncoderSft \/ TrainActor \/ FinalizeEncoder \/ FinalizeActor
  BY <1>10, <1>h DEF EncoderSft, TrainActor, FinalizeEncoder, FinalizeActor, Ready
<1>11. CASE Evaluate \/ Save \/ Fail \/ Resume
  BY <1>11, <1>h DEF Evaluate, Save, Fail, Resume
<1> QED
  BY <1>1, <1>2, <1>3, <1>4, <1>5, <1>6, <1>7, <1>r, <1>8, <1>9, <1>10, <1>11 DEF Next

LEMMA LatentStep ==
  ASSUME IInv, Held, LatentInv, [Next]_vars
  PROVE  LatentSpacesAgree'
<1> USE DEF LatentSpacesAgree, runnerVars, actorVars, wmVars, dataVars, history, disk
<1>m. UNCHANGED <<mode, strict>>
  BY DEF Next, vars
<1>d. UNCHANGED replay => RefreshDraws' = RefreshDraws
  BY <1>m, DrawsKept
<1>1. CASE Imagine
  <2>1. /\ wm.enc = policy.enc /\ InSpace(replay, policy.enc)
        /\ (Full => RefreshDraws) => InSpace(anchor, policy.enc)
    BY <1>1 DEF LatentInv, FrozenInv, FullInv, Imagine
  <2> QED
    BY <1>1, <1>d, <1>m, <2>1 DEF Imagine, InSpace, Full
<1>2. CASE UNCHANGED vars \/ BeginTransaction
  BY <1>2, <1>d, <1>m DEF LatentInv, vars, BeginTransaction, Full
<1> QED
  BY <1>1, <1>2
  DEF Next, EnterStep, CollectReal, AppendReal, Reencode, ReplaceReal, UpdateLearner, LoadWM,
      Refresh, RefreshRaises, SyncPostSft, EncoderSft, TrainActor, FinalizeEncoder,
      FinalizeActor, Evaluate, Save, Fail, Resume

-----------------------------------------------------------------------------
DataInv ==
  /\ IInv
  /\ Numbers
  /\ Held /\ Stored
  /\ KlInv
  /\ LatentInv

LEMMA DataInit == Init => DataInv
BY InitInv, NumbersInit, HeldInit, KlInit, LatentInit DEF DataInv

LEMMA DataNext == DataInv /\ [Next]_vars => DataInv'
<1> SUFFICES ASSUME DataInv, [Next]_vars
             PROVE  DataInv'
  OBVIOUS
<1> USE DEF DataInv
<1>1. IInv' /\ Numbers'
  BY NextInv, NumbersStep
<1>2. Held' /\ Stored'
  BY PoliciesStep, ModelsStep, EpisodesStep, StoredStep DEF Held
<1>3. KlInv'
  BY KlStep
<1>4. LatentInv'
  BY FrozenStep, FullStep, LatentStep DEF LatentInv
<1> QED
  BY <1>1, <1>2, <1>3, <1>4

LEMMA DataSafe == Spec => []DataInv
BY DataInit, DataNext, PTL DEF Spec

\* Whatever was rolled back, skipped, failed or resumed before, world model and
\* replay of the batch the actor trains on share its present encoder, and so does
\* every start state that the last refresh drew; in the frozen modes, and in a
\* strict recipe of staged_full_cotrain, that is every start state.
THEOREM OneLatentSpace == Spec => []LatentSpacesAgree
<1>1. DataInv => LatentSpacesAgree
  BY DEF DataInv, LatentInv
<1> QED
  BY <1>1, DataSafe, PTL

\* The updates a global step keeps report, together, no more than max_policy_kl,
\* and imagined_success_sft really moves the policy no further.
THEOREM BudgetKept == Spec => []WithinBudget
<1>1. DataInv => WithinBudget
  BY DEF DataInv, KlInv
<1> QED
  BY <1>1, DataSafe, PTL

\* Every value stays in its type, the replay within its capacity and the ids
\* within the number of updates the run can make.
THEOREM TypeCorrect == Spec => []TypeOK
<1>1. DataInv => TypeOK
  <2> SUFFICES ASSUME DataInv
               PROVE  TypeOK
    OBVIOUS
  <2>1. Known \subseteq Ids
    <3>1. minted \in Nat /\ minted <= 2 * (MaxSteps * restarts + step)
      <4>1. ToCome \in Nat
        BY DEF ToCome
      <4>2. PICK bound \in Int : bound = 2 * (MaxSteps * restarts + step)
        BY NumbersAssumption DEF DataInv, Numbers
      <4> QED
        BY <4>1, <4>2 DEF DataInv, Numbers, IInv, Shape
    <3>2. step <= MaxSteps /\ restarts <= MaxRestarts /\ step \in Nat /\ restarts \in Nat
      BY NumbersAssumption DEF DataInv, Numbers
    <3>3. MaxSteps \in Nat /\ MaxRestarts \in Nat
      BY NumbersAssumption
    <3>4. MaxSteps * restarts <= MaxSteps * MaxRestarts
      BY <3>2, <3>3, TimesMonotone
    <3>5. MaxId = 2 * (MaxSteps * MaxRestarts + MaxSteps) /\ MaxId \in Nat
      BY <3>3 DEF MaxId
    <3>6. minted <= MaxId
      BY <3>1, <3>2, <3>3, <3>4, <3>5
    <3> QED
      BY <3>1, <3>5, <3>6 DEF Known, Ids
  <2>2. PolicyKnown \subseteq Policies
    BY <2>1 DEF PolicyKnown, Policies, Updates
  <2>3. OptKnown \subseteq [enc : Ids, act : Ids]
    BY <2>1 DEF OptKnown
  <2>4. ModelKnown \subseteq Models /\ EpisodeKnown \subseteq Episodes
    BY <2>1 DEF ModelKnown, EpisodeKnown, Models, Episodes
  <2>5. /\ mode \in Modes /\ strict \in BOOLEAN /\ stage \in Stages /\ step \in 0 .. MaxSteps
        /\ restarts \in 0 .. MaxRestarts /\ taken \in 0 .. MaxUpdates
        /\ encKl \in Kl /\ observed \in Kl /\ booked \in Nat /\ moved \in Nat
    BY DEF DataInv, Numbers, IInv, Shape, KlInv
  <2>6. applied \in 0 .. MaxUpdates * MaxSteps
    <3>1. applied \in Nat /\ applied + ToCount <= MaxUpdates * step /\ step \in 0 .. MaxSteps
      BY DEF DataInv, Numbers, IInv, Shape
    <3>2. MaxUpdates \in Nat /\ MaxSteps \in Nat
      BY NumbersAssumption
    <3>3. PICK owed \in Nat : owed = ToCount
      BY <3>2 DEF ToCount
    <3>4. MaxUpdates * step \in Nat /\ MaxUpdates * MaxSteps \in Nat
          /\ MaxUpdates * step <= MaxUpdates * MaxSteps
      BY <3>1, <3>2, TimesMonotone
    <3> QED
      BY <3>1, <3>3, <3>4
  <2>7. policy \in Policies /\ rollout \in Policies
    BY <2>2 DEF DataInv, Held, PoliciesHeld
  <2>8. opt \in [enc : Ids, act : Ids]
    BY <2>7 DEF DataInv, IInv, OptimizerFollowsPolicy, OptOf, Policies
  <2>9. Len(saved) <= 1 /\ \A i \in DOMAIN saved : saved[i] \in Snapshots
    <3>1. CASE saved = <<>>
      BY <3>1
    <3>2. CASE saved # <<>>
      <4>1. PICK p \in PolicyKnown : saved = <<Snapshot(p)>>
        BY <3>2 DEF DataInv, IInv, Shape, Held, PoliciesHeld
      <4>2. Snapshot(p) \in Snapshots
        BY <2>2 DEF Snapshot, Snapshots, OptOf, Policies
      <4> QED
        BY <4>1, <4>2
    <3> QED
      BY <3>1, <3>2
  <2>10. Len(shards) <= 1 /\ Len(metric) <= 1
    <3>1. \A x : Len(<<x>>) <= 1
      OBVIOUS
    <3>2. Len(<<>>) <= 1
      OBVIOUS
    <3>3. metric = <<>> \/ \E x : metric = <<x>>
      BY DEF DataInv, Held, PoliciesHeld
    <3>4. shards = <<>> \/ \E x : shards = <<x>>
      BY DEF DataInv, Held, ModelsHeld
    <3> QED
      BY <3>1, <3>2, <3>3, <3>4
  <2>11. Len(anchor) <= 1 /\ \A i \in DOMAIN anchor : anchor[i] \in Episodes
    <3>1. CASE anchor = <<>>
      BY <3>1
    <3>2. CASE anchor # <<>>
      <4>1. PICK e \in Episodes : anchor = <<e>>
        BY <2>4, <3>2 DEF DataInv, Held, ModelsHeld
      <4> QED
        BY <4>1
    <3> QED
      BY <3>1, <3>2
  <2>12. /\ Len(batch) \in {0, Trajectories[mode]} /\ \A i \in DOMAIN batch : batch[i] \in Episodes
         /\ \A i \in DOMAIN replay : replay[i] \in Episodes
    BY <2>4, LenProperties, ElementOfSeq DEF DataInv, Held, EpisodesHeld
  <2>c. \A t \in Tasks[mode] : Cardinality({i \in DOMAIN replay : replay[i].task = t}) <= Capacity
    BY DEF DataInv, Held, EpisodesHeld, PerTask, OfTask
  <2>13. learner \in Models /\ wm \in Models
    BY <2>4 DEF DataInv, Held, ModelsHeld
  <2>14. ckpts \subseteq Checkpoints
    <3> DEFINE Metrics == UNION {[1 .. n -> Policies] : n \in 0 .. 1}
    <3>1. [1 .. 0 -> Policies] \subseteq Metrics /\ [1 .. 1 -> Policies] \subseteq Metrics
      OBVIOUS
    <3>2. <<>> \in [1 .. 0 -> Policies]
      OBVIOUS
    <3>3. \A p \in PolicyKnown : <<p>> \in [1 .. 1 -> Policies]
      BY <2>2
    <3>4. {<<>>} \cup {<<p>> : p \in PolicyKnown} \subseteq Metrics
      <4> HIDE DEF Metrics
      <4> QED
        BY <3>1, <3>2, <3>3
    <3>5. CheckpointKnown \subseteq Checkpoints
      <4>1. Checkpoints = [step : 1 .. MaxSteps, policy : Policies, opt : [enc : Ids, act : Ids],
                           applied : Nat, model : Models, metric : Metrics]
        BY DEF Checkpoints
      <4> HIDE DEF Metrics
      <4> QED
        BY <2>2, <2>3, <2>4, <3>4, <4>1 DEF CheckpointKnown
    <3> QED
      BY <3>5 DEF DataInv, Stored
  <2>15. minted \in Ids
    BY <2>1 DEF DataInv, IInv, Shape, Known
  <2> QED
    BY <2>5, <2>6, <2>7, <2>8, <2>9, <2>10, <2>11, <2>12, <2>c, <2>13, <2>14,
       <2>15 DEF TypeOK
<1> QED
  BY <1>1, DataSafe, PTL
=============================================================================
