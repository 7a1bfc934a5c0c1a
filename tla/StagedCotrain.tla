---------------------------- MODULE StagedCotrain ----------------------------
(***************************************************************************)
(* One global step of CotrainRunner and the checkpoints between steps.     *)
(*                                                                         *)
(* staged_full_cotrain: collect real trajectories, SFT the encoder on the  *)
(* successes, re-encode the trajectories, replace the replay, train WM and *)
(* classifier, load them into the WM workers, sample initial conditions,   *)
(* sync the policy, imagine, train the actor.  failure_imagined_rl and     *)
(* imagined_success_sft freeze encoder, WM and classifier and append to    *)
(* the replay.  Encoder SFT and actor update each run in a transaction     *)
(* that rolls the policy back when its KL exceeds the budget of the step.  *)
(*                                                                         *)
(* The runner waits for each remote call, so a step is a sequence of       *)
(* actions; what can go wrong is which copy of a model each call works on, *)
(* after rollbacks, skipped stages, failures and resumes.  Parameters are  *)
(* known by an id minted when they are trained.  An optional value is a    *)
(* sequence of length at most 1.                                           *)
(***************************************************************************)
EXTENDS Integers, Sequences, FiniteSets, SequencesExt, FiniteSetsExt

CONSTANTS
  Modes,         \* values of manual_cotrain.training_mode a run may have
  Bounded,       \* is max_policy_kl configured?
  MaxKl,         \* max_policy_kl
  Trajectories,  \* real trajectories of a step, by mode
  Tasks,         \* replay.cfg.task_ids, by mode
  TaskId,        \* manual_cotrain.task_id
  Capacity,      \* replay capacity of a task, in episodes
  MaxUpdates,    \* optimizer steps of an actor update
  EvalEvery,     \* eval_interval_global_steps
  SaveEvery,     \* checkpoint_every
  PerLease,      \* refresh_wm_initial_conditions_per_lease
  InitAgain,     \* are WM and classifier checkpoints given again on resume?
  MaxSteps,      \* global_steps
  MaxRestarts    \* bound: resumes

TrainingModes == {"staged_full_cotrain", "failure_imagined_rl", "imagined_success_sft"}

ASSUME ModeAssumption == Modes \subseteq TrainingModes /\ {Bounded, PerLease, InitAgain} \subseteq BOOLEAN
ASSUME NumbersAssumption ==
  /\ {MaxKl, MaxUpdates, MaxSteps, MaxRestarts} \subseteq Nat
  /\ {Capacity, EvalEvery, SaveEvery} \subseteq Nat \ {0}
  /\ Trajectories \in [Modes -> Nat \ {0}]
ASSUME TasksAssumption == Tasks \in [Modes -> (SUBSET Nat) \ {{}}] /\ TaskId \in Nat

\* Divergences worth telling apart: within the budget or one above it.
Kl == 0 .. MaxKl + 1

\* A short episode is a success of fewer transitions than sequence_length.
Outcomes == {"success", "failure", "short"}

MaxId     == 2 * MaxSteps * (MaxRestarts + 1)
Ids       == 0 .. MaxId
Policies  == [enc : Ids, act : Ids, updates : 0 .. MaxUpdates * MaxSteps]
Models    == [from : {"given", "random"}, enc : Ids]
Stages    ==
  {"ready", "collect", "store", "sft", "sftEnd", "reencode", "replace", "update", "load",
   "refresh", "sync", "imagine", "train", "trainEnd", "eval", "save", "down"}

VARIABLES
  mode,      \* training_mode, the same whenever the run is resumed
  strict,    \* require_balanced_initial_conditions, the same too
  stage,     \* runner: the call it makes next
  step,      \* runner: global_step
  encKl,     \* runner: encoder_kl_effective
  observed,  \* runner: KL the last update reported
  taken,     \* runner: optimizer steps the last actor update reported
  booked,    \* runner: KL the transactions of this step accepted
  applied,   \* runner: _applied_policy_steps
  policy,    \* actor: encoder, action decoder, optimizer steps behind them
  opt,       \* actor: the update each optimizer state belongs to
  saved,     \* actor: snapshot of the open transaction
  shards,    \* actor: imagined shards received
  rollout,   \* RolloutGroup: policy copy
  batch,     \* real trajectories of the step
  replay,    \* replay episodes, oldest first
  learner,   \* LearnerGroup: WM and classifier
  wm,        \* WMEnvGroup: WM and classifier
  anchor,    \* WMEnvGroup: episode whose start it imagines from
  metric,    \* runner: policy whose success rate was evaluated
  ckpts,     \* disk: checkpoints
  moved,     \* history: true divergence of the policy since step entry
  minted,    \* history: last id minted
  restarts

runnerVars == <<step, encKl, observed, taken, booked, applied>>
actorVars  == <<policy, opt, saved, shards>>
wmVars     == <<learner, wm, anchor>>
dataVars   == <<batch, replay>>
history    == <<moved, minted>>
disk       == <<metric, ckpts, restarts>>
vars == <<mode, strict, stage, runnerVars, actorVars, rollout, dataVars, wmVars, history, disk>>

Full    == mode = "staged_full_cotrain"
Failure == mode = "failure_imagined_rl"
Success == mode = "imagined_success_sft"

Base  == [enc |-> 0, act |-> 0, updates |-> 0]
Given == [from |-> "given", enc |-> 0]

\* load_state_dict of nothing leaves the random initialisation.
RandomAtLaunch == [from |-> "random", enc |-> 0]      \* a faulty launch
\* _learner_init_checkpoint never looks at the resumed payload.
LearnerAtLaunch == IF InitAgain THEN Given ELSE RandomAtLaunch

OptOf(p) == [enc |-> p.enc, act |-> p.act]

Episodes == [outcome : Outcomes, task : Tasks[mode], enc : Ids]

-----------------------------------------------------------------------------
Init ==
  /\ mode \in Modes /\ strict \in BOOLEAN
  /\ stage = "ready" /\ step = 0 /\ encKl = 0 /\ observed = 0 /\ taken = 0
  /\ booked = 0 /\ applied = 0
  /\ policy = Base /\ opt = OptOf(Base) /\ saved = <<>> /\ shards = <<>>
  /\ rollout = Base
  /\ batch = <<>> /\ replay = <<>>
  /\ learner = Given /\ wm = Given /\ anchor = <<>>
  /\ metric = <<>> /\ ckpts = {} /\ restarts = 0
  /\ moved = 0 /\ minted = 0

\* set_global_step, begin_step_local_real_collection, sync of the step-entry policy.
EnterStep ==
  /\ stage = "ready"
  /\ step < MaxSteps
  /\ stage' = "collect"
  /\ step' = step + 1
  /\ rollout' = policy
  /\ encKl' = 0 /\ booked' = 0 /\ moved' = 0
  /\ UNCHANGED <<observed, taken, applied, actorVars, dataVars, wmVars, minted, disk>>

\* Collect and drain: latents come from the encoder the RolloutGroup serves.
CollectReal ==
  /\ stage = "collect"
  /\ \E real \in [1 .. Trajectories[mode] -> [outcome : Outcomes, task : Tasks[mode]]] :
       batch' = [i \in 1 .. Trajectories[mode] |->
                   [outcome |-> real[i].outcome, task |-> real[i].task, enc |-> rollout.enc]]
  /\ stage' = IF Full THEN "sft" ELSE "store"
  /\ UNCHANGED <<runnerVars, actorVars, rollout, replay, wmVars, history, disk>>

-----------------------------------------------------------------------------
(* Replay.                                                                 *)

IsLong(e) == e.outcome # "short"

\* A set of positions as the increasing sequence of its members.
InOrder(S) ==
  CHOOSE f \in [1 .. Cardinality(S) -> S] : \A i, j \in DOMAIN f : i < j => f[i] < f[j]

\* The episodes at positions S, in their order.
Chosen(q, S) ==
  LET at == InOrder(S)
  IN [k \in DOMAIN at |-> q[at[k]]]

\* The episodes that hold a training sequence.
LongOnes(q) == Chosen(q, {i \in DOMAIN q : IsLong(q[i])})

NewestUnbounded(q) == q                       \* faulty: no eviction
\* add_episode evicts the oldest episodes of a task that is above its capacity.
\* The code counts transitions; episodes have equal length here.
LaterOfTask(q, i) == {j \in DOMAIN q : j > i /\ q[j].task = q[i].task}
Newest(q) == Chosen(q, {i \in DOMAIN q : Cardinality(LaterOfTask(q, i)) < Capacity})

\* The records an initial-condition selector accepts.
RunnerEligible(q) ==
  {q[i] : i \in {j \in DOMAIN q : Failure => q[j].outcome = "failure"}}
EpisodeStart(q) == ToSet(q)                   \* faulty: the env keeps its default selector
EnvEligible(q) == RunnerEligible(q)

\* sample_initial_conditions: episode_start wants a record of every task.
CanDraw(q) ==
  /\ EnvEligible(q) # {}
  /\ Failure \/ \A t \in Tasks[mode] : \E e \in EnvEligible(q) : e.task = t

\* sample_initial_obs_embeddings, whatever the selector.
OfTaskId(q) == {q[i] : i \in {j \in DOMAIN q : q[j].task = TaskId}}

\* The records a refresh that does not raise takes its starts from.
StartRecords(q) == IF CanDraw(q) THEN EnvEligible(q) ELSE OfTaskId(q)

\* append_real_trajectories; without a failed episode the step ends here.
AppendReal ==
  /\ stage = "store"
  /\ replay' = Newest(replay \o LongOnes(batch))
  /\ stage' = IF Failure /\ RunnerEligible(replay') = {} THEN "eval" ELSE "refresh"
  /\ UNCHANGED <<runnerVars, actorVars, rollout, batch, wmVars, history, disk>>

\* Faulty: the version stamp is renewed, the latents are not.
ReencodeStampsOnly ==
  /\ stage = "reencode"
  /\ stage' = "replace"
  /\ UNCHANGED <<runnerVars, actorVars, rollout, dataVars, wmVars, history, disk>>

\* reencode_real_trajectories with the encoder the transaction left.
Reencode ==
  /\ stage = "reencode"
  /\ batch' = [i \in DOMAIN batch |-> [batch[i] EXCEPT !.enc = policy.enc]]
  /\ stage' = "replace"
  /\ UNCHANGED <<runnerVars, actorVars, rollout, replay, wmVars, history, disk>>

ReplaceReal ==
  /\ stage = "replace"
  /\ replay' = Newest(LongOnes(batch))
  /\ stage' = "update"
  /\ UNCHANGED <<runnerVars, actorVars, rollout, batch, wmVars, history, disk>>

-----------------------------------------------------------------------------
(* Learner and WM workers.                                                 *)

\* update_current_step raises when the replay holds no full sequence.
UpdateLearner ==
  /\ stage = "update"
  /\ IF replay = <<>>
       THEN stage' = "down" /\ UNCHANGED learner
       ELSE /\ learner' = [learner EXCEPT !.enc = Last(replay).enc]
            /\ stage' = "load"
  /\ UNCHANGED <<runnerVars, actorVars, rollout, dataVars, wm, anchor, history, disk>>

LoadWM ==
  /\ stage = "load"
  /\ wm' = learner
  /\ stage' = "refresh"
  /\ UNCHANGED <<runnerVars, actorVars, rollout, dataVars, learner, anchor, history, disk>>

\* refresh_wm_initial_conditions runs before imagination and before each lease.
Refreshing == stage = "refresh" \/ (PerLease /\ stage = "imagine")

RaisesUnbalanced == strict /\ replay # <<>> /\ ~CanDraw(replay)

\* The WM workers silently keep the starts they have when the replay is empty,
\* or when the recipe is not strict and neither draw finds a record.
Refresh ==
  /\ Refreshing /\ ~RaisesUnbalanced
  /\ \/ \E e \in StartRecords(replay) : anchor' = <<e>>
     \/ StartRecords(replay) = {} /\ UNCHANGED anchor
  /\ stage' = IF Full /\ stage = "refresh" THEN "sync" ELSE "imagine"
  /\ UNCHANGED <<runnerVars, actorVars, rollout, dataVars, learner, wm, history, disk>>

RefreshRaises ==
  /\ Refreshing /\ RaisesUnbalanced
  /\ stage' = "down"
  /\ UNCHANGED <<runnerVars, actorVars, rollout, dataVars, wmVars, history, disk>>

SyncSkipped ==                                \* faulty: the rollout copy is kept
  /\ stage = "sync"
  /\ stage' = "imagine"
  /\ UNCHANGED <<runnerVars, actorVars, rollout, dataVars, wmVars, history, disk>>

SyncPostSft ==
  /\ stage = "sync"
  /\ rollout' = policy
  /\ stage' = "imagine"
  /\ UNCHANGED <<runnerVars, actorVars, dataVars, wmVars, history, disk>>

\* interact, generate and recv_rollout_trajectories; advantages are computed
\* from the shards alone.
Imagine ==
  /\ stage = "imagine"
  /\ shards' = <<[policy |-> rollout, wm |-> wm, anchor |-> anchor]>>
  /\ stage' = "train"
  /\ UNCHANGED <<runnerVars, policy, opt, saved, rollout, dataVars, wmVars, history, disk>>

-----------------------------------------------------------------------------
(* Policy updates and their transactions.                                  *)

BeginTransaction ==
  /\ stage \in {"sft", "train"}
  /\ Bounded
  /\ saved = <<>>
  /\ saved' = <<[policy |-> policy, opt |-> opt]>>
  /\ UNCHANGED <<stage, runnerVars, policy, opt, shards, rollout, dataVars, wmVars, history, disk>>

Ready(s) == stage = s /\ (Bounded => saved # <<>>)

\* encoder_sft: nothing to do without a success; else one update whose KL is
\* measured on the same decisions before and after.
EncoderSft ==
  /\ Ready("sft")
  /\ stage' = "sftEnd"
  /\ IF \A i \in DOMAIN batch : batch[i].outcome = "failure"
       THEN /\ observed' = 0
            /\ UNCHANGED <<policy, opt, history>>
       ELSE \E kl \in Kl :
              /\ observed' = kl
              /\ moved' = kl
              /\ minted' = minted + 1
              /\ policy' = [policy EXCEPT !.enc = minted']
              /\ opt' = [opt EXCEPT !.enc = minted']
  /\ UNCHANGED <<step, encKl, taken, booked, applied, saved, shards, rollout, dataVars, wmVars,
                 disk>>

\* Divergence from the behaviour policy after each optimizer step.
Paths == UNION {[1 .. n -> Kl] : n \in 0 .. MaxUpdates}

\* run_training averages the KL of its forward passes, each before a step; the
\* sum of the KLs is counted in units.
Units(path) == UNION {{k} \X (1 .. path[k]) : k \in 1 .. Len(path) - 1}
BeforeEachStep(path) ==
  IF path = <<>> THEN 0 ELSE Cardinality(Units(path)) \div Len(path)

\* run_success_sft measures the KL after its last step.
AfterLastStep(path) == IF path = <<>> THEN 0 ELSE Last(path)

Observe(path) == IF Success THEN AfterLastStep(path) ELSE BeforeEachStep(path)

\* run_training or run_success_sft; the encoder is frozen.
TrainActor ==
  /\ Ready("train")
  /\ stage' = "trainEnd"
  /\ \E path \in Paths :
       /\ observed' = Observe(path)
       /\ taken' = Len(path)
       /\ moved' = encKl + AfterLastStep(path)
       /\ IF path = <<>>
            THEN UNCHANGED <<policy, opt, minted>>
            ELSE /\ minted' = minted + 1
                 /\ policy' = [policy EXCEPT !.act = minted', !.updates = @ + Len(path)]
                 /\ opt' = [opt EXCEPT !.act = minted']
  /\ UNCHANGED <<step, encKl, booked, applied, saved, shards, rollout, dataVars, wmVars, disk>>

FullBudget == MaxKl                           \* faulty: the encoder's share is ignored
ActorBudget == IF MaxKl > encKl THEN MaxKl - encKl ELSE 0

Accepted(budget) == Bounded => observed <= budget

RestorePolicyOnly(budget) ==                  \* faulty: the optimizers keep their state
  /\ saved' = <<>>
  /\ policy' = IF Accepted(budget) THEN policy ELSE saved[1].policy
  /\ UNCHANGED opt

\* finalize_policy_transaction.
CommitOrRestore(budget) ==
  /\ saved' = <<>>
  /\ IF Accepted(budget)
       THEN UNCHANGED <<policy, opt>>
       ELSE policy' = saved[1].policy /\ opt' = saved[1].opt

FinalizeEncoder ==
  /\ stage = "sftEnd"
  /\ CommitOrRestore(MaxKl)
  /\ encKl' = IF Accepted(MaxKl) THEN observed ELSE 0
  /\ booked' = encKl'
  /\ moved' = IF Accepted(MaxKl) THEN moved ELSE 0
  /\ stage' = "reencode"
  /\ UNCHANGED <<step, observed, taken, applied, shards, rollout, dataVars, wmVars, minted, disk>>

\* Optimizer steps the runner counts for this actor update.
AttemptedSteps(accepted) == taken             \* faulty: rolled-back steps count
AppliedSteps(accepted) == IF accepted THEN taken ELSE 0

FinalizeActor ==
  /\ stage = "trainEnd"
  /\ CommitOrRestore(ActorBudget)
  /\ booked' = encKl + (IF Accepted(ActorBudget) THEN observed ELSE 0)
  /\ moved' = IF Accepted(ActorBudget) THEN moved ELSE encKl
  /\ applied' = applied + AppliedSteps(Accepted(ActorBudget))
  /\ stage' = "eval"
  /\ UNCHANGED <<step, encKl, observed, taken, shards, rollout, dataVars, wmVars, minted, disk>>

-----------------------------------------------------------------------------
(* Evaluation, checkpoints, resume.                                        *)

EvaluateResident ==                           \* faulty: evaluates the imagining copy
  /\ stage = "eval"
  /\ metric' = IF step % EvalEvery = 0 THEN <<rollout>> ELSE <<>>
  /\ stage' = "save"
  /\ UNCHANGED <<runnerVars, actorVars, rollout, dataVars, wmVars, history, ckpts, restarts>>

\* Sync the policy and evaluate the copy the RolloutGroup serves.
Evaluate ==
  /\ stage = "eval"
  /\ IF step % EvalEvery = 0
       THEN rollout' = policy /\ metric' = <<policy>>
       ELSE metric' = <<>> /\ UNCHANGED rollout
  /\ stage' = "save"
  /\ UNCHANGED <<runnerVars, actorVars, dataVars, wmVars, history, ckpts, restarts>>

\* The checkpoint takes WM and classifier from the LearnerGroup.
Save ==
  /\ stage = "save"
  /\ ckpts' = IF step % SaveEvery # 0 THEN ckpts
              ELSE ckpts \cup {[step |-> step, policy |-> policy, opt |-> opt,
                                applied |-> applied, model |-> learner, metric |-> metric]}
  /\ metric' = <<>>
  /\ stage' = "ready"
  /\ UNCHANGED <<runnerVars, actorVars, rollout, dataVars, wmVars, history, restarts>>

\* A remote call raises or the driver dies; only checkpoints survive.
Fail ==
  /\ stage # "down"
  /\ restarts < MaxRestarts
  /\ stage' = "down"
  /\ UNCHANGED <<runnerVars, actorVars, rollout, dataVars, wmVars, history, disk>>

\* A new driver with --resume: latest.ckpt or another checkpoint of the run.
Resume ==
  /\ stage = "down"
  /\ restarts < MaxRestarts
  /\ restarts' = restarts + 1
  /\ stage' = "ready"
  /\ \E c \in ckpts :
       /\ step' = c.step /\ applied' = c.applied
       /\ policy' = c.policy /\ opt' = c.opt
       /\ wm' = c.model
  /\ learner' = LearnerAtLaunch
  /\ rollout' = Base
  /\ encKl' = 0 /\ observed' = 0 /\ taken' = 0 /\ booked' = 0 /\ moved' = 0
  /\ saved' = <<>> /\ shards' = <<>> /\ anchor' = <<>> /\ metric' = <<>>
  /\ batch' = <<>> /\ replay' = <<>>
  /\ UNCHANGED <<minted, ckpts>>

Next ==
  /\ UNCHANGED <<mode, strict>>
  /\ \/ EnterStep \/ CollectReal
     \/ AppendReal \/ Reencode \/ ReplaceReal
     \/ UpdateLearner \/ LoadWM \/ Refresh \/ RefreshRaises \/ SyncPostSft \/ Imagine
     \/ BeginTransaction \/ EncoderSft \/ FinalizeEncoder \/ TrainActor \/ FinalizeActor
     \/ Evaluate \/ Save \/ Fail \/ Resume

Spec == Init /\ [][Next]_vars

-----------------------------------------------------------------------------
(* Properties.                                                             *)

Snapshots   == [policy : Policies, opt : [enc : Ids, act : Ids]]
Checkpoints == [step : 1 .. MaxSteps, policy : Policies, opt : [enc : Ids, act : Ids],
                applied : Nat, model : Models, metric : UNION {[1 .. n -> Policies] : n \in 0 .. 1}]

\* Values stay in their types and the replay within its capacity of each task
\* (OnlineReplay.add_episode evicts while it is above capacity).
TypeOK ==
  /\ mode \in Modes /\ strict \in BOOLEAN
  /\ stage \in Stages
  /\ step \in 0 .. MaxSteps
  /\ encKl \in Kl /\ observed \in Kl /\ booked \in Nat /\ moved \in Nat
  /\ taken \in 0 .. MaxUpdates /\ applied \in 0 .. MaxUpdates * MaxSteps
  /\ policy \in Policies /\ rollout \in Policies
  /\ opt \in [enc : Ids, act : Ids]
  /\ Len(saved) <= 1 /\ (\A i \in DOMAIN saved : saved[i] \in Snapshots)
  /\ Len(shards) <= 1
  /\ Len(batch) \in {0, Trajectories[mode]} /\ (\A i \in DOMAIN batch : batch[i] \in Episodes)
  /\ \A i \in DOMAIN replay : replay[i] \in Episodes
  /\ \A t \in Tasks[mode] : Cardinality({i \in DOMAIN replay : replay[i].task = t}) <= Capacity
  /\ learner \in Models /\ wm \in Models
  /\ Len(anchor) <= 1 /\ (\A i \in DOMAIN anchor : anchor[i] \in Episodes)
  /\ Len(metric) <= 1
  /\ ckpts \subseteq Checkpoints
  /\ restarts \in 0 .. MaxRestarts /\ minted \in Ids

\* The last refresh has drawn its starts from the replay: always in a strict
\* recipe, which raises otherwise; in others only if every task has a record or
\* manual_cotrain.task_id has one.  If not, WM workers of staged_full_cotrain go
\* on from the starts of an earlier step, in the latents of an earlier encoder
\* (refresh_wm_initial_conditions says it resamples).
RefreshDraws == strict \/ StartRecords(replay) # {}

\* The batch the actor is about to learn from was imagined in one latent space:
\* WM, policy and whatever starts were drawn belong to the actor's present
\* encoder, also after a rolled-back or skipped encoder SFT.  The frozen modes
\* know only one space, so there it is so of every start.
LatentSpacesAgree ==
  stage = "train" =>
    /\ shards[1].wm.enc = policy.enc
    /\ \A i \in DOMAIN replay : replay[i].enc = policy.enc
    /\ (Full => RefreshDraws) =>
         \A i \in DOMAIN shards[1].anchor : shards[1].anchor[i].enc = policy.enc

\* The actor learns only from shards its own present policy has produced: the
\* RolloutGroup served exactly the policy that is about to be updated.
OnPolicy == stage = "train" => shards[1].policy = policy

\* Each optimizer state belongs to the parameters it sits beside: a rollback and
\* a resume restore both or neither.
OptimizerFollowsPolicy == opt = OptOf(policy)

\* _applied_policy_steps counts the optimizer steps that are in the policy, so a
\* checkpoint's count is true of the parameters saved with it.
AppliedMatchesPolicy ==
  /\ stage \in {"ready", "eval", "save"} => applied = policy.updates
  /\ \A c \in ckpts : c.applied = c.policy.updates

\* The success rate stored in a checkpoint, by which checkpoints are ranked, was
\* measured on the policy in that checkpoint.
MetricOfSavedPolicy == \A c \in ckpts : c.metric # <<>> => c.metric[1] = c.policy

\* In failure_imagined_rl the actor never learns from imagination that started at
\* a successful episode or at no recorded episode at all.
AnchorsFailed ==
  (Failure /\ stage = "train") =>
    shards[1].anchor # <<>> /\ shards[1].anchor[1].outcome = "failure"

\* With WM and classifier frozen, every imagined batch comes from the WM and
\* classifier the run was given, however often it was resumed; run_success_sft
\* picks the successes with the threshold LearnerGroup had at launch, so that is
\* the same classifier's.
FrozenModelKept ==
  (~Full /\ stage = "train") =>
    /\ shards[1].wm.from = "given"
    /\ Success => learner.from = "given"

\* The policy that a global step commits diverges from the policy it entered with
\* by no more than max_policy_kl.
CommittedWithinBudget == (Bounded /\ stage \in {"eval", "save", "ready"}) => moved <= MaxKl

\* The KL that encoder SFT and actor update of one global step report and get
\* accepted stays, summed, within max_policy_kl; and imagined_success_sft, which
\* measures the KL of the policy it leaves behind, keeps the promise above too.
WithinBudget ==
  /\ Bounded => booked <= MaxKl
  /\ Success => CommittedWithinBudget
=============================================================================
