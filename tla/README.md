# Formal models of DreamerVLA's training loop and its data

DreamerVLA trains a vision-language-action policy (VLA) and a world model (WM)
with a success classifier (CLS) on a single Ray node. The recipes of `configs/`
end in one online loop, `CotrainRunner` (`dreamervla/runners/cotrain_runner.py`)
and its frozen-model variant `DreamerRunner`; the data the models are first
trained on comes from an offline collection on the same cluster. This directory
holds TLA+ models of the loop, of what it stands on and of the collection, TLC
configurations that check them on small instances, and TLAPS proofs.

Paths below are relative to `dreamervla/` unless they start with `docs/` or
`configs/`. `PROJECT.json` maps every definition to its source lines, lists the
runs, the mutants that show that each property can fail, the hazards, the
findings and the theorems.

## 1. The system

One driver process owns the loop. It places groups of Ray actors on GPUs, calls
them, and waits. Everything else is remote.

| part | source | state | operations |
|---|---|---|---|
| runner | `runners/cotrain_runner.py`, `runners/dreamer_runner.py` | global step, applied optimizer steps, encoder KL of the step, imagination pool | `run`, `_run_staged_global_step`, `_sync_policy_groups`, `_wait_env_metrics_with_dynamic_wm_leases`, `_maybe_save_manual_checkpoint`, `_restore_manual_resume_state` |
| ActorGroup | `workers/actor/embodied_fsdp_actor.py` | policy parameters, encoder and policy optimizers, open transaction, imagined shards, push progress | `encoder_sft`, `run_training` (PPO), `run_success_sft`, `begin/finalize_policy_transaction`, `reencode_real_trajectories`, bucket push and release |
| RolloutGroup | `workers/rollout/multistep_rollout_worker.py` | a copy of the policy, its version label | `generate`, `sync_model_from_actor` |
| EnvGroups (real, WM, evaluation) | `workers/env/trajectory_env_worker.py` | env slots, open episodes, finished trajectories; for WM workers also WM, CLS and start states | `interact`, `drain_real_trajectories`, `refresh_wm_initial_conditions`, `load_component_states` |
| LearnerGroup | `workers/actor/learner_worker.py` | WM, CLS, their optimizers | `update_current_step`, `state_dicts` |
| ReplayGroup | `workers/replay/replay_worker.py`, `runtime/replay/online_replay.py` | episodes per task, policy version, round-robin cursors, episodes still to open a batch, classifier windows still to be served | append with eviction, replace, `set_policy_version`, `sample`, `sample_classifier_windows`, `sample_initial_conditions` |
| weight store | `hybrid_engines/weight_syncer/{bucket,objectstore}.py` | detached actor: buckets and a metadata record per version | push bucket, commit, pull, release |
| channels | `scheduler/channel.py` | named queues, FIFO per key | put, get |
| placement | `workers/cotrain/placement.py` | which worker has which rank and GPU | once, at launch |
| checkpoints | `utils/checkpoint/checkpoint_util.py`, `runners/base_runner.py` | `latest.ckpt`, `epoch=<n>-<metric>=<v>.ckpt` | atomic save, hard link, top-k |
| collection driver | `runtime/rollout/rollout_collection_ray.py` | pending work, target, rounds, in-flight maps | lock-step and overlapped loop, launch, manifest |
| collection workers | `workers/env/env_worker.py`, `workers/inference/rollout_inference_worker.py`, `workers/rollout/dump_worker.py` | episode per env and its child process; queue of predicted actions per env; open shard, shard index, episode count | step and respawn; predict and reset; `add_episode` |
| collection on disk | `dataset/storage/collection_manifest.py`, rollout dump writer | reward and hidden file per shard or trajectory, `collection_manifest.json` | find complete pairs, next shard index, write manifest |

**How they interact.** A global step of `staged_full_cotrain`:

1. the actor publishes the step-entry policy to the rollout workers *(PolicySync)*;
2. real env workers and rollout workers exchange observations and action chunks
   over channels until each slot has its trajectories; StopMsgs end the rollout
   workers' calls; the runner drains the trajectories *(EnvRollout)*;
3. encoder SFT on the successes in a transaction, re-encoding of the
   trajectories, replay replacement, WM/CLS update, loading WM/CLS into the WM
   workers, initial conditions *(StagedCotrain)*;
4. post-SFT publication *(PolicySync)*;
5. WM workers imagine, with leases from a pool, over the same channels
   *(EnvRollout)*; the actor receives the shards;
6. actor update in a second transaction *(StagedCotrain)*;
7. evaluation (one more publication) and checkpoint *(StagedCotrain,
   TopKCheckpoints)*.

`failure_imagined_rl` and `imagined_success_sft` freeze encoder, WM and CLS,
append to the replay instead of replacing it, skip steps 3 and 4 but for the
initial conditions, and skip imagination when there is no failed episode
*(StagedCotrain; what the replay hands out, which starts the WM workers imagine
from and how the trajectories reach the actor's ranks: Replay, ImaginedStarts)*.

The offline collection is a run of its own *(Collection)*: a driver deals
(task, episode) pairs to env workers, which act on what the inference workers
predict; finished episodes go to dump workers, which write and rename a pair of
files; a relaunch lists what is missing on disk and goes on.

**What is hard about it, and what correctness means.**

| component | what is hard | what must hold |
|---|---|---|
| weight sync | a pull of several remote calls overlaps push, commit and release; a store of fixed name can outlive a run | no worker serves a mix of two policies or an old one; no bucket vanishes under a reader; the store ends empty; a sync ends |
| interaction | three kinds of processes, two of them stopped by poison pills; queues shared by several readers; keys reused; lease pool; errors and timeouts | each request is answered once; nothing crosses into the next interaction; a trajectory belongs to one policy; each slot delivers its budget; no epoch is lost; an interaction ends |
| staged step | five copies of models, two transactions, rollbacks, skipped stages | start states, WM and policy live in one latent space; the actor trains on its own policy's shards; KL stays in its budget; optimizers, counters and metrics belong to the parameters beside them |
| resume | each group restores from another place | the frozen models stay the given ones; optimizers match parameters |
| replay, starts | cursors, queues and left-over windows survive from call to call and from step to step; several readers and writers; the slots of a worker may have several tasks, and all actor ranks read one key | nothing sampled outlives its dataset; draws are even; a new episode opens one batch; each compared group of trajectories shares one start |
| checkpoints | deletion before creation, hard link, names rounded, several runs in a directory | names tell contents; a best checkpoint survives |
| collection | two renames per episode, crashes anywhere, relaunch with another mode or number of dump workers, child deaths, decisions on sizes that are being changed | nothing acknowledged is lost; the two files of a pair are of one attempt; the manifest stays true; each run ends having collected all that did not die with a child |

## 2. Plan

The order follows the data: a wrong policy in the rollout workers spoils
everything after it.

| # | module | role | status |
|---|---|---|---|
| 1 | `PolicySync` | weight store protocol between runner, actor and rollout workers | done |
| 2 | `PolicyBroadcast` | what a sync promises: atomic broadcast of snapshots; abstract specification of 1 | done |
| 3 | `PolicySyncProofs` | TLAPS: typing, safety, refinement of 2 by 1 | done |
| 4 | `EnvRollout` | both interactions over the channels | done |
| 5 | `ActionService` | a call answered once; abstract specification of 4 | done |
| 6 | `StagedCotrain` | the global step across groups, transactions, checkpoint and resume; composes the results of 1 and 4 as atomic steps | done |
| 7 | `TopKCheckpoints` | checkpoint directory | done |
| 8 | `StagedCotrainProofs` | TLAPS: optimizers, step counter, shards, metric, anchors and frozen models belong together; one latent space in the replay, the KL budget | done |
| 9 | `Replay`, `ImaginedStarts` | `OnlineReplay` and who uses it, from the collected episode to the compared group of imagined trajectories on an actor rank | done |
| 10 | `Collection`, `CollectionProofs`, `CollectionRunProofs` | offline collection with crashes and relaunches; TLAPS: nothing is lost or mixed, the manifest stays true; a launch that ends is complete, no foreign actions | done |
| 11 | `EnvRolloutProofs`, `EnvRunProofs` | TLAPS: one request per worker, one policy per trajectory; leases, sentinels, shards and answers are accounted for, refinement of 5 by 4 | done |
| 12 | `TopKProofs` | TLAPS: names tell contents, the best checkpoint survives | done |
| 13 | `StartsProofs` | TLAPS: windows and pending episodes are not lost, draws are even, batches and starts belong to the dataset, compared columns share a start | done |
| 14 | `WorkerGroup` | WorkerManager registration and rendezvous, group results | left |
| 15 | `PatchSync` | the patch weight syncer: base version and patch chain; not on the cotrain path | left |

The number of runs is kept small: one run asks several related questions of one
instance, and a violation run belongs to a finding.

## 3. The modules and the code

### PolicySync

| TLA+ | code |
|---|---|
| `StartSync`, `SyncAnswered`, `SyncRaises` | `_sync_policy_groups`: group call to the rollout workers, then to the actor, `wait()` on both |
| `PushBucket`, `CommitMeta`, `ReclaimPrevious` | `_push_fsdp_sharded_buckets` and `BucketWeightSyncer.push_bucket`, `commit` |
| `Release` | `BucketWeightSyncer.release` |
| `SeeVersion`, `FetchBucket`, `ApplySnapshot`, `MissingBucket` | `BucketWeightSyncer.pull` inside `sync_model_from_actor` |
| `AlreadyCurrent`, `PullTimeout` | the polling loop of `sync_model_from_actor` |
| `Train` | any update of the policy between two syncs |
| `SaveCheckpoint`, `Restart` | checkpoint, and a new driver with `resume_ckpt` |
| `EntryVersion`, `PostSftVersion`, `EvalVersion` | the version table: 3g-2, 3g-1, 3g for global step g |

The parameters of a policy are a number. Every remote call to the store is one
step; commit's read and write of the record are one, since the actor is its only
writer. A worker whose copy fails half-way keeps the buckets before the missing
one. `StorePersists` says whether the detached store actor is found again by the
next run: `cluster.shutdown()` ends a Ray cluster the driver started itself, not
one it only joined.

### EnvRollout and ActionService

| TLA+ | code |
|---|---|
| `StartReal`, `StopReal`, `Drain` | real collection in `_run_staged_global_step`, `_wait_env_metrics_with_rollout_guard`, `_stop_rollout_workers`, `_merge_real_trajectory_batches` |
| `StartImagination`, `LeaseReturned`, `StopImagination`, `Receive` | imagination with static shares or `_wait_env_metrics_with_dynamic_wm_leases`, `_receive_actor_trajectories` |
| `SkipImagination` | early return of the frozen modes |
| `GuardRaises`, `InteractionTimeout` | the guard's errors and `env_rollout_timeout_s` |
| `Bootstrap`, `StepSlots`, `FinalAnswer`, `EnvRaises` | `interact` of the env workers |
| `TakeRequest`, `PutAnswer`, `RolloutFails` | `generate` of the rollout workers |
| `envq`, `resq`, `actorq` | env, rollout and actor channel |

A recipe says which runner is modelled and its numbers; one run checks both.
`Frozen` is `DreamerRunner`: all real workers ask under one shared key, and
WM workers have no rank offset. An env worker takes its answer, steps its slots
and sends the next request in one action: it is the only reader of its answers.
Evaluation uses a pair of channels of its own and the same handshake, and is not
modelled a second time. `MCEnvRollout` derives worker counts as
`build_manual_cotrain_placement` does, for the placement run.

### StagedCotrain

One action per call the runner makes, in the order of
`_run_staged_global_step`, `run` and `_maybe_save_manual_checkpoint`. A model is
known by an id minted when it is trained: a policy is its encoder, its action
decoder and the number of optimizer steps in it; WM and CLS are where they came
from and the latent space they were trained in. An update is a *path* of
divergences, one per optimizer step, since the reported KL depends on which of
them are measured: `run_training` averages forward passes that precede the
steps, `run_success_sft` measures after the last. `Fail` can happen before any
call. PolicySync shows why a sync may be one step here (every worker serves what
the actor had), EnvRollout why an interaction may be one. The classifier
threshold, read at launch and used by `run_success_sft`, travels with the origin
of the learner's models. `MCStagedCotrain!BoundedSpec` gives each mode its own
number of steps and resumes, so that one run holds all three.

An episode has a task, because a refresh wants a record of every task. `CanDraw`
is that first draw, `OfTaskId` the one it falls back to, `RefreshRaises` a strict
recipe (`require_balanced_initial_conditions`) whose first draw fails. In the other
recipes `Refresh` leaves the start as it is when both fail or the replay is empty.

### TopKCheckpoints

The files of the checkpoint directory with their inodes (the metric file is a
hard link of `latest.ckpt`), the manager's table in insertion order, the two
different sorts it uses (by rounded value and path when it is rebuilt, stable by
exact value when it evicts), stops between deletion, rename and link, and
resumes from any file.

### Replay and ImaginedStarts

`Replay` is `OnlineReplay` with the calls of `ReplayWorker`:

| TLA+ | code |
|---|---|
| `AddEpisodes`, `ReplaceEpisodes`, `SetPolicyVersion` | `append_real_trajectories` / `add_episode` with eviction per task, `replace_episodes`, `set_policy_version` |
| `Sample` | `sample`: staleness limit, pending-latest queue, task-balanced or mixed pools |
| `SampleWindows` | `sample_classifier_windows`: end window, early negative, what is left for the next batch |
| `DrawStarts` | `sample_initial_conditions` with its cursor and selector |

`ImaginedStarts` adds who calls them: the staged runner in its full and frozen
branch (`Launch`, `EnterStep`, `CollectFull`, `CollectFrozen`, `Learned`,
`EndStep`), the learner (`UpdateWorldModel`, `UpdateClassifier`, `UpdatePolicy`,
`LearnerRaises`), env workers that write to the replay while it learns
(`CollectOnline`, `PushVersion`: two remote calls, so versions can cross), the WM
workers (`Refresh`, `RefreshRaises`, `StartLease` with its own refresh,
`EndLease`), and the way of the shards to the actor: `TaskShards`
(`_flush_buffered_actor_slot_batch`, one message per task when the slots of a
worker differ), `Share` and `DealShards` (`_split_actor_keyed_shard_counts`, or
the driver's own read when a rank would get nothing), `GetShard` (the ranks'
concurrent `recv_rollout_trajectories`).

An imagined trajectory is the start it was imagined from. The number of
classifier updates, batches and window sizes are constants; one window key is
used per run, as in the recipes. WMPO reads the same records and keeps no state
of its own. The draw at `init()` and the residency of models are left out;
readiness counters and the endpoint windows of calibration only read.

### Collection

| TLA+ | code |
|---|---|
| `Launch` | `_build_oft_components`: missing work, shard index, fresh files per dump worker |
| `StartRound`, `HandleRound` | the lock-step loop: predict, step all, dump, reset |
| `StartTurn`, `HandleStep`, `EndTurn` | the overlapped loop: what a turn starts, handles and decides |
| `Infer`, `StepEnv`, `Respawn` | inference worker with its action queues; env worker, and a dead child replaced or given up |
| `AddEpisode`, `RenameReward`, `RenameHidden` | `add_episode` of a dump worker: write and close a pair, then the two renames, then the size |
| `LeaveLoop`, `WriteManifest` | end of the run |
| `Crash` | the run dies: any unclosed file may be unreadable, a rename may have happened without its twin |

A work item is its place in the full list; a demo is the item and the launch it
was attempted in. Opening, writing and closing a file are one step, because a
crash may tear any file that is not closed. One demo per shard and hidden
sidecars, as in the shipped recipes. Left out: `keep_last_global_steps` (online
only), the rotating and per-trajectory writers with several demos, the
`quarantine_*` tools, and `episode_index.jsonl`, which nobody reads back.

## 4. Runs

| run | instance | shows |
|---|---|---|
| `policy_sync` | 2 workers, 2 buckets, 2 global steps, 2 updates, 1 crash, store dies | `ServesPublished`, `StoreConsistent`, and `ImplementsBroadcast` |
| `policy_sync_persist` | as above, the store survives, fairness | `NeverBehind`; `SyncEnds`: a sync ends even over a store with the remains of another run |
| `policy_sync_stale` | store survives | **violated**: `LatestApplied` (finding 1) |
| `env_rollout` | 2 real and 2 WM workers of 2 slots, leases of 2, 2 steps; as CotrainRunner (4 rollout workers, 2 chunks per epoch, pool of 3, no fault) and as DreamerRunner (3 rollout workers on a shared queue, 1 chunk, uneven shares, pool of 5, one fault or timeout anywhere) | `OneDecisionPolicy`, `EverySlotDelivers`, `ChannelsDrained`, `FailsOnlyOnFault`, `LeasesConserved`; `StepsComplete`, `AnswersOnce` (refinement of `ActionService`), `InteractionEnds` |
| `env_rollout_placement` | default placement of 2 GPUs with 2 real workers | **violated**: `StepsComplete` (finding 2) |
| `staged` | full mode, strict and not, with 2 trajectories of 2 tasks, 2 steps, 1 resume; both frozen modes with 3 steps, replay of 2, 2 resumes that name the checkpoints again | `LatentSpacesAgree`, `OnPolicy`, `WithinBudget`, `OptimizerFollowsPolicy`, `AppliedMatchesPolicy`, `MetricOfSavedPolicy`, `AnchorsFailed`, `FrozenModelKept` |
| `staged_resume` | frozen modes, resumes by `--resume` alone | **violated**: `FrozenModelKept` (finding 3) |
| `staged_ppo_kl` | PPO modes, one step | **violated**: `CommittedWithinBudget` (finding 4) |
| `topk` | k of 2 or 3, 3 epochs, 2 resumes | `DirectoryTrue` (names tell contents, the manager knows the disk), `BestSurvives` |
| `topk_redo` | k = 2, stops only between saves | **violated**: `TopKRetained` (finding 5) |
| `collection` | 3 items of horizon 2, 2 envs, overlap with 2 dump workers or lock step with 1, 1 respawn, 2 launches, a crash anywhere | `KeptOnDisk`, `PairsAgree`, `ManifestTruthful`, `RunCollects`, `OwnActions`, `RunEnds` |
| `imagined_starts` | 2 tasks, seven recipes of three flows (full: the shipped one and a strict one), 2 workers of 4 slots, 4 actor ranks, 2 steps | `OnlyThisDataset`, `LatestLeads`, `EarlyNegativeFollows`, `DrawnEvenly`, `StartsAligned` |

Every model has a type invariant checked in one of its runs.

### Bounds, and why they are enough

* *Workers*: two of each kind is the least number that can disagree; three or
  four rollout workers are more than there are keys in use, so StopMsgs of
  several workers meet in one queue. Workers of a kind differ only in their rank.
* *Buckets*: two are the least that can be torn.
* *Versions, policies, steps*: two global steps contain each sync after each
  other one, and hence anything that leaks from one step to the next; the frozen
  modes have three, so that a resume can be followed by a checkpoint and another
  resume, and so that the replay evicts.
* *Chunks*: with two, an episode can end early, exactly at the end, or not at
  all. With one (DreamerRunner) every chunk is the last.
* *Tasks*: with two, one can be without a record while the other, or
  `manual_cotrain.task_id`, has one; the frozen modes need only one, since their
  recipes are strict.
* *Leases*: the pools (3 and 5) are no multiples of the lease (2).
* *KL*: values `0 .. MaxKl + 1`: nothing, the budget, too much. Only comparison
  with the budget and the sum of two matter.
* *Metrics*: thirds of the last printed digit: two values print alike, others do
  not.
* *Collection*: more items than envs, so an env gets a second one; two envs and
  two dump workers are the least that interleave; actions come in chunks of the
  horizon, so a queue can outlive an episode that ends early. Two launches in
  either order of the two configurations meet every file the other can leave.
* *Replay*: lengths below, at and above a training sequence, with and without
  room for an early negative; five transitions, so that the second or third
  episode of a task evicts; batches smaller than the windows of two episodes,
  so that some are left over. Two tasks make workers of one and of two messages.
* *Shards*: three leases make three to six messages; with four ranks both ways
  of dealing them occur, and ranks with unequal numbers of trajectories. Groups
  are of one or two slots.
* *Failures*: one per run; a second cannot matter after the first has ended the
  interaction.

Deadlock checking is off in each configuration because every model has final
states: the loop reaches its last step, or a run fails and is not resumed. That
nothing stops earlier is what `StepsComplete`, `InteractionEnds`, `SyncEnds` and
`RunEnds` say, under the fairness below.

### Fairness

* `PolicySync!Fairness`: the runner returns from a wait whose condition holds;
  the actor and the workers run a call, once started, to its end. Not assumed:
  timeouts, training, saving, starting the next step, crashes.
* `EnvRollout!Fairness`: each worker is a process of its own that runs its
  `interact` or `generate` call, and the runner polls. Not assumed: faults and
  timeouts. Per worker and weak: a worker waiting in `get` is enabled for good
  once its queue has a message only it reads; on the shared queue others may take
  it, and nothing is promised to the one that came late.
* `Collection!Fairness`: the driver, the inference workers, the steps of the envs
  and the calls of the dump workers go on. Not assumed: launches, crashes,
  deaths of children.
* `StagedCotrain`, `TopKCheckpoints` and `ImaginedStarts` are checked for safety
  only.

## 5. Findings

1. **A surviving store serves another run's policy** (`policy_sync_stale`).
   `sync_model_from_actor` accepts any version at least as large as expected,
   and buckets carry no owner. If the Ray cluster outlives a driver that died
   after a later commit, the resumed run's workers load those parameters and the
   sync succeeds. Not reachable when the driver starts its own cluster, which is
   the hypothesis of the proofs.
2. **Default placement with two or more real workers hangs**
   (`env_rollout_placement`). Env ranks are `real + ngpu - 1`, rollout ranks
   `ngpu`. The shipped `CotrainRunner` configurations have one real worker;
   larger numbers are only shipped with `DreamerRunner`, which has no offset.
3. **`--resume` alone loses the frozen WM and CLS** (`staged_resume`): the first
   resume still imagines with the payload's models but saves the learner's random
   ones, the second uses them.
4. **The KL that gates a PPO update omits its last optimizer step**
   (`staged_ppo_kl`). The success-SFT mode and the encoder SFT measure correctly,
   which `WithinBudget` shows.
5. **Redoing an epoch at capacity loses a checkpoint** (`topk_redo`).

Four more differences need no run:

* `run` evaluates before it saves, while `docs/architecture/04_complete_loop.md:66-67`
  describes saving first. A failure during evaluation loses the step. It is the
  one hazard in `PROJECT.json` without a property: that evaluation precedes the
  save holds by the order of two calls.
* `algorithms/ppo/grpo.py:13-16` says of GRPO that the rollouts of a group see
  the same initial state. `DreamerRunner`'s recipe sets `bootstrap_group_size` to
  `algorithm.group_size`, and `StartsAligned` shows what follows. The recipes of
  `CotrainRunner` have a `group_size` of 8 and leave `bootstrap_group_size` at its
  default of 1, so a group there compares eight different starts. The model has
  one parameter for both: the full recipe is checked with a group of 1, for which
  `StartsAligned` says nothing about advantages.
* `refresh_wm_initial_conditions` says "Resample the next WM rollout group's
  aligned replay condition." (`trajectory_env_worker.py:2730`). With
  `openvla_onetraj_libero_cotrain.yaml`, which does not set
  `require_balanced_initial_conditions`, it may resample nothing. If a task has no
  record the draw raises, the worker asks for records of
  `manual_cotrain.task_id` instead (one task for all slots), and if there are none
  either it returns silently. `replace_episodes` has then replaced the dataset by
  that of the step (`online_replay.py:148`), WM, classifier and policy are new, and
  the actor learns from starts of an earlier step in the latents of an earlier
  encoder, or from those the env was built with. `LatentSpacesAgree` and
  `OnlyThisDataset` therefore speak of starts only under `RefreshDraws`; without
  that condition TLC shows such a step in both runs. With the 32 trajectories of
  that recipe each task is tried at least three times, so it takes that
  every try of some task, and every one of `task_id`, is a success of fewer than
  `sequence_length` (36) transitions; with fewer trajectories than tasks a task
  without a record is ordinary. The strict recipes raise instead.
* With a replay that has only episodes shorter than a training sequence,
  `refresh_wm_initial_conditions` returns silently and `imagined_success_sft`
  imagines from what the env was built with. `StartsAligned` allows that case;
  no document says what should happen.

## 6. Proofs

Eight modules hold theorems. All of them hold for every value of the constants
that satisfies the named `ASSUME`s of the component's module. They state every
safety property and both refinements that the passing runs check.

**`PolicySyncProofs`**

* `TypeCorrect`: `Spec => []TypeOK`, with and without a surviving store.
* `NoWorkerBehind`: `NeverBehind` always holds, again in both cases: whatever an
  earlier run left in the store, a worker that reported success carries the
  version it was asked for (`LabelInv`).
* `StoreSafe`, `InductiveInvariant`, `SyncSafety`, `Refinement`, assuming
  `StorePersists = FALSE` (finding 1 shows that they fail without it):
  `Spec => []IInv`; `ServesPublished`, `AcknowledgedIsCurrent` (a worker that
  reported success has the actor's present policy) and, in `StoreSafe`, `StoreConsistent` (no
  bucket is missing to a reader, the record is only visible over a whole
  snapshot, the store is empty outside a sync) always hold; and
  `Spec => ImplementsBroadcast`.

None of the properties is inductive. That no bucket is missing, say, needs to
know that a fetching worker reads the version the record names, and that only a release
deletes buckets, after every worker is done. `IInv` adds to `TypeOK` and
`ServesPublished`:

* `StoreInv`: during a sync the store holds exactly the buckets pushed so far,
  all of the actor's policy, under exactly this version; the record is there iff
  all buckets are; outside a sync the store is empty. It follows that `commit`
  never finds a previous record, i.e. the reclaiming branch is never taken in a
  run that does not meet another run's store.
* `WorkerInv(r)`: a worker that polls is behind, one that fetches has only the
  actor's buckets of this version, one that is done serves the actor's policy.

`StoreStep` proves the first from the actor's and runner's actions, `WorkerStep`
the second from the worker's, `ServesStep` the rest. For the refinement,
`StartSync` is `Begin`, `ApplySnapshot` is `Deliver`, `Release` is `Complete`,
`Train` is `Update`, `Restart` is `Reset`, and the rest stutters.

**`StagedCotrainProofs`** (no hypothesis besides the `ASSUME`s but where named)

* `OptimizerSafe`, `OnPolicySafe`, `CounterSafe`, `MetricSafe`: the properties
  `OptimizerFollowsPolicy`, `OnPolicy`, `AppliedMatchesPolicy` and
  `MetricOfSavedPolicy` always hold, in the three modes.
* `FrozenModelSafe`: `FrozenModelKept` always holds if every resume names the
  checkpoints again (`InitAgain`); finding 3 shows that it fails otherwise.
* `AnchorsSafe`: `AnchorsFailed` always holds, whatever the replay evicted
  between the count of failures and the draw.

The invariant relates the three places that remember a policy. `TransactionInv`:
a transaction is open only around an update and what it would restore has as
many optimizer steps as the runner counted, so a rollback cannot falsify the
count. `CounterInv`: between `run_training` and its verdict the policy is ahead
of the counter by the reported steps, otherwise level. `ServingInv`: in which
stages of which mode the rollout copy is the actor's policy. `MetricInv`: a
metric waiting to be saved is of the current policy. `CheckpointInv`: all of it
holds in every checkpoint, since `Resume` may choose any. One lemma per part
shows that each action preserves it. `ModelInv` (learner, WM workers and every
checkpoint hold the given models in the frozen modes) and `AnchorInv` (past the
count, what the draw may return is failed) are inductive on their own.

The data a step works on, in the three modes:

* `OneLatentSpace` (`LatentSpacesAgree`), `BudgetKept` (`WithinBudget`),
  `TypeCorrect`.

`LatentInv` has one half per kind of mode. The frozen modes never leave the
encoder they were launched with, in any checkpoint (`FrozenInv`).
`staged_full_cotrain` hands the encoder the transaction left from the batch to the
replay, the learner, the WM workers, the start states and the shards, each
from the stage on that fills it (`FullInv`); start states only if the refresh drew
some (`RefreshDraws`, see section 5), which nothing between refresh and training
changes. `KlInv` bounds what was accepted by what
the path can add up to; the mean of a path is a count of units in a box, so its
bound is one of cardinalities. For `TypeCorrect` every id in every place
(policies, models, episodes, checkpoints) is among those the updates of the run can
have given out, and the number of updates still to come shrinks with each one
(`Numbers`, `Held`, `Stored`). That a selection keeps the order of a sequence is
proved for `Chosen`, by the least number for which it would fail. Eviction keeps
a task within its capacity because every other episode that stays of it came later
than the first one that stays (`NewestFits`).

**`EnvRolloutProofs`** (both runners, any number of workers, slots, chunks,
epochs, leases and faults)

* `OnePolicyPerTrajectory`: `OneDecisionPolicy` always holds.
* `OneCallPerWorker`: of each env worker at most one request is under way, and
  none unless it waits.

The difficulty is that a request may sit in one of several queues, be held by
one of several rollout workers, or be answered, and that with a shared queue
anyone may take it. `IInv` says: outside the running interaction no worker of
its kind is under way (`PhaseInv`); a rollout worker that holds a request is in
its call (`HoldInv`); of a rank there is at most one queued request at one
place, or one holder, or one answer, and none of them unless the env worker of
that rank waits (`RequestInv`); answers, open episodes and trajectories carry the
version synced at the entry of the step (`VersionInv`). One lemma describes what
each kind of step does to a rank's request (nothing moves, asking or stopping,
taking, putting, taking the answer); the preservation of `RequestInv` and
`VersionInv` follows from these.

**`EnvRunProofs`** (same generality)

* `LeasesBalance` (`LeasesConserved`), `NothingLeftOver` (`ChannelsDrained`),
  `OnePerSlotAndEpoch` (`EverySlotDelivers`), `NoFalseAlarm`
  (`FailsOnlyOnFault`), `TypeCorrect`.
* `CallsAnsweredOnce`: `Spec => AnswersOnce`, the channels and the rollout workers
  implement `ActionService`.

`RunInv` adds the accounting to `IInv`. `LeaseInv`: what remains and what is
leased out makes up the WM epochs. `WorkInv`: a worker that is under way
has epochs left and waits for the chunk of some slot. `FitInv`: what is asked or
answered is about the slots the worker waits with, so no answer is refused
as a mismatch. `StopInv`: no StopMsg before the env workers are back, then under each key
one for every reader there; with `QuietQueues` nothing else is in the queues, and
they are empty when the last reader has left. `ShardInv`: the actor's channel
holds what finished leases reported and what running ones put. `TrajInv`: the
trajectories of a worker are told apart by slot and episode, all are of this
step, and per slot there are as many as episodes were closed, so that the
driver's count of the drained batch comes out: there is a bijection between
its trajectories and workers x slots x epochs. `BlameInv`: before a fault nothing is
raised; it needs all the others, since each check of the code is one of them.

A sum over workers is the cardinality of a set of tokens (`Total`); that it changes
by what one worker changes is `SumByRank` and its neighbours, and that shares of
a split are as even as the code makes them is proved by the least number for which
they would not be. For the refinement, what is under way for a rank is counted
over all queues and holders (`ServiceState`), asking is `AskFirst`, putting the
answer is `Reply`, taking it (and asking again) is `Take`; a request moving from a queue to a holder
stutters.

**`TopKProofs`** (any values, epochs, resumes, and any k per launch)

* `TypeCorrect`, `DirectoryBelieved` (`DirectoryTrue`); `BestIsKept`
  (`BestSurvives`), assuming that every launch has k > 1, as the training recipes do
  (with k = 1 the only file is deleted before the better one is written).

`DiskInv`: a metric file has an inode with what its name tells, hard links
and replaced files included. `SaveInv`: the file a save is about to write is not
there yet, or is that of the same step and value. `ManagerInv`: the table knows
the files there are and the one being saved, once a launch has read the
directory. That the manager's sorts have a first and a last entry is proved by
counting: the number of entries before it gives each entry a place of its own
(`PlacesAreTaken`), which is also how the model defines the sort (`Place`).

**`CollectionProofs`** (any number of items, envs, dump workers, launches)

* `NothingCollectedIsLost` (`KeptOnDisk`), `PairsNeverMix` (`PairsAgree` and that
  no item has two complete pairs), `ManifestStaysTrue` (`ManifestTruthful`).

The argument is about names. `Fresh`: no reward file has a shard name that a dump
worker is yet to write, since indices start above all that is there and grow, and
names carry the rank when there are several workers. `Writers`: open files have
the name of their worker's present index. `Agree`: readable contents under one
name are of one attempt. `Sealed`: a trajectory name holds the item it says. `Calls`: where an `add_episode` call stands and which of
its two renames is done. `Claims` and `Stages`: an item belongs to the pending
list or to one env, never to two, and never to one that is complete. With that, no
rename can overwrite a complete pair, which gives `KeptOnDisk`, and through it
`ManifestTruthful`. Half a pair of a crashed launch is not complete, is attempted
again, and both its files are then replaced.

**`CollectionRunProofs`** (same generality)

* `NothingCutOff` (`RunCollects`): a launch that ends by itself has got every episode,
  though the driver stops at a limit of rounds. `NoForeignActions`
  (`OwnActions`), `TypeCorrect`.

The limit is the difficulty: it is the product of items and horizon, and the
driver counts rounds in which some envs may do nothing. `Account` says that saved
demos and open items (pending, under way, or dead with their env) make up the
target. `Pace` keeps a token for every step an item may still take; a
round takes at least one, so the rounds counted and the tokens left stay within the
limit, and strictly below it while several envs are at work with overlap, where
the driver counts before the last batch is back. `Single` is the case in which
that argument has no slack, and where at most one env is ever at work.
`OwnQueues`: a queue of predicted actions holds those of the item its env is at,
since a reset clears it before the next request.

**`StartsProofs`** (any number of tasks, episodes, workers, slots, ranks, updates)

* `TypeCorrect`, `LatestLeadsAlways` (`LatestLeads`), `NegativesAlwaysFollow`
  (`EarlyNegativeFollows`), `DrawnEvenlyAlways` (`DrawnEvenly`).
* `StartsAlignedAlways` (`StartsAligned`), if no episode is longer than the
  capacity of its task (`EpisodesFit`). Without that `add_episode` may evict the
  episode it adds with all others, and workers would imagine from records of a
  replay that is empty. The recipes collect at most 512 steps and keep 8000 per
  task.
* `DatasetCurrent` (`OnlyThisDataset`), for strict recipes and others: training
  batches and windows are of the step always, starts whenever one of the two draws
  of a refresh finds a record (section 5 has the case in which neither does).

`Base` says what each part keeps. `ReplayInv`: a task's records are in the order
of their ids, fit its capacity and no other task has them; every window left over is
one that opens nothing (`Waiting`); every online record has been met or waits
(`LatestInv`). `ChannelInv`: the messages of the ranks' shares add up to those in
the channel, so that it is empty when nothing is owed. `GroupedInv`: conditions of
slots, messages and columns come in whole blocks of one start. The step that
needs it is `TaskShards`, which sorts the slots by task: a block has one task, so
the slots of a task are made of whole blocks, and in order they are blocks again
(`WholeCount`, `WholeOrder`). `StartsInv` and `DatasetInv` follow the workers that
have been refreshed through a step; `StartsInv` also keeps that an empty replay
has never filled a slot. `DrawnInv`: what was drawn since the records changed is
what has been the turn of since some value of the cursor. The turns of one among
n are counted by a quotient (`Before`), of a record within its task by applying it twice
(`TurnsWithin`), and any two counts differ by at most one (`GapsClose`); the
draws of a task are the turns of all its records (`TurnsAddUp`).

The invariants were model-checked on the instances of section 4 before they were
proved, as far as TLC can evaluate them. The provers know no induction over
numbers here, but well-foundedness of the naturals is a theorem of the library without
an operator parameter: where a proof needs induction it takes the least number
for which the fact would fail.

What the proofs changed in the models: folds that summed became counts of tokens
(`EnvRollout!Total` and `RequestsOf`, `Collection!Collected`, `StagedCotrain!Units`),
the selection of episodes and the sort of checkpoints are given by what they are
(`Chosen`, `InOrder`, `Place`; in `Replay` the order of the tasks and of a task's
eligible records, in `ImaginedStarts` the shards of a worker), episodes are added
by a recursive function (`WithAll`) and their lengths and the draws of a task are counts of
tokens (`Transitions`, `DrawnEvenly`), `EnvRollout` states that the WM budget is a number
(`BudgetAssumption`), and the type of a request no longer admits an
empty set of slots, which the code never sends and `TypeOK` had let through.

**Only model-checked**: liveness (`SyncEnds`, `StepsComplete`, `InteractionEnds`,
`RunEnds`: fairness and ENABLED are out of the prover's reach) and the surviving
store, where the properties fail (finding 1).

## 7. What is not modelled

* Tensor arithmetic: losses, FSDP, collectives, CPU offload, precision, the
  models and the algorithms. The models only say which parameters a call reads
  and writes. This is the bulk of the code and holds no state a model checker
  could say something about.
* The simulators: an env step is any outcome.
* Ray itself: group calls are assumed to run once and to report errors, channels
  to be FIFO per key. Registration and rendezvous of workers are in the plan.
* Evaluation's own channels, spawned env subprocesses of the cotrain loop,
  progress files, metrics, TensorBoard and W&B.
* WM-env writes to the replay (`wm_env_write_replay`, false in all recipes).
* `ObjectStoreWeightSyncer`, the patch syncer, collectives and the dynamic
  scheduler: not on the cotrain path.
* Offline runners (SFT, world model, classifier, decoder, evaluation), datasets
  and preprocessing: sequential loops over a data loader and over files.
* Launchers and configuration, but for what a resumed run is given.
