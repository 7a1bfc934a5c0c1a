----------------------------- MODULE EnvRollout -----------------------------
(***************************************************************************)
(* The two interactions of a global step: real collection and imagination. *)
(*                                                                         *)
(* Env workers put observation batches on a named channel, rollout workers *)
(* take them, run the policy and put the action chunks back under the key  *)
(* of the env worker.  A rollout worker only returns on a StopMsg, which   *)
(* CotrainRunner sends when every env worker has finished, and the same    *)
(* channels carry the next interaction.  Imagination is handed out to the  *)
(* WM workers at once or as leases from a pool.                            *)
(*                                                                         *)
(* Channels are unbounded FIFO queues per key.  An env worker takes its    *)
(* answer, steps its slots and puts the next request in one action: it is  *)
(* the only reader of its answers, so nobody can see the moment between.   *)
(* The contents of observations and actions are left out; an answer is     *)
(* known by its slots and by the policy version that made it.              *)
(***************************************************************************)
EXTENDS Integers, Sequences, FiniteSets, FiniteSetsExt

CONSTANTS
  RealWorkers,      \* workers of RealEnvGroup
  WMWorkers,        \* workers of WMEnvGroup
  Slots,            \* env slots of a worker
  Recipes,          \* what else the configurations set, see Recipe
  Dynamic,          \* is imagination leased from a pool?
  LeaseEpochs,      \* wm_rollout_lease_epochs
  OneTrajectory,    \* one_trajectory_per_rollout_epoch
  FinalBootstrap,   \* request_final_bootstrap
  Timeouts,         \* may env_rollout_timeout_s expire?
  MaxSteps          \* bound: global steps

Recipe ==
  [frozen  : BOOLEAN,      \* DreamerRunner (shared real queue), else CotrainRunner
   rollouts : Nat \ {0},   \* workers of RolloutGroup
   chunks  : Nat \ {0},    \* action chunks per slot and rollout epoch
   real    : Nat,          \* rollout epochs of RealEnvGroup, summed over its workers
   wm      : Nat,          \* rollout epochs of WMEnvGroup, summed over its workers
   budget  : BOOLEAN,      \* is real_rollout_target_trajectories configured?
   faults  : Nat]          \* bound: workers that raise, interactions that time out

ASSUME RecipesAssumption ==
  /\ RealWorkers \in Nat \ {0} /\ WMWorkers \in Nat \ {0}
  /\ \A r \in Recipes : r \in Recipe /\ r.real >= RealWorkers /\ r.wm >= WMWorkers
ASSUME SlotsAssumption ==
  IsFiniteSet(Slots) /\ Slots # {} /\ LeaseEpochs \in Nat \ {0} /\ MaxSteps \in Nat
\* A trajectory budget counts one trajectory per slot and epoch: the
\* configurations that set it also set one_trajectory_per_rollout_epoch.
ASSUME BudgetAssumption == \A r \in Recipes : r.budget => OneTrajectory
ASSUME FlagsAssumption == {Dynamic, OneTrajectory, FinalBootstrap, Timeouts} \subseteq BOOLEAN

VARIABLES
  recipe,     \* the configuration the run was launched with
  phase,      \* runner: ready, real, realStop, learn, imagine, imagineStop, failed
  step,       \* runner: global step
  version,    \* RolloutGroup: policy version it serves
  remaining,  \* runner: WM epochs not leased yet
  lease,      \* runner: WM epochs each WM worker is running
  finished,   \* runner: WM epochs that came back
  expected,   \* runner: shards the WM workers reported
  drained,    \* history: real trajectories of each step
  envq,       \* env channel: key -> requests
  resq,       \* rollout channel: env rank -> answers
  actorq,     \* actor channel: trajectory shards
  pc,         \* env: idle, bootstrap, wait, final, done, raised
  left,       \* env: rollout epochs still to run
  chunks,     \* env: chunk steps of each slot in this epoch
  open,       \* env: policy versions in the running episode of each slot
  episode,    \* env: episode id of each slot
  completed,  \* env: finished real trajectories not drained yet
  emitted,    \* env: shards put by this interaction
  rpc,        \* rollout: idle, get, busy, done, raised
  held,       \* rollout: the request it works on
  failures    \* history: workers that raised, interactions that timed out

Frozen     == recipe.frozen
ChunkSteps == recipe.chunks
RealEpochs == recipe.real
WMEpochs   == recipe.wm

RealEnvs == 0 .. RealWorkers - 1
WMEnvs   == RealWorkers .. RealWorkers + WMWorkers - 1
Envs     == RealEnvs \cup WMEnvs
Rollouts == 0 .. recipe.rollouts - 1

\* The rank an env worker signs with: rank plus rank_offset of its group.
EnvRank(e) == IF Frozen /\ e \in WMEnvs THEN e - RealWorkers ELSE e

EnvRanks   == {EnvRank(e) : e \in Envs}

SharedKey     == -1                              \* "real_env"
Keys          == Envs \cup Rollouts \cup {SharedKey}
RequestKey(e) == IF Frozen /\ e \in RealEnvs THEN SharedKey ELSE EnvRank(e)

Stop == [env |-> -1, slots |-> {}]               \* StopMsg

Trajectories ==
  [env : EnvRanks, slot : Slots, episode : Nat, step : 1 .. MaxSteps, versions : SUBSET Nat]

runnerVars  == <<phase, step, version>>
leaseVars   == <<remaining, lease, finished, expected>>
slotVars    == <<chunks, open, episode, completed>>
envVars     == <<pc, left, emitted, slotVars>>
rolloutVars == <<rpc, held>>
channelVars == <<envq, resq, actorq>>
vars == <<recipe, runnerVars, leaseVars, drained, channelVars, envVars, rolloutVars, failures>>

Lesser(a, b) == IF a < b THEN a ELSE b

\* _rollout_epochs_by_worker: the first ranks run one epoch more.
Share(total, workers, rank) ==
  (total \div workers) + (IF rank < total % workers THEN 1 ELSE 0)

RealShare(e) == Share(RealEpochs, RealWorkers, e)
WMShare(e)   == Share(WMEpochs, WMWorkers, e - RealWorkers)

\* The lease a WM worker gets when the pool holds n epochs.
UncappedLease(n) == IF n > 0 THEN LeaseEpochs ELSE 0     \* a faulty one
LeaseOf(n) == Lesser(LeaseEpochs, n)

\* Epochs in the pool when the first leases reach this worker.
PoolAt(e) == LET taken == (e - RealWorkers) * LeaseEpochs IN
             IF taken < WMEpochs THEN WMEpochs - taken ELSE 0
FirstLease(e) ==
  IF ~Dynamic THEN WMShare(e)
  ELSE IF e - RealWorkers < WMEpochs THEN LeaseOf(PoolAt(e)) ELSE 0

\* The sum of f over S, by counting.
Total(f, S) == Cardinality(UNION {{e} \X (1 .. f[e]) : e \in S})
Leased == Total(lease, WMEnvs)

Finished(e)  == pc[e] \in {"done", "raised"}
Returned(r)  == rpc[r] \in {"done", "raised"}
\* The env workers of the running interaction.
Group        == IF phase = "real" THEN RealEnvs ELSE {e \in WMEnvs : lease[e] > 0}
Active(e)    == {s \in Slots : chunks[e][s] < ChunkSteps}
Zero         == [s \in Slots |-> 0]
NoEpisode    == [s \in Slots |-> {}]

\* The key a rollout worker reads: its rank or the shared request key.
ReadKey(r)   == IF Frozen /\ phase \in {"real", "realStop"} THEN SharedKey ELSE r

\* Faulty: a StopMsg under every key in use ...
StopEveryKey(q) == [k \in Keys |-> Append(q[k], Stop)]
\* ... or under the shared key, whatever key the workers read.
StopShared(q) == [q EXCEPT ![SharedKey] = @ \o [i \in 1 .. recipe.rollouts |-> Stop]]

\* One StopMsg per rollout worker, under the key it reads.
StopAll(q) ==
  IF Frozen /\ phase = "real"
    THEN StopShared(q)
    ELSE [k \in Keys |-> IF k \in Rollouts THEN Append(q[k], Stop) ELSE q[k]]

Start(epochs) == IF epochs > 0 THEN "bootstrap" ELSE "idle"

AskFor(e, slots) ==
  envq' = [envq EXCEPT ![RequestKey(e)] =
             Append(@, [env |-> EnvRank(e), slots |-> slots])]

Answer(e)     == Head(resq[EnvRank(e)])
TakeAnswer(e) == resq' = [resq EXCEPT ![EnvRank(e)] = Tail(@)]

-----------------------------------------------------------------------------
Init ==
  /\ recipe \in Recipes
  /\ phase = "ready" /\ step = 0 /\ version = 0
  /\ remaining = 0 /\ lease = [e \in Envs |-> 0] /\ finished = 0 /\ expected = 0
  /\ drained = {}
  /\ envq = [k \in Keys |-> <<>>] /\ resq = [k \in Envs |-> <<>>] /\ actorq = 0
  /\ pc = [e \in Envs |-> "idle"]
  /\ left = [e \in Envs |-> 0]
  /\ chunks = [e \in Envs |-> Zero]
  /\ open = [e \in Envs |-> NoEpisode]
  /\ episode = [e \in Envs |-> Zero]
  /\ completed = [e \in Envs |-> {}]
  /\ emitted = [e \in Envs |-> 0]
  /\ rpc = [r \in Rollouts |-> "idle"] /\ held = [r \in Rollouts |-> Stop]
  /\ failures = 0

-----------------------------------------------------------------------------
(* Env worker e: interact.                                                 *)

\* An epoch starts: reset the slots (or use the reset of the step boundary)
\* and ask for the first actions.
Bootstrap(e) ==
  /\ pc[e] = "bootstrap"
  /\ chunks' = [chunks EXCEPT ![e] = Zero]
  /\ open' = [open EXCEPT ![e] = NoEpisode]
  /\ AskFor(e, Slots)
  /\ pc' = [pc EXCEPT ![e] = "wait"]
  /\ UNCHANGED <<runnerVars, leaseVars, drained, resq, actorq, left, emitted,
                 episode, completed, rolloutVars, failures>>

\* Faulty: an early success starts another episode in the same epoch.
ChunksRunOn(e, ended) ==
  [s \in Slots |-> IF s \notin Active(e) THEN chunks[e][s] ELSE chunks[e][s] + 1]

\* Slot s after its chunk; a finished episode uses up the epoch of its slot
\* when the budget counts trajectories.
ChunksAfter(e, ended) ==
  [s \in Slots |->
     IF s \notin Active(e) THEN chunks[e][s]
     ELSE IF OneTrajectory /\ s \in ended THEN ChunkSteps ELSE chunks[e][s] + 1]

\* The transitions of slot s, by the policy version of their actions.
EpisodeWith(e, s) ==
  IF s \in Active(e) THEN open[e][s] \cup {Answer(e).version} ELSE open[e][s]

\* Close the episodes of some slots: they become trajectories of this step.
Close(e, closing) ==
  /\ completed' = [completed EXCEPT ![e] = @ \cup
       {[env |-> EnvRank(e), slot |-> s, episode |-> episode[e][s], step |-> step,
         versions |-> EpisodeWith(e, s)] : s \in closing}]
  /\ episode' = [episode EXCEPT ![e] =
       [s \in Slots |-> IF s \in closing THEN @[s] + 1 ELSE @[s]]]
  /\ open' = [open EXCEPT ![e] =
       [s \in Slots |-> IF s \in closing THEN {} ELSE EpisodeWith(e, s)]]

\* Shards of an epoch: one per worker, or one per task its slots played.
ShardCounts(e) == IF e \in WMEnvs THEN 1 .. Cardinality(Slots) ELSE {0}

AfterEpoch(e) == IF left[e] = 1 THEN "done" ELSE "bootstrap"

\* Step the active slots through their chunk; some episodes end.  Real workers
\* record episodes, WM workers shards.  The last chunk of the epoch flushes
\* what is still open and may ask once more for the values of the last state.
StepSlots(e) ==
  /\ pc[e] = "wait"
  /\ resq[EnvRank(e)] # <<>>
  /\ Answer(e).slots = Active(e)
  /\ TakeAnswer(e)
  /\ \E ended \in IF e \in RealEnvs THEN SUBSET Active(e) ELSE {{}} :
       LET after == ChunksAfter(e, ended)
           more  == {s \in Slots : after[s] < ChunkSteps}
       IN
       /\ chunks' = [chunks EXCEPT ![e] = after]
       /\ IF e \in RealEnvs
            THEN Close(e, ended \cup {s \in Slots : more = {} /\ EpisodeWith(e, s) # {}})
            ELSE UNCHANGED <<open, episode, completed>>
       /\ \/ /\ more # {}
             /\ AskFor(e, more)
             /\ UNCHANGED <<pc, left, emitted, actorq>>
          \/ /\ more = {}
             /\ \E n \in ShardCounts(e) :
                  /\ emitted' = [emitted EXCEPT ![e] = @ + n]
                  /\ actorq' = actorq + n
             /\ IF FinalBootstrap
                  THEN /\ AskFor(e, Slots)
                       /\ pc' = [pc EXCEPT ![e] = "final"]
                       /\ UNCHANGED left
                  ELSE /\ pc' = [pc EXCEPT ![e] = AfterEpoch(e)]
                       /\ left' = [left EXCEPT ![e] = @ - 1]
                       /\ UNCHANGED envq
  /\ UNCHANGED <<runnerVars, leaseVars, drained, rolloutVars, failures>>

\* Faulty: the answer to the last request is not awaited.
FinalNotAwaited(e) ==
  /\ pc[e] = "final"
  /\ pc' = [pc EXCEPT ![e] = AfterEpoch(e)]
  /\ left' = [left EXCEPT ![e] = @ - 1]
  /\ UNCHANGED <<runnerVars, leaseVars, drained, channelVars, emitted, slotVars,
                 rolloutVars, failures>>

FinalAnswer(e) ==
  /\ pc[e] = "final"
  /\ resq[EnvRank(e)] # <<>>
  /\ Answer(e).slots = Slots
  /\ TakeAnswer(e)
  /\ pc' = [pc EXCEPT ![e] = AfterEpoch(e)]
  /\ left' = [left EXCEPT ![e] = @ - 1]
  /\ UNCHANGED <<runnerVars, leaseVars, drained, envq, actorq, emitted, slotVars,
                 rolloutVars, failures>>

\* "rollout result batch slot mismatch": the answer is for other slots.
Mismatch(e) ==
  /\ pc[e] \in {"wait", "final"}
  /\ resq[EnvRank(e)] # <<>>
  /\ Answer(e).slots # IF pc[e] = "wait" THEN Active(e) ELSE Slots

\* The answer does not fit, or an env raises while it is reset or stepped.
EnvRaises(e) ==
  /\ Mismatch(e) \/ failures < recipe.faults
  /\ \/ pc[e] = "bootstrap" /\ UNCHANGED resq
     \/ /\ pc[e] = "wait" \/ Mismatch(e)
        /\ resq[EnvRank(e)] # <<>>
        /\ TakeAnswer(e)
  /\ failures' = IF Mismatch(e) THEN failures ELSE failures + 1
  /\ pc' = [pc EXCEPT ![e] = "raised"]
  /\ UNCHANGED <<runnerVars, leaseVars, drained, envq, actorq, left, emitted, slotVars,
                 rolloutVars>>

-----------------------------------------------------------------------------
(* Rollout worker r: generate.                                             *)

TakeRequest(r) ==
  /\ rpc[r] = "get"
  /\ envq[ReadKey(r)] # <<>>
  /\ LET msg == Head(envq[ReadKey(r)]) IN
       /\ rpc' = [rpc EXCEPT ![r] = IF msg = Stop THEN "done" ELSE "busy"]
       /\ held' = [held EXCEPT ![r] = msg]
  /\ envq' = [envq EXCEPT ![ReadKey(r)] = Tail(@)]
  /\ UNCHANGED <<runnerVars, leaseVars, drained, resq, actorq, envVars, failures>>

PutAnswer(r) ==
  /\ rpc[r] = "busy"
  /\ resq' = [resq EXCEPT ![held[r].env] =
       Append(@, [slots |-> held[r].slots, version |-> version])]
  /\ rpc' = [rpc EXCEPT ![r] = "get"]
  /\ held' = [held EXCEPT ![r] = Stop]
  /\ UNCHANGED <<runnerVars, leaseVars, drained, envq, actorq, envVars, failures>>

\* The policy forward raises.
RolloutFails(r) ==
  /\ failures < recipe.faults
  /\ rpc[r] = "busy"
  /\ failures' = failures + 1
  /\ rpc' = [rpc EXCEPT ![r] = "raised"]
  /\ UNCHANGED <<runnerVars, leaseVars, drained, channelVars, envVars, held>>

-----------------------------------------------------------------------------
(* Faulty variants of the runner's actions below.                          *)

\* The runner stops waiting when the first env worker returns.
StopRealAfterOne ==
  /\ phase = "real"
  /\ \E e \in RealEnvs : pc[e] = "done"
  /\ phase' = "realStop"
  /\ envq' = StopAll(envq)
  /\ UNCHANGED <<step, version, leaseVars, drained, resq, actorq, envVars, rolloutVars, failures>>

\* Every returned lease is booked at full length.
LeaseBookedFull(e) ==
  /\ phase = "imagine"
  /\ lease[e] > 0
  /\ pc[e] = "done"
  /\ finished' = finished + LeaseEpochs
  /\ expected' = expected + emitted[e]
  /\ lease' = [lease EXCEPT ![e] = LeaseOf(remaining)]
  /\ remaining' = remaining - LeaseOf(remaining)
  /\ left' = [left EXCEPT ![e] = LeaseOf(remaining)]
  /\ pc' = [pc EXCEPT ![e] = Start(LeaseOf(remaining))]
  /\ emitted' = [emitted EXCEPT ![e] = 0]
  /\ UNCHANGED <<runnerVars, drained, channelVars, slotVars, rolloutVars, failures>>

\* Only the failure of all rollout workers is noticed.
GuardRaisesIfAll ==
  /\ phase \in {"real", "imagine"}
  /\ \/ (\A r \in Rollouts : Returned(r)) /\ (\E e \in Group : ~Finished(e))
     \/ (\E e \in Group : pc[e] = "raised") /\ (\A e \in Group : Finished(e))
  /\ phase' = "failed"
  /\ UNCHANGED <<step, version, leaseVars, drained, channelVars, envVars, rolloutVars, failures>>

-----------------------------------------------------------------------------
(* The runner.                                                             *)

\* Step boundary, policy sync, then interact and generate.  Partial episodes
\* are discarded with their ids; trajectories nobody drained are an error.
StartReal ==
  /\ phase = "ready"
  /\ step < MaxSteps
  /\ step' = step + 1
  /\ IF \E e \in RealEnvs : completed[e] # {}
       THEN /\ phase' = "failed"
            /\ UNCHANGED <<version, pc, left, chunks, open, episode, emitted, rpc>>
       ELSE /\ phase' = "real"
            /\ version' = 3 * step' - 2
            /\ episode' = [e \in Envs |-> [s \in Slots |->
                 episode[e][s] + IF e \in RealEnvs /\ open[e][s] # {} THEN 1 ELSE 0]]
            /\ open' = [e \in Envs |-> NoEpisode]
            /\ pc' = [e \in Envs |-> IF e \in RealEnvs THEN "bootstrap" ELSE "idle"]
            /\ left' = [e \in Envs |-> IF e \in RealEnvs THEN RealShare(e) ELSE 0]
            /\ emitted' = [e \in Envs |-> 0]
            /\ rpc' = [r \in Rollouts |-> "get"]
            /\ UNCHANGED chunks
  /\ UNCHANGED <<leaseVars, drained, channelVars, completed, held, failures>>

\* Every env worker has returned: stop the rollout workers.
StopReal ==
  /\ phase = "real"
  /\ \A e \in RealEnvs : pc[e] = "done"
  /\ phase' = "realStop"
  /\ envq' = StopAll(envq)
  /\ UNCHANGED <<step, version, leaseVars, drained, resq, actorq, envVars, rolloutVars, failures>>

\* drain_real_trajectories on every worker, merged and counted.
Drain ==
  LET batch == UNION {completed[e] : e \in RealEnvs}
      count == Cardinality(batch)
      \* the same identity twice, a stale step, or another count
      bad == \/ \E t, u \in batch : t # u /\ <<t.env, t.slot, t.episode>> = <<u.env, u.slot, u.episode>>
             \/ \E t \in batch : t.step # step
             \/ recipe.budget /\ count # RealEpochs * Cardinality(Slots)
  IN
  /\ phase = "realStop"
  /\ \A r \in Rollouts : rpc[r] = "done"
  /\ completed' = [e \in Envs |-> {}]
  /\ drained' = batch
  /\ phase' = IF bad THEN "failed" ELSE "learn"
  /\ UNCHANGED <<step, version, leaseVars, channelVars, pc, left, emitted, chunks, open, episode,
                 rolloutVars, failures>>

\* No failed episode to imagine from: the step ends here.
SkipImagination ==
  /\ phase = "learn"
  /\ Frozen
  /\ phase' = "ready"
  /\ UNCHANGED <<step, version, leaseVars, drained, channelVars, envVars, rolloutVars, failures>>

\* Sync the updated policy unless the mode freezes it, and hand out the epochs.
StartImagination ==
  /\ phase = "learn"
  /\ phase' = "imagine"
  /\ version' = IF Frozen THEN version ELSE 3 * step - 1
  /\ lease' = [e \in Envs |-> IF e \in WMEnvs THEN FirstLease(e) ELSE 0]
  /\ remaining' = WMEpochs - Leased'
  /\ finished' = 0
  /\ expected' = 0
  /\ pc' = [e \in Envs |-> IF e \in WMEnvs THEN Start(FirstLease(e)) ELSE pc[e]]
  /\ left' = lease'
  /\ emitted' = [e \in Envs |-> 0]
  /\ rpc' = [r \in Rollouts |-> "get"]
  /\ UNCHANGED <<step, drained, channelVars, slotVars, held, failures>>

\* A WM worker is back: book its epochs and lease it the next ones.
LeaseReturned(e) ==
  /\ phase = "imagine"
  /\ lease[e] > 0
  /\ pc[e] = "done"
  /\ finished' = finished + lease[e]
  /\ expected' = expected + emitted[e]
  /\ lease' = [lease EXCEPT ![e] = LeaseOf(remaining)]
  /\ remaining' = remaining - LeaseOf(remaining)
  /\ left' = [left EXCEPT ![e] = LeaseOf(remaining)]
  /\ pc' = [pc EXCEPT ![e] = Start(LeaseOf(remaining))]
  /\ emitted' = [emitted EXCEPT ![e] = 0]
  /\ UNCHANGED <<runnerVars, drained, channelVars, slotVars, rolloutVars, failures>>

StopImagination ==
  /\ phase = "imagine"
  /\ \A e \in WMEnvs : lease[e] = 0
  /\ phase' = "imagineStop"
  /\ envq' = StopAll(envq)
  /\ UNCHANGED <<step, version, leaseVars, drained, resq, actorq, envVars, rolloutVars, failures>>

\* The actor ranks receive the reported shards, the policy is trained.
Receive ==
  /\ phase = "imagineStop"
  /\ \A r \in Rollouts : rpc[r] = "done"
  /\ actorq >= expected
  /\ actorq' = actorq - expected
  /\ phase' = "ready"
  /\ UNCHANGED <<step, version, leaseVars, drained, envq, resq, envVars, rolloutVars, failures>>

\* A rollout worker returned while env workers still run, or wait() raises the
\* error of an env worker: at once for a lease, after all of them otherwise.
GuardRaises ==
  /\ phase \in {"real", "imagine"}
  /\ \/ (\E r \in Rollouts : Returned(r)) /\ (\E e \in Group : ~Finished(e))
     \/ /\ \E e \in Group : pc[e] = "raised"
        /\ (phase = "imagine" /\ Dynamic) \/ (\A e \in Group : Finished(e))
  /\ phase' = "failed"
  /\ UNCHANGED <<step, version, leaseVars, drained, channelVars, envVars, rolloutVars, failures>>

InteractionTimeout ==
  /\ Timeouts
  /\ failures < recipe.faults
  /\ phase \in {"real", "imagine"}
  /\ \E e \in Group : ~Finished(e)
  /\ failures' = failures + 1
  /\ phase' = "failed"
  /\ UNCHANGED <<step, version, leaseVars, drained, channelVars, envVars, rolloutVars>>

-----------------------------------------------------------------------------
Env(e)     == Bootstrap(e) \/ StepSlots(e) \/ FinalAnswer(e)
Rollout(r) == TakeRequest(r) \/ PutAnswer(r)
Runner     ==
  \/ StartReal \/ StopReal \/ Drain \/ SkipImagination \/ StartImagination
  \/ (\E e \in WMEnvs : LeaseReturned(e)) \/ StopImagination \/ Receive \/ GuardRaises
Faults     == (\E e \in Envs : EnvRaises(e)) \/ (\E r \in Rollouts : RolloutFails(r))

\* cluster.shutdown() kills the workers of a failed run.
Next ==
  /\ phase # "failed"
  /\ \/ (\E e \in Envs : Env(e))
     \/ (\E r \in Rollouts : Rollout(r))
     \/ Runner \/ Faults \/ InteractionTimeout
  /\ UNCHANGED recipe

Spec == Init /\ [][Next]_vars

AnyRollout == 0 .. Max({r.rollouts : r \in Recipes}) - 1

\* Every worker is a process of its own that runs its call to the end, and the
\* runner polls for them; faults and timeouts are not promised.
Fairness ==
  /\ WF_vars(phase # "failed" /\ Runner /\ UNCHANGED recipe)
  /\ \A e \in Envs : WF_vars(phase # "failed" /\ Env(e) /\ UNCHANGED recipe)
  /\ \A r \in AnyRollout : WF_vars(r \in Rollouts /\ phase # "failed" /\ Rollout(r) /\ UNCHANGED recipe)

FairSpec == Spec /\ Fairness


-----------------------------------------------------------------------------
(* Properties.                                                             *)

Requests == [env : EnvRanks, slots : (SUBSET Slots) \ {{}}]
Answers  == [slots : (SUBSET Slots) \ {{}}, version : Nat]

\* Every variable has its type, and the lease pool never goes below zero.
TypeOK ==
  /\ recipe \in Recipes
  /\ phase \in {"ready", "real", "realStop", "learn", "imagine", "imagineStop", "failed"}
  /\ step \in 0 .. MaxSteps
  /\ version \in 0 .. 3 * MaxSteps
  /\ remaining \in 0 .. WMEpochs
  /\ lease \in [Envs -> 0 .. WMEpochs]
  /\ finished \in Nat /\ expected \in Nat
  /\ drained \subseteq Trajectories
  /\ \A k \in Keys : \A i \in DOMAIN envq[k] : envq[k][i] \in Requests \cup {Stop}
  /\ \A k \in Envs : \A i \in DOMAIN resq[k] : resq[k][i] \in Answers
  /\ actorq \in Nat
  /\ pc \in [Envs -> {"idle", "bootstrap", "wait", "final", "done", "raised"}]
  /\ left \in [Envs -> Nat]
  /\ chunks \in [Envs -> [Slots -> 0 .. ChunkSteps]]
  /\ \A e \in Envs, s \in Slots : open[e][s] \subseteq Nat
  /\ episode \in [Envs -> [Slots -> Nat]]
  /\ \A e \in Envs : completed[e] \subseteq Trajectories
  /\ emitted \in [Envs -> Nat]
  /\ rpc \in [Rollouts -> {"idle", "get", "busy", "done", "raised"}]
  /\ \A r \in Rollouts : held[r] \in Requests \cup {Stop}
  /\ failures \in 0 .. recipe.faults

\* The checks the code makes at run time never fire by themselves: no answer
\* for the wrong slots, no rollout worker that returns too early, no duplicate,
\* stale or missing trajectory.  A run only fails if a worker raised first or an
\* interaction outlasted its timeout.
FailsOnlyOnFault ==
  failures = 0 => phase # "failed" /\ \A e \in Envs : pc[e] # "raised"

\* Between two interactions the channels they share are empty: neither a
\* request nor an answer nor a StopMsg nor a shard reaches the next one.
ChannelsDrained ==
  phase \in {"ready", "learn"} =>
    /\ \A k \in Keys : envq[k] = <<>>
    /\ \A k \in Envs : resq[k] = <<>>
    /\ actorq = 0

\* A real trajectory only contains decisions of the policy that was synced at
\* the entry of its step (begin_step_local_real_collection).
OneDecisionPolicy ==
  \A t \in drained \cup UNION {completed[e] : e \in RealEnvs} :
    t.versions = {3 * t.step - 2}

\* Every slot delivers one trajectory per rollout epoch, whether its episode
\* ends early, with the last chunk or not at all, and under a fresh identity.
EverySlotDelivers ==
  phase = "learn" /\ OneTrajectory =>
    \A e \in RealEnvs, s \in Slots :
      Cardinality({t.episode : t \in {u \in drained : u.env = EnvRank(e) /\ u.slot = s}})
        = RealShare(e)

\* WM epochs are never lost or run twice ("dynamic WM lease accounting is not
\* conserved"), and no WM worker idles while the pool has epochs.
LeasesConserved ==
  /\ phase = "imagine" => finished + Leased + remaining = WMEpochs
  /\ phase = "imagine" /\ remaining > 0 => \A e \in WMEnvs : lease[e] > 0
  /\ phase = "imagineStop" => finished = WMEpochs

\* Without faults the run makes all its global steps.
StepsComplete == recipe.faults = 0 => <>(phase = "ready" /\ step = MaxSteps)

\* With faults every interaction still ends, in its result or in an error.
InteractionEnds ==
  /\ phase = "real" ~> phase \in {"learn", "failed"}
  /\ phase = "imagine" ~> phase \in {"ready", "failed"}

\* The requests under a rank: queued, or held by a rollout worker.
RequestsOf(k) ==
  LET in(key) == {i \in DOMAIN envq[key] : envq[key][i].env = k} IN
  Cardinality(UNION {{key} \X in(key) : key \in Keys}) + Cardinality({r \in Rollouts : held[r].env = k})

Service == INSTANCE ActionService WITH
  Ranks    <- Envs,
  asked    <- [k \in Envs |-> RequestsOf(k)],
  answered <- [k \in Envs |-> Len(resq[k])]

\* The channels and the rollout workers implement the call: each request is
\* answered once, and no key ever holds two requests or two answers.
AnswersOnce == Service!Spec
=============================================================================
