--------------------------- MODULE ImaginedStarts ---------------------------
(***************************************************************************)
(* Who fills the replay, who reads it, and where imagined episodes begin:  *)
(* the staged CotrainRunner (frozen and full branch), the collecting loop  *)
(* of the learner, and the world-model env workers, which keep one initial *)
(* condition per slot (latent_world_model_env.py) and reset to it whenever *)
(* an imagined episode ends, until the next refresh; and how the imagined  *)
(* trajectories reach the ranks of the actor, which compares them in       *)
(* groups of consecutive columns (compute_advantages_and_returns).         *)
(*                                                                         *)
(* An initial condition is kept as the record its latent came from and the *)
(* task the worker believes it is solving; lang_emb and proprio are set    *)
(* from the same row as the latent.  A worker is an actor that runs one    *)
(* call at a time, so nothing changes a condition between the first reset  *)
(* of a lease and its end.  The draw at init() of recipes that do not defer*)
(* it is left out: a refresh replaces its starts before any imagination.   *)
(* An imagined trajectory is kept as the start it was imagined from.       *)
(***************************************************************************)
EXTENDS Replay

CONSTANTS
  Recipes,         \* configurations the runner may be launched with
  Episodes,        \* real episodes: [task, success, len]
  Workers,         \* WMEnvGroup
  NumSlots,        \* wm_envs_per_worker
  ActorRanks,      \* ranks of the ActorGroup, 0 .. ActorRanks - 1
  PerStep,         \* real trajectories of a step
  BatchSize,       \* train_cfg.batch_size
  WindowBatch,     \* train_cfg.classifier_batch_size
  NoRecord,        \* the condition the env was built with
  MaxSteps, MaxUpdates, MaxLeases, MaxAdds

\* flow      full | frozen (failure_imagined_rl, imagined_success_sft) | online
\* failed    initial_condition_selector = failed_episode_start
\* strict    require_balanced_initial_conditions
\* group     bootstrap_group_size; algorithm_cfg.group_size is the same in the
\*           strict recipes, the only ones StartsAligned speaks of
\* perLease  refresh_wm_initial_conditions_per_lease
\* latest    replay_sampling.latest_online_required
\* mixed     replay_sampling.enabled
\* limit     staleness_threshold of the learner's policy update
Recipe == [flow: {"full", "frozen", "online"}, failed: BOOLEAN,
           strict: BOOLEAN, group: 1 .. NumSlots, perLease: BOOLEAN,
           latest: BOOLEAN, mixed: BOOLEAN, limit: Int]

ASSUME StartsAssumption ==
  /\ Recipes \subseteq Recipe
  /\ \A c \in Recipes : NumSlots % c.group = 0
  /\ Episodes \subseteq [task: Tasks, success: BOOLEAN, len: Nat \ {0}]
  /\ NoRecord \notin [id: Nat, task: Tasks, success: BOOLEAN, len: Nat,
                      source: {"online", "coldstart"}, version: Nat]
  /\ {NumSlots, ActorRanks, BatchSize, WindowBatch} \subseteq Nat \ {0}
  /\ {PerStep, MaxSteps, MaxUpdates, MaxLeases, MaxAdds} \subseteq Nat

VARIABLES
  recipe,
  step,            \* global step of the staged runner
  stage,           \* launch | enter | collect | learn | refresh | imagine |
                   \* receive | online | failed
  updates,         \* learner updates of the step
  todo,            \* workers whose refresh_wm_initial_conditions is under way
  starts,          \* worker -> slot -> [rec, task]
  busy,            \* workers inside interact
  leases,          \* leases handed out in this step
  shards,          \* actor channel, key wm_env: messages of columns
  owed,            \* rank -> messages it still has to get
  columns          \* rank -> the trajectories it has got

actorVars == <<shards, owed, columns>>
runnerVars == <<recipe, step, stage, updates, todo, starts, busy, leases, actorVars>>
vars == <<replayVars, runnerVars>>

Slot == 1 .. NumSlots
Rank == 0 .. ActorRanks - 1
NoColumns == [r \in Rank |-> <<>>]
NothingOwed == [r \in Rank |-> 0]
DefaultTask == 1       \* manual_cotrain.task_id
Full == recipe.flow = "full"

Init ==
  /\ InitReplay
  /\ recipe \in Recipes
  /\ step = 1 /\ stage = "launch" /\ updates = 0 /\ leases = 0
  /\ todo = {} /\ busy = {}
  /\ starts = [w \in Workers |-> [s \in Slot |-> [rec |-> NoRecord, task |-> DefaultTask]]]
  /\ shards = <<>> /\ owed = NothingOwed /\ columns = NoColumns

-----------------------------------------------------------------------------
(* The runner *)

\* _build_groups: replay.seed puts offline episodes in, or is null.
Launch ==
  /\ stage = "launch"
  /\ \E eps \in {<<>>} \cup {<<e>> : e \in Episodes} : AddEpisodes(eps, "coldstart")
  /\ stage' = IF recipe.flow = "online" THEN "online" ELSE "enter"
  /\ UNCHANGED <<recipe, step, updates, todo, starts, busy, leases, actorVars>>

\* set_policy_version(global_step), after the policy sync of the step.
EnterStep ==
  /\ stage = "enter" /\ step <= MaxSteps
  /\ SetPolicyVersion(step)
  /\ stage' = "collect"
  /\ UNCHANGED <<recipe, step, updates, todo, starts, busy, leases, actorVars>>

StartRefresh == stage' = "refresh" /\ todo' = Workers

\* Frozen branch: append; without a failed episode failure_imagined_rl
\* skips the rest of the step.
CollectFrozen ==
  /\ stage = "collect" /\ ~Full
  /\ \E eps \in [1 .. PerStep -> Episodes] : AddEpisodes(eps, "online")
  /\ IF recipe.failed /\ Eligible(TRUE)' = {}
       THEN step' = step + 1 /\ stage' = "enter" /\ todo' = todo
       ELSE StartRefresh /\ step' = step
  /\ UNCHANGED <<recipe, updates, starts, busy, leases, actorVars>>

\* Full branch: the step's re-encoded episodes become the whole replay.
CollectFull ==
  /\ stage = "collect" /\ Full
  /\ \E eps \in [1 .. PerStep -> Episodes] : ReplaceEpisodes(eps, step)
  /\ stage' = "learn"
  /\ UNCHANGED <<recipe, step, updates, todo, starts, busy, leases, actorVars>>

\* update_current_step alternates a world-model and a classifier update, up
\* to the requested number or until early stopping; the online learner's
\* update("cotrain") adds a policy update to the round.
Learning == stage \in {"learn", "online"} /\ updates < MaxUpdates
Phase == updates % (IF stage = "online" THEN 3 ELSE 2)

\* Only the policy update leaves stale records out (staleness_threshold).
UpdateOn(limit) ==
  /\ Sample(BatchSize, limit, recipe.mixed, recipe.latest)
  /\ updates' = updates + 1
  /\ UNCHANGED <<recipe, step, stage, todo, starts, busy, leases, actorVars>>

UpdateWorldModel == Learning /\ Phase = 0 /\ UpdateOn(NoLimit)
UpdatePolicy     == Learning /\ Phase = 2 /\ UpdateOn(recipe.limit)

UpdateClassifier ==
  /\ Learning /\ Phase = 1
  /\ SampleWindows(WindowBatch)
  /\ updates' = updates + 1
  /\ UNCHANGED <<recipe, step, stage, todo, starts, busy, leases, actorVars>>

Fails == stage' = "failed" /\ UNCHANGED <<replayVars, recipe, step, updates,
                                          todo, starts, busy, leases, actorVars>>

\* The sampler raises on a replay that has nothing for it.
LearnerRaises ==
  /\ stage = "learn" /\ updates < MaxUpdates
  /\ IF Phase = 0 THEN Records(stored) = {} ELSE Candidates = {}
  /\ Fails

\* load_component_states, then refresh on every WM worker.
Learned ==
  /\ stage = "learn" /\ updates > 0 /\ Phase = 0
  /\ StartRefresh
  /\ UNCHANGED <<replayVars, recipe, step, updates, starts, busy, leases, actorVars>>

\* Env workers that write to the replay (replay_write_enabled) add finished
\* episodes one by one while LearnerWorker.update samples.  Each sets the
\* version of its own episode first, in a call of its own
\* (BaseTrajectoryEnvWorker._push_episode), so another worker's version may
\* be the one that is stamped.
CollectOnline ==
  /\ stage = "online" /\ nextId < MaxAdds
  /\ \E e \in Episodes : AddEpisodes(<<e>>, "online")
  /\ UNCHANGED runnerVars

PushVersion ==
  /\ stage = "online" /\ nextId < MaxAdds
  /\ \E v \in 0 .. MaxSteps : v # stamp /\ SetPolicyVersion(v)
  /\ UNCHANGED runnerVars

-----------------------------------------------------------------------------
(* Refreshing initial conditions *)

\* One condition per group, repeated for its slots, latent and task together.
Aligned(w) ==
  starts' = [starts EXCEPT ![w] = [s \in Slot |->
    LET r == StartAt(startCursor + ((s - 1) \div recipe.group), recipe.failed)
    IN [rec |-> r, task |-> r.task]]]

\* Without require_balanced_initial_conditions a failed aligned draw falls
\* back to the first records of manual_cotrain.task_id, whatever their
\* outcome; the slots keep the tasks they had.
Unaligned(w) ==
  LET recs == stored[DefaultTask]
  IN starts' = IF recs = <<>> THEN starts ELSE
       [starts EXCEPT ![w] = [s \in Slot |->
         [rec |-> recs[((s - 1) % Len(recs)) + 1], task |-> starts[w][s].task]]]

\* refresh_wm_initial_conditions(force): silent on an empty replay.
Refreshed(w) ==
  \/ /\ Records(stored) = {}
     /\ UNCHANGED <<replayVars, starts>>
  \/ /\ Records(stored) # {} /\ ~CannotStart(recipe.failed)
     /\ DrawStarts(NumSlots \div recipe.group, recipe.failed)
     /\ Aligned(w)
  \/ /\ Records(stored) # {} /\ CannotStart(recipe.failed) /\ ~recipe.strict
     /\ Unaligned(w)
     /\ UNCHANGED replayVars

RefreshRaises ==
  /\ stage = "refresh" /\ todo # {}
  /\ recipe.strict /\ Records(stored) # {} /\ CannotStart(recipe.failed)
  /\ Fails

Refresh(w) ==
  /\ stage = "refresh" /\ w \in todo
  /\ Refreshed(w)
  /\ todo' = todo \ {w}
  /\ stage' = IF todo' = {} THEN "imagine" ELSE stage
  /\ UNCHANGED <<recipe, step, updates, busy, leases, actorVars>>

\* start_wm_lease: the worker that gets a lease may draw again first.
StartLease(w) ==
  /\ stage = "imagine" /\ w \notin busy /\ leases < MaxLeases
  /\ IF recipe.perLease THEN Refreshed(w) ELSE UNCHANGED <<replayVars, starts>>
  /\ busy' = busy \cup {w} /\ leases' = leases + 1
  /\ UNCHANGED <<recipe, step, stage, updates, todo, actorVars>>

-----------------------------------------------------------------------------
(* From the WM workers to the actor *)

\* Faulty: one message per slot, as if the slots were flushed one by one.
SlotShards(w) == [s \in Slot |-> <<starts[w][s]>>]

\* What a worker flushes at the end of an epoch: one message if all slots
\* have the same task, otherwise one per task, in the order of their first
\* slots; in a message one column per slot, in slot order.
TaskShards(w) ==
  LET Alike(s) == InOrder({q \in Slot : starts[w][q].task = starts[w][s].task})
      heads == InOrder({s \in Slot : Head(Alike(s)) = s})
  IN [i \in DOMAIN heads |->
        [j \in DOMAIN Alike(heads[i]) |-> starts[w][Alike(heads[i])[j]]]]

\* interact of a lease of one epoch returns; its shards have been put.
EndLease(w) ==
  /\ w \in busy
  /\ busy' = busy \ {w}
  /\ shards' = shards \o TaskShards(w)
  /\ UNCHANGED <<replayVars, recipe, step, stage, updates, todo, starts,
                 leases, owed, columns>>

\* Messages are dealt one by one to the least loaded rank: the split counts
\* a message as wm_envs_per_worker columns, however many it has, and a block
\* is one message because group divides wm_envs_per_worker.
Share(r) == (Len(shards) \div ActorRanks)
            + (IF r < Len(shards) % ActorRanks THEN 1 ELSE 0)

\* Every rank is told its number of messages under one key; when one would
\* get none, the driver reads the channel and every rank loads everything.
DealShards ==
  /\ stage = "imagine" /\ leases = MaxLeases /\ busy = {}
  /\ stage' = "receive"
  /\ IF \A r \in Rank : Share(r) > 0
       THEN owed' = [r \in Rank |-> Share(r)] /\ UNCHANGED <<shards, columns>>
       ELSE /\ columns' = [r \in Rank |-> FlattenSeq(shards)]
            /\ shards' = <<>> /\ owed' = owed
  /\ UNCHANGED <<replayVars, recipe, step, updates, todo, starts, busy, leases>>

\* The ranks read concurrently, in any order.
GetShard(r) ==
  /\ stage = "receive" /\ owed[r] > 0 /\ shards # <<>>
  /\ columns' = [columns EXCEPT ![r] = @ \o Head(shards)]
  /\ shards' = Tail(shards)
  /\ owed' = [owed EXCEPT ![r] = @ - 1]
  /\ UNCHANGED <<replayVars, recipe, step, stage, updates, todo, starts, busy,
                 leases>>

Received == stage = "receive" /\ owed = NothingOwed

\* The actor trains; the next load replaces its batch before it is read.
EndStep ==
  /\ Received
  /\ stage' = "enter" /\ step' = step + 1 /\ updates' = 0 /\ leases' = 0
  /\ columns' = NoColumns
  /\ UNCHANGED <<replayVars, recipe, todo, starts, busy, shards, owed>>

Next ==
  \/ Launch \/ EnterStep \/ CollectFrozen \/ CollectFull
  \/ CollectOnline \/ PushVersion
  \/ UpdateWorldModel \/ UpdateClassifier \/ UpdatePolicy \/ LearnerRaises \/ Learned
  \/ RefreshRaises \/ EndStep
  \/ DealShards
  \/ \E w \in Workers : Refresh(w) \/ StartLease(w) \/ EndLease(w)
  \/ \E r \in Rank : GetShard(r)

Spec == Init /\ [][Next]_vars

-----------------------------------------------------------------------------
(* Properties *)

\* Records, conditions, reads and cursors have the shapes the code gives them.
TypeOK ==
  LET Record == [id: 0 .. nextId, task: Tasks, success: BOOLEAN,
                 len: {e.len : e \in Episodes}, source: {"online", "coldstart"},
                 version: 0 .. MaxSteps]
  IN /\ \A t \in Tasks : \A r \in ToSet(stored[t]) : r \in Record /\ r.task = t
     /\ \A t \in Tasks : Transitions(stored[t]) <= Capacity
     /\ \A i, j \in Records(stored) : i.id = j.id => i = j
     /\ pendingLatest \subseteq 0 .. nextId - 1
     /\ ToSet(batch) \subseteq Record
     /\ \A w \in ToSet(windows \o windowQueue) :
          WindowEnv <= w.end /\ w.end <= w.rec.len
     /\ taskCursor \in Nat /\ startCursor \in Nat
     /\ stage \in {"launch", "enter", "collect", "learn", "refresh", "imagine",
                   "receive", "online", "failed"}
     /\ owed \in [Rank -> Nat]
     /\ todo \subseteq Workers /\ busy \subseteq Workers

\* A refresh finds a record to start from: a strict recipe raises otherwise;
\* in any other the aligned draw succeeds or manual_cotrain.task_id has a
\* record.  If not, the workers silently keep the starts they have, those of an
\* earlier step, although refresh_wm_initial_conditions says it resamples.
RefreshDraws ==
  recipe.strict \/ ~CannotStart(recipe.failed) \/ stored[DefaultTask] # <<>>

\* In the full branch the learner trains and the workers imagine on episodes
\* of this step's encoder alone: no batch, no classifier window (left over
\* from an earlier batch or not) and no start that a refresh can draw anew
\* outlives the replacement of the dataset (replace_episodes).
OnlyThisDataset ==
  Full /\ stage \in {"learn", "refresh", "imagine"} =>
    /\ \A r \in ToSet(batch) \cup Records(stored) : r.version = step
    /\ \A w \in ToSet(windows \o windowQueue) : w.rec.version = step
    /\ RefreshDraws => \A w \in busy : \A s \in Slot :
         starts[w][s].rec # NoRecord /\ starts[w][s].rec.version = step

\* latest_online_required: an online episode that is in the replay either has
\* opened a batch, once, or was too stale when its turn came, or its turn is
\* still to come (_pop_pending_latest_online).
LatestLeads ==
  recipe.latest =>
    /\ led \cap pendingLatest = {}
    /\ \A r \in Records(stored) :
         r.source = "online" => r.id \in led \cup pendingLatest

\* Every end window of an episode with room for one is followed, in this
\* batch or first in the next one, by an early negative of the same episode:
\* none is lost at a batch boundary, and at most one waits
\* (sample_classifier_windows, _classifier_pending_windows).
EarlyNegativeFollows ==
  [][updates' = updates + 1 /\ Phase = 1 =>
       LET all == windows' \o windowQueue'
       IN /\ IsPrefix(windowQueue, all)
          /\ Len(windowQueue') <= 1
          /\ \A i \in 1 .. Len(all) :
               all[i].last /\ EarlyEnds(all[i].rec) # {} =>
                 /\ i < Len(all)
                 /\ all[i + 1].rec = all[i].rec /\ ~all[i + 1].last]_vars

\* While the records stay the same, the starts drawn by all workers together
\* favour no task and no record of a task, and neither do the balanced picks
\* of the learner: the cursors survive from one call to the next
\* (_initial_condition_cursor, _task_sample_cursor).
DrawnEvenly ==
  LET Drawn(r) == IF r.id \in DOMAIN drawn THEN drawn[r.id] ELSE 0
      OfTask(t) == {r \in Eligible(recipe.failed) : r.task = t}
      Total(t) == Cardinality(UNION {{r} \X (1 .. Drawn(r)) : r \in OfTask(t)})
      Close(m, n) == m - n \in {-1, 0, 1}
  IN \A t \in Tasks :
       /\ \A r, q \in OfTask(t) : Close(Drawn(r), Drawn(q))
       /\ \A u \in Tasks : OfTask(t) # {} /\ OfTask(u) # {} =>
            /\ Close(Total(t), Total(u))
            /\ ~recipe.mixed /\ recipe.limit = NoLimit =>
                 Close(picked[t], picked[u])

\* A worker that imagines has, in each slot, the latent and the task of one
\* record of the replay, and a failed one under failed_episode_start.
StartsFromReplay ==
  \A w \in busy : \A s \in Slot :
    LET c == starts[w][s]
    IN /\ recipe.failed => c.rec # NoRecord
       /\ c.rec # NoRecord =>
            /\ c.rec \in Records(stored) /\ c.rec.task = c.task
            /\ recipe.failed => ~c.rec.success

\* The consecutive columns an actor rank compares with each other
\* (_group_advantage) were imagined from one start, whichever rank got which
\* message and however many tasks a worker's slots had; a rank never has a
\* part of a group, and nothing stays in the channel for the next step.
GroupsShareStart ==
  Received =>
    /\ shards = <<>>
    /\ \A r \in Rank :
         /\ Len(columns[r]) % recipe.group = 0
         /\ \A i, j \in DOMAIN columns[r] :
              (i - 1) \div recipe.group = (j - 1) \div recipe.group =>
                columns[r][i] = columns[r][j]

\* Group-relative advantages mean something: imagination starts in the
\* replay and the returns of a group belong to one start
\* (require_balanced_initial_conditions).
StartsAligned == recipe.strict => StartsFromReplay /\ GroupsShareStart
=============================================================================
