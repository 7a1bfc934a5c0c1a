------------------------------ MODULE Collection ------------------------------
(***************************************************************************)
(* Offline rollout collection, resumable from what is on disk.             *)
(*                                                                         *)
(* A launch lists the episodes that have no complete pair of files, deals  *)
(* them to env workers and steps these with actions from the inference     *)
(* workers, in lock step or overlapped.  A finished episode goes to a dump *)
(* worker: it fills a reward and a hidden file of a fresh shard, closes    *)
(* both and renames both.  The whole run may die between any two steps and *)
(* be launched again, with other modes and another number of workers.      *)
(*                                                                         *)
(* A work item (task, episode) is its place in the full work list.  A      *)
(* launch attempts it at most once, so a demo is known by item and launch, *)
(* an action of the running launch by the item it was predicted for.       *)
(***************************************************************************)
EXTENDS Integers, Sequences, FiniteSets, SequencesExt, FiniteSetsExt

CONSTANTS
  NumItems,     \* tasks x episodes_per_task
  NumEnvs,      \* env workers
  MaxDumps,     \* dump.num_workers at most
  NumInfer,     \* collect.num_inference_workers, without overlap
  Configs,      \* rollout.overlap and dump.num_workers of the launches
  Horizon,      \* collect.episode_horizon
  Chunk,        \* actions per prediction
  MaxRespawns,  \* env.cfg.egl_max_respawns
  MaxLaunches   \* bound: launches of the collection

ASSUME SizesAssumption ==
  /\ {NumItems, NumEnvs, MaxDumps, NumInfer, Horizon, Chunk} \subseteq Nat \ {0}
  /\ {MaxRespawns, MaxLaunches} \subseteq Nat
  /\ Configs \subseteq [overlap : BOOLEAN, world : 1 .. MaxDumps]

Items == 1 .. NumItems
Envs  == 0 .. NumEnvs - 1
Ranks == 0 .. MaxDumps - 1
NoItem == 0

\* ray_shard_NNN (alone), ray_shard_wRR_NNNNNN, and traj_tTT_epNNNNNN.
Alone == MaxDumps
Names == [kind : {"shard"}, rank : Ranks \cup {Alone}, index : Nat]
           \cup [kind : {"traj"}, rank : {0}, index : Items]
TrajOf(i) == [kind |-> "traj", rank |-> 0, index |-> i]

\* What a readable file holds: nothing, or the demo of one attempt.
Nothing  == [item |-> NoItem, launch |-> 0]
Contents == [item : Items \cup {NoItem}, launch : 0 .. MaxLaunches]

EnvStates == {"off", "ready", "infer", "step", "dump", "back"}
Idle == [st |-> "off", item |-> NoItem, taken |-> 0, act |-> NoItem, over |-> FALSE]

VARIABLES
  phase,     \* driver: off, loop, manifest, done
  overlap,   \* driver: rollout.overlap
  turn,      \* driver: top of the loop, waiting, something handled
  pending,   \* driver: pending_work
  target,    \* driver: target_episodes
  steps,     \* driver: rounds or inference batches started
  stop,      \* driver: stop_launching
  env,       \* env workers, as the driver and they see them
  respawns,  \* env workers: children replaced
  queue,     \* inference workers: predicted actions per env, by item
  dumps,     \* number of dump workers
  writer,    \* dump workers: shard open for writing
  shard,     \* dump workers: _shard_idx
  size,      \* dump workers: num_episodes
  job,       \* dump workers: the add_episode call in progress
  reward,    \* disk: reward directory, file name -> content
  hidden,    \* disk: hidden directory
  manifest,  \* disk: collection_manifest.json
  kept,      \* history: items acknowledged or found complete
  mixed,     \* history: envs whose episode has an action of another one
  lost,      \* history: items that died with an env child in this run
  launches

driver  == <<phase, overlap, turn, pending, target, steps, stop>>
workers == <<env, respawns, queue, mixed, lost>>
dumpers == <<dumps, writer, shard, size, job>>
disk    == <<reward, hidden, manifest, kept>>
vars    == <<driver, workers, dumpers, disk, launches>>

-----------------------------------------------------------------------------
(* Files and what they mean to collection_manifest.py.                     *)

Put(dir, n, content) == [m \in DOMAIN dir \cup {n} |-> IF m = n THEN content ELSE dir[m]]
\* src.replace(dst), for a source that exists.
Move(dir, from, to) ==
  IF from \notin DOMAIN dir THEN dir
  ELSE [m \in (DOMAIN dir \ {from}) \cup {to} |-> IF m = to THEN dir[from] ELSE dir[m]]

BeingWritten == {writer[d][1] : d \in {r \in Ranks : writer[r] # <<>>}}

RewardAlone(n) == n \in DOMAIN reward /\ reward[n].item # NoItem   \* faulty: no sidecar asked for
\* _collect_complete_reward_ids looks at the sidecar's demo, not at its identity.
PairAt(n) == n \in DOMAIN reward \cap DOMAIN hidden /\ reward[n].item # NoItem /\ hidden[n].item # NoItem
CompletePairs == {n \in DOMAIN reward : PairAt(n) /\ n \notin BeingWritten}
CompleteItems == {reward[n].item : n \in CompletePairs}

\* missing_episode_work_list: what is left, in ascending order.
MissingItems == Items \ CompleteItems

\* pending_work.pop(0) for one env of es after the other: the smallest items, in
\* the order of the envs, and nothing once the list is empty.
Deals(es, work) ==
  {deal \in [es -> work \cup {NoItem}] :
     /\ \A e, f \in es : e < f /\ deal[f] # NoItem => deal[e] # NoItem /\ deal[e] < deal[f]
     /\ \A e \in es : \A i \in work \ {deal[f] : f \in es} : deal[e] # NoItem /\ deal[e] < i}
Dealt(deal) == {deal[e] : e \in DOMAIN deal}

ShardFiles == {n \in DOMAIN reward : n.kind = "shard"}
ShardFromZero == {0}                   \* faulty: every launch starts at index 0
\* next_shard_index(reward_dir, prefix="ray_shard"): one past the highest.
NextShards ==
  {i \in {0} \cup {n.index + 1 : n \in ShardFiles} : \A n \in ShardFiles : n.index < i}

ShardNameNoRank(d, i, world) == [kind |-> "shard", rank |-> Alone, index |-> i]  \* faulty
ShardName(d, i, world) ==
  [kind |-> "shard", rank |-> IF world > 1 THEN d ELSE Alone, index |-> i]

\* _select_rank_shard
DumpOf(e) == e % dumps

-----------------------------------------------------------------------------
Init ==
  /\ phase = "off" /\ overlap = FALSE /\ turn = "top" /\ pending = {}
  /\ target = 0 /\ steps = 0 /\ stop = FALSE
  /\ env = [e \in Envs |-> Idle] /\ respawns = [e \in Envs |-> 0]
  /\ queue = [w \in 0 .. NumInfer - 1 |-> [e \in Envs |-> <<>>]]
  /\ mixed = {} /\ lost = {}
  /\ dumps = 1 /\ writer = [d \in Ranks |-> <<>>] /\ shard = [d \in Ranks |-> 0]
  /\ size = [d \in Ranks |-> 0] /\ job = [d \in Ranks |-> <<>>]
  /\ reward = <<>> /\ hidden = <<>> /\ manifest = <<>> /\ kept = {}
  /\ launches = 0

\* An env set to its next item: reset, no step taken yet.
SetTo(item) ==
  IF item = NoItem THEN Idle
  ELSE [st |-> "ready", item |-> item, taken |-> 0, act |-> NoItem, over |-> FALSE]

\* _build_oft_components: work list, shard index, one fresh file pair per dump
\* worker, first items.
Launch ==
  /\ phase \in {"off", "done"}
  /\ launches < MaxLaunches
  /\ \E config \in Configs, next \in NextShards, deal \in Deals(Envs, MissingItems) :
       LET opened == {ShardName(d, next, config.world) : d \in 0 .. config.world - 1}
       IN /\ dumps' = config.world
          /\ overlap' = config.overlap
          /\ writer' = [d \in Ranks |->
               IF d < config.world THEN <<ShardName(d, next, config.world)>> ELSE <<>>]
          /\ shard' = [d \in Ranks |-> next]
          /\ reward' = [n \in DOMAIN reward \cup opened |-> IF n \in opened THEN Nothing ELSE reward[n]]
          /\ hidden' = [n \in DOMAIN hidden \cup opened |-> IF n \in opened THEN Nothing ELSE hidden[n]]
          /\ pending' = MissingItems \ Dealt(deal)
          /\ env' = [e \in Envs |-> SetTo(deal[e])]
  /\ target' = Cardinality(MissingItems)
  /\ phase' = "loop" /\ turn' = "top" /\ steps' = 0 /\ stop' = FALSE
  /\ respawns' = [e \in Envs |-> 0]
  /\ queue' = [w \in 0 .. NumInfer - 1 |-> [e \in Envs |-> <<>>]]
  /\ size' = [d \in Ranks |-> 0] /\ job' = [d \in Ranks |-> <<>>]
  /\ mixed' = {} /\ lost' = {}
  /\ kept' = kept \cup CompleteItems
  /\ launches' = launches + 1
  /\ UNCHANGED manifest

-----------------------------------------------------------------------------
(* Driver: _run_loop and _run_loop_overlap.                                *)

In(state)  == {e \in Envs : env[e].st = state}
Active     == {e \in Envs : env[e].st # "off"}
Saved      == UNION {{d} \X (1 .. size[d]) : d \in Ranks}   \* a demo is the n-th of its worker
Collected  == Cardinality(Saved)
MaxRounds  == target * Horizon         \* rollout.max_steps is unset in the configs
SetStates(es, state) == [e \in Envs |-> IF e \in es THEN [env[e] EXCEPT !.st = state] ELSE env[e]]

\* Lock step: the loop's conditions, then one inference round for every env.
RoundsOver == Active = {} \/ steps >= MaxRounds \/ Collected >= target

StartRound ==
  /\ phase = "loop" /\ ~overlap /\ turn = "top"
  /\ ~RoundsOver
  /\ env' = SetStates(Active, "infer")
  /\ turn' = "wait"
  /\ UNCHANGED <<phase, overlap, pending, target, steps, stop, respawns, queue, mixed, lost,
                 dumpers, disk, launches>>

Busy == In("infer") \cup In("step") \cup In("dump") \cup In("back")
\* refresh_stop: nothing more is launched once enough episodes are dumped.
StopNow == stop \/ Collected >= target
Ready == IF StopNow THEN {} ELSE In("ready")
CanLaunch == ~StopNow /\ In("infer") = {} /\ Ready # {} /\ steps < MaxRounds

\* Overlap, top of the loop: refresh_stop and launch_infer; one batch at a time.
StartTurn ==
  /\ phase = "loop" /\ overlap /\ turn = "top"
  /\ \A d \in Ranks : job[d] = <<>>              \* size() queues behind add_episode
  /\ CanLaunch \/ Busy # {}
  /\ stop' = StopNow
  /\ env' = IF CanLaunch THEN SetStates(Ready, "infer")
            ELSE IF StopNow THEN SetStates(In("ready"), "off") ELSE env
  /\ steps' = IF CanLaunch THEN steps + 1 ELSE steps
  /\ turn' = "wait"
  /\ UNCHANGED <<phase, overlap, pending, target, respawns, queue, mixed, lost, dumpers,
                 disk, launches>>

TurnsOverAtTarget == Collected >= target   \* faulty: waits for an episode that died
TurnsOver == ~CanLaunch /\ Busy = {}

EndTurnAnyway(n) == n + 1 >= MaxRounds      \* faulty: one step too early
LimitReached(n)  == n >= MaxRounds

\* End of an iteration in which ray.wait returned at least one reference.
EndTurn ==
  /\ phase = "loop" /\ overlap /\ turn = "handled"
  /\ turn' = "top"
  /\ stop' = (stop \/ LimitReached(steps))
  /\ env' = IF LimitReached(steps) THEN SetStates(In("ready"), "off") ELSE env
  /\ UNCHANGED <<phase, overlap, pending, target, steps, respawns, queue, mixed, lost,
                 dumpers, disk, launches>>

\* _shard_env_ids_by_worker; overlap refuses more than one inference worker.
Owner(e) == IF overlap THEN 0 ELSE e % NumInfer

\* forward_batch for the envs of the batch: refill an empty queue, pop one action.
Filled(e) ==
  IF queue[Owner(e)][e] = <<>> THEN [i \in 1 .. Chunk |-> env[e].item] ELSE queue[Owner(e)][e]

Infer ==
  LET batch == In("infer")
  IN /\ batch # {}
     /\ queue' = [w \in DOMAIN queue |-> [e \in Envs |->
          IF e \in batch /\ Owner(e) = w THEN Tail(Filled(e)) ELSE queue[w][e]]]
     /\ env' = [e \in Envs |->
          IF e \notin batch THEN env[e]
          ELSE IF stop THEN [env[e] EXCEPT !.st = "off"]
          ELSE [env[e] EXCEPT !.st = "step", !.act = Head(Filled(e))]]
     /\ turn' = IF overlap THEN "handled" ELSE turn
     /\ overlap => turn \in {"wait", "handled"}
     /\ UNCHANGED <<phase, overlap, pending, target, steps, stop, respawns, mixed, lost,
                    dumpers, disk, launches>>

ForgetNothing(q, es) == q                   \* faulty: reset_states leaves the queue
Forget(q, es) == [w \in DOMAIN q |-> [e \in Envs |-> IF e \in es /\ Owner(e) = w THEN <<>> ELSE q[w][e]]]

\* Results of the env workers: a finished env forgets its predicted actions and
\* gets the next item or is dropped.
NextItems(es) ==
  LET finished == {e \in es : env[e].over}
  IN \E deal \in Deals(finished, pending) :
       /\ pending' = pending \ Dealt(deal)
       /\ queue' = Forget(queue, finished)
       /\ env' = [e \in Envs |->
            IF e \in finished THEN SetTo(deal[e])
            ELSE IF e \in es THEN [env[e] EXCEPT !.st = IF stop THEN "off" ELSE "ready"]
            ELSE env[e]]

\* Lock step waits for every env; overlap takes any that are ready.
HandleRound ==
  /\ phase = "loop" /\ ~overlap /\ turn = "wait"
  /\ Active \subseteq In("back")
  /\ NextItems(Active)
  /\ steps' = steps + 1
  /\ turn' = "top"
  /\ UNCHANGED <<phase, overlap, target, stop, respawns, mixed, lost, dumpers, disk, launches>>

HandleStep(e) ==
  /\ phase = "loop" /\ overlap /\ turn \in {"wait", "handled"}
  /\ env[e].st = "back"
  /\ NextItems({e})
  /\ turn' = "handled"
  /\ UNCHANGED <<phase, overlap, target, steps, stop, respawns, mixed, lost, dumpers, disk, launches>>

\* dump.close(), envs.close()
LeaveLoop ==
  /\ phase = "loop" /\ turn = "top"
  /\ IF overlap THEN TurnsOver ELSE RoundsOver
  /\ \A d \in Ranks : job[d] = <<>>
  /\ phase' = "manifest"
  /\ env' = [e \in Envs |-> Idle]
  /\ writer' = [d \in Ranks |-> <<>>]
  /\ UNCHANGED <<overlap, turn, pending, target, steps, stop, respawns, queue, mixed, lost,
                 dumps, shard, size, job, disk, launches>>

ShardsOnDisk ==                             \* faulty: reads the reward files alone
  [items |-> {[item |-> reward[n].item, file |-> n] : n \in {m \in DOMAIN reward : RewardAlone(m)}},
   complete |-> Items \subseteq {reward[n].item : n \in DOMAIN reward}]
\* build_collection_manifest from the HDF5 files.
ManifestNow ==
  [items |-> {[item |-> reward[n].item, file |-> n] : n \in CompletePairs},
   complete |-> Items \subseteq CompleteItems]

\* write_manifest is atomic: temporary file, fsync, replace.
WriteManifest ==
  /\ phase = "manifest"
  /\ manifest' = <<ManifestNow>>
  /\ phase' = "done"
  /\ UNCHANGED <<overlap, turn, pending, target, steps, stop, workers, dumpers, reward, hidden, kept,
                 launches>>

-----------------------------------------------------------------------------
(* Env workers.                                                            *)

NeverTruncated(n) == FALSE                  \* faulty: the env ignores max_steps
Truncated(n) == n >= Horizon

\* The child steps; the parent pushes a finished episode to its dump worker.
StepEnv(e) ==
  /\ env[e].st = "step"
  /\ mixed' = IF env[e].act = env[e].item THEN mixed ELSE mixed \cup {e}
  /\ \E over \in BOOLEAN :
       /\ Truncated(env[e].taken + 1) => over
       /\ env' = [env EXCEPT ![e].taken = @ + 1, ![e].act = NoItem, ![e].over = over,
                             ![e].st = IF over THEN "dump" ELSE "back"]
  /\ UNCHANGED <<driver, respawns, queue, lost, dumpers, disk, launches>>

\* _recover_spawn_slot_after_child_death: the episode is over and not dumped.
Respawn(e) ==
  /\ env[e].st = "step"
  /\ respawns[e] < MaxRespawns
  /\ respawns' = [respawns EXCEPT ![e] = @ + 1]
  /\ lost' = lost \cup {env[e].item}
  /\ env' = [env EXCEPT ![e].over = TRUE, ![e].st = "back"]
  /\ UNCHANGED <<driver, queue, mixed, dumpers, disk, launches>>

-----------------------------------------------------------------------------
(* Dump workers: add_episode with demos_per_shard = 1, one call at a time. *)
(* What a crash leaves of files that are not closed (Torn) covers each     *)
(* point before the close, so opening and writing are one step.            *)

JobEnv(d)  == job[d][1].env
Demo(e)    == [item |-> env[e].item, launch |-> launches]

\* The first episode of a launch goes to the files init() opened, later ones to
\* files opened with mode "w".
AddEpisode(e) ==
  LET d    == DumpOf(e)
      name == IF writer[d] = <<>> THEN ShardName(d, shard[d], dumps) ELSE writer[d][1]
  IN /\ env[e].st = "dump"
     /\ job[d] = <<>>
     /\ writer' = [writer EXCEPT ![d] = <<name>>]
     /\ reward' = Put(reward, name, Demo(e))
     /\ hidden' = Put(hidden, name, Demo(e))
     /\ job' = [job EXCEPT ![d] = <<[env |-> e, pc |-> "written"]>>]
     /\ UNCHANGED <<driver, workers, dumps, shard, size, manifest, kept, launches>>

\* Close both files; _rename_completed_episode_shard then renames one after the
\* other, over what is there.
RenameReward(d) ==
  /\ job[d] # <<>> /\ job[d][1].pc = "written"
  /\ reward' = Move(reward, writer[d][1], TrajOf(env[JobEnv(d)].item))
  /\ job' = [job EXCEPT ![d][1].pc = "moved"]
  /\ UNCHANGED <<driver, workers, dumps, writer, shard, size, hidden, manifest, kept, launches>>

\* The call returns to the env worker, and step() to the driver.
RenameHidden(d) ==
  /\ job[d] # <<>> /\ job[d][1].pc = "moved"
  /\ hidden' = Move(hidden, writer[d][1], TrajOf(env[JobEnv(d)].item))
  /\ kept' = kept \cup {env[JobEnv(d)].item}
  /\ env' = [env EXCEPT ![JobEnv(d)].st = "back"]
  /\ writer' = [writer EXCEPT ![d] = <<>>]
  /\ shard' = [shard EXCEPT ![d] = @ + 1]
  /\ size' = [size EXCEPT ![d] = @ + 1]
  /\ job' = [job EXCEPT ![d] = <<>>]
  /\ UNCHANGED <<driver, respawns, queue, mixed, lost, dumps, reward, manifest, launches>>

-----------------------------------------------------------------------------
\* Files with a demo that a dying dump worker had not closed: whole or unreadable.
Unclosed == {writer[d][1] : d \in {r \in Ranks : writer[r] # <<>> /\
               job[r] # <<>> /\ job[r][1].pc = "written"}}
Torn(dir, names) == [n \in DOMAIN dir |-> IF n \in names THEN Nothing ELSE dir[n]]

\* The driver or a worker dies, or raises: every actor goes with the run.
Crash ==
  /\ phase \in {"loop", "manifest"}
  /\ \E lostRewards, lostHiddens \in SUBSET Unclosed :
       /\ reward' = Torn(reward, lostRewards)
       /\ hidden' = Torn(hidden, lostHiddens)
  /\ phase' = "off"
  /\ turn' = "top" /\ pending' = {} /\ target' = 0 /\ steps' = 0 /\ stop' = FALSE
  /\ env' = [e \in Envs |-> Idle]
  /\ queue' = [w \in DOMAIN queue |-> [e \in Envs |-> <<>>]]
  /\ mixed' = {} /\ lost' = {}
  /\ writer' = [d \in Ranks |-> <<>>] /\ job' = [d \in Ranks |-> <<>>]
  /\ overlap' = FALSE /\ dumps' = 1 /\ respawns' = [e \in Envs |-> 0]
  /\ shard' = [d \in Ranks |-> 0] /\ size' = [d \in Ranks |-> 0]
  /\ UNCHANGED <<manifest, kept, launches>>

-----------------------------------------------------------------------------
Drive == StartRound \/ StartTurn \/ EndTurn \/ HandleRound \/ LeaveLoop \/ WriteManifest
         \/ \E e \in Envs : HandleStep(e)

Next ==
  \/ Launch
  \/ Drive
  \/ Infer
  \/ \E e \in Envs : StepEnv(e) \/ Respawn(e) \/ AddEpisode(e)
  \/ \E d \in Ranks : RenameReward(d) \/ RenameHidden(d)
  \/ Crash

Spec == Init /\ [][Next]_vars

\* Each actor runs the calls it is given, the driver its loop.  Nobody is owed a
\* launch, a crash or the death of a child.
Fairness ==
  /\ WF_vars(Drive) /\ WF_vars(Infer)
  /\ \A e \in Envs : WF_vars(StepEnv(e)) /\ WF_vars(AddEpisode(e))
  /\ \A d \in Ranks : WF_vars(RenameReward(d) \/ RenameHidden(d))

FairSpec == Spec /\ Fairness

-----------------------------------------------------------------------------
TypeOK ==
  /\ phase \in {"off", "loop", "manifest", "done"} /\ overlap \in BOOLEAN /\ stop \in BOOLEAN
  /\ turn \in {"top", "wait", "handled"}
  /\ pending \subseteq Items /\ target \in 0 .. NumItems
  /\ steps \in 0 .. NumItems * Horizon
  /\ env \in [Envs -> [st : EnvStates, item : Items \cup {NoItem},
                       taken : 0 .. Horizon, act : Items \cup {NoItem}, over : BOOLEAN]]
  /\ respawns \in [Envs -> 0 .. MaxRespawns]
  /\ queue \in [0 .. NumInfer - 1 -> [Envs -> Seq(Items)]]
  /\ dumps \in 1 .. MaxDumps /\ shard \in [Ranks -> Nat] /\ size \in [Ranks -> Nat]
  /\ DOMAIN reward \subseteq Names /\ \A n \in DOMAIN reward : reward[n] \in Contents
  /\ DOMAIN hidden \subseteq Names /\ \A n \in DOMAIN hidden : hidden[n] \in Contents
  /\ \A d \in Ranks : writer[d] # <<>> => writer[d][1] \in DOMAIN reward \cup DOMAIN hidden
  /\ kept \subseteq Items /\ mixed \subseteq Envs

\* An episode that add_episode acknowledged, or that a launch found on disk and
\* did not collect again, is complete ever after.
KeptOnDisk == kept \subseteq CompleteItems

\* Reward and hidden file of a pair that counts come from one attempt, and no
\* episode has two such pairs.
PairsAgree ==
  /\ \A n \in CompletePairs : reward[n] = hidden[n]
  /\ \A m, n \in CompletePairs : reward[m].item = reward[n].item => m = n

\* What the manifest lists can be found where it says, in all later launches.
ManifestTruthful ==
  manifest # <<>> =>
    /\ \A r \in manifest[1].items : r.file \in CompletePairs /\ reward[r.file].item = r.item
    /\ manifest[1].complete => Items \subseteq CompleteItems

\* A launch that ends normally has collected every item but those whose child
\* died: no limit or early exit of the loop cuts an episode off.
RunCollects == phase \in {"manifest", "done"} => Items \ lost \subseteq CompleteItems

\* No step of an episode executes an action predicted in another one.
OwnActions == mixed = {}

\* A launched run ends.
RunEnds == phase = "loop" ~> phase # "loop"
=============================================================================
