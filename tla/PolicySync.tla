----------------------------- MODULE PolicySync -----------------------------
(***************************************************************************)
(* Publication of the VLA policy by ActorGroup to RolloutGroup through the *)
(* bucketed weight store.                                                  *)
(*                                                                         *)
(* CotrainRunner._sync_policy_groups starts sync_model_from_actor on every *)
(* rollout worker, then has actor rank 0 push one bucket at a time and     *)
(* commit the metadata record, waits for both groups and finally releases  *)
(* the snapshot.  Pushing and pulling interleave: every remote call on the *)
(* store actor is one step here.                                           *)
(*                                                                         *)
(* The contents of a policy are a number: 0 is the initial checkpoint and  *)
(* every update mints a fresh one, also after a restart, so two trainings  *)
(* of the same global step are told apart.                                 *)
(***************************************************************************)
EXTENDS Integers

CONSTANTS
  Rollouts,       \* rollout workers
  NumBuckets,     \* buckets in one snapshot
  MaxVersion,     \* bound: last sync version of the run
  MaxPolicy,      \* bound: number of policy updates
  MaxRestarts,    \* bound: crashes followed by a resume
  StorePersists,  \* does the detached store actor outlive the driver?
  Archive         \* checkpoints of other runs the operator may resume from

ASSUME NumBucketsAssumption == NumBuckets \in Nat \ {0}
ASSUME MaxVersionAssumption == MaxVersion \in Nat
ASSUME StoreAssumption == StorePersists \in BOOLEAN
ASSUME ArchiveAssumption ==
  /\ Archive \subseteq [policy : Nat, step : Nat]
  /\ \A c \in Archive : 3 * c.step <= MaxVersion

Buckets  == 1 .. NumBuckets
Versions == 1 .. MaxVersion
Missing  == -1                 \* the store holds no item under this key
NoMeta   == 0                  \* no metadata record (versions start at 1)
Contents == Nat
Items    == Contents \cup {Missing}

VARIABLES
  phase,      \* runner: boot, push, wait, release, roll, failed
  clock,      \* runner: version of the last policy sync it started
  policy,     \* ActorGroup: contents of the policy parameters
  minted,     \* history: the largest contents ever produced
  ckpts,      \* checkpoints on disk: policy contents and global step
  restarts,   \* crashes so far
  pushed,     \* actor rank 0: buckets of this snapshot already set
  meta,       \* store: version of the metadata record, or NoMeta
  prev,       \* actor rank 0: metadata version found by commit
  store,      \* store: version -> bucket -> contents
  pc,         \* rollout: where sync_model_from_actor is
  local,      \* rollout: resolved_local_version of this call
  seen,       \* rollout: version of the record read by pull
  got,        \* rollout: contents of the buckets fetched so far
  next,       \* rollout: next bucket to fetch
  label,      \* rollout: self.versions["policy"]
  serving,    \* rollout: contents of each bucket of its parameters
  published   \* history of this incarnation: version -> contents exported

runnerVars  == <<phase, clock>>
actorVars   == <<policy, minted, pushed, prev>>
storeVars   == <<meta, store>>
pullVars    == <<pc, local, seen, got, next>>
rolloutVars == <<pullVars, label, serving>>
bookVars    == <<ckpts, restarts, published>>
vars == <<runnerVars, actorVars, storeVars, rolloutVars, bookVars>>

Whole(c)   == [b \in Buckets |-> c]      \* a snapshot of one policy
Unset      == Whole(Missing)
EmptyStore == [v \in Versions |-> Unset]

\* Three sync versions are reserved per global step: step-entry (3g - 2),
\* post-SFT (3g - 1) and evaluation (3g).
EntryVersion(g)   == 3 * g - 2
PostSftVersion(g) == 3 * g - 1
EvalVersion(g)    == 3 * g
StepOf(v)         == (v + 2) \div 3      \* the global step v belongs to

\* After version v the step may go on to its later syncs or end; the next
\* step always starts with its entry sync.
NextVersions(v) ==
  {w \in {PostSftVersion(StepOf(v)), EvalVersion(StepOf(v)), EntryVersion(StepOf(v) + 1)} :
     v < w /\ w <= MaxVersion}

Incomplete(r) == \E b \in Buckets : got[r][b] = Missing

-----------------------------------------------------------------------------
Init ==
  /\ phase = "boot" /\ clock = 0
  /\ policy = 0 /\ minted = 0
  /\ ckpts = {[policy |-> 0, step |-> 0]} \cup Archive
  /\ restarts = 0
  /\ pushed = 0 /\ prev = NoMeta
  /\ meta = NoMeta /\ store = EmptyStore
  /\ pc = [r \in Rollouts |-> "idle"]
  /\ local = [r \in Rollouts |-> 0]
  /\ seen = [r \in Rollouts |-> 0]
  /\ got = [r \in Rollouts |-> Unset]
  /\ next = [r \in Rollouts |-> 1]
  /\ label = [r \in Rollouts |-> 0]
  /\ serving = [r \in Rollouts |-> Whole(0)]
  /\ published = [v \in Versions |-> Missing]

-----------------------------------------------------------------------------
(* Faulty variants of the actions below: what each property would catch.   *)

\* The runner waits for the first worker instead of for all of them.
SyncAnsweredByOne ==
  /\ phase = "wait"
  /\ \E r \in Rollouts : pc[r] = "done"
  /\ phase' = "release"
  /\ UNCHANGED <<clock, actorVars, storeVars, rolloutVars, bookVars>>

\* The error of a worker is only noticed when all have failed.
SyncRaisesIfAll ==
  /\ phase = "wait"
  /\ \A r \in Rollouts : pc[r] \in {"missing", "timeout"}
  /\ phase' = "failed"
  /\ UNCHANGED <<clock, actorVars, storeVars, rolloutVars, bookVars>>

\* Training runs beside the push.
TrainDuringPush ==
  /\ phase \in {"roll", "push"}
  /\ minted < MaxPolicy
  /\ minted' = minted + 1
  /\ policy' = minted + 1
  /\ UNCHANGED <<runnerVars, pushed, prev, storeVars, rolloutVars, bookVars>>

\* The record is set before the last bucket.
CommitMetaEarly ==
  /\ phase = "push"
  /\ pushed \in {NumBuckets - 1, NumBuckets}
  /\ pushed' = pushed + 1
  /\ prev' = meta
  /\ meta' = IF clock >= meta THEN clock ELSE meta
  /\ UNCHANGED <<runnerVars, policy, minted, store, rolloutVars, bookVars>>

\* pull does not compare the record with what the worker has, nor ask if there is one.
SeeAnything(r) ==
  /\ pc[r] = "poll"
  /\ pc' = [pc EXCEPT ![r] = "fetch"]
  /\ seen' = [seen EXCEPT ![r] = meta]
  /\ got' = [got EXCEPT ![r] = Unset]
  /\ next' = [next EXCEPT ![r] = 1]
  /\ UNCHANGED <<runnerVars, actorVars, storeVars, local, label, serving, bookVars>>

\* Any snapshot ends the loop, whatever version was expected.
ApplyAnySnapshot(r) ==
  /\ pc[r] = "fetch"
  /\ next[r] > NumBuckets
  /\ ~Incomplete(r)
  /\ serving' = [serving EXCEPT ![r] = got[r]]
  /\ label' = [label EXCEPT ![r] = seen[r]]
  /\ pc' = [pc EXCEPT ![r] = "done"]
  /\ UNCHANGED <<runnerVars, actorVars, storeVars, local, seen, got, next, bookVars>>

-----------------------------------------------------------------------------
(* The runner.                                                             *)

\* Start the pull on every rollout worker, then the push on the actor.
StartSync ==
  /\ phase \in {"boot", "roll"}
  /\ \E v \in NextVersions(clock) :
       /\ clock' = v
       /\ published' = [published EXCEPT ![v] = policy]
  /\ phase' = "push"
  /\ pushed' = 0
  /\ prev' = NoMeta
  /\ pc' = [r \in Rollouts |-> "poll"]
  /\ local' = label
  /\ UNCHANGED <<policy, minted, ckpts, restarts, storeVars, seen, got, next, label, serving>>

\* Both groups answered without an exception.
SyncAnswered ==
  /\ phase = "wait"
  /\ \A r \in Rollouts : pc[r] = "done"
  /\ phase' = "release"
  /\ UNCHANGED <<clock, actorVars, storeVars, rolloutVars, bookVars>>

\* rollout_result.wait() raises the error of a worker: the run ends.
SyncRaises ==
  /\ phase = "wait"
  /\ \E r \in Rollouts : pc[r] \in {"missing", "timeout"}
  /\ phase' = "failed"
  /\ UNCHANGED <<clock, actorVars, storeVars, rolloutVars, bookVars>>

\* Encoder SFT, PPO or success SFT: the actor is only updated between syncs.
Train ==
  /\ phase = "roll"
  /\ minted < MaxPolicy
  /\ minted' = minted + 1
  /\ policy' = minted + 1
  /\ UNCHANGED <<runnerVars, pushed, prev, storeVars, rolloutVars, bookVars>>

\* The step ends with a checkpoint; only the next entry sync can follow.
SaveCheckpoint ==
  /\ phase = "roll"
  /\ ckpts' = ckpts \cup {[policy |-> policy, step |-> StepOf(clock)]}
  /\ clock' = EvalVersion(StepOf(clock))
  /\ clock' <= MaxVersion
  /\ UNCHANGED <<phase, actorVars, storeVars, rolloutVars, restarts, published>>

\* The driver dies or has failed, and a run is resumed from some checkpoint
\* (manual_cotrain.resume_ckpt).  The actor reads the checkpoint, a rollout
\* worker its own rollout.init_ckpt; the store is a detached actor with a fixed
\* name that is found again if its Ray cluster is still up.
Restart ==
  /\ restarts < MaxRestarts
  /\ restarts' = restarts + 1
  /\ phase' = "boot"
  /\ \E c \in ckpts : clock' = EvalVersion(c.step) /\ policy' = c.policy
  /\ pushed' = 0
  /\ prev' = NoMeta
  /\ meta' = IF StorePersists THEN meta ELSE NoMeta
  /\ store' = IF StorePersists THEN store ELSE EmptyStore
  /\ pc' = [r \in Rollouts |-> "idle"]
  /\ local' = [r \in Rollouts |-> 0]
  /\ seen' = [r \in Rollouts |-> 0]
  /\ got' = [r \in Rollouts |-> Unset]
  /\ next' = [r \in Rollouts |-> 1]
  /\ label' = [r \in Rollouts |-> 0]
  /\ serving' = [r \in Rollouts |-> Whole(0)]
  /\ published' = [v \in Versions |-> Missing]
  /\ UNCHANGED <<minted, ckpts>>

-----------------------------------------------------------------------------
(* Actor rank 0: push_bucket per bucket, commit, release.                  *)

PushBucket ==
  /\ phase = "push"
  /\ pushed < NumBuckets
  /\ pushed' = pushed + 1
  /\ store' = [store EXCEPT ![clock][pushed + 1] = policy]
  /\ UNCHANGED <<runnerVars, policy, minted, prev, meta, rolloutVars, bookVars>>

\* Read the previous record and set the new one.  No other client writes the
\* record, so the two calls are one step.  The store keeps a newer version.
CommitMeta ==
  /\ phase = "push"
  /\ pushed = NumBuckets
  /\ pushed' = NumBuckets + 1
  /\ prev' = meta
  /\ meta' = IF clock >= meta THEN clock ELSE meta
  /\ UNCHANGED <<runnerVars, policy, minted, store, rolloutVars, bookVars>>

\* Reclaim the buckets of an older committed version; the push returns.
ReclaimPrevious ==
  /\ phase = "push"
  /\ pushed = NumBuckets + 1
  /\ store' = IF prev # NoMeta /\ prev < clock
                THEN [store EXCEPT ![prev] = Unset] ELSE store
  /\ phase' = "wait"
  /\ UNCHANGED <<clock, actorVars, meta, rolloutVars, bookVars>>

\* Delete record and buckets if the record still carries this version; a
\* mismatch is reported and ignored by the runner.
Release ==
  /\ phase = "release"
  /\ meta' = IF meta = clock THEN NoMeta ELSE meta
  /\ store' = IF meta = clock THEN [store EXCEPT ![clock] = Unset] ELSE store
  /\ phase' = "roll"
  /\ UNCHANGED <<clock, actorVars, rolloutVars, bookVars>>

-----------------------------------------------------------------------------
(* Rollout worker r: sync_model_from_actor and BucketWeightSyncer.pull.    *)

\* A newer record is visible: fetch its buckets.
SeeVersion(r) ==
  /\ pc[r] = "poll"
  /\ meta > local[r]
  /\ pc' = [pc EXCEPT ![r] = "fetch"]
  /\ seen' = [seen EXCEPT ![r] = meta]
  /\ got' = [got EXCEPT ![r] = Unset]
  /\ next' = [next EXCEPT ![r] = 1]
  /\ UNCHANGED <<runnerVars, actorVars, storeVars, local, label, serving, bookVars>>

FetchBucket(r) ==
  /\ pc[r] = "fetch"
  /\ next[r] <= NumBuckets
  /\ got' = [got EXCEPT ![r][next[r]] = store[seen[r]][next[r]]]
  /\ next' = [next EXCEPT ![r] = @ + 1]
  /\ UNCHANGED <<runnerVars, actorVars, storeVars, pc, local, seen, label, serving, bookVars>>

\* All buckets are there: copy them into the model.
ApplySnapshot(r) ==
  /\ pc[r] = "fetch"
  /\ next[r] > NumBuckets
  /\ ~Incomplete(r)
  /\ serving' = [serving EXCEPT ![r] = got[r]]
  /\ \/ /\ seen[r] >= clock
        /\ label' = [label EXCEPT ![r] = seen[r]]
        /\ pc' = [pc EXCEPT ![r] = "done"]
        /\ UNCHANGED local
     \* Older than expected: the label stays, the loop polls on or times out.
     \/ /\ seen[r] < clock
        /\ \E w \in {"poll", "timeout"} : pc' = [pc EXCEPT ![r] = w]
        /\ local' = [local EXCEPT ![r] = seen[r]]
        /\ UNCHANGED label
  /\ UNCHANGED <<runnerVars, actorVars, storeVars, seen, got, next, bookVars>>

\* A bucket is gone: those before it are copied, then the worker raises.
MissingBucket(r) ==
  LET copied == {b \in Buckets : \A c \in 1 .. b : got[r][c] # Missing} IN
  /\ pc[r] = "fetch"
  /\ next[r] > NumBuckets
  /\ Incomplete(r)
  /\ serving' = [serving EXCEPT ![r] =
       [b \in Buckets |-> IF b \in copied THEN got[r][b] ELSE serving[r][b]]]
  /\ pc' = [pc EXCEPT ![r] = "missing"]
  /\ UNCHANGED <<runnerVars, actorVars, storeVars, local, seen, got, next, label, bookVars>>

\* Nothing newer in the store, and what the worker has is recent enough ...
AlreadyCurrent(r) ==
  /\ pc[r] = "poll"
  /\ meta <= local[r]
  /\ local[r] >= clock
  /\ pc' = [pc EXCEPT ![r] = "done"]
  /\ UNCHANGED <<runnerVars, actorVars, storeVars, local, seen, got, next, label, serving, bookVars>>

\* ... or it is not: sleep and poll again, until wait_timeout_s is over.
PullTimeout(r) ==
  /\ pc[r] = "poll"
  /\ meta <= local[r]
  /\ local[r] < clock
  /\ pc' = [pc EXCEPT ![r] = "timeout"]
  /\ UNCHANGED <<runnerVars, actorVars, storeVars, local, seen, got, next, label, serving, bookVars>>

-----------------------------------------------------------------------------
Runner   == StartSync \/ SyncAnswered \/ SyncRaises \/ Train \/ SaveCheckpoint
Actor    == PushBucket \/ CommitMeta \/ ReclaimPrevious \/ Release
Worker(r) ==
  \/ SeeVersion(r) \/ FetchBucket(r) \/ ApplySnapshot(r)
  \/ MissingBucket(r) \/ AlreadyCurrent(r) \/ PullTimeout(r)

Next == Runner \/ Actor \/ (\E r \in Rollouts : Worker(r)) \/ Restart

Spec == Init /\ [][Next]_vars

\* The runner waits in ray.get and the actor and the workers are threads that
\* run their call to its end.  Starting the next step, training, saving,
\* timing out and crashing are not promised.
Fairness ==
  /\ WF_vars(SyncAnswered) /\ WF_vars(SyncRaises)
  /\ WF_vars(Actor)
  /\ \A r \in Rollouts :
       WF_vars(SeeVersion(r) \/ FetchBucket(r) \/ ApplySnapshot(r)
                 \/ MissingBucket(r) \/ AlreadyCurrent(r))

FairSpec == Spec /\ Fairness

-----------------------------------------------------------------------------
(* Properties.                                                             *)

\* Every variable has its type: versions stay within the run, and a worker
\* only fetches under a version the store has keys for.
TypeOK ==
  /\ phase \in {"boot", "push", "wait", "release", "roll", "failed"}
  /\ clock \in 0 .. MaxVersion
  /\ policy \in Contents /\ minted \in Contents
  /\ ckpts \subseteq [policy : Contents, step : Nat]
  /\ \A c \in ckpts : EvalVersion(c.step) <= MaxVersion
  /\ restarts \in Nat
  /\ pushed \in 0 .. NumBuckets + 1
  /\ prev \in 0 .. MaxVersion
  /\ meta \in 0 .. MaxVersion
  /\ store \in [Versions -> [Buckets -> Items]]
  /\ pc \in [Rollouts -> {"idle", "poll", "fetch", "done", "missing", "timeout"}]
  /\ local \in [Rollouts -> 0 .. MaxVersion]
  /\ seen \in [Rollouts -> 0 .. MaxVersion]
  /\ \A r \in Rollouts : pc[r] = "fetch" => seen[r] \in Versions
  /\ got \in [Rollouts -> [Buckets -> Items]]
  /\ next \in [Rollouts -> 1 .. NumBuckets + 1]
  /\ label \in [Rollouts -> 0 .. MaxVersion]
  /\ serving \in [Rollouts -> [Buckets -> Contents]]
  /\ published \in [Versions -> Items]

\* While trajectories are generated every rollout worker serves one whole
\* snapshot, the one the actor exported for the version of this sync, and
\* stamps its results with that version (_sync_policy_groups returned).
ServesPublished ==
  phase = "roll" => \E v \in Versions : \A r \in Rollouts :
    /\ label[r] = v
    /\ published[v] # Missing
    /\ serving[r] = Whole(published[v])

\* A worker whose pull succeeded holds what the actor holds: the runner can
\* not train between the export and the last acknowledgement.
AcknowledgedIsCurrent ==
  \A r \in Rollouts : pc[r] = "done" /\ phase \in {"push", "wait", "release"} =>
    serving[r] = Whole(policy) /\ label[r] = clock

\* The weight store never shows a reader a torn snapshot and never leaks one:
\* pull finds every bucket of the version it read, although commit and release
\* delete buckets ("weight store is inconsistent", bucket.py); the record is
\* only visible while every bucket of its version is there and of the policy
\* exported as it ("Atomically expose a version after every bucket has been
\* published", commit); and between syncs the store is empty.
NoMissingBucket == \A r \in Rollouts : pc[r] # "missing"

CommittedIsWhole ==
  meta # NoMeta => published[meta] # Missing /\ store[meta] = Whole(published[meta])

StoreReclaimed == phase \in {"boot", "roll"} => meta = NoMeta /\ store = EmptyStore

StoreConsistent == NoMissingBucket /\ CommittedIsWhole /\ StoreReclaimed

\* When all workers have answered, each of them holds the parameters ActorGroup
\* holds ("Apply the latest ActorGroup policy patch to the local rollout copy").
LatestApplied == phase = "release" => \A r \in Rollouts : serving[r] = Whole(policy)

\* A sync that returns never leaves a worker behind the version that was asked
\* for, whatever the store held before (expected_version).
NeverBehind == phase = "release" => \A r \in Rollouts : label[r] >= clock

\* Every sync ends: all workers are served, or the run raises.
SyncEnds == phase = "push" ~> phase \in {"roll", "failed", "boot"}

\* The runner is busy from the start of a sync until it returns or raises.
Broadcast == INSTANCE PolicyBroadcast WITH
  Workers   <- Rollouts,
  Snapshots <- [Buckets -> Contents],
  busy      <- phase \notin {"boot", "roll"},
  actor     <- Whole(policy),
  worker    <- serving

\* _sync_policy_groups implements the broadcast: no worker ever holds a mix of
\* two policies, none is skipped, and none gets anything but what the actor
\* holds when it is delivered.
ImplementsBroadcast == Broadcast!Spec
=============================================================================
