-------------------------- MODULE PolicySyncProofs --------------------------
(***************************************************************************)
(* Proofs about PolicySync for any number of workers, buckets, versions    *)
(* and updates.  The type invariant, and that no worker is left behind,    *)
(* hold in general; that every worker serves what was published, and that  *)
(* the sync implements PolicyBroadcast, hold when the store does not       *)
(* outlive its run.                                                        *)
(***************************************************************************)
EXTENDS PolicySync, TLAPS

InSync == phase \in {"push", "wait", "failed", "release"}

\* During a sync the store holds the pushed buckets of this version and no
\* other, the record exists exactly when all of them are there, and a worker
\* has fetched nothing but the actor's policy.
StoreInv ==
  /\ prev = NoMeta
  /\ ~InSync => meta = NoMeta /\ store = EmptyStore
  /\ InSync =>
       /\ clock \in Versions
       /\ published[clock] = policy
       /\ \A v \in Versions, b \in Buckets :
            store[v][b] = IF v = clock /\ b <= pushed THEN policy ELSE Missing
       /\ meta = IF pushed = NumBuckets + 1 THEN clock ELSE NoMeta
  /\ phase \in {"wait", "release", "failed"} => pushed = NumBuckets + 1

WorkerInv(r) ==
  /\ label[r] <= clock
  /\ phase = "boot" => pc[r] = "idle"
  /\ phase \in {"release", "roll"} => pc[r] = "done"
  /\ InSync =>
       /\ pc[r] \in {"poll", "fetch", "done", "timeout"}
       /\ pc[r] = "poll" => local[r] = label[r] /\ label[r] < clock
       /\ pc[r] = "fetch" =>
            /\ seen[r] = clock
            /\ meta = clock
            /\ \A b \in Buckets : b < next[r] => got[r][b] = policy
       /\ pc[r] = "done" => serving[r] = Whole(policy) /\ label[r] = clock

IInv ==
  /\ TypeOK
  /\ StoreInv
  /\ \A r \in Rollouts : WorkerInv(r)
  /\ ServesPublished

-----------------------------------------------------------------------------
(* Typing.                                                                 *)

\* A next version is a version of the run and newer than the current one.
LEMMA NextVersionsNewer ==
  ASSUME NEW c \in 0 .. MaxVersion, NEW v \in NextVersions(c)
  PROVE  v \in Versions /\ c < v
BY MaxVersionAssumption
   DEF NextVersions, Versions, StepOf, EntryVersion, PostSftVersion, EvalVersion

\* The evaluation version of a version's own step is not older than it.
LEMMA StepEnd ==
  ASSUME NEW c \in 0 .. MaxVersion
  PROVE  StepOf(c) \in Nat /\ c <= EvalVersion(StepOf(c))
BY MaxVersionAssumption DEF StepOf, EvalVersion

\* Snapshots of one policy, and the absence of any, have the types of the store.
LEMMA WholeTyped ==
  /\ \A c \in Contents : Whole(c) \in [Buckets -> Contents] /\ Whole(c) \in [Buckets -> Items]
  /\ Unset \in [Buckets -> Items]
  /\ EmptyStore \in [Versions -> [Buckets -> Items]]
BY DEF Whole, Unset, EmptyStore, Items

\* The initial state of the run is well typed.
LEMMA InitType == Init => TypeOK
<1> SUFFICES ASSUME Init PROVE TypeOK
  OBVIOUS
<1> USE NumBucketsAssumption, MaxVersionAssumption, WholeTyped DEF Init, Contents
<1>1. ckpts \subseteq [policy : Contents, step : Nat]
      /\ \A c \in ckpts : EvalVersion(c.step) <= MaxVersion
  BY ArchiveAssumption DEF EvalVersion
<1>2. published \in [Versions -> Items]
  BY DEF Items
<1>3. got \in [Rollouts -> [Buckets -> Items]] /\ serving \in [Rollouts -> [Buckets -> Contents]]
  OBVIOUS
<1> QED
  BY <1>1, <1>2, <1>3 DEF TypeOK, NoMeta

\* The runner's own steps (start, wait, train, save) keep the types.
LEMMA RunnerType == TypeOK /\ Runner => TypeOK'
<1> SUFFICES ASSUME TypeOK, Runner PROVE TypeOK'
  OBVIOUS
<1> USE NumBucketsAssumption, MaxVersionAssumption
    DEF TypeOK, runnerVars, actorVars, storeVars, pullVars, rolloutVars, bookVars
<1>1. CASE StartSync
  <2>1. PICK w \in NextVersions(clock) :
          clock' = w /\ published' = [published EXCEPT ![w] = policy]
    BY <1>1 DEF StartSync
  <2>2. clock' \in 0 .. MaxVersion /\ published' \in [Versions -> Items]
    BY <2>1, NextVersionsNewer DEF Versions, Items
  <2> QED
    BY <1>1, <2>2 DEF StartSync, NoMeta
<1>2. CASE SyncAnswered
  BY <1>2 DEF SyncAnswered
<1>3. CASE SyncRaises
  BY <1>3 DEF SyncRaises
<1>4. CASE Train
  BY <1>4 DEF Train, Contents
<1>5. CASE SaveCheckpoint
  <2>1. StepOf(clock) \in Nat /\ clock <= EvalVersion(StepOf(clock))
    BY StepEnd
  <2>2. ckpts' \subseteq [policy : Contents, step : Nat]
        /\ \A c \in ckpts' : EvalVersion(c.step) <= MaxVersion
    BY <1>5, <2>1 DEF SaveCheckpoint
  <2> QED
    BY <1>5, <2>1, <2>2 DEF SaveCheckpoint, EvalVersion
<1> QED
  BY <1>1, <1>2, <1>3, <1>4, <1>5 DEF Runner

\* Pushing, committing, reclaiming and releasing keep the types.
LEMMA ActorType == TypeOK /\ Actor => TypeOK'
<1> SUFFICES ASSUME TypeOK, Actor PROVE TypeOK'
  OBVIOUS
<1> USE NumBucketsAssumption, MaxVersionAssumption, WholeTyped
    DEF TypeOK, runnerVars, actorVars, storeVars, pullVars, rolloutVars, bookVars
<1>1. CASE PushBucket
  <2>1. pushed' \in 0 .. NumBuckets + 1
    BY <1>1 DEF PushBucket
  <2>2. store' \in [Versions -> [Buckets -> Items]]
    BY <1>1 DEF PushBucket, Items
  <2> QED
    BY <1>1, <2>1, <2>2 DEF PushBucket
<1>2. CASE CommitMeta
  BY <1>2 DEF CommitMeta
<1>3. CASE ReclaimPrevious
  <2>1. store' \in [Versions -> [Buckets -> Items]]
    BY <1>3 DEF ReclaimPrevious
  <2> QED
    BY <1>3, <2>1 DEF ReclaimPrevious
<1>4. CASE Release
  <2>1. store' \in [Versions -> [Buckets -> Items]]
    BY <1>4 DEF Release
  <2> QED
    BY <1>4, <2>1 DEF Release, NoMeta
<1> QED
  BY <1>1, <1>2, <1>3, <1>4 DEF Actor

\* The steps of a pulling worker keep the types, also when a bucket is missing.
LEMMA WorkerType ==
  ASSUME NEW r \in Rollouts, TypeOK, Worker(r)
  PROVE  TypeOK'
<1> USE NumBucketsAssumption, MaxVersionAssumption
    DEF TypeOK, runnerVars, actorVars, storeVars, pullVars, rolloutVars, bookVars
<1>1. CASE SeeVersion(r)
  <2>1. meta \in Versions
    BY <1>1 DEF SeeVersion, Versions
  <2>2. got' \in [Rollouts -> [Buckets -> Items]]
    BY <1>1, WholeTyped DEF SeeVersion
  <2> QED
    BY <1>1, <2>1, <2>2 DEF SeeVersion
<1>2. CASE FetchBucket(r)
  <2>1. next[r] \in Buckets /\ seen[r] \in Versions
    BY <1>2 DEF FetchBucket, Buckets
  <2>2. store[seen[r]][next[r]] \in Items
    BY <2>1
  <2>3. got' \in [Rollouts -> [Buckets -> Items]]
    BY <1>2, <2>2 DEF FetchBucket
  <2> QED
    BY <1>2, <2>3 DEF FetchBucket
<1>3. CASE ApplySnapshot(r)
  <2>1. got[r] \in [Buckets -> Contents]
    BY <1>3 DEF ApplySnapshot, Incomplete, Items
  <2>2. serving' \in [Rollouts -> [Buckets -> Contents]]
    BY <1>3, <2>1 DEF ApplySnapshot
  <2> QED
    BY <1>3, <2>2 DEF ApplySnapshot
<1>4. CASE MissingBucket(r)
  <2>1. \A b \in Buckets : (\A c \in 1 .. b : got[r][c] # Missing) => got[r][b] \in Contents
    BY DEF Buckets, Items
  <2>2. serving' \in [Rollouts -> [Buckets -> Contents]]
    BY <1>4, <2>1 DEF MissingBucket
  <2> QED
    BY <1>4, <2>2 DEF MissingBucket
<1>5. CASE AlreadyCurrent(r)
  BY <1>5 DEF AlreadyCurrent
<1>6. CASE PullTimeout(r)
  BY <1>6 DEF PullTimeout
<1> QED
  BY <1>1, <1>2, <1>3, <1>4, <1>5, <1>6 DEF Worker

\* A crash with a resume from any checkpoint keeps the types.
LEMMA RestartType == TypeOK /\ Restart => TypeOK'
<1> SUFFICES ASSUME TypeOK, Restart PROVE TypeOK'
  OBVIOUS
<1> USE NumBucketsAssumption, MaxVersionAssumption, WholeTyped DEF TypeOK, Restart, Contents
<1>1. clock' \in 0 .. MaxVersion /\ policy' \in Nat
  BY DEF EvalVersion
<1>2. published' \in [Versions -> Items]
  BY DEF Items
<1> QED
  BY <1>1, <1>2 DEF NoMeta

\* Every step of the protocol keeps the types.
LEMMA NextType == TypeOK /\ [Next]_vars => TypeOK'
<1>1. TypeOK /\ UNCHANGED vars => TypeOK'
  BY DEF TypeOK, vars, runnerVars, actorVars, storeVars, pullVars, rolloutVars, bookVars
<1> QED
  BY <1>1, RunnerType, ActorType, WorkerType, RestartType DEF Next

\* Every variable keeps its type, whether or not the store persists.
THEOREM TypeCorrect == Spec => []TypeOK
BY InitType, NextType, PTL DEF Spec

-----------------------------------------------------------------------------
(* Safety, when the store dies with its run.                               *)

\* The inductive invariant holds when the run starts.
LEMMA InitInv == Init => IInv
<1> SUFFICES ASSUME Init PROVE IInv
  OBVIOUS
<1>1. TypeOK
  BY InitType
<1>2. StoreInv
  BY DEF Init, StoreInv, InSync
<1>3. \A r \in Rollouts : WorkerInv(r)
  <2> TAKE r \in Rollouts
  <2> QED
    BY DEF Init, WorkerInv, InSync
<1>4. ServesPublished
  BY DEF Init, ServesPublished
<1> QED
  BY <1>1, <1>2, <1>3, <1>4 DEF IInv

\* The store only ever holds the snapshot of the sync in progress.
LEMMA StoreStep ==
  ASSUME StorePersists = FALSE, IInv, [Next]_vars
  PROVE  StoreInv'
<1> USE NumBucketsAssumption, MaxVersionAssumption
    DEF IInv, TypeOK, StoreInv, InSync, NoMeta,
        runnerVars, actorVars, storeVars, pullVars, rolloutVars, bookVars
<1>1. CASE StartSync
  <2>1. PICK w \in NextVersions(clock) :
          clock' = w /\ published' = [published EXCEPT ![w] = policy]
    BY <1>1 DEF StartSync
  <2>2. clock' \in Versions /\ published'[clock'] = policy
    BY <2>1, NextVersionsNewer
  <2>3. \A v \in Versions, b \in Buckets : store'[v][b] = Missing /\ ~(b <= 0)
    BY <1>1 DEF StartSync, EmptyStore, Unset, Whole, Buckets
  <2> QED
    BY <1>1, <2>2, <2>3 DEF StartSync
<1>2. CASE SyncAnswered
  BY <1>2 DEF SyncAnswered
<1>3. CASE SyncRaises
  BY <1>3 DEF SyncRaises
<1>4. CASE Train
  BY <1>4 DEF Train
<1>5. CASE SaveCheckpoint
  BY <1>5 DEF SaveCheckpoint
<1>6. CASE PushBucket
  <2>1. pushed' = pushed + 1 /\ pushed' # NumBuckets + 1
    BY <1>6 DEF PushBucket
  <2>2. ASSUME NEW v \in Versions, NEW b \in Buckets
        PROVE  store'[v][b] = IF v = clock /\ b <= pushed' THEN policy ELSE Missing
    <3>1. CASE v = clock /\ b = pushed + 1
      BY <1>6, <2>1, <3>1 DEF PushBucket, Buckets
    <3>2. CASE ~(v = clock /\ b = pushed + 1)
      <4>1. store'[v][b] = store[v][b]
        BY <1>6, <3>2 DEF PushBucket
      <4> QED
        BY <1>6, <2>1, <3>2, <4>1 DEF PushBucket, Buckets
    <3> QED
      BY <3>1, <3>2
  <2> QED
    BY <1>6, <2>1, <2>2 DEF PushBucket
<1>7. CASE CommitMeta
  <2>1. meta' = clock
    BY <1>7 DEF CommitMeta, Versions
  <2>2. \A b \in Buckets : b <= pushed /\ b <= pushed'
    BY <1>7 DEF CommitMeta, Buckets
  <2> QED
    BY <1>7, <2>1, <2>2 DEF CommitMeta
<1>8. CASE ReclaimPrevious
  BY <1>8 DEF ReclaimPrevious
<1>9. CASE Release
  <2>1. meta = clock
    BY <1>9 DEF Release
  <2>2. store' = [store EXCEPT ![clock] = Unset]
    BY <1>9, <2>1 DEF Release
  <2>3. \A v \in Versions : store'[v] = Unset
    <3> TAKE v \in Versions
    <3>1. \A b \in Buckets : store'[v][b] = Missing
      BY <1>9, <2>2 DEF Release, Unset, Whole
    <3> QED
      BY <2>2, <3>1, WholeTyped DEF Unset, Whole
  <2>4. store' = EmptyStore
    BY <2>2, <2>3 DEF EmptyStore
  <2> QED
    BY <1>9, <2>1, <2>4 DEF Release
<1>10. ASSUME NEW r \in Rollouts, Worker(r)
       PROVE  StoreInv'
  BY <1>10
     DEF Worker, SeeVersion, FetchBucket, ApplySnapshot, MissingBucket, AlreadyCurrent, PullTimeout
<1>11. CASE Restart
  BY <1>11 DEF Restart
<1>12. CASE UNCHANGED vars
  BY <1>12 DEF vars
<1> QED
  BY <1>1, <1>2, <1>3, <1>4, <1>5, <1>6, <1>7, <1>8, <1>9, <1>10, <1>11, <1>12
     DEF Next, Runner, Actor

\* A worker that has fetched all buckets of the record has the whole policy.
LEMMA FetchedIsWhole ==
  ASSUME IInv, InSync, NEW r \in Rollouts, pc[r] = "fetch", next[r] > NumBuckets
  PROVE  got[r] = Whole(policy) /\ ~Incomplete(r)
<1>1. \A b \in Buckets : got[r][b] = policy
  BY NumBucketsAssumption DEF IInv, TypeOK, WorkerInv, Buckets
<1> QED
  BY <1>1 DEF IInv, TypeOK, Whole, Incomplete, Contents, Missing

\* What a worker has fetched or loaded during a sync is the actor's policy.
LEMMA WorkerStep ==
  ASSUME StorePersists = FALSE, IInv, [Next]_vars, NEW r \in Rollouts
  PROVE  WorkerInv(r)'
<1> USE NumBucketsAssumption, MaxVersionAssumption
    DEF TypeOK, WorkerInv, InSync, NoMeta,
        runnerVars, actorVars, storeVars, pullVars, rolloutVars, bookVars
<1> TypeOK /\ WorkerInv(r)
  BY DEF IInv
<1>1. CASE StartSync
  <2>1. clock' \in Versions /\ clock < clock'
    BY <1>1, NextVersionsNewer DEF StartSync
  <2> QED
    BY <1>1, <2>1 DEF StartSync, Versions
<1>2. CASE SyncAnswered
  BY <1>2 DEF SyncAnswered
<1>3. CASE SyncRaises
  BY <1>3 DEF SyncRaises
<1>4. CASE Train
  BY <1>4 DEF Train
<1>5. CASE SaveCheckpoint
  BY <1>5, StepEnd DEF SaveCheckpoint, EvalVersion
<1>6. CASE PushBucket
  BY <1>6 DEF PushBucket
<1>7. CASE CommitMeta
  BY <1>7 DEF CommitMeta
<1>8. CASE ReclaimPrevious
  BY <1>8 DEF ReclaimPrevious
<1>9. CASE Release
  BY <1>9 DEF Release
<1>10. ASSUME NEW q \in Rollouts, Worker(q)
       PROVE  WorkerInv(r)'
  <2>1. CASE q # r
    BY <1>10, <2>1
       DEF Worker, SeeVersion, FetchBucket, ApplySnapshot, MissingBucket, AlreadyCurrent, PullTimeout
  <2>2. CASE q = r
    <3> Worker(r) /\ StoreInv
      BY <1>10, <2>2 DEF IInv
    <3>1. InSync
      BY DEF Worker, SeeVersion, FetchBucket, ApplySnapshot, MissingBucket, AlreadyCurrent, PullTimeout
    <3>2. CASE SeeVersion(r)
      BY <3>1, <3>2 DEF SeeVersion, StoreInv, Buckets
    <3>3. CASE FetchBucket(r)
      <4>1. seen[r] = clock /\ meta = clock /\ next[r] \in Buckets
        BY <3>1, <3>3 DEF FetchBucket, Buckets
      <4>2. store[clock][next[r]] = policy
        BY <3>1, <4>1 DEF StoreInv, Versions, Buckets
      <4>3. \A b \in Buckets : b < next'[r] => got'[r][b] = policy
        BY <3>1, <3>3, <4>1, <4>2 DEF FetchBucket, Buckets
      <4> QED
        BY <3>1, <3>3, <4>1, <4>3 DEF FetchBucket
    <3>4. CASE ApplySnapshot(r)
      <4>1. got[r] = Whole(policy) /\ seen[r] = clock
        BY <3>1, <3>4, FetchedIsWhole DEF ApplySnapshot
      <4> QED
        BY <3>1, <3>4, <4>1 DEF ApplySnapshot
    <3>5. CASE MissingBucket(r)
      BY <3>1, <3>5, FetchedIsWhole DEF MissingBucket
    <3>6. CASE AlreadyCurrent(r)
      BY <3>1, <3>6 DEF AlreadyCurrent
    <3>7. CASE PullTimeout(r)
      BY <3>1, <3>7 DEF PullTimeout
    <3> QED
      BY <3>2, <3>3, <3>4, <3>5, <3>6, <3>7 DEF Worker
  <2> QED
    BY <2>1, <2>2
<1>11. CASE Restart
  BY <1>11 DEF Restart, EvalVersion
<1>12. CASE UNCHANGED vars
  BY <1>12 DEF vars
<1> QED
  BY <1>1, <1>2, <1>3, <1>4, <1>5, <1>6, <1>7, <1>8, <1>9, <1>10, <1>11, <1>12
     DEF Next, Runner, Actor

\* When a sync returns, all workers serve its version; until the next sync
\* nothing touches them.
LEMMA ServesStep ==
  ASSUME IInv, [Next]_vars
  PROVE  ServesPublished'
<1> USE DEF IInv, ServesPublished,
        runnerVars, actorVars, storeVars, pullVars, rolloutVars, bookVars
<1>1. CASE Release
  <2>1. \A r \in Rollouts : label[r] = clock /\ serving[r] = Whole(policy)
    BY <1>1 DEF Release, WorkerInv, InSync
  <2>2. clock \in Versions /\ published[clock] = policy /\ policy # Missing
    BY <1>1 DEF Release, StoreInv, InSync, TypeOK, Contents, Missing
  <2> QED
    BY <1>1, <2>1, <2>2 DEF Release
<1>2. CASE Train \/ SaveCheckpoint
  BY <1>2 DEF Train, SaveCheckpoint
<1>3. CASE StartSync \/ SyncAnswered \/ SyncRaises \/ PushBucket \/ CommitMeta
             \/ ReclaimPrevious \/ Restart
  BY <1>3 DEF StartSync, SyncAnswered, SyncRaises, PushBucket, CommitMeta,
              ReclaimPrevious, Restart
<1>4. ASSUME NEW r \in Rollouts, Worker(r)
      PROVE  ServesPublished'
  BY <1>4
     DEF Worker, SeeVersion, FetchBucket, ApplySnapshot, MissingBucket, AlreadyCurrent,
         PullTimeout, WorkerInv
<1>5. CASE UNCHANGED vars
  BY <1>5 DEF vars
<1> QED
  BY <1>1, <1>2, <1>3, <1>4, <1>5 DEF Next, Runner, Actor

\* The inductive invariant holds in every state of a run whose store dies with it.
THEOREM InductiveInvariant ==
  ASSUME StorePersists = FALSE
  PROVE  Spec => []IInv
<1>1. IInv /\ [Next]_vars => IInv'
  <2> SUFFICES ASSUME IInv, [Next]_vars PROVE IInv'
    OBVIOUS
  <2>1. TypeOK'
    BY NextType DEF IInv
  <2> QED
    BY <2>1, StoreStep, WorkerStep, ServesStep DEF IInv
<1> QED
  BY <1>1, InitInv, PTL DEF Spec

\* What the invariant says of every reachable state: the workers generate with
\* whole published snapshots, acknowledge only the actor's parameters, never
\* find a bucket missing, and leave the store empty behind them.
THEOREM SyncSafety ==
  ASSUME StorePersists = FALSE
  PROVE  Spec => [](ServesPublished /\ AcknowledgedIsCurrent /\ StoreConsistent)
<1>1. IInv => AcknowledgedIsCurrent
  BY DEF IInv, WorkerInv, InSync, AcknowledgedIsCurrent
<1>2. IInv => NoMissingBucket
  <2> SUFFICES ASSUME IInv, NEW r \in Rollouts PROVE pc[r] # "missing"
    BY DEF NoMissingBucket
  <2>1. phase \in {"boot", "roll"} \/ InSync
    BY DEF IInv, TypeOK, InSync
  <2> QED
    BY <2>1 DEF IInv, WorkerInv
<1>3. IInv => StoreReclaimed
  BY DEF IInv, StoreInv, InSync, StoreReclaimed
<1>4. IInv => CommittedIsWhole
  <2> SUFFICES ASSUME IInv, meta # NoMeta
               PROVE  published[meta] # Missing /\ store[meta] = Whole(published[meta])
    BY DEF CommittedIsWhole
  <2>1. InSync /\ pushed = NumBuckets + 1 /\ meta = clock /\ clock \in Versions
        /\ published[clock] = policy
    BY DEF IInv, StoreInv
  <2>2. \A b \in Buckets : store[clock][b] = policy
    BY <2>1, NumBucketsAssumption DEF IInv, StoreInv, Buckets
  <2>3. store[clock] = Whole(policy)
    BY <2>1, <2>2 DEF IInv, TypeOK, Whole
  <2> QED
    BY <2>1, <2>3 DEF IInv, TypeOK, Contents, Missing
<1>5. IInv => StoreConsistent
  BY <1>2, <1>3, <1>4 DEF StoreConsistent
<1>6. IInv => ServesPublished
  BY DEF IInv
<1> QED
  BY <1>1, <1>5, <1>6, InductiveInvariant, PTL

\* The weight store shows no torn snapshot and leaks none, as the runs check it.
THEOREM StoreSafe ==
  ASSUME StorePersists = FALSE
  PROVE  Spec => []StoreConsistent
BY SyncSafety, PTL

-----------------------------------------------------------------------------
(* No worker is left behind, also when the store outlives its run.         *)

\* A poll that may end without a pull starts from what the worker's label says;
\* a stale snapshot moves local below the version asked for, never above it.
LabelInv(r) ==
  /\ phase = "boot" => pc[r] = "idle"
  /\ phase \in {"release", "roll"} => pc[r] = "done"
  /\ pc[r] = "poll" /\ local[r] >= clock => label[r] >= clock
  /\ pc[r] = "done" /\ InSync => label[r] >= clock

\* A step of the protocol keeps the relation of label and polled version.
LEMMA LabelStep ==
  ASSUME TypeOK, [Next]_vars, NEW r \in Rollouts, LabelInv(r)
  PROVE  LabelInv(r)'
<1> USE MaxVersionAssumption
    DEF TypeOK, LabelInv, InSync, runnerVars, actorVars, storeVars, pullVars, rolloutVars, bookVars
<1>1. CASE StartSync
  BY <1>1 DEF StartSync
<1>2. CASE SyncAnswered \/ SyncRaises \/ Train \/ SaveCheckpoint
  BY <1>2 DEF SyncAnswered, SyncRaises, Train, SaveCheckpoint
<1>3. CASE PushBucket \/ CommitMeta \/ ReclaimPrevious \/ Release
  BY <1>3 DEF PushBucket, CommitMeta, ReclaimPrevious, Release
<1>4. ASSUME NEW q \in Rollouts, Worker(q)
      PROVE  LabelInv(r)'
  <2>1. CASE q # r
    BY <1>4, <2>1
       DEF Worker, SeeVersion, FetchBucket, ApplySnapshot, MissingBucket, AlreadyCurrent, PullTimeout
  <2>2. CASE q = r
    <3> Worker(r)
      BY <1>4, <2>2
    <3>1. CASE SeeVersion(r) \/ FetchBucket(r) \/ MissingBucket(r)
      BY <3>1 DEF SeeVersion, FetchBucket, MissingBucket
    <3>2. CASE ApplySnapshot(r)
      BY <3>2 DEF ApplySnapshot
    <3>3. CASE AlreadyCurrent(r) \/ PullTimeout(r)
      BY <3>3 DEF AlreadyCurrent, PullTimeout
    <3> QED
      BY <3>1, <3>2, <3>3 DEF Worker
  <2> QED
    BY <2>1, <2>2
<1>5. CASE Restart
  BY <1>5 DEF Restart
<1>6. CASE UNCHANGED vars
  BY <1>6 DEF vars
<1> QED
  BY <1>1, <1>2, <1>3, <1>4, <1>5, <1>6 DEF Next, Runner, Actor

\* A sync that returns leaves no worker below the version that was asked for,
\* whether or not the store still holds what an earlier run left in it.
THEOREM NoWorkerBehind == Spec => []NeverBehind
<1> DEFINE LInv == TypeOK /\ \A r \in Rollouts : LabelInv(r)
<1>1. Init => LInv
  <2> SUFFICES ASSUME Init, NEW r \in Rollouts PROVE TypeOK /\ LabelInv(r)
    BY InitType
  <2> QED
    BY InitType DEF Init, LabelInv, InSync
<1>2. LInv /\ [Next]_vars => LInv'
  BY NextType, LabelStep
<1>3. LInv => NeverBehind
  BY DEF LabelInv, InSync, NeverBehind
<1> QED
  BY <1>1, <1>2, <1>3, PTL DEF Spec

-----------------------------------------------------------------------------
(* The sync implements PolicyBroadcast.                                    *)

\* The sync protocol starts where the broadcast starts.
LEMMA InitRefines == Init => Broadcast!Init
<1> SUFFICES ASSUME Init PROVE Broadcast!Init
  OBVIOUS
<1> QED
  BY WholeTyped DEF Init, Broadcast!Init, Contents

\* Starting and ending a sync are Begin and Complete, loading a snapshot is
\* Deliver, training is Update, a restart is Reset; the rest stutters.
LEMMA StepRefines ==
  ASSUME StorePersists = FALSE, IInv, [Next]_vars
  PROVE  [Broadcast!Next]_(Broadcast!vars)
<1> TypeOK /\ TypeOK'
  BY NextType DEF IInv
<1>0. Whole(policy) \in [Buckets -> Contents] /\ Whole(policy') \in [Buckets -> Contents]
  BY WholeTyped DEF TypeOK
<1> USE DEF runnerVars, actorVars, storeVars, pullVars, rolloutVars, bookVars, Broadcast!vars
<1>1. CASE StartSync
  <2>1. Broadcast!Begin
    BY <1>1 DEF StartSync, Broadcast!Begin
  <2> QED
    BY <2>1 DEF Broadcast!Next
<1>2. CASE Train
  <2>1. Broadcast!Update
    BY <1>0, <1>2 DEF Train, Broadcast!Update
  <2> QED
    BY <2>1 DEF Broadcast!Next
<1>3. CASE Release
  <2>1. Broadcast!Complete
    BY <1>3 DEF Release, Broadcast!Complete, IInv, WorkerInv, InSync
  <2> QED
    BY <2>1 DEF Broadcast!Next
<1>4. CASE SyncAnswered \/ SyncRaises \/ SaveCheckpoint \/ PushBucket \/ CommitMeta
             \/ ReclaimPrevious
  BY <1>4 DEF SyncAnswered, SyncRaises, SaveCheckpoint, PushBucket, CommitMeta, ReclaimPrevious
<1>5. ASSUME NEW r \in Rollouts, Worker(r)
      PROVE  [Broadcast!Next]_(Broadcast!vars)
  <2>1. InSync
    BY <1>5
       DEF Worker, SeeVersion, FetchBucket, ApplySnapshot, MissingBucket, AlreadyCurrent,
           PullTimeout, IInv, WorkerInv, TypeOK, InSync
  <2>2. CASE ApplySnapshot(r)
    <3>1. got[r] = Whole(policy)
      BY <2>1, <2>2, FetchedIsWhole DEF ApplySnapshot
    <3>2. Broadcast!Deliver(r)
      BY <2>1, <2>2, <3>1 DEF ApplySnapshot, Broadcast!Deliver, InSync
    <3> QED
      BY <3>2 DEF Broadcast!Next
  <2>3. CASE MissingBucket(r)
    BY <2>1, <2>3, FetchedIsWhole DEF MissingBucket
  <2>4. CASE SeeVersion(r) \/ FetchBucket(r) \/ AlreadyCurrent(r) \/ PullTimeout(r)
    BY <2>4 DEF SeeVersion, FetchBucket, AlreadyCurrent, PullTimeout
  <2> QED
    BY <1>5, <2>2, <2>3, <2>4 DEF Worker
<1>6. CASE Restart
  <2>1. Broadcast!Reset
    BY <1>0, <1>6 DEF Restart, Broadcast!Reset, TypeOK
  <2> QED
    BY <2>1 DEF Broadcast!Next
<1>7. CASE UNCHANGED vars
  BY <1>7 DEF vars
<1> QED
  BY <1>1, <1>2, <1>3, <1>4, <1>5, <1>6, <1>7 DEF Next, Runner, Actor

\* Every behaviour of the sync protocol is one of the abstract broadcast.
THEOREM Refinement ==
  ASSUME StorePersists = FALSE
  PROVE  Spec => ImplementsBroadcast
BY InitRefines, StepRefines, InductiveInvariant, PTL
   DEF Spec, ImplementsBroadcast, Broadcast!Spec
=============================================================================
