------------------------------- MODULE Replay -------------------------------
(***************************************************************************)
(* The replay of real episodes (runtime/replay/online_replay.py behind the *)
(* single-threaded actor workers/replay/replay_worker.py): each operation  *)
(* is one remote call, so one step.  ImaginedStarts.tla says who calls     *)
(* them and when.                                                          *)
(*                                                                         *)
(* An episode is its task, its outcome and its length; it succeeds, if it  *)
(* does, at its last step, as real rollouts do (finish_step = length).     *)
(* Every stored record is valid: _sample_limit never goes below            *)
(* sequence_length.  collection_index always equals episode_id and is not  *)
(* kept apart; task_episode_index, rank and the tensors are data.          *)
(***************************************************************************)
EXTENDS Integers, Sequences, FiniteSets, SequencesExt, FiniteSetsExt

CONSTANTS
  NumTasks,        \* replay.cfg.task_ids = 1 .. NumTasks
  Capacity,        \* transitions kept per task (_capacity_for_task)
  SeqLen,          \* sequence_length
  WindowEnv,       \* steps of a classifier window: window * chunk_size
  Stride,          \* classifier_early_neg_stride
  RecentCount      \* replay_sampling.recent_episode_count

ASSUME ReplayAssumption ==
  /\ {NumTasks, SeqLen, WindowEnv, Stride} \subseteq Nat \ {0}
  /\ {RecentCount, Capacity} \subseteq Nat
  /\ Capacity >= SeqLen     \* both branches of _capacity_for_task as shipped

Tasks == 1 .. NumTasks
NoLimit == -1               \* staleness_threshold None or negative

VARIABLES
  stored,          \* task -> its records, oldest first (episodes_by_task)
  nextId,          \* _next_episode_id
  stamp,           \* _current_policy_version
  pendingLatest,   \* _pending_latest_online_episode_ids
  taskCursor,      \* _task_sample_cursor
  startCursor,     \* _initial_condition_cursor
  windowQueue,     \* _classifier_pending_windows
  batch,           \* records of the last sample()
  windows,         \* windows of the last sample_classifier_windows()
  led,             \* history: ids that opened a batch, or were met when too stale
  picked,          \* history: task -> balanced picks since the records changed
  drawn            \* history: id -> starts drawn since the records changed

contents == <<stored, nextId, pendingLatest>>
replayVars == <<stored, nextId, stamp, pendingLatest, taskCursor, startCursor,
                windowQueue, batch, windows, led, picked, drawn>>

Nothing == [t \in Tasks |-> <<>>]
\* A set of numbers in increasing order: the k-th has k - 1 of them below it.
InOrder(S) ==
  [k \in 1 .. Cardinality(S) |-> CHOOSE i \in S : Cardinality({j \in S : j < i}) = k - 1]

Records(s) == UNION {ToSet(s[t]) : t \in Tasks}
Transitions(recs) == Cardinality(UNION {{i} \X (1 .. recs[i].len) : i \in DOMAIN recs})
RecordIds == {r.id : r \in Records(stored)}

InitReplay ==
  /\ stored = Nothing /\ nextId = 0 /\ stamp = 0
  /\ pendingLatest = {} /\ taskCursor = 0 /\ startCursor = 0
  /\ windowQueue = <<>> /\ batch = <<>> /\ windows = <<>>
  /\ led = {} /\ picked = [t \in Tasks |-> 0] /\ drawn = <<>>

-----------------------------------------------------------------------------
(* Writing *)

\* Faulty: `if` where the code says `while`.
EvictedOnce(recs) == IF Transitions(recs) > Capacity THEN Tail(recs) ELSE recs

\* The while loop of add_episode: oldest first, until the task fits.
Evicted(recs) ==
  LET fits == {k \in 1 .. Len(recs) + 1 :
                 Transitions(SubSeq(recs, k, Len(recs))) <= Capacity}
  IN SubSeq(recs, Min(fits), Len(recs))

\* add_episode on the contents [stored, next, pending]; an episode shorter
\* than a training sequence is refused before it takes an id.
With(rep, e, source, version) ==
  IF e.len < SeqLen THEN rep ELSE
  LET r == [id |-> rep.next, task |-> e.task, success |-> e.success,
            len |-> e.len, source |-> source, version |-> version]
  IN [stored |-> [rep.stored EXCEPT ![e.task] = Evicted(Append(@, r))],
      next |-> rep.next + 1,
      pending |-> IF source = "online" THEN rep.pending \cup {rep.next}
                                       ELSE rep.pending]

WithAll(rep, eps, source, version) ==
  LET after[n \in 0 .. Len(eps)] ==
        IF n = 0 THEN rep ELSE With(after[n - 1], eps[n], source, version)
  IN after[Len(eps)]

ContentsBecome(rep) ==
  /\ stored' = rep.stored /\ nextId' = rep.next /\ pendingLatest' = rep.pending
  /\ picked' = [t \in Tasks |-> 0] /\ drawn' = <<>>
  /\ batch' = <<>> /\ windows' = <<>>

\* One add_episode per episode: append_real_trajectories and
\* seed_from_offline loop over it inside one remote call.
AddEpisodes(eps, source) ==
  /\ ContentsBecome(WithAll(
       [stored |-> stored, next |-> nextId, pending |-> pendingLatest],
       eps, source, stamp))
  /\ UNCHANGED <<stamp, taskCursor, startCursor, windowQueue, led>>

\* Faulty: the left-over classifier windows survive.
ReplaceKeepsWindows(eps, version) ==
  /\ ContentsBecome(WithAll([stored |-> Nothing, next |-> 0, pending |-> {}],
                            eps, "online", version))
  /\ stamp' = version
  /\ taskCursor' = 0 /\ startCursor' = 0 /\ UNCHANGED windowQueue
  /\ led' = {}

\* replace_real_trajectories: ids, cursors and everything pending restart.
ReplaceEpisodes(eps, version) ==
  /\ ContentsBecome(WithAll([stored |-> Nothing, next |-> 0, pending |-> {}],
                            eps, "online", version))
  /\ stamp' = version
  /\ taskCursor' = 0 /\ startCursor' = 0 /\ windowQueue' = <<>>
  /\ led' = {}

SetPolicyVersion(version) ==
  /\ stamp' = version
  /\ UNCHANGED <<contents, taskCursor, startCursor, windowQueue, batch,
                 windows, led, picked, drawn>>

-----------------------------------------------------------------------------
(* Sampling training sequences *)

IsStale(r, limit) == limit >= 0 /\ stamp - r.version > limit

\* _fresh_valid_records falls back to everything when all is stale.
Fresh(limit) ==
  LET fresh == {r \in Records(stored) : ~IsStale(r, limit)}
  IN IF fresh = {} THEN Records(stored) ELSE fresh

\* _records_by_sampling_pool: the pools with a record to give.
Pools(valid, mixed) ==
  LET online == {r \in valid : r.source = "online"}
      cold   == {r \in valid : r.source = "coldstart"}
      recent == {r \in online :
                   Cardinality({q \in online : q.id > r.id}) < RecentCount}
  IN IF mixed THEN {recent, online, cold} \ {{}} ELSE {valid}

\* _choose_one_task_balanced: the tasks of the pool take turns.
Turn(pool, index) ==
  LET tasks == InOrder({r.task : r \in pool})
  IN {r \in pool : r.task = tasks[(index % Len(tasks)) + 1]}

\* _pop_pending_latest_online looks from the newest id down and drops every
\* id it looks at, up to the first whose record is among the valid ones.
Seen(there) == {i \in pendingLatest : there = {} \/ i >= Max(there)}

\* Faulty: the pending ids are cleared once one of them is found.
PendingCleared(there) == {}

StillPending(there) == pendingLatest \ Seen(there)

\* sample(): with latest_online_required the newest pending online episode
\* opens the batch.
Sample(size, limit, mixed, latest) ==
  LET valid == Fresh(limit)
      there == {i \in pendingLatest : \E r \in valid : r.id = i}
      leads == latest /\ there # {}
      free  == IF leads THEN size - 1 ELSE size
  IN /\ valid # {}
     /\ \E picks \in [1 .. free -> valid] :
          /\ \A k \in 1 .. free :
               \E pool \in Pools(valid, mixed) :
                 picks[k] \in Turn(pool, taskCursor + k - 1)
          /\ batch' = (IF leads THEN <<CHOOSE r \in valid : r.id = Max(there)>>
                                ELSE <<>>) \o picks
          /\ picked' = [t \in Tasks |->
               picked[t] + Cardinality({k \in 1 .. free : picks[k].task = t})]
     /\ taskCursor' = taskCursor + free
     /\ led' = IF latest THEN led \cup (Seen(there) \cap RecordIds) ELSE led
     /\ pendingLatest' = IF latest THEN StillPending(there) ELSE pendingLatest
     /\ UNCHANGED <<stored, nextId, stamp, startCursor, windowQueue, windows,
                    drawn>>

-----------------------------------------------------------------------------
(* Classifier windows, "lumos" protocol.  "wmpo" draws each window from the *)
(* whole replay and keeps nothing.                                          *)

Candidates == {r \in Records(stored) : r.len >= WindowEnv}
EndWindow(r) == [rec |-> r, end |-> r.len, positive |-> r.success, last |-> TRUE]
EarlyEnds(r) == {e \in WindowEnv .. r.len - Stride : (r.len - e) % Stride = 0}
Early(r, e)  == [rec |-> r, end |-> e, positive |-> FALSE, last |-> FALSE]

\* The windows one draw of r yields: its end and, when there is room, one
\* early negative.
WindowsOf(r) ==
  IF EarlyEnds(r) = {} THEN {<<EndWindow(r)>>}
  ELSE {<<EndWindow(r), Early(r, e)>> : e \in EarlyEnds(r)}

\* Faulty: what does not fit is thrown away.
LeftOverDropped(all, size) == <<>>
LeftOver(all, size) == SubSeq(all, size + 1, Len(all))

\* What was left over goes first; draws fill the batch; the window that does
\* not fit any more waits for the next one.
SampleWindows(size) ==
  /\ Candidates # {}
  /\ \E n \in 0 .. size :
       \E draws \in [1 .. n -> UNION {WindowsOf(r) : r \in Candidates}] :
         LET all == windowQueue \o FlattenSeq(draws)
         IN /\ Len(all) >= size
            /\ n > 0 => Len(windowQueue \o FlattenSeq(Front(draws))) < size
            /\ windows' = SubSeq(all, 1, size)
            /\ windowQueue' = LeftOver(all, size)
  /\ UNCHANGED <<contents, stamp, taskCursor, startCursor, batch, led, picked,
                 drawn>>

-----------------------------------------------------------------------------
(* Initial conditions of imagined episodes *)

Eligible(failed) == {r \in Records(stored) : failed => ~r.success}
EligibleOf(t, failed) ==
  LET places == InOrder({i \in DOMAIN stored[t] : failed => ~stored[t][i].success})
  IN [k \in DOMAIN places |-> stored[t][places[k]]]

\* The tasks that have one, in turn.
EligibleTasks(failed) == InOrder({t \in Tasks : EligibleOf(t, failed) # <<>>})

\* sample_initial_conditions raises: no record, or (for all episode starts)
\* a requested task without one.
CannotStart(failed) ==
  \/ Eligible(failed) = {}
  \/ ~failed /\ \E t \in Tasks : EligibleOf(t, failed) = <<>>

\* Faulty: the records of a task advance with every start, not every cycle.
StartEveryIndex(i, failed) ==
  LET tasks == EligibleTasks(failed)
      recs  == EligibleOf(tasks[(i % Len(tasks)) + 1], failed)
  IN recs[(i % Len(recs)) + 1]

\* The start number i: tasks take turns, and so do the records of a task.
StartAt(i, failed) ==
  LET tasks == EligibleTasks(failed)
      recs  == EligibleOf(tasks[(i % Len(tasks)) + 1], failed)
  IN recs[((i \div Len(tasks)) % Len(recs)) + 1]

DrawStarts(count, failed) ==
  LET new(id) == Cardinality({k \in 0 .. count - 1 :
                                StartAt(startCursor + k, failed).id = id})
  IN /\ startCursor' = startCursor + count
     /\ drawn' = [id \in RecordIds |->
                    (IF id \in DOMAIN drawn THEN drawn[id] ELSE 0) + new(id)]
     /\ UNCHANGED <<contents, stamp, taskCursor, windowQueue, batch, windows,
                    led, picked>>
=============================================================================
