--------------------------- MODULE CollectionProofs ---------------------------
(***************************************************************************)
(* What an interrupted and relaunched collection never loses or mixes, for *)
(* any number of items, workers and launches.                              *)
(*                                                                         *)
(* A rename replaces whatever has the target's name, so the argument is    *)
(* about names: the shard a dump worker writes has an index no readable    *)
(* shard has (Fresh), a hidden file has a trajectory's name only beside    *)
(* its reward file (Sealed), and an item in work is in nobody else's hands *)
(* and not complete on disk (Claims).                                      *)
(***************************************************************************)
EXTENDS Collection, TLAPS

Demos(d) == Demo(JobEnv(d))
Written(d) == ShardName(d, shard[d], dumps)
Target(d) == TrajOf(env[JobEnv(d)].item)

\* The item of the env is neither done nor given up.
Live(e) == env[e].st # "off" /\ ~(env[e].st = "back" /\ env[e].over)

EnvRecords == [st : EnvStates, item : Items \cup {NoItem}, taken : Nat,
               act : Items \cup {NoItem}, over : BOOLEAN]
Jobs == {<<>>} \cup {<<j>> : j \in [env : Envs, pc : {"written", "moved"}]}

Shape ==
  /\ phase \in {"off", "loop", "manifest", "done"}
  /\ overlap \in BOOLEAN /\ pending \subseteq Items
  /\ dumps \in 1 .. MaxDumps /\ launches \in 0 .. MaxLaunches
  /\ shard \in [Ranks -> Nat]
  /\ env \in [Envs -> EnvRecords]
  /\ queue \in [0 .. NumInfer - 1 -> [Envs -> Seq(Items)]]
  /\ job \in [Ranks -> Jobs]
  /\ writer \in [Ranks -> {<<>>} \cup {<<n>> : n \in Names}]
  /\ DOMAIN reward \subseteq Names /\ DOMAIN hidden \subseteq Names
  /\ \A n \in DOMAIN reward : reward[n] \in Contents
  /\ \A n \in DOMAIN hidden : hidden[n] \in Contents

\* Dump workers write only within a run, each the shard of its present index.
Writers ==
  /\ \A d \in Ranks : writer[d] # <<>> => phase = "loop" /\ d < dumps /\ writer[d] = <<Written(d)>>
  /\ \A d \in Ranks : job[d] # <<>> => writer[d] # <<>>

\* No readable shard has an index that is yet to be written.
Fresh ==
  phase = "loop" =>
    \A d \in Ranks : d < dumps =>
      /\ \A k \in Nat : k > shard[d] => ShardName(d, k, dumps) \notin DOMAIN reward
      /\ writer[d] = <<>> => Written(d) \notin DOMAIN reward

\* Readable contents of files of one name come from one attempt.
Agree ==
  \A n \in DOMAIN reward \cap DOMAIN hidden :
    reward[n].item # NoItem /\ hidden[n].item # NoItem => reward[n] = hidden[n]

\* A reward file with a trajectory's name holds that item; a hidden file has such
\* a name only beside it.
Sealed ==
  /\ \A n \in DOMAIN reward : n.kind = "traj" => reward[n].item = n.index
  /\ \A n \in DOMAIN hidden : n.kind = "traj" => n \in DOMAIN reward /\ hidden[n].item # NoItem

\* Where the demo of a call in progress is.
Call(d) ==
  /\ job[d] # <<>> =>
       /\ env[JobEnv(d)].st = "dump"
       /\ d = DumpOf(JobEnv(d))
       /\ Written(d) \in DOMAIN hidden /\ hidden[Written(d)] = Demos(d)
  /\ (job[d] # <<>> /\ job[d][1].pc = "written") =>
       Written(d) \in DOMAIN reward /\ reward[Written(d)] = Demos(d)
  /\ (job[d] # <<>> /\ job[d][1].pc = "moved") =>
       /\ Written(d) \notin DOMAIN reward
       /\ Target(d) \in DOMAIN reward /\ reward[Target(d)] = Demos(d)
  /\ (job[d] = <<>> /\ writer[d] # <<>>) =>
       Written(d) \in DOMAIN reward /\ reward[Written(d)] = Nothing
Calls == \A d \in Ranks : Call(d)

\* Items in work are real, in one place, and not complete on disk.
Claims ==
  /\ \A e \in Envs : Live(e) => env[e].item \in Items \ (pending \cup CompleteItems)
  /\ \A e, f \in Envs : Live(e) /\ Live(f) /\ env[e].item = env[f].item => e = f
  /\ pending \cap CompleteItems = {}

\* Outside the loop nobody works; at the top of a lock-step round every env waits.
Stages ==
  /\ phase # "loop" => \A e \in Envs : env[e].st = "off"
  /\ (phase = "loop" /\ ~overlap /\ turn = "top") => \A e \in Envs : env[e].st \in {"off", "ready"}
  /\ \A e \in Envs : env[e].st = "dump" => env[e].over

OnePair == \A m, n \in CompletePairs : reward[m].item = reward[n].item => m = n

IInv == Shape /\ Writers /\ Fresh /\ Agree /\ Sealed /\ Calls /\ Claims /\ Stages /\ OnePair
        /\ KeptOnDisk /\ ManifestTruthful

-----------------------------------------------------------------------------
(* Names and complete pairs.                                               *)

\* Shard names tell dump workers and indices apart.
LEMMA ShardNames ==
  ASSUME NEW w \in 1 .. MaxDumps, NEW d \in Ranks, NEW f \in Ranks, d < w, f < w,
         NEW i \in Nat, NEW j \in Nat
  PROVE  /\ ShardName(d, i, w) \in Names
         /\ ShardName(d, i, w).kind = "shard" /\ ShardName(d, i, w).index = i
         /\ ShardName(d, i, w) = ShardName(f, j, w) => d = f /\ i = j
BY SizesAssumption DEF ShardName, Names, Ranks, Alone

\* A trajectory's name is no shard's.
LEMMA TrajNames ==
  ASSUME NEW i \in Items
  PROVE  TrajOf(i) \in Names /\ TrajOf(i).kind = "traj" /\ TrajOf(i).index = i
BY DEF TrajOf, Names

\* No name of a file in work, and no item of it, is complete while nothing changes
\* on disk.
LEMMA SameFiles ==
  ASSUME UNCHANGED <<reward, hidden, writer>>
  PROVE  CompletePairs' = CompletePairs /\ CompleteItems' = CompleteItems
BY DEF CompletePairs, CompleteItems, PairAt, BeingWritten

\* A manifest stays true while the pairs it lists stay what they are.
LEMMA ManifestStays ==
  ASSUME ManifestTruthful, manifest' = manifest,
         \A m \in CompletePairs : m \in CompletePairs' /\ reward'[m] = reward[m]
  PROVE  ManifestTruthful'
<1>1. CompleteItems \subseteq CompleteItems'
  BY DEF CompleteItems
<1> QED BY <1>1 DEF ManifestTruthful

\* The dump worker of an env exists.
LEMMA DumpOfRange ==
  ASSUME NEW e \in Envs, dumps \in 1 .. MaxDumps
  PROVE  DumpOf(e) \in Ranks /\ DumpOf(e) < dumps
BY SizesAssumption DEF DumpOf, Envs, Ranks

\* Names being written are those of the writers.
LEMMA WrittenNames ==
  ASSUME Writers
  PROVE  \A n : n \in BeingWritten <=> \E d \in Ranks : writer[d] # <<>> /\ n = Written(d)
BY DEF Writers, BeingWritten

-----------------------------------------------------------------------------
(* Steps of driver, inference and env workers, which touch no file.        *)

\* What such a step keeps as long as finished envs stay where they are.
LEMMA FilesAside ==
  ASSUME IInv, UNCHANGED <<dumpers, disk, launches, phase>>,
         \A e \in Envs : env[e].st = "dump" => env'[e].st = "dump" /\ env'[e].item = env[e].item
  PROVE  /\ Writers' /\ Fresh' /\ Agree' /\ Sealed' /\ Calls' /\ OnePair' /\ KeptOnDisk'
         /\ ManifestTruthful' /\ CompleteItems' = CompleteItems
<1>1. /\ UNCHANGED <<dumps, writer, shard, size, job, reward, hidden, manifest, kept, launches, phase>>
      /\ CompletePairs' = CompletePairs /\ CompleteItems' = CompleteItems
  BY SameFiles DEF dumpers, disk
<1>2. Writers' /\ Fresh'
  BY <1>1 DEF IInv, Writers, Fresh, Written, ShardName
<1>3. Agree' /\ Sealed'
  BY <1>1 DEF IInv, Agree, Sealed
<1>4. OnePair' /\ KeptOnDisk' /\ ManifestTruthful'
  BY <1>1 DEF IInv, OnePair, KeptOnDisk, ManifestTruthful
<1>5. Calls'
  <2>1. SUFFICES ASSUME NEW d \in Ranks, job[d] # <<>>
                 PROVE  /\ env'[JobEnv(d)].st = "dump"
                        /\ env'[JobEnv(d)].item = env[JobEnv(d)].item
    BY <1>1 DEF IInv, Calls, Call, Written, ShardName, Demos, Demo, JobEnv, Target, TrajOf, DumpOf
  <2>2. JobEnv(d) \in Envs
    BY <2>1 DEF IInv, Shape, Jobs, JobEnv
  <2> QED BY <2>1, <2>2 DEF IInv, Calls, Call
<1> QED BY <1>1, <1>2, <1>3, <1>4, <1>5

\* An env that keeps its item and gains no life keeps the claims.
LEMMA ClaimsKept ==
  ASSUME Claims, pending' = pending, CompleteItems' = CompleteItems,
         \A e \in Envs : env'[e].item = env[e].item /\ (Live(e)' => Live(e))
  PROVE  Claims'
BY DEF Claims

\* Changing the state of some envs keeps the types.
LEMMA StatesShape ==
  ASSUME env \in [Envs -> EnvRecords], NEW es, NEW s \in EnvStates
  PROVE  SetStates(es, s) \in [Envs -> EnvRecords]
BY DEF SetStates, EnvRecords

\* An env whose state alone changes.
LEMMA StateChange ==
  ASSUME NEW r \in EnvRecords, NEW s
  PROVE  /\ [r EXCEPT !.st = s].st = s /\ [r EXCEPT !.st = s].item = r.item
         /\ [r EXCEPT !.st = s].over = r.over
BY DEF EnvRecords

LEMMA StartRoundKeeps ==
  ASSUME IInv, StartRound
  PROVE  IInv' /\ CompleteItems' = CompleteItems
<1>1. UNCHANGED <<phase, overlap, pending, queue, dumpers, disk, launches>>
  BY DEF StartRound
<1>2. env' = SetStates(Active, "infer")
  BY DEF StartRound
<1>3. \A e \in Envs : env[e].st \in {"off", "ready"}
  BY DEF IInv, Stages, StartRound
<1>4. \A e \in Envs : env'[e] = IF env[e].st = "off" THEN env[e] ELSE [env[e] EXCEPT !.st = "infer"]
  BY <1>2 DEF SetStates, Active
<1>5. /\ Writers' /\ Fresh' /\ Agree' /\ Sealed' /\ Calls' /\ OnePair' /\ KeptOnDisk'
      /\ ManifestTruthful' /\ CompleteItems' = CompleteItems
  BY <1>1, <1>3, FilesAside
<1>6. env' \in [Envs -> EnvRecords]
  BY <1>2, StatesShape DEF IInv, Shape, EnvStates
<1>7. Shape'
  BY <1>1, <1>6 DEF IInv, Shape, dumpers, disk
<1>8. Claims'
  <2>1. ASSUME NEW e \in Envs
        PROVE  env'[e].item = env[e].item /\ (Live(e)' => Live(e))
    <3>1. env[e] \in EnvRecords
      BY DEF IInv, Shape
    <3>2. CASE env[e].st = "off"
      <4>1. env'[e] = env[e]
        BY <1>4, <3>2
      <4> QED BY <4>1 DEF Live
    <3>3. CASE env[e].st = "ready"
      <4>1. env'[e] = [env[e] EXCEPT !.st = "infer"]
        BY <1>4, <3>3
      <4> QED BY <4>1, <3>1, <3>3, StateChange DEF Live
    <3> QED BY <1>3, <3>2, <3>3
  <2> QED BY <2>1, <1>1, <1>5, ClaimsKept DEF IInv
<1>9. Stages'
  <2>1. phase = "loop" /\ phase' = "loop" /\ turn' = "wait"
    BY <1>1 DEF StartRound
  <2>2. ASSUME NEW e \in Envs, env'[e].st = "dump"
        PROVE  FALSE
    <3>1. env[e] \in EnvRecords
      BY DEF IInv, Shape
    <3>2. CASE env[e].st = "off"
      BY <1>4, <2>2, <3>2
    <3>3. CASE env[e].st # "off"
      <4>1. env'[e] = [env[e] EXCEPT !.st = "infer"]
        BY <1>4, <3>3
      <4> QED BY <2>2, <3>1, <4>1, StateChange
    <3> QED BY <3>2, <3>3
  <2> QED BY <2>1, <2>2 DEF Stages
<1> QED BY <1>5, <1>7, <1>8, <1>9 DEF IInv

\* Moving idle envs to a state that is no end and no dump.
LEMMA IdleEnvs ==
  ASSUME IInv, NEW es, \A e \in es : e \in Envs => env[e].st = "ready",
         NEW s \in {"infer", "off"},
         \/ env' = SetStates(es, s)
         \/ env' = env,
         overlap' = overlap, overlap,
         UNCHANGED <<phase, pending, queue, dumpers, disk, launches>>
  PROVE  IInv' /\ CompleteItems' = CompleteItems
<1>1. \A e \in Envs : env'[e] = env[e] \/ (env[e].st = "ready" /\ env'[e] = [env[e] EXCEPT !.st = s])
  BY DEF SetStates
<1>2. env' \in [Envs -> EnvRecords]
  BY StatesShape DEF IInv, Shape, EnvStates
<1>3. ASSUME NEW e \in Envs
      PROVE  /\ env'[e].item = env[e].item /\ (Live(e)' => Live(e))
             /\ (env'[e].st = "dump" <=> env[e].st = "dump") /\ env'[e].over = env[e].over
             /\ (env[e].st = "off" => env'[e].st = "off")
  <2>1. env[e] \in EnvRecords
    BY DEF IInv, Shape
  <2>2. CASE env'[e] = env[e]
    BY <2>2 DEF Live
  <2>3. CASE env[e].st = "ready" /\ env'[e] = [env[e] EXCEPT !.st = s]
    BY <2>1, <2>3, StateChange DEF Live
  <2> QED BY <1>1, <2>2, <2>3
<1>4. /\ Writers' /\ Fresh' /\ Agree' /\ Sealed' /\ Calls' /\ OnePair' /\ KeptOnDisk'
      /\ ManifestTruthful' /\ CompleteItems' = CompleteItems
  BY <1>3, FilesAside
<1>5. Shape'
  BY <1>2 DEF IInv, Shape, dumpers, disk
<1>6. Claims'
  BY <1>3, <1>4, ClaimsKept DEF IInv
<1>7. Stages'
  BY <1>3 DEF IInv, Stages
<1> QED BY <1>4, <1>5, <1>6, <1>7 DEF IInv

LEMMA StartTurnKeeps ==
  ASSUME IInv, StartTurn
  PROVE  IInv' /\ CompleteItems' = CompleteItems
<1>1. \A e \in In("ready") : env[e].st = "ready"
  BY DEF In
<1>2. \A e \in Ready : env[e].st = "ready"
  BY <1>1 DEF Ready
<1>3. CASE CanLaunch
  BY <1>2, <1>3, IdleEnvs DEF StartTurn
<1>4. CASE ~CanLaunch
  BY <1>1, <1>4, IdleEnvs DEF StartTurn
<1> QED BY <1>3, <1>4

LEMMA EndTurnKeeps ==
  ASSUME IInv, EndTurn
  PROVE  IInv' /\ CompleteItems' = CompleteItems
<1>1. \A e \in In("ready") : env[e].st = "ready"
  BY DEF In
<1> QED BY <1>1, IdleEnvs DEF EndTurn

\* The inference worker that holds the queue of an env.
LEMMA OwnerRange ==
  ASSUME NEW e \in Envs
  PROVE  Owner(e) \in 0 .. NumInfer - 1
BY SizesAssumption DEF Owner, Envs

\* A batch always finds an action for each of its envs.
LEMMA FilledActions ==
  ASSUME IInv, NEW e \in Envs, env[e].st = "infer"
  PROVE  Head(Filled(e)) \in Items /\ Tail(Filled(e)) \in Seq(Items)
<1>1. env[e].item \in Items
  BY DEF IInv, Claims, Live
<1>2. queue[Owner(e)][e] \in Seq(Items)
  BY OwnerRange DEF IInv, Shape
<1>3. Filled(e) \in Seq(Items) /\ Filled(e) # <<>>
  <2>1. CASE queue[Owner(e)][e] = <<>>
    <3>1. Filled(e) = [i \in 1 .. Chunk |-> env[e].item]
      BY <2>1 DEF Filled
    <3>2. Chunk \in Nat /\ Chunk >= 1
      BY SizesAssumption
    <3>3. Filled(e) \in Seq(Items) /\ Len(Filled(e)) = Chunk
      BY <1>1, <3>1, <3>2
    <3> QED BY <3>2, <3>3
  <2>2. CASE queue[Owner(e)][e] # <<>>
    BY <1>2, <2>2 DEF Filled
  <2> QED BY <2>1, <2>2
<1> QED BY <1>3

LEMMA InferKeeps ==
  ASSUME IInv, Infer
  PROVE  IInv' /\ CompleteItems' = CompleteItems
<1> DEFINE Stepping(e) == [env[e] EXCEPT !.st = "step", !.act = Head(Filled(e))]
           Stopped(e)  == [env[e] EXCEPT !.st = "off"]
<1>1. UNCHANGED <<phase, overlap, pending, dumpers, disk, launches>>
  BY DEF Infer
<1>2. ASSUME NEW e \in Envs
      PROVE  /\ env'[e] \in EnvRecords
             /\ env'[e].item = env[e].item /\ env'[e].over = env[e].over
             /\ env'[e].st = env[e].st \/ (env[e].st = "infer" /\ env'[e].st \in {"step", "off"})
  <2>1. env[e] \in EnvRecords
    BY DEF IInv, Shape
  <2>2. CASE e \notin In("infer")
    <3>1. env'[e] = env[e]
      BY <2>2 DEF Infer
    <3> QED BY <3>1, <2>1
  <2>3. CASE e \in In("infer")
    <3>1. env[e].st = "infer" /\ env'[e] \in {Stepping(e), Stopped(e)}
      BY <2>3 DEF Infer, In
    <3>2. Head(Filled(e)) \in Items
      BY <3>1, FilledActions
    <3>3. /\ Stepping(e) \in EnvRecords /\ Stepping(e).item = env[e].item
          /\ Stepping(e).over = env[e].over /\ Stepping(e).st = "step"
      BY <2>1, <3>2 DEF EnvRecords, EnvStates
    <3>4. /\ Stopped(e) \in EnvRecords /\ Stopped(e).item = env[e].item
          /\ Stopped(e).over = env[e].over /\ Stopped(e).st = "off"
      BY <2>1 DEF EnvRecords, EnvStates
    <3> QED BY <3>1, <3>3, <3>4
  <2> QED BY <2>2, <2>3
<1>3. env' \in [Envs -> EnvRecords]
  <2>1. env' = [e \in Envs |-> env'[e]]
    BY DEF Infer
  <2> QED BY <2>1, <1>2
<1>4. queue' \in [0 .. NumInfer - 1 -> [Envs -> Seq(Items)]]
  <2>1. DOMAIN queue = 0 .. NumInfer - 1
    BY DEF IInv, Shape
  <2>2. ASSUME NEW w \in 0 .. NumInfer - 1, NEW e \in Envs
        PROVE  (IF e \in In("infer") /\ Owner(e) = w THEN Tail(Filled(e)) ELSE queue[w][e]) \in Seq(Items)
    BY FilledActions DEF IInv, Shape, In
  <2> QED BY <2>1, <2>2 DEF Infer
<1>5. Shape'
  BY <1>1, <1>3, <1>4 DEF IInv, Shape, dumpers, disk
<1>6. /\ Writers' /\ Fresh' /\ Agree' /\ Sealed' /\ Calls' /\ OnePair' /\ KeptOnDisk'
      /\ ManifestTruthful' /\ CompleteItems' = CompleteItems
  <2>1. \A e \in Envs : env[e].st = "dump" => env'[e].st = "dump" /\ env'[e].item = env[e].item
    BY <1>2
  <2> QED BY <2>1, <1>1, FilesAside
<1>7. \A e \in Envs : Live(e)' => Live(e)
  BY <1>2 DEF Live
<1>8. Claims'
  BY <1>1, <1>2, <1>6, <1>7, ClaimsKept DEF IInv
<1>9. Stages'
  <2>1. \A e \in Envs : env[e].st \in {"off", "ready"} => env'[e].st = env[e].st
    BY <1>2
  <2>2. (phase' = "loop" /\ ~overlap' /\ turn' = "top") => phase = "loop" /\ ~overlap /\ turn = "top"
    BY <1>1 DEF Infer
  <2> QED BY <1>1, <1>2, <2>1, <2>2 DEF IInv, Stages
<1> QED BY <1>5, <1>6, <1>8, <1>9 DEF IInv

\* An env that was stepping is finished, lost or back.
LEMMA SteppedKeeps ==
  ASSUME IInv, NEW e \in Envs, env[e].st = "step",
         NEW r \in EnvRecords, env' = [env EXCEPT ![e] = r], r.item = env[e].item,
         r.st \in {"dump", "back"}, r.st = "dump" => r.over,
         UNCHANGED <<phase, overlap, turn, pending, queue, dumpers, disk, launches>>
  PROVE  IInv' /\ CompleteItems' = CompleteItems
<1>1. env \in [Envs -> EnvRecords]
  BY DEF IInv, Shape
<1>2. env' \in [Envs -> EnvRecords] /\ env'[e] = r /\ \A f \in Envs \ {e} : env'[f] = env[f]
  BY <1>1
<1>3. Shape'
  BY <1>2 DEF IInv, Shape, dumpers, disk
<1>4. /\ Writers' /\ Fresh' /\ Agree' /\ Sealed' /\ Calls' /\ OnePair' /\ KeptOnDisk'
      /\ ManifestTruthful' /\ CompleteItems' = CompleteItems
  <2>1. \A f \in Envs : env[f].st = "dump" => env'[f].st = "dump" /\ env'[f].item = env[f].item
    BY <1>2
  <2> QED BY <2>1, FilesAside
<1>5. Claims'
  <2>1. \A f \in Envs : env'[f].item = env[f].item /\ (Live(f)' => Live(f))
    BY <1>2 DEF Live
  <2> QED BY <2>1, <1>4, ClaimsKept DEF IInv
<1>6. Stages'
  BY <1>2 DEF IInv, Stages
<1> QED BY <1>3, <1>4, <1>5, <1>6 DEF IInv

LEMMA StepEnvKeeps ==
  ASSUME IInv, NEW e \in Envs, StepEnv(e)
  PROVE  IInv' /\ CompleteItems' = CompleteItems
<1>1. env[e].st = "step" /\ UNCHANGED <<phase, overlap, turn, pending, queue, dumpers, disk, launches>>
  BY DEF StepEnv, driver
<1>2. env \in [Envs -> EnvRecords] /\ env[e] \in EnvRecords
  BY DEF IInv, Shape
<1>3. PICK over \in BOOLEAN :
        env' = [env EXCEPT ![e].taken = @ + 1, ![e].act = NoItem, ![e].over = over,
                           ![e].st = IF over THEN "dump" ELSE "back"]
  BY DEF StepEnv
<1> DEFINE s == IF over THEN "dump" ELSE "back"
           t == env[e].taken + 1
           r == [env[e] EXCEPT !.taken = t, !.act = NoItem, !.over = over, !.st = s]
<1>4. env' = [env EXCEPT ![e] = r]
  BY <1>2, <1>3
<1>5. s \in EnvStates /\ s \in {"dump", "back"} /\ (s = "dump" => over)
  BY DEF EnvStates
<1>6. t \in Nat
  BY <1>2 DEF EnvRecords
<1> HIDE DEF s, t
<1>7. r \in EnvRecords /\ r.item = env[e].item /\ r.st = s /\ r.over = over
  <2>1. env[e] \in EnvRecords /\ over \in BOOLEAN
    BY <1>2
  <2> QED BY <2>1, <1>5, <1>6 DEF EnvRecords
<1> HIDE DEF r
<1>8. r.st \in {"dump", "back"} /\ (r.st = "dump" => r.over)
  BY <1>5, <1>7
<1> QED BY <1>1, <1>4, <1>7, <1>8, SteppedKeeps

LEMMA RespawnKeeps ==
  ASSUME IInv, NEW e \in Envs, Respawn(e)
  PROVE  IInv' /\ CompleteItems' = CompleteItems
<1>1. env[e].st = "step" /\ UNCHANGED <<phase, overlap, turn, pending, queue, dumpers, disk, launches>>
  BY DEF Respawn, driver
<1>2. env \in [Envs -> EnvRecords]
  BY DEF IInv, Shape
<1> DEFINE r == [env[e] EXCEPT !.over = TRUE, !.st = "back"]
<1>3. r \in EnvRecords /\ r.item = env[e].item /\ r.st = "back"
  BY <1>2 DEF EnvRecords, EnvStates
<1>4. env' = [env EXCEPT ![e] = r]
  BY <1>2 DEF Respawn
<1> HIDE DEF r
<1> QED BY <1>1, <1>3, <1>4, SteppedKeeps

-----------------------------------------------------------------------------
(* Items handed to envs.                                                   *)

\* Items are numbered from one.
LEMMA ItemsAreNumbers == Items \subseteq Nat \ {0}
BY SizesAssumption DEF Items

\* Envs get different items of the work list, or none.
LEMMA DealtItems ==
  ASSUME NEW es, es \subseteq Envs, NEW work, work \subseteq Items, NEW deal \in Deals(es, work)
  PROVE  /\ \A e \in es : deal[e] = NoItem \/ deal[e] \in work
         /\ \A e, f \in es : deal[e] = deal[f] /\ deal[e] # NoItem => e = f
         /\ \A e \in es : deal[e] # NoItem => deal[e] \in Dealt(deal)
         /\ DOMAIN deal = es
<1>1. deal \in [es -> work \cup {NoItem}]
  BY DEF Deals
<1>2. \A e, f \in es : e < f /\ deal[f] # NoItem => deal[e] < deal[f]
  BY DEF Deals
<1>3. ASSUME NEW e \in es, NEW f \in es, deal[e] = deal[f], deal[e] # NoItem
      PROVE  e = f
  <2>1. e \in Int /\ f \in Int /\ deal[e] \in Int
    <3>1. deal[e] \in Items \cup {NoItem} /\ e \in Envs /\ f \in Envs
      BY <1>1
    <3>2. \A g \in Envs : g \in Int
      BY SizesAssumption DEF Envs
    <3>3. \A i \in Items \cup {NoItem} : i \in Int
      BY ItemsAreNumbers DEF NoItem
    <3> QED BY <3>1, <3>2, <3>3
  <2>2. CASE e < f
    BY <1>2, <1>3, <2>1, <2>2
  <2>3. CASE f < e
    BY <1>2, <1>3, <2>1, <2>3
  <2> QED BY <2>1, <2>2, <2>3
<1> QED BY <1>1, <1>3 DEF Dealt

\* An env set to an item.
LEMMA SetToItem ==
  ASSUME NEW i \in Items \cup {NoItem}
  PROVE  /\ SetTo(i) \in EnvRecords /\ SetTo(i).item = i
         /\ SetTo(i).st = (IF i = NoItem THEN "off" ELSE "ready")
BY DEF SetTo, Idle, EnvRecords, EnvStates, NoItem

LEMMA NextItemsKeeps ==
  ASSUME IInv, NEW es \in SUBSET Envs, \A e \in es : env[e].st = "back", NextItems(es),
         UNCHANGED <<phase, overlap, dumpers, disk, launches>>, phase = "loop",
         (~overlap /\ turn' = "top") => In("back") \subseteq es /\ Active \subseteq es
  PROVE  IInv' /\ CompleteItems' = CompleteItems
<1> DEFINE finished == {e \in es : env[e].over}
<1>1. PICK deal \in Deals(finished, pending) :
        /\ pending' = pending \ Dealt(deal)
        /\ queue' = Forget(queue, finished)
        /\ env' = [e \in Envs |->
             IF e \in finished THEN SetTo(deal[e])
             ELSE IF e \in es THEN [env[e] EXCEPT !.st = IF stop THEN "off" ELSE "ready"]
             ELSE env[e]]
  BY DEF NextItems
<1>2. /\ \A e \in finished : deal[e] = NoItem \/ deal[e] \in pending
      /\ \A e, f \in finished : deal[e] = deal[f] /\ deal[e] # NoItem => e = f
      /\ \A e \in finished : deal[e] # NoItem => deal[e] \in Dealt(deal)
  <2>1. finished \subseteq Envs /\ pending \subseteq Items
    BY DEF IInv, Shape
  <2>2. deal \in Deals(finished, pending)
    BY <1>1
  <2> HIDE DEF finished
  <2>3. \A e \in finished : deal[e] = NoItem \/ deal[e] \in pending
    BY <2>1, <2>2, DealtItems
  <2>4. \A e, f \in finished : deal[e] = deal[f] /\ deal[e] # NoItem => e = f
    BY <2>1, <2>2, DealtItems
  <2>5. \A e \in finished : deal[e] # NoItem => deal[e] \in Dealt(deal)
    BY <2>1, <2>2, DealtItems
  <2> QED BY <2>3, <2>4, <2>5
<1>3. ASSUME NEW e \in finished
      PROVE  /\ deal[e] \in Items \cup {NoItem}
             /\ env'[e] \in EnvRecords /\ env'[e].item = deal[e]
             /\ env'[e].st = (IF deal[e] = NoItem THEN "off" ELSE "ready")
  <2>1. deal[e] \in Items \cup {NoItem}
    BY <1>2 DEF IInv, Shape
  <2>2. env'[e] = SetTo(deal[e])
    BY <1>1
  <2> QED BY <2>1, <2>2, SetToItem
<1>4. ASSUME NEW e \in es \ finished
      PROVE  /\ env'[e] \in EnvRecords /\ env'[e].item = env[e].item
             /\ env'[e].st \in {"off", "ready"} /\ Live(e)
  <2>1. env[e] \in EnvRecords
    BY DEF IInv, Shape
  <2>2. PICK s \in {"off", "ready"} : env'[e] = [env[e] EXCEPT !.st = s]
    BY <1>1
  <2>3. env'[e] \in EnvRecords /\ env'[e].item = env[e].item /\ env'[e].st = s
    BY <2>1, <2>2 DEF EnvRecords, EnvStates
  <2> QED BY <2>3 DEF Live
<1>5. ASSUME NEW e \in Envs \ es
      PROVE  env'[e] = env[e] /\ env[e] \in EnvRecords
  BY <1>1 DEF IInv, Shape
<1>6. env' \in [Envs -> EnvRecords]
  <2>1. env' = [e \in Envs |-> env'[e]]
    BY <1>1
  <2>2. \A e \in Envs : env'[e] \in EnvRecords
    BY <1>3, <1>4, <1>5
  <2> QED BY <2>1, <2>2
<1>7. queue' \in [0 .. NumInfer - 1 -> [Envs -> Seq(Items)]]
  <2>1. queue \in [0 .. NumInfer - 1 -> [Envs -> Seq(Items)]]
    BY DEF IInv, Shape
  <2>2. <<>> \in Seq(Items)
    OBVIOUS
  <2> HIDE DEF finished
  <2> QED BY <1>1, <2>1, <2>2 DEF Forget
<1>8. Shape'
  <2>1. pending' \subseteq Items
    BY <1>1 DEF IInv, Shape
  <2> QED BY <2>1, <1>6, <1>7 DEF IInv, Shape, dumpers, disk
<1>9. /\ Writers' /\ Fresh' /\ Agree' /\ Sealed' /\ Calls' /\ OnePair' /\ KeptOnDisk'
      /\ ManifestTruthful' /\ CompleteItems' = CompleteItems
  <2>1. \A e \in Envs : env[e].st = "dump" => env'[e].st = "dump" /\ env'[e].item = env[e].item
    BY <1>5
  <2> QED BY <2>1, FilesAside
<1>10. Claims'
  <2>1. \A e \in Envs \ finished : env'[e].item = env[e].item /\ (Live(e)' => Live(e))
    BY <1>4, <1>5 DEF Live
  <2>2. \A e \in finished : Live(e)' => deal[e] \in pending /\ env'[e].item = deal[e]
    BY <1>2, <1>3 DEF Live
  <2>3. pending' \subseteq pending /\ \A e \in finished : deal[e] \in pending => deal[e] \notin pending'
    <3>1. \A e \in finished : deal[e] \in pending => deal[e] # NoItem
      BY ItemsAreNumbers DEF IInv, Shape, NoItem
    <3> QED BY <3>1, <1>1, <1>2
  <2> HIDE DEF finished
  <2>4. ASSUME NEW e \in Envs, Live(e)'
        PROVE  env'[e].item \in Items \ (pending' \cup CompleteItems')
    <3>1. CASE e \in finished
      BY <2>2, <2>3, <2>4, <3>1, <1>9 DEF IInv, Shape, Claims
    <3>2. CASE e \notin finished
      BY <2>1, <2>3, <2>4, <3>2, <1>9 DEF IInv, Claims
    <3> QED BY <3>1, <3>2
  <2>5. ASSUME NEW e \in Envs, NEW f \in Envs, Live(e)', Live(f)', env'[e].item = env'[f].item
        PROVE  e = f
    <3>1. CASE e \in finished /\ f \in finished
      <4>1. deal[e] = deal[f] /\ deal[e] \in pending
        BY <2>2, <2>5, <3>1
      <4>2. deal[e] # NoItem
        BY <4>1, ItemsAreNumbers DEF IInv, Shape, NoItem
      <4> QED BY <4>1, <4>2, <3>1, <1>2
    <3>2. CASE e \in finished /\ f \notin finished
      BY <2>1, <2>2, <2>5, <3>2 DEF IInv, Claims
    <3>3. CASE e \notin finished /\ f \in finished
      BY <2>1, <2>2, <2>5, <3>3 DEF IInv, Claims
    <3>4. CASE e \notin finished /\ f \notin finished
      BY <2>1, <2>5, <3>4 DEF IInv, Claims
    <3> QED BY <3>1, <3>2, <3>3, <3>4
  <2>6. pending' \cap CompleteItems' = {}
    BY <2>3, <1>9 DEF IInv, Claims
  <2> QED BY <2>4, <2>5, <2>6 DEF Claims
<1>11. Stages'
  <2>1. \A e \in es : env'[e].st \in {"off", "ready"}
    BY <1>3, <1>4
  <2>2. ASSUME NEW e \in Envs, env'[e].st = "dump"
        PROVE  env'[e].over
    BY <2>1, <2>2, <1>5 DEF IInv, Stages
  <2>3. ASSUME ~overlap, turn' = "top", NEW e \in Envs
        PROVE  env'[e].st \in {"off", "ready"}
    <3>1. CASE e \in es
      BY <2>1, <3>1
    <3>2. CASE e \notin es
      BY <2>3, <3>2, <1>5 DEF Active
    <3> QED BY <3>1, <3>2
  <2> QED BY <2>2, <2>3 DEF Stages
<1> QED BY <1>8, <1>9, <1>10, <1>11 DEF IInv

LEMMA HandleRoundKeeps ==
  ASSUME IInv, HandleRound
  PROVE  IInv' /\ CompleteItems' = CompleteItems
<1>1. /\ UNCHANGED <<phase, overlap, dumpers, disk, launches>> /\ phase = "loop"
      /\ Active \subseteq In("back") /\ NextItems(Active)
  BY DEF HandleRound
<1>2. Active \in SUBSET Envs /\ In("back") \subseteq Active /\ \A e \in Active : env[e].st = "back"
  BY <1>1 DEF Active, In
<1> QED BY <1>1, <1>2, NextItemsKeeps

LEMMA HandleStepKeeps ==
  ASSUME IInv, NEW e \in Envs, HandleStep(e)
  PROVE  IInv' /\ CompleteItems' = CompleteItems
<1>1. /\ UNCHANGED <<phase, overlap, dumpers, disk, launches>> /\ phase = "loop"
      /\ overlap /\ env[e].st = "back" /\ NextItems({e})
  BY DEF HandleStep
<1> QED BY <1>1, NextItemsKeeps

-----------------------------------------------------------------------------
(* Steps of the dump workers.                                              *)

\* A demo is readable content.
LEMMA DemoContent ==
  ASSUME IInv, NEW e \in Envs, env[e].item \in Items
  PROVE  Demo(e) \in Contents /\ Demo(e).item = env[e].item /\ Demo(e).item # NoItem
BY ItemsAreNumbers, SizesAssumption DEF Demo, Contents, IInv, Shape, NoItem

\* The names a dump worker may write.
LEMMA OwnNames ==
  ASSUME IInv, NEW d \in Ranks, d < dumps
  PROVE  /\ Written(d) \in Names /\ Written(d).kind = "shard"
         /\ \A f \in Ranks : f < dumps /\ f # d => Written(f) # Written(d)
         /\ \A f \in Ranks, k \in Nat :
              f < dumps /\ (f # d \/ k # shard[d]) => ShardName(f, k, dumps) # Written(d)
<1>1. dumps \in 1 .. MaxDumps /\ \A f \in Ranks : shard[f] \in Nat
  BY DEF IInv, Shape
<1>2. Written(d) \in Names /\ Written(d).kind = "shard"
  BY <1>1, ShardNames DEF Written
<1>3. ASSUME NEW f \in Ranks, NEW k \in Nat, f < dumps, f # d \/ k # shard[d]
      PROVE  ShardName(f, k, dumps) # Written(d)
  BY <1>1, <1>3, ShardNames DEF Written
<1>4. \A f \in Ranks : f < dumps /\ f # d => Written(f) # Written(d)
  BY <1>1, <1>3 DEF Written
<1> QED BY <1>2, <1>3, <1>4

\* A call in progress is about an episode of a live env.
LEMMA JobFacts ==
  ASSUME IInv, NEW d \in Ranks, job[d] # <<>>
  PROVE  /\ phase = "loop" /\ d < dumps /\ writer[d] = <<Written(d)>>
         /\ JobEnv(d) \in Envs /\ Live(JobEnv(d))
         /\ env[JobEnv(d)].item \in Items \ (pending \cup CompleteItems)
         /\ Demos(d) \in Contents /\ Demos(d).item = env[JobEnv(d)].item /\ Demos(d).item # NoItem
         /\ Target(d) \in Names /\ Target(d).kind = "traj" /\ Target(d).index = env[JobEnv(d)].item
         /\ job[d][1].pc \in {"written", "moved"}
<1>1. phase = "loop" /\ d < dumps /\ writer[d] = <<Written(d)>>
  BY DEF IInv, Writers
<1>2. JobEnv(d) \in Envs /\ job[d][1].pc \in {"written", "moved"}
  BY DEF IInv, Shape, Jobs, JobEnv
<1>3. env[JobEnv(d)].st = "dump"
  BY DEF IInv, Calls, Call
<1>4. Live(JobEnv(d)) /\ env[JobEnv(d)].item \in Items \ (pending \cup CompleteItems)
  BY <1>2, <1>3 DEF IInv, Claims, Live
<1>5. Demos(d) \in Contents /\ Demos(d).item = env[JobEnv(d)].item /\ Demos(d).item # NoItem
  BY <1>2, <1>4, DemoContent DEF Demos
<1>6. Target(d) \in Names /\ Target(d).kind = "traj" /\ Target(d).index = env[JobEnv(d)].item
  BY <1>4, TrajNames DEF Target
<1> QED BY <1>1, <1>2, <1>4, <1>5, <1>6

\* Different calls are about different envs, so their trajectories differ.
LEMMA OtherJobs ==
  ASSUME IInv, NEW d \in Ranks, NEW f \in Ranks, d # f, job[d] # <<>>, job[f] # <<>>
  PROVE  JobEnv(d) # JobEnv(f) /\ Target(d) # Target(f)
<1>1. JobEnv(d) # JobEnv(f)
  BY DEF IInv, Calls, Call
<1>2. env[JobEnv(d)].item # env[JobEnv(f)].item
  BY <1>1, JobFacts DEF IInv, Claims
<1> QED BY <1>1, <1>2, JobFacts

LEMMA AddEpisodeKeeps ==
  ASSUME IInv, NEW e \in Envs, AddEpisode(e)
  PROVE  IInv' /\ CompleteItems' = CompleteItems
<1> DEFINE d == DumpOf(e)
           n == Written(d)
<1>1. /\ env[e].st = "dump" /\ job[d] = <<>>
      /\ UNCHANGED <<phase, overlap, turn, pending, env, queue, dumps, shard, manifest, kept, launches>>
  BY DEF AddEpisode, driver, workers
<1>2. phase = "loop" /\ Live(e) /\ env[e].item \in Items
  BY <1>1 DEF IInv, Stages, Claims, Live
<1>3. d \in Ranks /\ d < dumps
  BY DumpOfRange DEF IInv, Shape
<1>4. /\ writer' = [writer EXCEPT ![d] = <<n>>]
      /\ reward' = Put(reward, n, Demo(e)) /\ hidden' = Put(hidden, n, Demo(e))
      /\ job' = [job EXCEPT ![d] = <<[env |-> e, pc |-> "written"]>>]
  <2>1. (IF writer[d] = <<>> THEN ShardName(d, shard[d], dumps) ELSE writer[d][1]) = n
    <3>1. CASE writer[d] = <<>>
      BY <3>1 DEF Written
    <3>2. CASE writer[d] # <<>>
      BY <3>2, <1>3 DEF IInv, Writers
    <3> QED BY <3>1, <3>2
  <2> HIDE DEF n
  <2> QED BY <2>1 DEF AddEpisode
<1>5. /\ n \in Names /\ n.kind = "shard"
      /\ \A f \in Ranks : f < dumps /\ f # d => Written(f) # n
      /\ \A f \in Ranks, k \in Nat : f < dumps /\ (f # d \/ k # shard[d]) => ShardName(f, k, dumps) # n
  BY <1>3, OwnNames
<1>6. Demo(e) \in Contents /\ Demo(e).item # NoItem
  BY <1>2, DemoContent
<1> HIDE DEF n, d
<1>7. /\ DOMAIN reward' = DOMAIN reward \cup {n} /\ reward'[n] = Demo(e)
      /\ \A m \in DOMAIN reward : m # n => reward'[m] = reward[m]
  BY <1>4 DEF Put
<1>8. /\ DOMAIN hidden' = DOMAIN hidden \cup {n} /\ hidden'[n] = Demo(e)
      /\ \A m \in DOMAIN hidden : m # n => hidden'[m] = hidden[m]
  BY <1>4 DEF Put
<1>9. \A f \in Ranks : /\ writer'[f] = (IF f = d THEN <<n>> ELSE writer[f])
                       /\ job'[f] = IF f = d THEN <<[env |-> e, pc |-> "written"]>> ELSE job[f]
  BY <1>3, <1>4 DEF IInv, Shape
<1>10. Shape'
  <2>1. writer' \in [Ranks -> {<<>>} \cup {<<m>> : m \in Names}]
    BY <1>3, <1>4, <1>5 DEF IInv, Shape
  <2>2. job' \in [Ranks -> Jobs]
    <3>1. <<[env |-> e, pc |-> "written"]>> \in Jobs
      BY DEF Jobs
    <3> QED BY <1>3, <1>4, <3>1 DEF IInv, Shape
  <2> QED BY <2>1, <2>2, <1>1, <1>5, <1>6, <1>7, <1>8 DEF IInv, Shape
<1>11. \A f \in Ranks : Written(f)' = Written(f)
  BY <1>1 DEF Written, ShardName
<1>12. Writers'
  BY <1>1, <1>2, <1>3, <1>9, <1>11 DEF IInv, Writers, n
<1>13. Fresh'
  <2>1. \A f \in Ranks, k \in Nat : ShardName(f, k, dumps)' = ShardName(f, k, dumps)
    BY <1>1 DEF ShardName
  <2>2. ASSUME NEW f \in Ranks, f < dumps
        PROVE  /\ \A k \in Nat : k > shard[f] => ShardName(f, k, dumps) \notin DOMAIN reward'
               /\ writer'[f] = <<>> => Written(f) \notin DOMAIN reward'
    <3>1. ASSUME NEW k \in Nat, k > shard[f]
          PROVE  ShardName(f, k, dumps) \notin DOMAIN reward'
      <4>1. f # d \/ k # shard[d]
        BY <3>1, <1>3 DEF IInv, Shape
      <4> QED BY <3>1, <4>1, <2>2, <1>2, <1>5, <1>7 DEF IInv, Fresh
    <3>2. ASSUME writer'[f] = <<>>
          PROVE  Written(f) \notin DOMAIN reward'
      BY <3>2, <2>2, <1>2, <1>5, <1>7, <1>9 DEF IInv, Fresh
    <3> QED BY <3>1, <3>2
  <2>3. dumps' = dumps /\ shard' = shard /\ \A f \in Ranks : Written(f)' = Written(f)
    BY <1>1, <1>11
  <2> QED BY <2>2, <2>3, <1>1 DEF Fresh
<1>14. Agree' /\ Sealed'
  <2>1. Agree'
    BY <1>7, <1>8 DEF IInv, Agree
  <2>2. Sealed'
    BY <1>5, <1>7, <1>8 DEF IInv, Sealed
  <2> QED BY <2>1, <2>2
<1>15. /\ CompletePairs' = CompletePairs
       /\ \A m \in CompletePairs : m \in DOMAIN reward /\ reward'[m] = reward[m]
  <2>1. \A m : m \in BeingWritten' <=> m \in BeingWritten \/ m = n
    BY <1>9, <1>11, <1>12, <1>3, WrittenNames DEF IInv, Writers, BeingWritten, n
  <2>2. n \notin CompletePairs
    <3>1. CASE writer[d] = <<>>
      BY <3>1, <1>2, <1>3 DEF IInv, Fresh, CompletePairs, n
    <3>2. CASE writer[d] # <<>>
      BY <3>2, <1>3, WrittenNames DEF IInv, CompletePairs, n
    <3> QED BY <3>1, <3>2
  <2>3. \A m \in CompletePairs' : m # n
    BY <2>1 DEF CompletePairs
  <2>4. \A m : m # n => (m \in CompletePairs' <=> m \in CompletePairs)
    BY <2>1, <1>7, <1>8 DEF CompletePairs, PairAt
  <2>5. \A m \in CompletePairs : m \in DOMAIN reward
    BY DEF CompletePairs
  <2> QED BY <2>2, <2>3, <2>4, <2>5, <1>7
<1>16. CompleteItems' = CompleteItems
  BY <1>15 DEF CompleteItems
<1>17. Claims' /\ Stages' /\ OnePair' /\ KeptOnDisk' /\ ManifestTruthful'
  <2>1. Claims'
    BY <1>1, <1>16, ClaimsKept DEF IInv, Live
  <2>2. Stages'
    BY <1>1 DEF IInv, Stages
  <2>3. OnePair'
    BY <1>15 DEF IInv, OnePair
  <2>4. KeptOnDisk'
    BY <1>1, <1>16 DEF IInv, KeptOnDisk
  <2>5. ManifestTruthful'
    BY <1>1, <1>15, ManifestStays DEF IInv
  <2> QED BY <2>1, <2>2, <2>3, <2>4, <2>5
<1>18. Calls'
  <2>1. ASSUME NEW f \in Ranks, f # d, writer[f] # <<>>
        PROVE  Written(f) # n
    BY <2>1, <1>5 DEF IInv, Writers
  <2>2. ASSUME NEW f \in Ranks, f # d, job[f] # <<>>
        PROVE  /\ Target(f) # n
               /\ JobEnv(f)' = JobEnv(f) /\ Target(f)' = Target(f) /\ Demos(f)' = Demos(f)
    <3>1. Target(f) # n
      BY <2>2, <1>5, JobFacts
    <3>2. JobEnv(f)' = JobEnv(f)
      BY <2>2, <1>9 DEF JobEnv
    <3> QED BY <3>1, <3>2, <1>1 DEF Target, Demos, Demo, TrajOf
  <2>3. JobEnv(d)' = e /\ Demos(d)' = Demo(e) /\ job'[d] # <<>> /\ job'[d][1].pc = "written"
    <3>1. job'[d] = <<[env |-> e, pc |-> "written"]>>
      BY <1>3, <1>9
    <3>2. job'[d][1].env = e /\ job'[d][1].pc = "written" /\ job'[d] # <<>>
      BY <3>1
    <3>3. d' = d
      BY <1>1 DEF d, DumpOf
    <3> QED BY <3>2, <3>3, <1>1 DEF JobEnv, Demos, Demo
  <2>4. ASSUME NEW f \in Ranks, f # d, job[f] # <<>>
        PROVE  Call(f)'
    <3>1. Call(f) /\ writer[f] # <<>>
      BY <2>4 DEF IInv, Calls, Writers
    <3>2. job'[f] = job[f] /\ DumpOf(JobEnv(f))' = DumpOf(JobEnv(f)) /\ Written(f)' = Written(f)
      BY <2>2, <2>4, <1>1, <1>9, <1>11 DEF DumpOf
    <3>3. env' = env /\ Written(f) # n
      BY <2>1, <2>4, <3>1, <1>1
    <3> QED BY <2>2, <2>4, <3>1, <3>2, <3>3, <1>7, <1>8 DEF Call
  <2>5. ASSUME NEW f \in Ranks, f # d, job[f] = <<>>
        PROVE  Call(f)'
    <3>1. Call(f)
      BY DEF IInv, Calls
    <3>2. job'[f] = job[f] /\ writer'[f] = writer[f] /\ Written(f)' = Written(f)
      BY <2>5, <1>9, <1>11
    <3> QED BY <2>1, <2>5, <3>1, <3>2, <1>7 DEF Call
  <2>6. ASSUME NEW f \in Ranks, f = d
        PROVE  Call(f)'
    <3>1. /\ JobEnv(f)' = e /\ Demos(f)' = Demo(e) /\ job'[f] # <<>> /\ job'[f][1].pc = "written"
          /\ Written(f)' = n
      BY <2>3, <2>6, <1>1, <1>11 DEF d, DumpOf, n
    <3>2. env'[e].st = "dump" /\ DumpOf(e)' = f
      BY <2>6, <1>1 DEF d, DumpOf
    <3>3. reward'[n] = Demo(e) /\ hidden'[n] = Demo(e) /\ n \in DOMAIN reward' /\ n \in DOMAIN hidden'
      BY <1>7, <1>8
    <3> QED BY <3>1, <3>2, <3>3 DEF Call
  <2> QED BY <2>4, <2>5, <2>6 DEF Calls
<1> QED BY <1>10, <1>12, <1>13, <1>14, <1>16, <1>17, <1>18 DEF IInv

\* A trajectory whose item is live has no hidden file.
LEMMA TargetAlone ==
  ASSUME IInv, NEW d \in Ranks, job[d] # <<>>
  PROVE  Target(d) \notin DOMAIN hidden /\ Target(d) \notin BeingWritten
<1>1. Target(d).kind = "traj" /\ Target(d).index \in Items \ CompleteItems
  BY JobFacts
<1>2. Target(d) \notin BeingWritten
  <2>1. \A f \in Ranks : writer[f] # <<>> => Written(f).kind = "shard"
    BY OwnNames DEF IInv, Writers
  <2> QED BY <2>1, <1>1, WrittenNames DEF IInv
<1>3. ASSUME Target(d) \in DOMAIN hidden
      PROVE  FALSE
  <2>1. /\ Target(d) \in DOMAIN reward /\ reward[Target(d)].item = Target(d).index
        /\ hidden[Target(d)].item # NoItem
    BY <1>1, <1>3 DEF IInv, Sealed
  <2>2. Target(d) \in CompletePairs
    BY <2>1, <1>1, <1>2, <1>3, ItemsAreNumbers DEF CompletePairs, PairAt, NoItem
  <2> QED BY <2>1, <2>2, <1>1 DEF CompleteItems
<1> QED BY <1>2, <1>3

LEMMA RenameRewardKeeps ==
  ASSUME IInv, NEW d \in Ranks, RenameReward(d)
  PROVE  IInv' /\ CompleteItems' = CompleteItems
<1> DEFINE n == Written(d)
           t == Target(d)
<1>1. /\ job[d] # <<>> /\ job[d][1].pc = "written" /\ job' = [job EXCEPT ![d][1].pc = "moved"]
      /\ UNCHANGED <<phase, overlap, turn, pending, env, queue, dumps, writer, shard, hidden, manifest,
                     kept, launches>>
  BY DEF RenameReward, driver, workers
<1>2. /\ phase = "loop" /\ d < dumps /\ writer[d] = <<n>>
      /\ JobEnv(d) \in Envs /\ env[JobEnv(d)].item \in Items \ CompleteItems
      /\ Demos(d) \in Contents /\ Demos(d).item = env[JobEnv(d)].item /\ Demos(d).item # NoItem
      /\ t \in Names /\ t.kind = "traj" /\ t.index = env[JobEnv(d)].item
  BY <1>1, JobFacts
<1>3. t \notin DOMAIN hidden /\ t \notin BeingWritten
  BY <1>1, TargetAlone
<1>4. /\ n \in Names /\ n.kind = "shard"
      /\ \A f \in Ranks : f < dumps /\ f # d => Written(f) # n
  BY <1>2, OwnNames
<1>5. n \in DOMAIN reward /\ reward[n] = Demos(d) /\ n \in DOMAIN hidden /\ hidden[n] = Demos(d)
  BY <1>1 DEF IInv, Calls, Call
<1>6. reward' = Move(reward, n, t)
  BY <1>2 DEF RenameReward, Target
<1> HIDE DEF n, t
<1>7. /\ DOMAIN reward' = (DOMAIN reward \ {n}) \cup {t} /\ reward'[t] = Demos(d) /\ n # t
      /\ \A m \in DOMAIN reward \ {n} : m # t => reward'[m] = reward[m]
  <2>1. n # t
    BY <1>2, <1>4
  <2> QED BY <2>1, <1>5, <1>6 DEF Move
<1>8. /\ job'[d] = <<[env |-> JobEnv(d), pc |-> "moved"]>>
      /\ \A f \in Ranks : f # d => job'[f] = job[f]
  <2>1. job[d] = <<[env |-> JobEnv(d), pc |-> "written"]>> /\ DOMAIN job = Ranks
    BY <1>1 DEF IInv, Shape, Jobs, JobEnv
  <2> QED BY <2>1, <1>1
<1>9. Shape'
  <2>1. job' \in [Ranks -> Jobs]
    <3>1. job'[d] \in Jobs
      BY <1>8, <1>2 DEF Jobs
    <3>2. DOMAIN job' = Ranks /\ job' = [f \in Ranks |-> job'[f]]
      BY <1>1 DEF IInv, Shape
    <3> QED BY <3>1, <3>2, <1>8 DEF IInv, Shape
  <2> QED BY <2>1, <1>1, <1>2, <1>4, <1>7 DEF IInv, Shape
<1>10. \A f \in Ranks : Written(f)' = Written(f)
  BY <1>1 DEF Written, ShardName
<1>11. Writers'
  BY <1>1, <1>2, <1>8, <1>10 DEF IInv, Writers
<1>12. Fresh'
  <2>1. \A f \in Ranks, k \in Nat : ShardName(f, k, dumps)' = ShardName(f, k, dumps)
    BY <1>1 DEF ShardName
  <2>2. \A f \in Ranks, k \in Nat : f < dumps => ShardName(f, k, dumps) # t
    BY <1>2, ShardNames DEF IInv, Shape
  <2>3. \A f \in Ranks : f < dumps => Written(f) # t
    BY <1>2, OwnNames
  <2> QED BY <2>1, <2>2, <2>3, <1>1, <1>7, <1>10 DEF IInv, Fresh
<1>13. Agree' /\ Sealed'
  <2>1. Agree'
    BY <1>1, <1>3, <1>7 DEF IInv, Agree
  <2>2. Sealed'
    <3>1. \A m \in DOMAIN reward' : m.kind = "traj" => reward'[m].item = m.index
      BY <1>2, <1>7 DEF IInv, Sealed
    <3>2. \A m \in DOMAIN hidden' : m.kind = "traj" => m \in DOMAIN reward' /\ hidden'[m].item # NoItem
      BY <1>1, <1>4, <1>7 DEF IInv, Sealed
    <3> QED BY <3>1, <3>2 DEF Sealed
  <2> QED BY <2>1, <2>2
<1>14. /\ CompletePairs' = CompletePairs
       /\ \A m \in CompletePairs : m \in DOMAIN reward /\ reward'[m] = reward[m]
  <2>1. BeingWritten' = BeingWritten /\ n \in BeingWritten
    <3>1. BeingWritten' = BeingWritten
      BY <1>1 DEF BeingWritten
    <3>2. n = Written(d) /\ writer[d] # <<>>
      BY <1>2 DEF n
    <3> QED BY <3>1, <3>2, WrittenNames DEF IInv
  <2>2. \A m \in CompletePairs : m # n /\ m # t /\ m \in DOMAIN reward
    BY <2>1, <1>3 DEF CompletePairs, PairAt
  <2>3. \A m \in CompletePairs' : m # n /\ m # t
    BY <2>1, <1>1, <1>3 DEF CompletePairs, PairAt
  <2>4. \A m : m # n /\ m # t => (m \in CompletePairs' <=> m \in CompletePairs)
    BY <2>1, <1>1, <1>7 DEF CompletePairs, PairAt
  <2> QED BY <2>2, <2>3, <2>4, <1>7
<1>15. CompleteItems' = CompleteItems
  BY <1>14 DEF CompleteItems
<1>16. Claims' /\ Stages' /\ OnePair' /\ KeptOnDisk' /\ ManifestTruthful'
  <2>1. Claims'
    BY <1>1, <1>15, ClaimsKept DEF IInv, Live
  <2>2. Stages'
    BY <1>1 DEF IInv, Stages
  <2>3. OnePair'
    BY <1>14 DEF IInv, OnePair
  <2>4. KeptOnDisk'
    BY <1>1, <1>15 DEF IInv, KeptOnDisk
  <2>5. ManifestTruthful'
    BY <1>1, <1>14, ManifestStays DEF IInv
  <2> QED BY <2>1, <2>2, <2>3, <2>4, <2>5
<1>17. Calls'
  <2>1. ASSUME NEW f \in Ranks, f # d
        PROVE  Call(f)'
    <3>1. Call(f) /\ job'[f] = job[f] /\ writer' = writer /\ Written(f)' = Written(f)
      BY <2>1, <1>1, <1>8, <1>10 DEF IInv, Calls
    <3>2. writer[f] # <<>> => Written(f) # n /\ Written(f) # t
      BY <2>1, <1>2, <1>4, OwnNames DEF IInv, Writers
    <3>3. CASE job[f] # <<>>
      <4>1. /\ JobEnv(f)' = JobEnv(f) /\ Demos(f)' = Demos(f) /\ Target(f)' = Target(f)
            /\ DumpOf(JobEnv(f))' = DumpOf(JobEnv(f))
        BY <3>1, <1>1 DEF JobEnv, Demos, Demo, Target, TrajOf, DumpOf
      <4>2. Target(f) # t /\ Target(f) # n /\ writer[f] # <<>>
        BY <2>1, <3>3, <1>1, <1>4, OtherJobs, JobFacts DEF t, IInv, Writers
      <4> QED BY <3>1, <3>2, <3>3, <4>1, <4>2, <1>1, <1>7 DEF Call
    <3>4. CASE job[f] = <<>>
      BY <3>1, <3>2, <3>4, <1>7 DEF Call
    <3> QED BY <3>3, <3>4
  <2>2. Call(d)'
    <3>1. /\ JobEnv(d)' = JobEnv(d) /\ Demos(d)' = Demos(d) /\ Target(d)' = t
          /\ DumpOf(JobEnv(d))' = DumpOf(JobEnv(d)) /\ job'[d] # <<>> /\ job'[d][1].pc = "moved"
      BY <1>1, <1>8 DEF JobEnv, Demos, Demo, Target, TrajOf, DumpOf, t
    <3>2. Written(d)' = n /\ n \notin DOMAIN reward'
      BY <1>7, <1>10 DEF n
    <3>3. env[JobEnv(d)].st = "dump" /\ d = DumpOf(JobEnv(d))
      BY <1>1 DEF IInv, Calls, Call
    <3> QED BY <3>1, <3>2, <3>3, <1>1, <1>5, <1>7 DEF Call
  <2> QED BY <2>1, <2>2 DEF Calls
<1> QED BY <1>9, <1>11, <1>12, <1>13, <1>15, <1>16, <1>17 DEF IInv

LEMMA RenameHiddenKeeps ==
  ASSUME IInv, NEW d \in Ranks, RenameHidden(d)
  PROVE  IInv' /\ CompleteItems' = CompleteItems \cup {env[JobEnv(d)].item}
<1> DEFINE n == Written(d)
           t == Target(d)
           e == JobEnv(d)
           i == env[JobEnv(d)].item
<1>1. /\ job[d] # <<>> /\ job[d][1].pc = "moved" /\ job' = [job EXCEPT ![d] = <<>>]
      /\ env' = [env EXCEPT ![e].st = "back"] /\ writer' = [writer EXCEPT ![d] = <<>>]
      /\ shard' = [shard EXCEPT ![d] = @ + 1] /\ kept' = kept \cup {i}
      /\ UNCHANGED <<phase, overlap, turn, pending, queue, dumps, reward, manifest, launches>>
  BY DEF RenameHidden, driver
<1>2. /\ phase = "loop" /\ d < dumps /\ writer[d] = <<n>>
      /\ e \in Envs /\ Live(e) /\ i \in Items \ (pending \cup CompleteItems)
      /\ Demos(d) \in Contents /\ Demos(d).item = i /\ Demos(d).item # NoItem
      /\ t \in Names /\ t.kind = "traj" /\ t.index = i
  BY <1>1, JobFacts
<1>3. t \notin DOMAIN hidden /\ t \notin BeingWritten
  BY <1>1, TargetAlone
<1>4. /\ n \in Names /\ n.kind = "shard"
      /\ \A f \in Ranks : f < dumps /\ f # d => Written(f) # n
  BY <1>2, OwnNames
<1>5. /\ n \notin DOMAIN reward /\ n \in DOMAIN hidden /\ hidden[n] = Demos(d)
      /\ t \in DOMAIN reward /\ reward[t] = Demos(d)
      /\ env[e].st = "dump" /\ env[e].over
  BY <1>1, <1>2 DEF IInv, Calls, Call, Stages
<1>6. hidden' = Move(hidden, n, t)
  BY <1>2 DEF RenameHidden, Target
<1> HIDE DEF n, t, e, i
<1>7. /\ DOMAIN hidden' = (DOMAIN hidden \ {n}) \cup {t} /\ hidden'[t] = Demos(d) /\ n # t
      /\ \A m \in DOMAIN hidden \ {n} : m # t => hidden'[m] = hidden[m]
  <2>1. n # t
    BY <1>2, <1>4
  <2> QED BY <2>1, <1>5, <1>6 DEF Move
<1>8. \A f \in Ranks : /\ job'[f] = (IF f = d THEN <<>> ELSE job[f])
                       /\ writer'[f] = (IF f = d THEN <<>> ELSE writer[f])
                       /\ shard'[f] = (IF f = d THEN shard[f] + 1 ELSE shard[f])
  BY <1>1 DEF IInv, Shape
<1>9. /\ env' \in [Envs -> EnvRecords]
      /\ \A f \in Envs \ {e} : env'[f] = env[f]
      /\ env'[e].st = "back" /\ env'[e].over = env[e].over /\ env'[e].item = env[e].item
  <2>1. env \in [Envs -> EnvRecords] /\ "back" \in EnvStates
    BY DEF IInv, Shape, EnvStates
  <2>2. [env[e] EXCEPT !.st = "back"] \in EnvRecords
    BY <2>1, <1>2 DEF EnvRecords
  <2>3. env' = [env EXCEPT ![e] = [env[e] EXCEPT !.st = "back"]]
    BY <1>1, <2>1
  <2>4. env'[e] = [env[e] EXCEPT !.st = "back"] /\ \A f \in Envs \ {e} : env'[f] = env[f]
    BY <2>1, <2>3, <1>2
  <2>5. env' \in [Envs -> EnvRecords]
    BY <2>1, <2>2, <2>3
  <2> QED BY <2>1, <2>4, <2>5, <1>2, StateChange
<1>10. Shape'
  <2>1. job' \in [Ranks -> Jobs] /\ shard' \in [Ranks -> Nat]
    BY <1>1 DEF IInv, Shape, Jobs
  <2>2. writer' \in [Ranks -> {<<>>} \cup {<<m>> : m \in Names}]
    BY <1>1 DEF IInv, Shape
  <2> QED BY <2>1, <2>2, <1>1, <1>2, <1>7, <1>9 DEF IInv, Shape
<1>11. \A f \in Ranks : f # d => Written(f)' = Written(f)
  BY <1>1, <1>8 DEF Written, ShardName
<1>12. Writers'
  BY <1>1, <1>8, <1>11 DEF IInv, Writers
<1>13. Fresh'
  <2>1. \A f \in Ranks, k \in Nat : ShardName(f, k, dumps)' = ShardName(f, k, dumps)
    BY <1>1 DEF ShardName
  <2>2. ASSUME NEW f \in Ranks, f < dumps, f # d
        PROVE  /\ \A k \in Nat : k > shard'[f] => ShardName(f, k, dumps)' \notin DOMAIN reward'
               /\ writer'[f] = <<>> => Written(f)' \notin DOMAIN reward'
    BY <2>1, <2>2, <1>1, <1>2, <1>8, <1>11 DEF IInv, Fresh
  <2>3. /\ \A k \in Nat : k > shard'[d] => ShardName(d, k, dumps)' \notin DOMAIN reward'
        /\ writer'[d] = <<>> => Written(d)' \notin DOMAIN reward'
    <3>1. shard[d] \in Nat /\ shard'[d] = shard[d] + 1 /\ shard[d] + 1 > shard[d]
      BY <1>8 DEF IInv, Shape
    <3>2. \A k \in Nat : k > shard[d] => ShardName(d, k, dumps) \notin DOMAIN reward
      BY <1>2 DEF IInv, Fresh
    <3>3. Written(d)' = ShardName(d, shard[d] + 1, dumps)
      BY <3>1, <1>1 DEF Written, ShardName
    <3> QED BY <3>1, <3>2, <3>3, <2>1, <1>1
  <2> QED BY <2>2, <2>3, <1>1 DEF Fresh
<1>14. Agree' /\ Sealed'
  <2>1. Agree'
    BY <1>1, <1>5, <1>7 DEF IInv, Agree
  <2>2. Sealed'
    BY <1>1, <1>2, <1>4, <1>5, <1>7 DEF IInv, Sealed
  <2> QED BY <2>1, <2>2
<1>15. CompletePairs' = CompletePairs \cup {t}
  <2>1. \A m : m \in BeingWritten' <=> m \in BeingWritten /\ m # n
    <3>1. \A m : m \in BeingWritten' <=> \E f \in Ranks : writer'[f] # <<>> /\ m = Written(f)'
      BY <1>12 DEF Writers, BeingWritten
    <3>2. \A f \in Ranks : writer'[f] # <<>> <=> writer[f] # <<>> /\ f # d
      BY <1>8
    <3>3. \A f \in Ranks : f # d /\ writer[f] # <<>> => Written(f) # n
      BY <1>4 DEF IInv, Writers
    <3>4. n = Written(d)
      BY DEF n
    <3> QED BY <3>1, <3>2, <3>3, <3>4, <1>11, WrittenNames DEF IInv
  <2>2. t \in CompletePairs'
    BY <2>1, <1>1, <1>2, <1>3, <1>5, <1>7 DEF CompletePairs, PairAt
  <2>3. \A m : m # t => (m \in CompletePairs' <=> m \in CompletePairs)
    BY <2>1, <1>1, <1>5, <1>7 DEF CompletePairs, PairAt
  <2> QED BY <2>2, <2>3
<1>16. CompleteItems' = CompleteItems \cup {i}
  BY <1>1, <1>2, <1>5, <1>15 DEF CompleteItems
<1>17. Claims'
  <2>1. \A f \in Envs : Live(f)' => f # e /\ Live(f) /\ env'[f].item = env[f].item
    BY <1>5, <1>9 DEF Live
  <2>2. \A f \in Envs : Live(f)' => env[f].item # i
    BY <2>1, <1>2 DEF IInv, Claims, i, e
  <2> QED BY <2>1, <2>2, <1>1, <1>2, <1>16 DEF IInv, Claims
<1>18. Stages' /\ OnePair' /\ KeptOnDisk' /\ ManifestTruthful'
  <2>1. Stages'
    <3>1. ~(~overlap /\ turn = "top")
      BY <1>2, <1>5 DEF IInv, Stages
    <3>2. \A f \in Envs : env'[f].st = "dump" => env'[f].over
      BY <1>9 DEF IInv, Stages
    <3> QED BY <3>1, <3>2, <1>1, <1>2 DEF Stages
  <2>2. OnePair'
    <3>1. \A m \in CompletePairs : reward[m].item \in CompleteItems
      BY DEF CompleteItems
    <3>2. reward[t].item = i /\ i \notin CompleteItems
      BY <1>2, <1>5
    <3> QED BY <3>1, <3>2, <1>1, <1>15 DEF IInv, OnePair
  <2>3. KeptOnDisk'
    BY <1>1, <1>16 DEF IInv, KeptOnDisk
  <2>4. ManifestTruthful'
    BY <1>1, <1>15, ManifestStays DEF IInv
  <2> QED BY <2>1, <2>2, <2>3, <2>4
<1>19. Calls'
  <2>1. ASSUME NEW f \in Ranks, f # d
        PROVE  Call(f)'
    <3>1. /\ Call(f) /\ job'[f] = job[f] /\ writer'[f] = writer[f] /\ Written(f)' = Written(f)
      BY <2>1, <1>8, <1>11 DEF IInv, Calls
    <3>2. writer[f] # <<>> => Written(f) # n /\ Written(f) # t
      BY <2>1, <1>2, <1>4, OwnNames DEF IInv, Writers
    <3>3. CASE job[f] # <<>>
      <4>1. JobEnv(f) \in Envs /\ JobEnv(f) # e /\ writer[f] # <<>>
        BY <2>1, <3>3, <1>1, OtherJobs, JobFacts DEF e, IInv, Writers
      <4>2. env'[JobEnv(f)] = env[JobEnv(f)] /\ JobEnv(f)' = JobEnv(f)
        BY <4>1, <3>1, <1>9 DEF JobEnv
      <4>3. /\ Demos(f)' = Demos(f) /\ Target(f)' = Target(f) /\ DumpOf(JobEnv(f))' = DumpOf(JobEnv(f))
        BY <4>2, <1>1 DEF Demos, Demo, Target, TrajOf, DumpOf
      <4> QED BY <3>1, <3>2, <3>3, <4>1, <4>2, <4>3, <1>1, <1>7 DEF Call
    <3>4. CASE job[f] = <<>>
      BY <3>1, <3>2, <3>4, <1>1 DEF Call
    <3> QED BY <3>3, <3>4
  <2>2. Call(d)'
    BY <1>8 DEF Call
  <2> QED BY <2>1, <2>2 DEF Calls
<1>20. CompleteItems' = CompleteItems \cup {env[JobEnv(d)].item}
  BY <1>16 DEF i
<1> QED BY <1>10, <1>12, <1>13, <1>14, <1>17, <1>18, <1>19, <1>20 DEF IInv

-----------------------------------------------------------------------------
(* Launches, the end of a run, and crashes.                                *)

\* Nobody writes once no writer is open.
LEMMA NobodyWrites ==
  ASSUME \A d \in Ranks : writer[d] = <<>>
  PROVE  BeingWritten = {}
BY DEF BeingWritten

\* Idle envs claim nothing.
LEMMA IdleEnvRecord == Idle \in EnvRecords /\ Idle.st = "off"
BY DEF Idle, EnvRecords, EnvStates, NoItem

LEMMA LeaveLoopKeeps ==
  ASSUME IInv, LeaveLoop
  PROVE  IInv' /\ CompleteItems' = CompleteItems
<1>1. /\ phase = "loop" /\ phase' = "manifest" /\ (\A d \in Ranks : job[d] = <<>>)
      /\ env' = [e \in Envs |-> Idle] /\ writer' = [d \in Ranks |-> <<>>]
      /\ UNCHANGED <<overlap, turn, pending, queue, dumps, shard, job, reward, hidden, manifest, kept,
                     launches>>
  BY DEF LeaveLoop, disk
<1>2. \A e \in Envs : env'[e].st = "off"
  BY <1>1, IdleEnvRecord
<1>3. Shape'
  BY <1>1, IdleEnvRecord DEF IInv, Shape
<1>4. Writers' /\ Fresh' /\ Agree' /\ Sealed' /\ Calls' /\ Stages'
  BY <1>1, <1>2 DEF IInv, Writers, Fresh, Agree, Sealed, Calls, Call, Stages
<1>5. CompletePairs' = CompletePairs
  <2>1. BeingWritten' = {}
    BY <1>1 DEF BeingWritten
  <2>2. \A m \in BeingWritten : m \in DOMAIN reward => reward[m].item = NoItem
    <3>1. \A d \in Ranks : writer[d] # <<>> => reward[Written(d)] = Nothing
      BY <1>1 DEF IInv, Calls, Call
    <3>2. Nothing.item = NoItem
      BY DEF Nothing
    <3> QED BY <3>1, <3>2, WrittenNames DEF IInv
  <2> QED BY <2>1, <2>2, <1>1 DEF CompletePairs, PairAt
<1>6. CompleteItems' = CompleteItems
  BY <1>1, <1>5 DEF CompleteItems
<1>7. Claims' /\ OnePair' /\ KeptOnDisk' /\ ManifestTruthful'
  BY <1>1, <1>2, <1>5, <1>6 DEF IInv, Claims, Live, OnePair, KeptOnDisk, ManifestTruthful
<1> QED BY <1>3, <1>4, <1>6, <1>7 DEF IInv

LEMMA WriteManifestKeeps ==
  ASSUME IInv, WriteManifest
  PROVE  IInv' /\ CompleteItems' = CompleteItems
<1>1. /\ phase = "manifest" /\ phase' = "done"
      /\ UNCHANGED <<overlap, turn, pending, env, queue, dumps, writer, shard, job, reward, hidden,
                     kept, launches>>
  BY DEF WriteManifest, workers, dumpers
<1>2. CompletePairs' = CompletePairs /\ CompleteItems' = CompleteItems
  BY <1>1, SameFiles
<1>3. Shape'
  BY <1>1 DEF IInv, Shape
<1>4. Writers' /\ Fresh' /\ Agree' /\ Sealed' /\ Stages'
  BY <1>1 DEF IInv, Writers, Written, ShardName, Fresh, Agree, Sealed, Stages
<1>5. Calls'
  BY <1>1 DEF IInv, Calls, Call, Written, ShardName, Demos, Demo, Target, TrajOf, JobEnv, DumpOf
<1>6. Claims' /\ OnePair' /\ KeptOnDisk'
  BY <1>1, <1>2 DEF IInv, Claims, Live, OnePair, KeptOnDisk
<1>7. ManifestTruthful'
  <2>1. manifest' = <<ManifestNow>> /\ manifest'[1] = ManifestNow
    BY DEF WriteManifest
  <2>2. \A r \in ManifestNow.items :
          r.file \in CompletePairs /\ r.item = reward[r.file].item
    BY DEF ManifestNow
  <2>3. ManifestNow.complete => Items \subseteq CompleteItems
    BY DEF ManifestNow
  <2> QED BY <2>1, <2>2, <2>3, <1>1, <1>2 DEF ManifestTruthful
<1> QED BY <1>2, <1>3, <1>4, <1>5, <1>6, <1>7 DEF IInv

\* A launch starts behind every readable shard.
LEMMA NextShardFree ==
  ASSUME IInv, NEW next \in NextShards
  PROVE  /\ next \in Nat
         /\ \A n \in DOMAIN reward : n.kind = "shard" => n.index \in Nat /\ n.index < next
<1>1. \A n \in DOMAIN reward : n.kind = "shard" => n.index \in Nat
  BY DEF IInv, Shape, Names
<1> QED BY <1>1 DEF NextShards, ShardFiles

LEMMA LaunchKeeps ==
  ASSUME IInv, Launch
  PROVE  IInv' /\ CompleteItems' = CompleteItems
<1>1. PICK config \in Configs, next \in NextShards, deal \in Deals(Envs, MissingItems) :
        LET opened == {ShardName(d, next, config.world) : d \in 0 .. config.world - 1}
        IN /\ dumps' = config.world
           /\ overlap' = config.overlap
           /\ writer' = [d \in Ranks |->
                IF d < config.world THEN <<ShardName(d, next, config.world)>> ELSE <<>>]
           /\ shard' = [d \in Ranks |-> next]
           /\ reward' = [n \in DOMAIN reward \cup opened |-> IF n \in opened THEN Nothing ELSE reward[n]]
           /\ hidden' = [n \in DOMAIN hidden \cup opened |-> IF n \in opened THEN Nothing ELSE hidden[n]]
           /\ pending' = MissingItems \ Dealt(deal)
           /\ env' = [e \in Envs |-> SetTo(deal[e])]
  BY DEF Launch
<1> DEFINE w == config.world
           opened == {ShardName(d, next, w) : d \in 0 .. w - 1}
<1>2. /\ phase # "loop" /\ phase' = "loop" /\ turn' = "top" /\ job' = [d \in Ranks |-> <<>>]
      /\ queue' = [v \in 0 .. NumInfer - 1 |-> [e \in Envs |-> <<>>]]
      /\ kept' = kept \cup CompleteItems /\ launches' = launches + 1 /\ launches < MaxLaunches
      /\ manifest' = manifest
  BY DEF Launch
<1>3. w \in 1 .. MaxDumps /\ config.overlap \in BOOLEAN
  BY SizesAssumption
<1>4. next \in Nat /\ \A n \in DOMAIN reward : n.kind = "shard" => n.index \in Nat /\ n.index < next
  BY NextShardFree
<1>5. \A d \in 0 .. w - 1 : d \in Ranks /\ d < w
  BY <1>3, SizesAssumption DEF Ranks
<1>6. /\ \A d \in Ranks : d < w => d \in 0 .. w - 1
      /\ \A n \in opened : n \in Names /\ n.kind = "shard" /\ n.index = next
  <2>1. \A d \in Ranks : d < w => d \in 0 .. w - 1
    BY <1>3 DEF Ranks
  <2> QED BY <2>1, <1>3, <1>4, <1>5, ShardNames
<1>7. opened \cap DOMAIN reward = {}
  BY <1>4, <1>6
<1>8. /\ dumps' = w /\ overlap' = config.overlap
      /\ writer' = [d \in Ranks |-> IF d < w THEN <<ShardName(d, next, w)>> ELSE <<>>]
      /\ shard' = [d \in Ranks |-> next]
      /\ DOMAIN reward' = DOMAIN reward \cup opened /\ DOMAIN hidden' = DOMAIN hidden \cup opened
      /\ \A n \in DOMAIN reward' : reward'[n] = IF n \in opened THEN Nothing ELSE reward[n]
      /\ \A n \in DOMAIN hidden' : hidden'[n] = IF n \in opened THEN Nothing ELSE hidden[n]
      /\ pending' = MissingItems \ Dealt(deal)
      /\ env' = [e \in Envs |-> SetTo(deal[e])]
  BY <1>1
<1>9. Nothing \in Contents /\ Nothing.item = NoItem
  BY SizesAssumption DEF Nothing, Contents
<1>10. \A d \in Ranks : d < w => Written(d)' = ShardName(d, next, w)
  BY <1>8 DEF Written, ShardName
<1>11. Writers'
  BY <1>2, <1>8, <1>10 DEF Writers
<1>12. BeingWritten = {} /\ \A m : m \in BeingWritten' <=> m \in opened
  <2>1. \A d \in Ranks : writer[d] = <<>>
    BY <1>2 DEF IInv, Writers
  <2>2. BeingWritten = {}
    BY <2>1, NobodyWrites
  <2>3. \A m \in opened : m \in BeingWritten'
    <3>1. ASSUME NEW d \in 0 .. w - 1
          PROVE  ShardName(d, next, w) \in BeingWritten'
      <4>1. writer'[d] = <<ShardName(d, next, w)>> /\ d \in Ranks
        BY <1>5, <1>8
      <4> QED BY <4>1 DEF BeingWritten
    <3> QED BY <3>1
  <2>4. \A m \in BeingWritten' : m \in opened
    <3>1. \A d \in Ranks : writer'[d] # <<>> => writer'[d][1] \in opened
      BY <1>6, <1>8
    <3> QED BY <3>1 DEF BeingWritten
  <2> QED BY <2>2, <2>3, <2>4
<1> HIDE DEF opened
<1>13. CompletePairs' = CompletePairs /\ \A m \in CompletePairs : reward'[m] = reward[m]
  <2>1. \A m : m \notin opened => (m \in CompletePairs' <=> m \in CompletePairs)
    BY <1>8, <1>12 DEF CompletePairs, PairAt
  <2>2. \A m \in opened : m \notin CompletePairs /\ m \notin CompletePairs'
    BY <1>7, <1>12 DEF CompletePairs
  <2>3. \A m \in CompletePairs : m \in DOMAIN reward
    BY DEF CompletePairs
  <2> QED BY <2>1, <2>2, <2>3, <1>8
<1>14. CompleteItems' = CompleteItems
  BY <1>13 DEF CompleteItems
<1>15. /\ \A e \in Envs : deal[e] = NoItem \/ deal[e] \in MissingItems
       /\ \A e, f \in Envs : deal[e] = deal[f] /\ deal[e] # NoItem => e = f
       /\ \A e \in Envs : deal[e] # NoItem => deal[e] \in Dealt(deal)
  <2> DEFINE all == Envs
  <2>1. MissingItems \subseteq Items /\ all \subseteq Envs /\ deal \in Deals(all, MissingItems)
    BY DEF MissingItems
  <2> HIDE DEF all
  <2>2. \A e \in all : deal[e] = NoItem \/ deal[e] \in MissingItems
    BY <2>1, DealtItems
  <2>3. \A e, f \in all : deal[e] = deal[f] /\ deal[e] # NoItem => e = f
    BY <2>1, DealtItems
  <2>4. \A e \in all : deal[e] # NoItem => deal[e] \in Dealt(deal)
    BY <2>1, DealtItems
  <2> QED BY <2>2, <2>3, <2>4 DEF all
<1>16. ASSUME NEW e \in Envs
       PROVE  /\ env'[e] \in EnvRecords /\ env'[e].item = deal[e]
              /\ env'[e].st = (IF deal[e] = NoItem THEN "off" ELSE "ready")
  <2>1. deal[e] \in Items \cup {NoItem} /\ env'[e] = SetTo(deal[e])
    BY <1>8, <1>15 DEF MissingItems
  <2> QED BY <2>1, SetToItem
<1>17. Shape'
  <2>1. env' \in [Envs -> EnvRecords]
    BY <1>8, <1>16
  <2>2. queue' \in [0 .. NumInfer - 1 -> [Envs -> Seq(Items)]]
    BY <1>2
  <2>3. job' \in [Ranks -> Jobs] /\ shard' \in [Ranks -> Nat]
    BY <1>2, <1>4, <1>8 DEF Jobs
  <2>4. writer' \in [Ranks -> {<<>>} \cup {<<m>> : m \in Names}]
    <3>1. \A d \in Ranks : d < w => ShardName(d, next, w) \in Names
      BY <1>3, <1>4, ShardNames
    <3> QED BY <3>1, <1>8
  <2>5. launches' \in 0 .. MaxLaunches
    BY <1>2, SizesAssumption DEF IInv, Shape
  <2>6. /\ DOMAIN reward' \subseteq Names /\ DOMAIN hidden' \subseteq Names
        /\ (\A n \in DOMAIN reward' : reward'[n] \in Contents)
        /\ (\A n \in DOMAIN hidden' : hidden'[n] \in Contents)
    BY <1>6, <1>8, <1>9 DEF IInv, Shape
  <2>7. pending' \subseteq Items
    BY <1>8 DEF MissingItems
  <2> QED BY <2>1, <2>2, <2>3, <2>4, <2>5, <2>6, <2>7, <1>2, <1>3, <1>8 DEF Shape
<1>18. Fresh'
  <2>1. ASSUME NEW d \in Ranks, d < w, NEW k \in Nat, k > next
        PROVE  ShardName(d, k, w) \notin DOMAIN reward'
    <3>1. ShardName(d, k, w).kind = "shard" /\ ShardName(d, k, w).index = k
      BY <2>1, <1>3, ShardNames
    <3>2. ShardName(d, k, w) \notin DOMAIN reward
      BY <2>1, <3>1, <1>4
    <3>3. ShardName(d, k, w) \notin opened
      BY <2>1, <3>1, <1>4, <1>6
    <3> QED BY <3>2, <3>3, <1>8
  <2>2. \A d \in Ranks, k \in Nat : ShardName(d, k, dumps)' = ShardName(d, k, w)
    BY <1>8 DEF ShardName
  <2>3. \A d \in Ranks : d < w => writer'[d] # <<>> /\ shard'[d] = next
    BY <1>8
  <2> QED BY <2>1, <2>2, <2>3, <1>8 DEF Fresh
<1>19. Agree' /\ Sealed'
  <2>1. Agree'
    BY <1>8, <1>9 DEF IInv, Agree
  <2>2. Sealed'
    BY <1>6, <1>8 DEF IInv, Sealed
  <2> QED BY <2>1, <2>2
<1>20. Calls'
  <2>1. ASSUME NEW d \in Ranks
        PROVE  Call(d)'
    <3>1. job'[d] = <<>>
      BY <1>2
    <3>2. ASSUME writer'[d] # <<>>
          PROVE  Written(d)' \in DOMAIN reward' /\ reward'[Written(d)'] = Nothing
      <4>1. d < w /\ Written(d)' = ShardName(d, next, w)
        BY <3>2, <1>8, <1>10
      <4>2. Written(d)' \in opened
        BY <4>1, <1>6 DEF opened
      <4> QED BY <4>2, <1>8
    <3> QED BY <3>1, <3>2 DEF Call
  <2> QED BY <2>1 DEF Calls
<1>21. Claims'
  <2>1. \A e \in Envs : Live(e)' => deal[e] # NoItem
    BY <1>16 DEF Live
  <2>2. \A e \in Envs : Live(e)' => env'[e].item \in Items \ (pending' \cup CompleteItems')
    BY <2>1, <1>8, <1>14, <1>15, <1>16 DEF MissingItems
  <2>3. \A e, f \in Envs : Live(e)' /\ Live(f)' /\ env'[e].item = env'[f].item => e = f
    BY <2>1, <1>15, <1>16
  <2>4. pending' \cap CompleteItems' = {}
    BY <1>8, <1>14 DEF MissingItems
  <2> QED BY <2>2, <2>3, <2>4 DEF Claims
<1>22. Stages' /\ OnePair' /\ KeptOnDisk' /\ ManifestTruthful'
  <2>1. Stages'
    BY <1>2, <1>16 DEF Stages
  <2>2. OnePair'
    BY <1>13 DEF IInv, OnePair
  <2>3. KeptOnDisk'
    BY <1>2, <1>14 DEF IInv, KeptOnDisk
  <2>4. ManifestTruthful'
    BY <1>2, <1>13, ManifestStays DEF IInv
  <2> QED BY <2>1, <2>2, <2>3, <2>4
<1> QED BY <1>11, <1>14, <1>17, <1>18, <1>19, <1>20, <1>21, <1>22 DEF IInv

\* What a dying dump worker leaves unclosed is the files of calls in progress.
LEMMA UnclosedNames ==
  ASSUME IInv
  PROVE  \A n \in Unclosed : \E d \in Ranks : job[d] # <<>> /\ n = Written(d)
BY DEF Unclosed, IInv, Writers

LEMMA CrashKeeps ==
  ASSUME IInv, Crash
  PROVE  IInv'
<1>1. PICK lostRewards \in SUBSET Unclosed, lostHiddens \in SUBSET Unclosed :
        reward' = Torn(reward, lostRewards) /\ hidden' = Torn(hidden, lostHiddens)
  BY DEF Crash
<1>2. /\ phase' = "off" /\ pending' = {} /\ env' = [e \in Envs |-> Idle]
      /\ queue' = [w \in DOMAIN queue |-> [e \in Envs |-> <<>>]]
      /\ writer' = [d \in Ranks |-> <<>>] /\ job' = [d \in Ranks |-> <<>>]
      /\ overlap' = FALSE /\ dumps' = 1 /\ shard' = [d \in Ranks |-> 0]
      /\ UNCHANGED <<manifest, kept, launches>>
  BY DEF Crash
<1>3. /\ DOMAIN reward' = DOMAIN reward /\ DOMAIN hidden' = DOMAIN hidden
      /\ \A n \in DOMAIN reward : reward'[n] = reward[n] \/ (n \in Unclosed /\ reward'[n] = Nothing)
      /\ \A n \in DOMAIN hidden : hidden'[n] = hidden[n] \/ (n \in Unclosed /\ hidden'[n] = Nothing)
  BY <1>1 DEF Torn
<1>4. Nothing \in Contents /\ Nothing.item = NoItem
  BY SizesAssumption DEF Nothing, Contents
<1>5. \A n \in Unclosed : n.kind = "shard" /\ n \in BeingWritten
  BY UnclosedNames, JobFacts, OwnNames, WrittenNames DEF IInv, Writers
<1>6. \A e \in Envs : env'[e].st = "off"
  BY <1>2, IdleEnvRecord
<1>7. Shape'
  <2>1. env' \in [Envs -> EnvRecords] /\ job' \in [Ranks -> Jobs] /\ shard' \in [Ranks -> Nat]
    BY <1>2, IdleEnvRecord DEF Jobs
  <2>2. queue' \in [0 .. NumInfer - 1 -> [Envs -> Seq(Items)]]
    BY <1>2 DEF IInv, Shape
  <2>3. dumps' \in 1 .. MaxDumps
    BY <1>2, SizesAssumption
  <2>4. (\A n \in DOMAIN reward' : reward'[n] \in Contents) /\ (\A n \in DOMAIN hidden' : hidden'[n] \in Contents)
    BY <1>3, <1>4 DEF IInv, Shape
  <2> QED BY <2>1, <2>2, <2>3, <2>4, <1>2, <1>3 DEF IInv, Shape
<1>8. Writers' /\ Fresh' /\ Calls' /\ Stages'
  BY <1>2, <1>6 DEF Writers, Fresh, Calls, Call, Stages
<1>9. Agree' /\ Sealed'
  <2>1. Agree'
    BY <1>3, <1>4 DEF IInv, Agree
  <2>2. Sealed'
    BY <1>3, <1>5 DEF IInv, Sealed
  <2> QED BY <2>1, <2>2
<1>10. BeingWritten' = {}
  BY <1>2 DEF BeingWritten
<1>11. \A n \in CompletePairs : n \in CompletePairs' /\ n \in DOMAIN reward /\ reward'[n] = reward[n]
  <2>1. ASSUME NEW n \in CompletePairs
        PROVE  n \in DOMAIN reward \cap DOMAIN hidden /\ n \notin Unclosed /\ PairAt(n)
    BY <1>5 DEF CompletePairs, PairAt
  <2>2. ASSUME NEW n \in CompletePairs
        PROVE  reward'[n] = reward[n] /\ hidden'[n] = hidden[n]
    BY <2>1, <1>3
  <2> QED BY <2>1, <2>2, <1>3, <1>10 DEF CompletePairs, PairAt
<1>12. ASSUME NEW n \in CompletePairs', n \notin CompletePairs
       PROVE  \E d \in Ranks : job[d] # <<>> /\ n = Written(d) /\ reward'[n].item = env[JobEnv(d)].item
  <2>1. /\ n \in DOMAIN reward /\ n \in DOMAIN hidden
        /\ reward'[n].item # NoItem /\ hidden'[n].item # NoItem
    BY <1>3, <1>12 DEF CompletePairs, PairAt
  <2>2. reward'[n] = reward[n] /\ hidden'[n] = hidden[n]
    BY <2>1, <1>3, <1>4
  <2>3. n \in BeingWritten
    BY <2>1, <2>2, <1>12 DEF CompletePairs, PairAt
  <2>4. PICK d \in Ranks : writer[d] # <<>> /\ n = Written(d)
    BY <2>3, WrittenNames DEF IInv
  <2>5. job[d] # <<>>
    BY <2>1, <2>2, <2>4, <1>4 DEF IInv, Calls, Call
  <2>6. job[d][1].pc = "written"
    BY <2>1, <2>4, <2>5, JobFacts DEF IInv, Calls, Call
  <2>7. reward[n] = Demos(d)
    BY <2>4, <2>5, <2>6 DEF IInv, Calls, Call
  <2> QED BY <2>2, <2>4, <2>5, <2>7, JobFacts
<1>13. KeptOnDisk' /\ ManifestTruthful'
  <2>1. CompleteItems \subseteq CompleteItems'
    BY <1>11 DEF CompleteItems
  <2>2. ManifestTruthful'
    BY <1>2, <1>11, ManifestStays DEF IInv
  <2> QED BY <2>1, <2>2, <1>2 DEF IInv, KeptOnDisk
<1>14. Claims'
  BY <1>2, <1>6 DEF Claims, Live
<1>15. OnePair'
  <2>1. SUFFICES ASSUME NEW m \in CompletePairs', NEW n \in CompletePairs', reward'[m].item = reward'[n].item
                 PROVE  m = n
    BY DEF OnePair
  <2>2. \A k \in CompletePairs : reward'[k].item \in CompleteItems
    BY <1>11 DEF CompleteItems
  <2>3. \A k \in CompletePairs' : k \notin CompletePairs => reward'[k].item \notin CompleteItems
    BY <1>12, JobFacts
  <2>4. CASE m \in CompletePairs /\ n \in CompletePairs
    BY <2>1, <2>4, <1>11 DEF IInv, OnePair
  <2>5. CASE m \notin CompletePairs /\ n \notin CompletePairs
    <3>1. PICK d \in Ranks : job[d] # <<>> /\ m = Written(d) /\ reward'[m].item = env[JobEnv(d)].item
      BY <2>5, <1>12
    <3>2. PICK f \in Ranks : job[f] # <<>> /\ n = Written(f) /\ reward'[n].item = env[JobEnv(f)].item
      BY <2>5, <1>12
    <3>3. JobEnv(d) = JobEnv(f)
      BY <2>1, <3>1, <3>2, JobFacts DEF IInv, Claims
    <3>4. d = f
      BY <3>1, <3>2, <3>3, OtherJobs
    <3> QED BY <3>1, <3>2, <3>4
  <2> QED BY <2>1, <2>2, <2>3, <2>4, <2>5
<1> QED BY <1>7, <1>8, <1>9, <1>13, <1>14, <1>15 DEF IInv

-----------------------------------------------------------------------------
(* The theorems.                                                           *)

LEMMA InitIInv == Init => IInv
<1> SUFFICES ASSUME Init
             PROVE  IInv
  OBVIOUS
<1>1. /\ phase = "off" /\ overlap = FALSE /\ pending = {} /\ launches = 0 /\ dumps = 1
      /\ env = [e \in Envs |-> Idle] /\ queue = [w \in 0 .. NumInfer - 1 |-> [e \in Envs |-> <<>>]]
      /\ writer = [d \in Ranks |-> <<>>] /\ shard = [d \in Ranks |-> 0] /\ job = [d \in Ranks |-> <<>>]
      /\ reward = <<>> /\ hidden = <<>> /\ kept = {} /\ manifest = <<>>
  BY DEF Init
<1>2. DOMAIN reward = {} /\ DOMAIN hidden = {}
  BY <1>1
<1>3. \A e \in Envs : env[e].st = "off"
  BY <1>1, IdleEnvRecord
<1>4. Shape
  <2>1. env \in [Envs -> EnvRecords] /\ job \in [Ranks -> Jobs] /\ shard \in [Ranks -> Nat]
    BY <1>1, IdleEnvRecord DEF Jobs
  <2>2. dumps \in 1 .. MaxDumps /\ launches \in 0 .. MaxLaunches
    BY <1>1, SizesAssumption
  <2>3. queue \in [0 .. NumInfer - 1 -> [Envs -> Seq(Items)]]
    BY <1>1
  <2>4. writer \in [Ranks -> {<<>>} \cup {<<n>> : n \in Names}]
    BY <1>1
  <2> QED BY <2>1, <2>2, <2>3, <2>4, <1>1, <1>2 DEF Shape
<1>5. CompletePairs = {}
  BY <1>2 DEF CompletePairs
<1>6. CompleteItems = {}
  BY <1>5 DEF CompleteItems
<1> QED BY <1>1, <1>2, <1>3, <1>4, <1>5, <1>6 DEF IInv, Writers, Fresh, Agree, Sealed, Calls, Call,
        Claims, Live, Stages, OnePair, KeptOnDisk, ManifestTruthful

LEMMA NextIInv ==
  ASSUME IInv, [Next]_vars
  PROVE  IInv'
<1>1. CASE Launch
  BY <1>1, LaunchKeeps
<1>2. CASE Drive
  BY <1>2, StartRoundKeeps, StartTurnKeeps, EndTurnKeeps, HandleRoundKeeps, LeaveLoopKeeps,
     WriteManifestKeeps, HandleStepKeeps DEF Drive
<1>3. CASE Infer
  BY <1>3, InferKeeps
<1>4. CASE \E e \in Envs : StepEnv(e) \/ Respawn(e) \/ AddEpisode(e)
  BY <1>4, StepEnvKeeps, RespawnKeeps, AddEpisodeKeeps
<1>5. CASE \E d \in Ranks : RenameReward(d) \/ RenameHidden(d)
  BY <1>5, RenameRewardKeeps, RenameHiddenKeeps
<1>6. CASE Crash
  BY <1>6, CrashKeeps
<1>7. CASE UNCHANGED vars
  <2>1. UNCHANGED <<phase, overlap, turn, pending, env, queue, dumps, writer, shard, job, reward,
                    hidden, manifest, kept, launches>>
    BY <1>7 DEF vars, driver, workers, dumpers, disk
  <2>2. CompletePairs' = CompletePairs /\ CompleteItems' = CompleteItems
    BY <2>1, SameFiles
  <2>3. Shape' /\ Writers' /\ Fresh' /\ Agree' /\ Sealed' /\ Stages'
    BY <2>1 DEF IInv, Shape, Writers, Written, ShardName, Fresh, Agree, Sealed, Stages
  <2>4. Calls'
    BY <2>1 DEF IInv, Calls, Call, Written, ShardName, Demos, Demo, Target, TrajOf, JobEnv, DumpOf
  <2>5. Claims' /\ OnePair' /\ KeptOnDisk' /\ ManifestTruthful'
    BY <2>1, <2>2 DEF IInv, Claims, Live, OnePair, KeptOnDisk, ManifestTruthful
  <2> QED BY <2>3, <2>4, <2>5 DEF IInv
<1> QED BY <1>1, <1>2, <1>3, <1>4, <1>5, <1>6, <1>7 DEF Next

\* The strengthening all theorems below rest on: names, claims and the place of
\* each demo in flight (dump_worker.py:83-202, collection_manifest.py:107-190).
THEOREM CollectionInvariant == Spec => []IInv
BY InitIInv, NextIInv, PTL DEF Spec

\* An acknowledged episode stays complete through crashes, relaunches and changes
\* of the number of dump workers: no shard name is reused over it and no rename
\* replaces half of its pair.
THEOREM NothingCollectedIsLost == Spec => []KeptOnDisk
<1>1. IInv => KeptOnDisk
  BY DEF IInv
<1> QED BY <1>1, CollectionInvariant, PTL

\* The last manifest written lists pairs that are still there, whatever crashed or
\* ran since, and its "complete" stays true.
THEOREM ManifestStaysTrue == Spec => []ManifestTruthful
<1>1. IInv => ManifestTruthful
  BY DEF IInv
<1> QED BY <1>1, CollectionInvariant, PTL

\* Reward and hidden file of a pair come from one attempt, and an episode is
\* collected once, wherever runs died between the writes and the two renames.
THEOREM PairsNeverMix == Spec => []PairsAgree
<1>1. IInv => PairsAgree
  <2>1. ASSUME IInv
        PROVE  \A n \in CompletePairs : reward[n] = hidden[n]
    BY <2>1 DEF IInv, Agree, CompletePairs, PairAt
  <2> QED BY <2>1 DEF IInv, OnePair, PairsAgree
<1> QED BY <1>1, CollectionInvariant, PTL

=============================================================================
