--------------------------- MODULE TopKCheckpoints ---------------------------
(***************************************************************************)
(* The checkpoint directory of a cotrain run: latest.ckpt and the files    *)
(* epoch=<step>-<metric>=<value>.ckpt that TopKCheckpointManager keeps.    *)
(*                                                                         *)
(* A save chooses the metric file and deletes the one it replaces, then    *)
(* renames a new latest.ckpt into place, then links it under its metric    *)
(* name.  The driver may stop between any two of these, and a later run    *)
(* may resume from latest.ckpt or from a metric file in the same           *)
(* directory, redo steps it has done before, or keep another number k.     *)
(*                                                                         *)
(* A file name maps to an inode, since the metric file is a hard link.     *)
(* Metric values are counted in thirds of the last printed digit: the name *)
(* holds the rounded value, the manager's memory the exact one.            *)
(***************************************************************************)
EXTENDS Integers, Sequences, FiniteSets, SequencesExt

CONSTANTS
  Maximize,      \* checkpoint.topk.mode = "max"
  Ks,            \* values of checkpoint.topk.k the launches use
  Values,        \* metric values
  MidSave,       \* may the driver stop inside a save?
  MaxEpochs,     \* bound: global steps
  MaxRestarts    \* bound: resumes

ASSUME DirectionAssumption == {Maximize, MidSave} \subseteq BOOLEAN
ASSUME SizesAssumption ==
  /\ Ks \subseteq Nat \ {0} /\ Values \subseteq Nat
  /\ MaxEpochs \in Nat /\ MaxRestarts \in Nat

Unscored == -1                      \* the step was not evaluated
Scores   == Values \cup {Unscored}

Printed(v)  == (v + 1) \div 3       \* f"{value:.6f}"
Parsed(p)   == 3 * p                \* float(match.group(1))
Better(v, w) == IF Maximize THEN v > w ELSE v < w

Paths    == [epoch : 1 .. MaxEpochs, printed : {Printed(v) : v \in Values}]
Payloads == [epoch : 1 .. MaxEpochs, value : Scores]

VARIABLES
  phase,     \* runner: train, choose, save, copy
  epoch,     \* runner: global step
  value,     \* runner: metric of this step
  target,    \* runner: metric_path, as a sequence of length at most 1
  k,         \* manager: k
  loaded,    \* does this run have its manager yet?
  map,       \* manager: path_value_map, in insertion order
  latest,    \* disk: inode of latest.ckpt, 0 if there is none
  files,     \* disk: metric files, path -> inode
  data,      \* disk: inode -> payload
  kept,      \* history: metric files ever completed
  restarts

disk == <<latest, files, data, kept>>
vars == <<phase, epoch, value, target, k, loaded, map, disk, restarts>>

Dropped == kept \ DOMAIN files

-----------------------------------------------------------------------------
(* TopKCheckpointManager.                                                  *)

BeforeReversed(p, q) ==             \* faulty: the sort ignores the mode
  \/ Better(q.printed, p.printed)
  \/ p.printed = q.printed /\ p.epoch < q.epoch

\* Sorted by (value, path), descending when the metric is maximized.
Before(p, q) ==
  \/ Better(p.printed, q.printed)
  \/ p.printed = q.printed /\ (IF Maximize THEN p.epoch > q.epoch ELSE p.epoch < q.epoch)

Place(p) == Cardinality({q \in DOMAIN files : Before(q, p)}) + 1

Ranked ==
  [i \in 1 .. Cardinality(DOMAIN files) |-> CHOOSE p \in DOMAIN files : Place(p) = i]

AllRanked == Ranked                 \* faulty: nothing is pruned
FirstRanked == SubSeq(Ranked, 1, IF Len(Ranked) < k THEN Len(Ranked) ELSE k)

\* _restore_existing_checkpoints: what the manager knows when it is created.
Restored == [i \in DOMAIN FirstRanked |->
               [path |-> FirstRanked[i], value |-> Parsed(FirstRanked[i].printed)]]

Known == IF loaded THEN map ELSE Restored
KnownPaths(m) == {m[i].path : i \in DOMAIN m}

\* The entry sorted() puts at the losing end; sorted() is stable.
WorstAt(m) ==
  CHOOSE i \in DOMAIN m : \A j \in DOMAIN m :
    \/ Better(m[j].value, m[i].value)
    \/ m[j].value = m[i].value /\ (IF Maximize THEN i <= j ELSE j <= i)

Evict(m) == RemoveAt(m, WorstAt(m))

\* path_value_map[path] = v keeps the place of a path that is there already.
Put(m, path, v) ==
  IF path \in KnownPaths(m)
    THEN [i \in DOMAIN m |-> IF m[i].path = path THEN [path |-> path, value |-> v] ELSE m[i]]
    ELSE Append(m, [path |-> path, value |-> v])

Without(paths) == [p \in DOMAIN files \ paths |-> files[p]]

-----------------------------------------------------------------------------
Init ==
  /\ phase = "train" /\ epoch = 0 /\ value = Unscored /\ target = <<>>
  /\ k \in Ks /\ loaded = FALSE /\ map = <<>>
  /\ latest = 0 /\ files = <<>> /\ data = <<>> /\ kept = {}
  /\ restarts = 0

\* A global step with or without an evaluation ends; its state is gathered.
FinishStep ==
  /\ phase = "train"
  /\ epoch < MaxEpochs
  /\ epoch' = epoch + 1
  /\ value' \in Scores
  /\ phase' = "choose"
  /\ UNCHANGED <<target, k, loaded, map, disk, restarts>>

\* _manual_topk_manager and get_ckpt_path: a file the directory has no room for
\* is deleted before the new one exists.
ChoosePath ==
  LET path   == [epoch |-> epoch, printed |-> Printed(value)]
      room   == Len(Known) < k
      worst  == Known[WorstAt(Known)]
      beaten == ~room /\ Better(value, worst.value)
      pruned == DOMAIN files \ KnownPaths(Known)
  IN
  /\ phase = "choose"
  /\ phase' = "save"
  /\ loaded' = TRUE
  /\ \/ /\ value = Unscored \/ (~room /\ ~beaten)
        /\ map' = Known /\ target' = <<>> /\ files' = Without(pruned)
     \/ /\ value # Unscored /\ room
        /\ map' = Put(Known, path, value) /\ target' = <<path>> /\ files' = Without(pruned)
     \/ /\ value # Unscored /\ beaten
        /\ map' = Put(Evict(Known), path, value)
        /\ target' = <<path>>
        /\ files' = Without(pruned \cup {worst.path})
  /\ UNCHANGED <<epoch, value, k, latest, data, kept, restarts>>

AfterSave == IF target = <<>> THEN "train" ELSE "copy"

SaveInPlace ==                      \* faulty: torch.save straight into latest.ckpt
  /\ phase = "save"
  /\ latest' = 1
  /\ data' = <<[epoch |-> epoch, value |-> value]>>
  /\ phase' = AfterSave
  /\ UNCHANGED <<epoch, value, target, k, loaded, map, files, kept, restarts>>

\* _atomic_torch_save: a new file is renamed over latest.ckpt.
SaveLatest ==
  /\ phase = "save"
  /\ latest' = Len(data) + 1
  /\ data' = Append(data, [epoch |-> epoch, value |-> value])
  /\ phase' = AfterSave
  /\ UNCHANGED <<epoch, value, target, k, loaded, map, files, kept, restarts>>

\* _materialize_checkpoint_copy: link latest.ckpt under the metric name.
CopyToMetricPath ==
  /\ phase = "copy"
  /\ files' = [p \in DOMAIN files \cup {target[1]} |-> IF p = target[1] THEN latest ELSE files[p]]
  /\ kept' = kept \cup {target[1]}
  /\ target' = <<>>
  /\ phase' = "train"
  /\ UNCHANGED <<epoch, value, k, loaded, map, latest, data, restarts>>

\* The driver stops and a run is resumed in the same directory from latest.ckpt
\* or a metric file, or from nothing before the first save.
Restart ==
  /\ restarts < MaxRestarts
  /\ phase = "train" \/ MidSave
  /\ restarts' = restarts + 1
  /\ \E source \in {latest} \cup {files[p] : p \in DOMAIN files} :
       epoch' = IF source = 0 THEN 0 ELSE data[source].epoch
  /\ k' \in Ks
  /\ phase' = "train" /\ value' = Unscored /\ target' = <<>>
  /\ loaded' = FALSE /\ map' = <<>>
  /\ UNCHANGED disk

Next == FinishStep \/ ChoosePath \/ SaveLatest \/ CopyToMetricPath \/ Restart

Spec == Init /\ [][Next]_vars

-----------------------------------------------------------------------------
(* Properties.                                                             *)

\* Variables have their types, and the manager never counts more than k files.
TypeOK ==
  /\ phase \in {"train", "choose", "save", "copy"}
  /\ epoch \in 0 .. MaxEpochs /\ value \in Scores
  /\ Len(target) <= 1 /\ (\A i \in DOMAIN target : target[i] \in Paths)
  /\ k \in Ks /\ loaded \in BOOLEAN
  /\ Len(map) <= k /\ KnownPaths(map) \subseteq Paths
  /\ \A i \in DOMAIN data : data[i] \in Payloads
  /\ latest \in 0 .. Len(data)
  /\ DOMAIN files \subseteq kept /\ kept \subseteq Paths
  /\ restarts \in 0 .. MaxRestarts

\* The directory can be believed: a metric file holds, for as long as it exists,
\* the checkpoint of the step and with the metric its name gives, although it
\* shares its inode with latest.ckpt; and between saves the manager's table is
\* what is on disk, so it neither counts a file that is gone nor forgets one
\* that should be deleted later.
NamesTellContents ==
  \A p \in DOMAIN files :
    data[files[p]].epoch = p.epoch /\ Printed(data[files[p]].value) = p.printed

ManagerKnowsDisk == loaded /\ phase = "train" => KnownPaths(map) = DOMAIN files

DirectoryTrue == NamesTellContents /\ ManagerKnowsDisk

\* With k > 1 some metric file as good as every one ever completed is on disk at
\* any time: not lost by a stop between deletion and copy, by a resume from an
\* older step or by a smaller k.
BestSurvives ==
  \A p \in kept : \E q \in DOMAIN files : ~Better(p.printed, q.printed)

\* Between saves the directory holds k metric files unless fewer were completed,
\* and none that was dropped is better than one that is there ("number of flat
\* metric checkpoints retained").
TopKRetained ==
  loaded /\ phase = "train" /\ Dropped # {} =>
    /\ Cardinality(DOMAIN files) = k
    /\ \A p \in Dropped, q \in DOMAIN files : ~Better(p.printed, q.printed)
=============================================================================
