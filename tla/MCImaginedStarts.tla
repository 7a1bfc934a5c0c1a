--------------------------- MODULE MCImaginedStarts ---------------------------
(***************************************************************************)
(* A small instance of ImaginedStarts for TLC.                             *)
(***************************************************************************)
EXTENDS ImaginedStarts, TLC

\* Two tasks; lengths below, at and above a training sequence, with and
\* without room for an early negative.
TwoTasks ==
  {[task |-> 1, success |-> FALSE, len |-> 2],
   [task |-> 1, success |-> TRUE,  len |-> 3],
   [task |-> 2, success |-> FALSE, len |-> 3],
   [task |-> 2, success |-> FALSE, len |-> 1]}

\* Frozen: strict as in wmcls_cotrain.yaml, and with that key left unset.
\* Full: openvla_onetraj_libero_cotrain.yaml, whose env.wm.cfg sets neither
\* require_balanced_initial_conditions nor bootstrap_group_size nor the selector;
\* and the same made strict, with groups of two.
Shipped ==
  LET frozen == [flow |-> "frozen", failed |-> TRUE, strict |-> TRUE,
                 group |-> 1, perLease |-> TRUE, latest |-> TRUE,
                 mixed |-> FALSE, limit |-> NoLimit]
      full   == [frozen EXCEPT !.flow = "full", !.failed = FALSE, !.strict = FALSE,
                               !.perLease = FALSE, !.mixed = TRUE]
  IN {frozen,
      [frozen EXCEPT !.failed = FALSE, !.group = 2],
      [frozen EXCEPT !.failed = FALSE, !.strict = FALSE],
      full, [full EXCEPT !.strict = TRUE, !.group = 2],
      [frozen EXCEPT !.flow = "online"],
      [frozen EXCEPT !.flow = "online", !.mixed = TRUE, !.limit = 0]}

Interchangeable == Permutations(Workers)
=============================================================================
