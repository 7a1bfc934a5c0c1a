---------------------------- MODULE MCEnvRollout ----------------------------
(***************************************************************************)
(* Small instances of EnvRollout for TLC.                                  *)
(***************************************************************************)
EXTENDS EnvRollout

CONSTANT NGpu   \* manual_cotrain.ngpu

\* CotrainRunner without faults, DreamerRunner with one.
BothRunners ==
  {[frozen |-> FALSE, rollouts |-> 4, chunks |-> 2, real |-> 4, wm |-> 3,
    budget |-> FALSE, faults |-> 0],
   [frozen |-> TRUE, rollouts |-> 3, chunks |-> 1, real |-> 3, wm |-> 5,
    budget |-> TRUE, faults |-> 1]}

\* build_manual_cotrain_placement without component_gpu_groups: a rollout
\* worker per GPU; GPU 0 has no WM worker when there is a real worker.
PlacedWMWorkers == NGpu - 1
Placed ==
  {[frozen |-> FALSE, rollouts |-> NGpu, chunks |-> 1, real |-> 2, wm |-> 1,
    budget |-> FALSE, faults |-> 0]}
=============================================================================
