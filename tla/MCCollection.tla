---------------------------- MODULE MCCollection ----------------------------
(* Small instances of Collection for TLC.                                   *)
EXTENDS Collection

\* Relaunches may change the mode and the number of dump workers.
TwoConfigs == {[overlap |-> TRUE, world |-> 2], [overlap |-> FALSE, world |-> 1]}
=============================================================================
