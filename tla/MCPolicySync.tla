---------------------------- MODULE MCPolicySync ----------------------------
(***************************************************************************)
(* Small instances of PolicySync for TLC.                                  *)
(***************************************************************************)
EXTENDS PolicySync

\* A checkpoint another run wrote after its first global step.
OtherRun == {[policy |-> MaxPolicy + 1, step |-> 1]}
=============================================================================
