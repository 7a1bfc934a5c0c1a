-------------------------- MODULE MCTopKCheckpoints --------------------------
(* Instances of TopKCheckpoints for TLC: max and min metrics.               *)
EXTENDS TopKCheckpoints
=============================================================================
