--------------------------- MODULE MCStagedCotrain ---------------------------
(* Instances of StagedCotrain for TLC: the three training modes.            *)
EXTENDS StagedCotrain

\* Bounds of staged_full_cotrain, whose steps are longer than the others'.
CONSTANTS FullSteps, FullRestarts

OneEach     == [m \in Modes |-> 1]
TwoWhenFull == [m \in Modes |-> IF m = "staged_full_cotrain" THEN 2 ELSE 1]

OneTask          == [m \in Modes |-> {1}]
TwoTasksWhenFull == [m \in Modes |-> IF m = "staged_full_cotrain" THEN {1, 2} ELSE {1}]

\* The recipes of the frozen modes are strict; that of staged_full_cotrain is
\* not, but may be made so.
BoundedInit == Init /\ (~Full => strict)

Within == Full => step <= FullSteps /\ restarts <= FullRestarts
BoundedSpec == BoundedInit /\ [][Next /\ Within']_vars
=============================================================================
