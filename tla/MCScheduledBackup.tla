------------------------- MODULE MCScheduledBackup -------------------------
(* Model-checking instances of ScheduledBackup. *)
EXTENDS ScheduledBackup, TLC

CONSTANTS pathA, pathB

\* Every run has a path of its own, or all have the same.
OwnPaths == [r \in Runs |-> IF r = 1 THEN pathA ELSE pathB]
OnePath == [r \in Runs |-> pathA]
BothNamings == {OwnPaths, OnePath}
OnlyOwnPaths == {OwnPaths}

\* The processes behave alike.
Symmetric == Permutations(Procs)

=============================================================================
