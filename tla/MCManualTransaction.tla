------------------------ MODULE MCManualTransaction ------------------------
(* Model-checking instance of ManualTransaction. *)
EXTENDS ManualTransaction

CONSTANTS r1, r2

=============================================================================
