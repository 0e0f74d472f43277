-------------------------- MODULE MCTwoPhaseCommit --------------------------
(* Model-checking instances of TwoPhaseCommit. *)
EXTENDS TwoPhaseCommit

=============================================================================
