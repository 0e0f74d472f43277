-------------------------- MODULE MCRunningQueries --------------------------
(* Model-checking instances of RunningQueries. *)
EXTENDS RunningQueries, TLC

\* Execution ids and connections are only ever compared for equality.
Symmetry == Permutations(ExecIds) \cup Permutations(Conns)

=============================================================================
