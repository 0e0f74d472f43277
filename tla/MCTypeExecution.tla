-------------------------- MODULE MCTypeExecution --------------------------
(* Model-checking instance of TypeExecution. *)
EXTENDS TypeExecution, TLC

CONSTANTS i1, i2, p1, p2, r1, r2, r3, o1, o2

Symmetry == Permutations({i1, i2}) \cup Permutations({p1, p2})
            \cup Permutations({r1, r2, r3}) \cup Permutations({o1, o2})
=============================================================================
