------------------------------- MODULE MCApi --------------------------------
(* One user, in the console and on the CLI; two requests at a time. *)
EXTENDS Api

CONSTANTS r1, r2, a, b, x

MCScope == (x :> "compute")
Symmetry == Permutations({r1, r2}) \cup Permutations({a, b})
=============================================================================
