----------------------------- MODULE MCJobQueue -----------------------------
(* Model-checking instances of JobQueue: one job, its messages, and two run   *)
(* and dispatcher slots that are interchangeable.                            *)
EXTENDS JobPromise

CONSTANTS a, b, x, r1, r2, d1, d2

Symmetry == Permutations({r1, r2}) \cup Permutations({d1, d2})
=============================================================================
