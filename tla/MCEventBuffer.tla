---------------------------- MODULE MCEventBuffer ----------------------------
(* Model-checking instances of EventBuffer, with the limits of the code       *)
(* scaled down in their order: slack < replay limit < hard cap.              *)
EXTENDS EventBuffer, TLC

CONSTANTS c1, c2

Symmetry == Permutations({c1, c2})
=============================================================================
