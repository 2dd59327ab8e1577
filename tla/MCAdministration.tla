-------------------------- MODULE MCAdministration --------------------------
(* An instance of Administration for TLC.                                       *)
EXTENDS Administration, TLC

CONSTANTS c1, c2, g1, x1, x2, v1, v2, q1, q2

Interchangeable == Permutations({c1, c2}) \cup Permutations({x1, x2}) \cup
                   Permutations({v1, v2}) \cup Permutations({q1, q2})
=============================================================================
