--------------------------- MODULE MCAuthentication ---------------------------
(* Instances of Authentication for TLC.                                         *)
EXTENDS Authentication, TLC

\* Requests are interchangeable, and so are keys.
Interchangeable == Permutations(Requests) \cup Permutations(Keys)
=============================================================================
