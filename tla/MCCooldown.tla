------------------------------- MODULE MCCooldown -------------------------------
(* Instances of Cooldown for TLC.                                               *)
EXTENDS Cooldown, TLC

\* Plates are interchangeable.
Interchangeable == Permutations(Plates)
=============================================================================
