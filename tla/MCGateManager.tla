----------------------------- MODULE MCGateManager -----------------------------
(* Instances of GateManager for TLC.                                           *)
EXTENDS GateManager, TLC

\* Gates are interchangeable, and so are the threads that open them.
Interchangeable == Permutations(Gates) \cup Permutations(Openers)
=============================================================================
