--------------------------- MODULE MCInferenceManager ---------------------------
(* Instances of InferenceManager for TLC.                                       *)
EXTENDS InferenceManager, TLC

\* Cameras are interchangeable.
Interchangeable == Permutations(Cameras)
=============================================================================
