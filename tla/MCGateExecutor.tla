---------------------------- MODULE MCGateExecutor ----------------------------
(* Instances of GateExecutor for TLC.                                          *)
EXTENDS GateExecutor, TLC

\* Two callers race for busy; the third one finds the executor in whatever state
\* the first two have left.  Callers are interchangeable.
Interchangeable == Permutations(Callers)
=============================================================================
