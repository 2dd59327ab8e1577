---------------------------- MODULE MCEventService ----------------------------
(* Instances of EventService for TLC.                                          *)
EXTENDS EventService, TLC

\* Publishers are interchangeable.  Not used where a liveness property is checked.
Interchangeable == Permutations(Publishers)
=============================================================================
