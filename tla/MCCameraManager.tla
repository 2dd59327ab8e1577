---------------------------- MODULE MCCameraManager ----------------------------
(* Instances of CameraManager for TLC.                                          *)
EXTENDS CameraManager, TLC

\* Cameras and requests are interchangeable.  Not used with liveness properties.
Interchangeable == Permutations(Cameras) \cup Permutations(Requests)
=============================================================================
