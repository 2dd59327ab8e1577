----------------------------- MODULE MCLiveEvents -----------------------------
(* An instance of LiveEvents for TLC.                                           *)
EXTENDS LiveEvents, TLC

CONSTANTS k1, k2, k3
=============================================================================
