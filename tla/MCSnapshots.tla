------------------------------ MODULE MCSnapshots ------------------------------
(* Small instances of Snapshots: a tick is half a day.                          *)
EXTENDS Snapshots
=============================================================================
