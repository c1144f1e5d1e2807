---------------------------- MODULE MCNightlyUpdate ----------------------------
(* A small instance of NightlyUpdate: release 1 is installed, and 2 is broken.  *)
EXTENDS NightlyUpdate
=============================================================================
