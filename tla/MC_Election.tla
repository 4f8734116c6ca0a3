---------------------------- MODULE MC_Election ----------------------------
(***************************************************************************)
(* Instances of Election for TLC.  HEARTBEAT_INTERVAL is one tick or two;  *)
(* as in config.py, a lease lasts six of it.                               *)
(***************************************************************************)
EXTENDS Election, TLC

Symmetry == Permutations(Leaders) \cup Permutations(Followers)
=============================================================================
