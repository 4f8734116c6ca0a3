--------------------------- MODULE MC_Replication ---------------------------
(***************************************************************************)
(* Instances of Replication for TLC.  Producers, handlers and connections  *)
(* are interchangeable, so every run may permute them, except the liveness *)
(* run, where symmetry is unsound.                                         *)
(***************************************************************************)
EXTENDS Replication, TLC

Symmetry == Permutations(Producers) \cup Permutations(Handlers) \cup Permutations(Conns)
=============================================================================
