----------------------------- MODULE MC_Failover -----------------------------
(***************************************************************************)
(* Instances of Failover for TLC.  Producers are interchangeable.          *)
(***************************************************************************)
EXTENDS Failover, TLC

Symmetry == Permutations(Producers)
=============================================================================
