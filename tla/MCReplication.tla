---------------------------- MODULE MCReplication ----------------------------
(***************************************************************************)
(* Small instances of Replication.                                         *)
(***************************************************************************)
EXTENDS Replication, TLC

HolderSymmetry == Permutations(Holders)
==============================================================================
