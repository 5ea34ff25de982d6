-------------------------- MODULE MCLoopbackSource --------------------------
(***************************************************************************)
(* A small instance of LoopbackSource.  The processes are alike.           *)
(***************************************************************************)
EXTENDS LoopbackSource, TLC

ProcessesAlike == Permutations(Procs)
=============================================================================
