---------------------------- MODULE MCParityStore ----------------------------
(***************************************************************************)
(* Small instances of ParityStore: a short and a long chunk.               *)
(***************************************************************************)
EXTENDS ParityStore, TLC

Sizes == [b \in {"short", "long"} |-> IF b = "short" THEN 1 ELSE 2]

ChunkSymmetry == Permutations(Chunks) \cup Permutations(Users)
==============================================================================
