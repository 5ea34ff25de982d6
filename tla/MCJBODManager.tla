---------------------------- MODULE MCJBODManager ----------------------------
(***************************************************************************)
(* Small instances of JBODManager: one file name.                          *)
(***************************************************************************)
EXTENDS JBODManager, TLC

CONSTANT n

\* A file in the root.
OneFile == {<<Root, n>>}

Alike == Permutations(Procs) \cup Permutations(Dirs)
=============================================================================
