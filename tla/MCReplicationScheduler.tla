----------------------- MODULE MCReplicationScheduler -----------------------
(***************************************************************************)
(* Small instances of ReplicationScheduler.                                *)
(***************************************************************************)
EXTENDS ReplicationScheduler

FourFiles == <<"a", "b", "c", "d">>

OnlyFirst == {"a"}
=============================================================================
