--------------------------- MODULE MCRemoteRequest ---------------------------
(***************************************************************************)
(* A small instance of RemoteRequest.                                      *)
(***************************************************************************)
EXTENDS RemoteRequest

SomeMixes == {{"read", "write", "rmdir"}, {"list", "delete"}, {"exists", "mkdir"}}
=============================================================================
