--------------------------- MODULE MCTokenRefresh ---------------------------
(***************************************************************************)
(* Small instances of TokenRefresh.                                        *)
(***************************************************************************)
EXTENDS TokenRefresh

\* Two coroutines of the daemon's event loop, such as the long poll and the
\* heartbeat, and a CLI command.
SharedLoop ==
    {<<"daemon", "main", 1>>, <<"daemon", "main", 2>>, <<"cli1", "main", 1>>}
=============================================================================
