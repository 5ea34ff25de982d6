---------------------------- MODULE MCSyncClient ----------------------------
(***************************************************************************)
(* Small instances of SyncClient: two devices d1 and d2.                   *)
(***************************************************************************)
EXTENDS SyncClient

CONSTANTS d1, d2

\* The daemon without long-polling and the CLI on d1, a CLI without daemon
\* on d2.
PollingDaemon == {<<d1, "periodic">>, <<d1, "cli">>, <<d2, "cli">>}

\* One machine: the full daemon and its CLI.
FullMachine == {<<d1, "periodic">>, <<d1, "wait">>, <<d1, "cli">>}

\* Two machines that only use the CLI.
TwoClis == {<<d1, "cli">>, <<d2, "cli">>}
=============================================================================
