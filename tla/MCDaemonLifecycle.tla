------------------------- MODULE MCDaemonLifecycle -------------------------
(* Two processes of one device, with and without a server.                 *)
EXTENDS DaemonLifecycle

Full == [server |-> TRUE, p2p |-> TRUE, relay |-> TRUE, repl |-> TRUE,
         gateway |-> "private"]
Offline == [server |-> FALSE, p2p |-> FALSE, relay |-> FALSE, repl |-> FALSE,
            gateway |-> "none"]

SomeConfigs == {Full, Offline}
=============================================================================
