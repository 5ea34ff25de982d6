--------------------------- MODULE DaemonLifecycle ---------------------------
(***************************************************************************)
(* The daemon processes of one device: the check against a second start,   *)
(* the start-up with its offline and unregistered outcomes, the control    *)
(* file and the stop sentinel that stand in for signals, the background    *)
(* tasks, the recovery from offline mode, the heartbeat, and the cleanup.  *)
(* All processes share one metadata_db, hence one control file, one        *)
(* sentinel and one P2P port.                                              *)
(*                                                                         *)
(* Time passes in units of the control file's renewal (5 s).               *)
(***************************************************************************)
EXTENDS Integers, Sequences, FiniteSets, SequencesExt

CONSTANTS Procs,        \* the daemon processes, each with one life
          Configs,      \* the configurations a device may have
          StaleAge,     \* units after which a control file is stale
          MaxTries,     \* attempts of one registration
          MaxFaults,    \* bound: crashes, failures and races
          MaxStops,     \* bound: `daemon stop' commands and signals
          NoFile

\* The UPnP gateway of the device's network, which may itself be behind a NAT.
Gateways == {"none", "public", "private"}

ASSUME ConstantsAssumption ==
    /\ Configs \subseteq [server : BOOLEAN, p2p : BOOLEAN, relay : BOOLEAN,
                          repl : BOOLEAN, gateway : Gateways]
    /\ StaleAge \in Nat \ {0}
    /\ MaxTries \in Nat \ {0}
    /\ MaxFaults \in Nat
    /\ MaxStops \in Nat
    /\ NoFile \notin [by : Procs, age : Nat]

VARIABLES
    conf,     \* the device's configuration
    pc,       \* where each process is
    mode,     \* how its start-up went
    tasks,    \* its running background tasks
    todo,     \* what its cleanup has still to stop
    id,       \* whether its DeviceManager has a device id
    tries,    \* failed attempts of its current registration
    attempt,  \* the step its recovery attempt is at
    mapped,   \* whether it believes in a UPnP port mapping
    missed,   \* units since its loop last ran, counted while not raced
    control,  \* the control file
    stop,     \* whether the stop sentinel exists
    stopper,  \* the state of a `daemon stop' command
    mapping,  \* the router's port mapping
    up,       \* whether the server is reachable and the token valid
    heard,    \* whether the server takes the device for online
    faults, stops,
    asked,    \* history: processes alive when a stop was asked for
    torn,     \* history: processes whose cleanup raised
    raced     \* history: two starts overlapped, or a live loop was late

disk == <<control, stop>>
local == <<mode, tasks, todo, id, tries, attempt, mapped>>
world == <<conf, mapping, up, heard, stopper, stops>>
vars == <<pc, local, missed, disk, world, faults, asked, torn, raced>>

Tasks == {"recovery", "scheduler", "periodic", "heartbeat", "relay", "p2p"}
Looping == {"serve", "cleanup"}
Alive == Looping \cup {"auth", "backup", "register", "bind", "clear", "write",
                     "unstop"}

Live == {p \in Procs : pc[p] \in Alive}

\* Something goes wrong, which it does MaxFaults times in a behaviour.
Fault == faults < MaxFaults /\ faults' = faults + 1

\* Two daemons may come to run side by side.
Race == Fault /\ raced' = TRUE

Goto(p, where) == pc' = [pc EXCEPT ![p] = where]

\* The process ends, and its memory with it.
End(p) ==
    /\ Goto(p, "gone")
    /\ mode' = [mode EXCEPT ![p] = "none"]
    /\ tasks' = [tasks EXCEPT ![p] = {}]
    /\ todo' = [todo EXCEPT ![p] = <<>>]
    /\ id' = [id EXCEPT ![p] = FALSE]
    /\ tries' = [tries EXCEPT ![p] = 0]
    /\ attempt' = [attempt EXCEPT ![p] = "sleep"]
    /\ mapped' = [mapped EXCEPT ![p] = FALSE]
    /\ missed' = [missed EXCEPT ![p] = 0]
    /\ asked' = asked \ {p}
    /\ torn' = torn \ {p}

-----------------------------------------------------------------------------
(***************************************************************************)
(* The control file.                                                       *)
(***************************************************************************)

\* read_status()["running"].
Running == control # NoFile /\ control.age < StaleAge

\* _write_control.
Written(p) == [by |-> p, age |-> 0]

Init ==
    /\ conf \in Configs
    /\ pc = [p \in Procs |-> "off"]
    /\ mode = [p \in Procs |-> "none"]
    /\ tasks = [p \in Procs |-> {}]
    /\ todo = [p \in Procs |-> <<>>]
    /\ id = [p \in Procs |-> FALSE]
    /\ tries = [p \in Procs |-> 0]
    /\ attempt = [p \in Procs |-> "sleep"]
    /\ mapped = [p \in Procs |-> FALSE]
    /\ missed = [p \in Procs |-> 0]
    /\ control = NoFile
    /\ stop = FALSE
    /\ stopper = "idle"
    /\ mapping = FALSE
    /\ up \in BOOLEAN
    /\ heard = FALSE
    /\ faults = 0
    /\ stops = 0
    /\ asked = {}
    /\ torn = {}
    /\ raced = FALSE

-----------------------------------------------------------------------------
(***************************************************************************)
(* Start-up.                                                               *)
(***************************************************************************)

\* _run_daemon: a second start is refused while the control file is fresh.
\* A process that is alive without a control file of its own cannot be seen.
Check(p) ==
    /\ pc[p] = "off"
    /\ Goto(p, IF Running THEN "gone" ELSE "auth")
    /\ IF ~Running /\ \E q \in Live : pc[q] \notin Looping
       THEN Race ELSE UNCHANGED <<faults, raced>>
    /\ UNCHANGED <<local, missed, disk, world, asked, torn>>

\* The outcome of start-up: the mode, and the tasks started on the way.
Outcome(p, m, ts, where) ==
    /\ mode' = [mode EXCEPT ![p] = m]
    /\ tasks' = [tasks EXCEPT ![p] = ts]
    /\ Goto(p, where)

\* Without a server section the daemon only serves; without a usable token
\* it serves offline and starts the recovery loop.
Auth(p) ==
    /\ pc[p] = "auth"
    /\ \/ ~conf.server /\ Outcome(p, "local", {}, "clear")
       \/ conf.server /\ ~up /\ Outcome(p, "offline", {"recovery"}, "clear")
       \/ conf.server /\ up /\ Outcome(p, "online", {}, "backup")
    /\ UNCHANGED <<todo, id, tries, attempt, mapped, missed, disk,
                   world, faults, asked, torn, raced>>

\* _backup_key_to_server: start-up does not handle a failing request, which
\* ends the process.
BackupKey(p) ==
    /\ pc[p] = "backup"
    /\ \/ up /\ Goto(p, "register") /\ UNCHANGED <<local, missed, asked, torn>>
       \/ ~up /\ End(p)
    /\ UNCHANGED <<disk, world, faults, raced>>

\* DeviceManager.register: one attempt. A cached id is kept; after the last
\* failed attempt the caller gets an error.
Registered(p) ==
    /\ id[p] \/ up
    /\ id' = [id EXCEPT ![p] = TRUE]
    /\ heard' = (heard \/ ~id[p])
    /\ tries' = [tries EXCEPT ![p] = 0]

\* Mutant: one attempt too many.
RegisterRetryOnceMore(p) ==
    /\ ~id[p] /\ ~up
    /\ tries[p] < MaxTries
    /\ tries' = [tries EXCEPT ![p] = @ + 1]
    /\ UNCHANGED <<id, heard>>

RegisterRetry(p) ==
    /\ ~id[p] /\ ~up
    /\ tries[p] + 1 < MaxTries
    /\ tries' = [tries EXCEPT ![p] = @ + 1]
    /\ UNCHANGED <<id, heard>>

RegisterFailed(p) ==
    /\ ~id[p] /\ ~up
    /\ tries[p] + 1 = MaxTries
    /\ tries' = [tries EXCEPT ![p] = 0]
    /\ UNCHANGED <<id, heard>>

\* A daemon that could not register serves, with nothing in the background
\* and nothing that would register it later.
Register(p) ==
    /\ pc[p] = "register"
    /\ \/ Registered(p) /\ Goto(p, "bind") /\ UNCHANGED <<mode, tasks>>
       \/ RegisterRetry(p) /\ UNCHANGED <<pc, mode, tasks>>
       \/ RegisterFailed(p) /\ Outcome(p, "unregistered", {}, "clear")
    /\ UNCHANGED <<todo, attempt, mapped, missed, disk, conf,
                   mapping, up, stopper, stops, faults, asked, torn, raced>>

\* P2PServer.start: a port in use leaves the daemon without P2P.
PortFree == \A q \in Procs : "p2p" \notin tasks[q]

\* setup_upnp, called whether or not the port was bound; it never fails the
\* start. An address corrected behind a second NAT is sent at once.
MapPort(p) ==
    LET found == conf.p2p /\ conf.gateway # "none"
    IN /\ mapped' = [mapped EXCEPT ![p] = found]
       /\ mapping' = (mapping \/ found)
       /\ heard' = (heard \/ (found /\ conf.gateway = "private" /\ up))

\* The relay worker, start_heartbeat, start_periodic_sync and the scheduler.
OnlineTasks(p) ==
    {t \in Tasks :
       \/ t = "p2p" /\ conf.p2p /\ PortFree
       \/ t = "relay" /\ conf.p2p /\ conf.relay /\ id[p]
       \/ t = "heartbeat" /\ id[p]
       \/ t = "periodic"
       \/ t = "scheduler" /\ conf.repl}

\* The end of start-up. The first synchronisation, like the policy, the hosting
\* report and the remote sources before it, may fail: the daemon goes on with
\* its local database.
StartServices(p) ==
    /\ pc[p] = "bind"
    /\ tasks' = [tasks EXCEPT ![p] = OnlineTasks(p)]
    /\ MapPort(p)
    /\ Goto(p, "clear")
    /\ UNCHANGED <<mode, todo, id, tries, attempt, missed, disk, conf, up,
                   stopper, stops, faults, asked, torn, raced>>

\* _build_core ends the process: no usable key, source or metadata store.
StartFails(p) ==
    /\ pc[p] = "auth"
    /\ Fault
    /\ End(p)
    /\ UNCHANGED <<disk, world, raced>>

-----------------------------------------------------------------------------
(***************************************************************************)
(* serve: remove an old sentinel, write the control file, loop, clean up.  *)
(***************************************************************************)

\* Mutant: an old sentinel stays.
KeepStop(p) ==
    /\ pc[p] = "clear"
    /\ Goto(p, "write")
    /\ UNCHANGED <<local, missed, disk, world, faults, asked, torn, raced>>

ClearStop(p) ==
    /\ pc[p] = "clear"
    /\ stop' = FALSE
    /\ Goto(p, "write")
    /\ UNCHANGED <<local, missed, control, world, faults, asked, torn, raced>>

WriteControl(p) ==
    /\ pc[p] = "write"
    /\ control' = Written(p)
    /\ missed' = [missed EXCEPT ![p] = 0]
    /\ Goto(p, "serve")
    /\ UNCHANGED <<local, stop, world, faults, asked, torn, raced>>

\* Mutant: the control file is written once and not renewed.
BeatWithoutWrite(p) ==
    /\ pc[p] = "serve"
    /\ missed' = [missed EXCEPT ![p] = 0]
    /\ UNCHANGED <<pc, local, disk, world, faults, asked, torn, raced>>

\* The loop ran: it renews the control file.
Beat(p) ==
    /\ pc[p] = "serve"
    /\ control' = Written(p)
    /\ missed' = [missed EXCEPT ![p] = 0]
    /\ UNCHANGED <<pc, local, stop, world, faults, asked, torn, raced>>

\* Mutant: the recovery is stopped after what it may have started.
RecoveryLast(m) ==
    CASE m = "online" -> <<"scheduler", "periodic", "heartbeat", "relay",
                           "p2p">>
      [] m = "offline" -> <<"periodic", "heartbeat", "p2p", "recovery">>
      [] OTHER -> <<>>

\* What each mode's _cleanup stops, in its order.
CleanupOrder(m) ==
    CASE m = "online" -> <<"scheduler", "periodic", "heartbeat", "relay",
                           "p2p">>
      [] m = "offline" -> <<"recovery", "periodic", "heartbeat", "p2p">>
      [] OTHER -> <<>>

BeginCleanup(p) ==
    /\ Goto(p, "cleanup")
    /\ todo' = [todo EXCEPT ![p] = CleanupOrder(mode[p])]

\* The loop finds the sentinel.
Leave(p) ==
    /\ pc[p] = "serve"
    /\ stop
    /\ BeginCleanup(p)
    /\ UNCHANGED <<mode, tasks, id, tries, attempt, mapped,
                   missed, disk, world, faults, asked, torn, raced>>

\* SIGINT or SIGTERM.
Interrupt(p) ==
    /\ pc[p] = "serve"
    /\ stops < MaxStops
    /\ stops' = stops + 1
    /\ asked' = asked \cup {p}
    /\ BeginCleanup(p)
    /\ UNCHANGED <<mode, tasks, id, tries, attempt, mapped, missed, disk, conf,
                   mapping, up, heard, stopper, faults, torn, raced>>

\* One stop of the cleanup. DeviceManager.stop ends the heartbeat and then
\* deletes the port mapping; a failing deletion is only logged.
Teardown(p) ==
    \/ ~mapped[p] /\ UNCHANGED <<mapped, mapping, faults>>
    \/ /\ mapped[p]
       /\ mapped' = [mapped EXCEPT ![p] = FALSE]
       /\ mapping' = FALSE
       /\ UNCHANGED faults
    \/ mapped[p] /\ Fault /\ UNCHANGED <<mapped, mapping>>

Cleanup(p) ==
    /\ pc[p] = "cleanup"
    /\ todo[p] # <<>>
    /\ todo' = [todo EXCEPT ![p] = Tail(@)]
    /\ tasks' = [tasks EXCEPT ![p] = @ \ {Head(todo[p])}]
    /\ IF Head(todo[p]) = "heartbeat" THEN Teardown(p)
       ELSE UNCHANGED <<mapped, mapping, faults>>
    /\ UNCHANGED <<pc, mode, id, tries, attempt, missed, disk, conf, up, heard,
                   stopper, stops, asked, torn, raced>>

\* A stop raises: serve logs it, and the remaining stops are skipped.
CleanupRaises(p) ==
    /\ pc[p] = "cleanup"
    /\ todo[p] # <<>>
    /\ Fault
    /\ todo' = [todo EXCEPT ![p] = <<>>]
    /\ torn' = torn \cup {p}
    /\ UNCHANGED <<pc, mode, tasks, id, tries, attempt, mapped,
                   missed, disk, world, asked, raced>>

\* The control file is removed, whoever wrote it, and then the sentinel.
RemoveControl(p) ==
    /\ pc[p] = "cleanup"
    /\ todo[p] = <<>>
    /\ control' = NoFile
    /\ Goto(p, "unstop")
    /\ UNCHANGED <<local, missed, stop, world, faults, asked, torn, raced>>

\* The process ends with its event loop.
RemoveStop(p) ==
    /\ pc[p] = "unstop"
    /\ stop' = FALSE
    /\ End(p)
    /\ UNCHANGED <<control, world, faults, raced>>

Crash(p) ==
    /\ p \in Live
    /\ Fault
    /\ End(p)
    /\ UNCHANGED <<disk, world, raced>>

-----------------------------------------------------------------------------
(***************************************************************************)
(* Background tasks.                                                       *)
(***************************************************************************)

TaskRuns(p, t) == pc[p] \in Looping /\ t \in tasks[p]

\* OnlineRecoveryManager: the interval is over and the token is valid.
AttemptRecovery(p) ==
    /\ TaskRuns(p, "recovery")
    /\ attempt[p] = "sleep"
    /\ up
    /\ attempt' = [attempt EXCEPT ![p] = "register"]
    /\ UNCHANGED <<pc, mode, tasks, todo, id, tries, mapped,
                   missed, disk, world, faults, asked, torn, raced>>

RecoverRegister(p) ==
    /\ TaskRuns(p, "recovery")
    /\ attempt[p] = "register"
    /\ \/ Registered(p) /\ attempt' = [attempt EXCEPT ![p] = "sync"]
       \/ RegisterRetry(p) /\ UNCHANGED attempt
       \/ RegisterFailed(p) /\ attempt' = [attempt EXCEPT ![p] = "sleep"]
    /\ UNCHANGED <<pc, mode, tasks, todo, mapped, missed, disk,
                   conf, mapping, up, stopper, stops, faults, asked, torn,
                   raced>>

\* upload_metadata and initial_sync log a server that does not answer and
\* return, so the attempt goes on; only an exception of the merge ends it.
RecoverSync(p) ==
    /\ TaskRuns(p, "recovery")
    /\ attempt[p] = "sync"
    /\ \/ attempt' = [attempt EXCEPT ![p] = "p2p"] /\ UNCHANGED faults
       \/ attempt' = [attempt EXCEPT ![p] = "sleep"] /\ Fault
    /\ UNCHANGED <<pc, mode, tasks, todo, id, tries, mapped, missed, disk, world,
                   asked, torn, raced>>

RecoverP2P(p) ==
    /\ TaskRuns(p, "recovery")
    /\ attempt[p] = "p2p"
    /\ attempt' = [attempt EXCEPT ![p] = "tasks"]
    /\ tasks' = IF conf.p2p /\ PortFree
                THEN [tasks EXCEPT ![p] = @ \cup {"p2p"}] ELSE tasks
    /\ UNCHANGED <<pc, mode, todo, id, tries, mapped, missed, disk,
                   world, faults, asked, torn, raced>>

\* Heartbeat and periodic synchronisation start, and the loop ends.
RecoverTasks(p) ==
    /\ TaskRuns(p, "recovery")
    /\ attempt[p] = "tasks"
    /\ attempt' = [attempt EXCEPT ![p] = "done"]
    /\ tasks' = [tasks EXCEPT ![p] =
          (@ \ {"recovery"}) \cup {"heartbeat", "periodic"}]
    /\ UNCHANGED <<pc, mode, todo, id, tries, mapped, missed, disk,
                   world, faults, asked, torn, raced>>

\* Mutant: a failing heartbeat ends the loop.
HeartbeatRaises(p) ==
    /\ TaskRuns(p, "heartbeat")
    /\ heard' = (heard \/ up)
    /\ tasks' = IF up THEN tasks ELSE [tasks EXCEPT ![p] = @ \ {"heartbeat"}]
    /\ UNCHANGED <<pc, mode, todo, id, tries, attempt, mapped, missed, disk, conf,
                   mapping, up, stopper, stops, faults, asked, torn, raced>>

\* _heartbeat_loop: a heartbeat that fails, for whatever reason, is counted and
\* at most slows the loop down.
Heartbeat(p) ==
    /\ TaskRuns(p, "heartbeat")
    /\ heard' = (heard \/ up)
    /\ UNCHANGED <<pc, local, missed, disk, conf, mapping, up, stopper, stops,
                   faults, asked, torn, raced>>

-----------------------------------------------------------------------------
(***************************************************************************)
(* `daemon stop', time and the server.                                     *)
(***************************************************************************)

\* signal_stop finds a control file, of whatever age ...
StopCheck ==
    /\ stopper \in {"idle", "stopped"}
    /\ stops < MaxStops
    /\ stops' = stops + 1
    /\ stopper' = IF control = NoFile THEN "idle" ELSE "found"
    /\ UNCHANGED <<pc, local, missed, disk, conf, mapping, up, heard, faults,
                   asked, torn, raced>>

\* ... and writes the sentinel.
StopWrite ==
    /\ stopper = "found"
    /\ stop' = TRUE
    /\ stopper' = "waiting"
    /\ asked' = asked \cup Live
    /\ UNCHANGED <<pc, local, missed, control, conf, mapping, up, heard, stops,
                   faults, torn, raced>>

\* Mutant: the command watches its own sentinel.
StopSeenBySentinel ==
    /\ stopper = "waiting"
    /\ ~stop
    /\ stopper' = "stopped"
    /\ UNCHANGED <<pc, local, missed, disk, conf, mapping, up, heard, stops,
                   faults, asked, torn, raced>>

\* request_stop: the control file has gone, or ten seconds have.
StopSeen ==
    /\ stopper = "waiting"
    /\ control = NoFile
    /\ stopper' = "stopped"
    /\ UNCHANGED <<pc, local, missed, disk, conf, mapping, up, heard, stops,
                   faults, asked, torn, raced>>

\* Mutant: the command takes its sentinel back when it gives up.
StopWithdrawn ==
    /\ stopper = "waiting"
    /\ control # NoFile
    /\ stop' = FALSE
    /\ stopper' = "idle"
    /\ UNCHANGED <<pc, local, missed, control, conf, mapping, up, heard, stops,
                   faults, asked, torn, raced>>

StopTimeout ==
    /\ stopper = "waiting"
    /\ control # NoFile
    /\ stopper' = "idle"
    /\ UNCHANGED <<pc, local, missed, disk, conf, mapping, up, heard, stops,
                   faults, asked, torn, raced>>

\* A unit of time passes. A loop that has not run for StaleAge units, busy or
\* cleaning up, is late.
Tick ==
    /\ control # NoFile
    /\ control.age < StaleAge
    /\ control' = [control EXCEPT !.age = @ + 1]
    /\ LET Late(p) == pc[p] \in Looping /\ missed[p] + 1 = StaleAge
       IN IF \E p \in Procs : Late(p) THEN Race ELSE UNCHANGED <<faults, raced>>
    /\ missed' = [p \in Procs |->
          IF pc[p] \in Looping /\ ~raced' THEN missed[p] + 1 ELSE 0]
    /\ UNCHANGED <<pc, local, stop, world, asked, torn>>

\* The server becomes unreachable and forgets the device, or comes back.
ServerChanges ==
    /\ conf.server
    /\ up' = ~up
    /\ heard' = (heard /\ ~up)
    /\ UNCHANGED <<pc, local, missed, disk, conf, mapping, stopper, stops,
                   faults, asked, torn, raced>>

-----------------------------------------------------------------------------

StartStep(p) ==
    \/ Check(p) \/ Auth(p) \/ BackupKey(p) \/ Register(p) \/ StartServices(p)
    \/ ClearStop(p) \/ WriteControl(p)

CleanupStep(p) ==
    Cleanup(p) \/ RemoveControl(p) \/ RemoveStop(p)

RecoveryStep(p) ==
    \/ AttemptRecovery(p) \/ RecoverRegister(p) \/ RecoverSync(p)
    \/ RecoverP2P(p) \/ RecoverTasks(p)

Next ==
    \/ \E p \in Procs :
         \/ StartStep(p) \/ StartFails(p) \/ Beat(p) \/ Leave(p) \/ Interrupt(p)
         \/ CleanupStep(p) \/ CleanupRaises(p) \/ Crash(p)
         \/ RecoveryStep(p) \/ Heartbeat(p)
    \/ StopCheck \/ StopWrite \/ StopSeen \/ StopTimeout
    \/ Tick \/ ServerChanges

\* The event loop of a process runs what is ready. Nothing obliges a user to
\* start or stop anything, or the server to come back.
Fairness ==
    \A p \in Procs :
      /\ WF_vars(Leave(p)) /\ WF_vars(CleanupStep(p)) /\ WF_vars(RecoveryStep(p))
      /\ WF_vars(Heartbeat(p))

Spec == Init /\ [][Next]_vars /\ Fairness

-----------------------------------------------------------------------------
(***************************************************************************)
(* Properties.                                                             *)
(***************************************************************************)

\* The type invariant: every field of a process, the control and sentinel files
\* and the fault counters stay in their sets;
\* a registration under way has failed fewer than MaxTries times.
TypeOK ==
    /\ conf \in Configs
    /\ pc \in [Procs -> Alive \cup {"off", "gone"}]
    /\ mode \in [Procs -> {"none", "local", "offline", "unregistered", "online"}]
    /\ tasks \in [Procs -> SUBSET Tasks]
    /\ \A p \in Procs : ToSet(todo[p]) \subseteq Tasks
    /\ id \in [Procs -> BOOLEAN]
    /\ tries \in [Procs -> 0 .. MaxTries - 1]
    /\ attempt \in [Procs -> {"sleep", "register", "sync", "p2p", "tasks", "done"}]
    /\ mapped \in [Procs -> BOOLEAN]
    /\ missed \in [Procs -> 0 .. StaleAge - 1]
    /\ control \in [by : Procs, age : 0 .. StaleAge] \cup {NoFile}
    /\ stopper \in {"idle", "found", "waiting", "stopped"}
    /\ {stop, mapping, up, heard, raced} \subseteq BOOLEAN
    /\ faults \in 0 .. MaxFaults
    /\ stops \in 0 .. MaxStops
    /\ asked \cup torn \subseteq Procs

\* The check of _run_daemon keeps a second daemon out: as long as no two
\* starts overlapped and no loop was late, at most one daemon is alive, and
\* while it serves nobody has taken its control file or its port mapping.
SoleDaemon ==
    ~raced =>
      /\ Cardinality(Live) <= 1
      /\ \A p \in Procs : pc[p] \in Looping =>
           /\ control # NoFile /\ control.by = p
           /\ mapped[p] => mapping

\* No background task of a daemon outlives its cleanup, although a recovery
\* attempt may be starting tasks while the cleanup stops them.
NoTaskOutlivesCleanup ==
    \A p \in Procs : pc[p] = "unstop" /\ p \notin torn => tasks[p] = {}

\* A daemon leaves its loop only for a stop asked for during its life: never
\* for a sentinel left by an earlier stop or an interrupted exit.
StopsOnlyWhenAsked ==
    [][\A p \in Procs : pc[p] = "serve" /\ pc'[p] = "cleanup" => p \in asked']_vars

\* When `daemon stop' reports a stop, no daemon is serving or cleaning up.
StoppedIsTrue ==
    [][stopper # "stopped" /\ stopper' = "stopped"
         => raced \/ \A p \in Procs : pc[p] \notin Looping]_vars

\* A sentinel that a serving daemon can see stops it.
StopHonoured ==
    \A p \in Procs : (stop /\ pc[p] = "serve") ~> (pc[p] # "serve" \/ raced)

\* Once the server stays reachable, a daemon in offline mode ends up with its
\* heartbeat and its periodic synchronisation, and the server hears of it.
RecoversOnline ==
    <>[]up => \A p \in Procs :
      (pc[p] = "serve" /\ mode[p] = "offline")
        ~> (pc[p] # "serve" \/ ({"heartbeat", "periodic"} \subseteq tasks[p] /\ heard))
=============================================================================
