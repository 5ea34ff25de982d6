------------------------ MODULE DaemonLifecycleProofs ------------------------
(***************************************************************************)
(* What DaemonLifecycle guarantees for any number of processes, any        *)
(* configurations, any staleness bound and any number of faults and stops. *)
(***************************************************************************)
EXTENDS DaemonLifecycle, FiniteSetTheorems, TLAPS

PCs == Alive \cup {"off", "gone"}
Modes == {"none", "local", "offline", "unregistered", "online"}
Attempts == {"sleep", "register", "sync", "p2p", "tasks", "done"}

\* TypeOK in two parts, and that what a cleanup has to stop is a sequence.
LocalTypes ==
    /\ pc \in [Procs -> PCs]
    /\ mode \in [Procs -> Modes]
    /\ tasks \in [Procs -> SUBSET Tasks]
    /\ todo \in [Procs -> Seq(Tasks)]
    /\ id \in [Procs -> BOOLEAN]
    /\ tries \in [Procs -> 0 .. MaxTries - 1]
    /\ attempt \in [Procs -> Attempts]
    /\ mapped \in [Procs -> BOOLEAN]
    /\ missed \in [Procs -> 0 .. StaleAge - 1]

SharedTypes ==
    /\ conf \in Configs
    /\ control \in [by : Procs, age : 0 .. StaleAge] \cup {NoFile}
    /\ stopper \in {"idle", "found", "waiting", "stopped"}
    /\ stop \in BOOLEAN /\ mapping \in BOOLEAN /\ up \in BOOLEAN
    /\ heard \in BOOLEAN /\ raced \in BOOLEAN
    /\ faults \in 0 .. MaxFaults /\ stops \in 0 .. MaxStops
    /\ asked \subseteq Procs /\ torn \subseteq Procs

TypeInv == LocalTypes /\ SharedTypes

\* As long as nothing raced, whoever is alive is alone, and the control file
\* of a loop is as old as the loop is late: the next start sees it fresh.
SoleInv ==
    /\ \A p \in Procs : pc[p] \notin Alive => ~mapped[p]
    /\ ~raced =>
         /\ \A p, q \in Procs : pc[p] \in Alive /\ pc[q] \in Alive => p = q
         /\ \A p \in Procs : pc[p] \in Looping =>
              control # NoFile /\ control.by = p /\ control.age = missed[p]
         /\ \A p \in Procs : mapped[p] => mapping

\* The background tasks of process p: none before its start-up has an
\* outcome, then those its mode's cleanup knows of, then those the cleanup has
\* still to stop; while the recovery may start tasks the cleanup has stopped none.
TasksInv(p) ==
    /\ pc[p] \in {"off", "gone", "auth", "backup", "register", "bind"}
         => tasks[p] = {}
    /\ pc[p] \in {"backup", "register", "bind"} => mode[p] = "online"
    /\ pc[p] \in {"clear", "write", "serve", "cleanup", "unstop"}
         => tasks[p] \subseteq ToSet(CleanupOrder(mode[p]))
    /\ pc[p] \in {"cleanup", "unstop"} /\ p \notin torn
         => tasks[p] \subseteq ToSet(todo[p])
    /\ "recovery" \in tasks[p] => mode[p] = "offline"
    /\ pc[p] = "cleanup" /\ p \notin torn /\ "recovery" \in tasks[p]
         => todo[p] = CleanupOrder("offline")
    /\ pc[p] = "unstop" => todo[p] = <<>>

CleanInv == \A p \in Procs : TasksInv(p)

\* Whoever has removed the old sentinel and finds one was alive when it was
\* written.
AskedInv ==
    stop => \A p \in Procs : pc[p] \in {"write", "serve", "cleanup"} => p \in asked

DaemonInv == TypeInv /\ SoleInv /\ CleanInv /\ AskedInv

-----------------------------------------------------------------------------
(***************************************************************************)
(* Lemmas about the operators of the model.                                *)
(***************************************************************************)

\* What is left of a sequence of stops when the first is done.
LEMMA TailSet ==
    ASSUME NEW S, NEW s \in Seq(S), s # <<>>
    PROVE  /\ Tail(s) \in Seq(S)
           /\ ToSet(s) \subseteq {Head(s)} \cup ToSet(Tail(s))
<1>1. Tail(s) \in Seq(S)
  OBVIOUS
<1>2. ASSUME NEW i \in DOMAIN s PROVE s[i] \in {Head(s)} \cup ToSet(Tail(s))
  <2>1. CASE i = 1
    BY <2>1
  <2>2. CASE i # 1
    <3>1. i - 1 \in DOMAIN Tail(s) /\ Tail(s)[i - 1] = s[i]
      BY <2>2
    <3> QED BY <3>1 DEF ToSet
  <2> QED BY <2>1, <2>2
<1> QED BY <1>1, <1>2 DEF ToSet

\* The members of a sequence over S are in S.
LEMMA SeqSet ==
    ASSUME NEW S, NEW s \in Seq(S)
    PROVE  ToSet(s) \subseteq S
  BY DEF ToSet

\* The tasks that each mode's cleanup stops.
LEMMA OrderSet ==
    /\ \A m \in Modes : CleanupOrder(m) \in Seq(Tasks)
    /\ ToSet(CleanupOrder("online"))
         = {"scheduler", "periodic", "heartbeat", "relay", "p2p"}
    /\ ToSet(CleanupOrder("offline"))
         = {"recovery", "periodic", "heartbeat", "p2p"}
    /\ Head(CleanupOrder("offline")) = "recovery"
    /\ CleanupOrder("offline") # <<>>
<1>1. \A m \in Modes : CleanupOrder(m) \in Seq(Tasks)
  <2>1. /\ <<"scheduler", "periodic", "heartbeat", "relay", "p2p">> \in Seq(Tasks)
        /\ <<"recovery", "periodic", "heartbeat", "p2p">> \in Seq(Tasks)
        /\ <<>> \in Seq(Tasks)
    BY DEF Tasks
  <2>2. ASSUME NEW m \in Modes PROVE CleanupOrder(m) \in Seq(Tasks)
    <3>1. CASE m = "online"
      BY <2>1, <3>1 DEF CleanupOrder
    <3>2. CASE m = "offline"
      BY <2>1, <3>2 DEF CleanupOrder
    <3>3. CASE m # "online" /\ m # "offline"
      BY <2>1, <3>3 DEF CleanupOrder
    <3> QED BY <3>1, <3>2, <3>3
  <2> QED BY <2>2
<1>2. ToSet(CleanupOrder("online"))
         = {"scheduler", "periodic", "heartbeat", "relay", "p2p"}
  BY DEF CleanupOrder, ToSet
<1>3. ToSet(CleanupOrder("offline"))
         = {"recovery", "periodic", "heartbeat", "p2p"}
  BY DEF CleanupOrder, ToSet
<1>4. Head(CleanupOrder("offline")) = "recovery" /\ CleanupOrder("offline") # <<>>
  BY DEF CleanupOrder
<1> QED BY <1>1, <1>2, <1>3, <1>4

\* No process runs at first, so all of it holds.
LEMMA InitDaemon == Init => DaemonInv
<1> SUFFICES ASSUME Init PROVE DaemonInv
  OBVIOUS
<1>1. TypeInv
  <2>1. /\ 0 \in 0 .. MaxTries - 1 /\ 0 \in 0 .. StaleAge - 1
        /\ 0 \in 0 .. MaxFaults /\ 0 \in 0 .. MaxStops
    BY ConstantsAssumption
  <2>2. LocalTypes
    BY <2>1 DEF Init, LocalTypes, PCs, Modes, Attempts
  <2>3. SharedTypes
    BY <2>1 DEF Init, SharedTypes
  <2> QED BY <2>2, <2>3 DEF TypeInv
<1>2. SoleInv
  BY DEF Init, SoleInv, Alive, Looping
<1>3. CleanInv
  BY DEF Init, CleanInv, TasksInv
<1>4. AskedInv
  BY DEF Init, AskedInv
<1> QED BY <1>1, <1>2, <1>3, <1>4 DEF DaemonInv

-----------------------------------------------------------------------------
(***************************************************************************)
(* The types.                                                              *)
(***************************************************************************)

\* A step that needs a fault still has one left.
LEMMA FaultType ==
    ASSUME TypeInv, Fault
    PROVE  faults' \in 0 .. MaxFaults
  BY ConstantsAssumption DEF TypeInv, SharedTypes, Fault

\* A process that ends leaves well-typed locals behind.
LEMMA EndTypes ==
    ASSUME TypeInv, NEW p \in Procs, End(p)
    PROVE  LocalTypes' /\ asked' \subseteq Procs /\ torn' \subseteq Procs
<1>1. 0 \in 0 .. MaxTries - 1 /\ 0 \in 0 .. StaleAge - 1
  BY ConstantsAssumption
<1> QED BY <1>1 DEF TypeInv, LocalTypes, SharedTypes, End, Goto, PCs, Modes, Attempts

\* So does a start-up that settles on a mode and its tasks.
LEMMA OutcomeTypes ==
    ASSUME TypeInv, NEW p \in Procs, NEW m \in Modes, NEW ts \in SUBSET Tasks,
           NEW where \in PCs, Outcome(p, m, ts, where)
    PROVE  /\ pc' \in [Procs -> PCs] /\ mode' \in [Procs -> Modes]
           /\ tasks' \in [Procs -> SUBSET Tasks]
  BY DEF Outcome, Goto, TypeInv, LocalTypes

\* An attempt to register counts its failures below MaxTries.
LEMMA RegisterTypes ==
    ASSUME TypeInv, NEW p \in Procs,
           Registered(p) \/ RegisterRetry(p) \/ RegisterFailed(p)
    PROVE  /\ id' \in [Procs -> BOOLEAN] /\ heard' \in BOOLEAN
           /\ tries' \in [Procs -> 0 .. MaxTries - 1]
<1>1. tries' \in [Procs -> 0 .. MaxTries - 1]
  <2>1. CASE tries' = [tries EXCEPT ![p] = 0]
    BY <2>1, ConstantsAssumption DEF TypeInv, LocalTypes
  <2>2. CASE RegisterRetry(p)
    <3>1. tries[p] + 1 \in 0 .. MaxTries - 1
      BY <2>2, ConstantsAssumption DEF RegisterRetry, TypeInv, LocalTypes
    <3> QED BY <2>2, <3>1 DEF RegisterRetry, TypeInv, LocalTypes
  <2> QED BY <2>1, <2>2 DEF Registered, RegisterFailed
<1>2. id' \in [Procs -> BOOLEAN]
  BY DEF Registered, RegisterRetry, RegisterFailed, TypeInv, LocalTypes
<1>3. heard' \in BOOLEAN
  <2>1. heard' = heard \/ heard' = (heard \/ ~id[p])
    BY DEF Registered, RegisterRetry, RegisterFailed
  <2> QED BY <2>1 DEF TypeInv, SharedTypes
<1> QED BY <1>1, <1>2, <1>3

\* Start-up keeps the types.
LEMMA StartTypes ==
    ASSUME TypeInv, NEW p \in Procs, StartStep(p)
    PROVE  TypeInv'
<1>1. CASE Check(p)
  BY <1>1, FaultType DEF Check, Goto, Race, TypeInv, LocalTypes, SharedTypes, PCs, Alive,
     local, disk, world
<1>2. CASE Auth(p)
  <2>1. {"local", "offline", "online"} \subseteq Modes
    BY DEF Modes
  <2>2. {"clear", "backup"} \subseteq PCs
    BY DEF PCs, Alive
  <2>3. {} \in SUBSET Tasks /\ {"recovery"} \in SUBSET Tasks
    BY DEF Tasks
  <2>4. /\ pc' \in [Procs -> PCs] /\ mode' \in [Procs -> Modes]
        /\ tasks' \in [Procs -> SUBSET Tasks]
    BY <1>2, <2>1, <2>2, <2>3, OutcomeTypes DEF Auth
  <2> QED BY <1>2, <2>4 DEF Auth, TypeInv, LocalTypes, SharedTypes, disk, world
<1>3. CASE BackupKey(p)
  <2>1. CASE up
    BY <1>3, <2>1 DEF BackupKey, Goto, TypeInv, LocalTypes, SharedTypes, PCs, Alive,
       local, disk, world
  <2>2. CASE ~up
    BY <1>3, <2>2, EndTypes DEF BackupKey, TypeInv, SharedTypes, disk, world
  <2> QED BY <2>1, <2>2
<1>4. CASE Register(p)
  <2>1. /\ id' \in [Procs -> BOOLEAN] /\ heard' \in BOOLEAN
        /\ tries' \in [Procs -> 0 .. MaxTries - 1]
    BY <1>4, RegisterTypes DEF Register
  <2>2. /\ pc' \in [Procs -> PCs] /\ mode' \in [Procs -> Modes]
        /\ tasks' \in [Procs -> SUBSET Tasks]
    <3>1. "unregistered" \in Modes /\ "clear" \in PCs /\ "bind" \in PCs
      BY DEF Modes, PCs, Alive
    <3>2. CASE Outcome(p, "unregistered", {}, "clear")
      BY <3>1, <3>2, OutcomeTypes
    <3>3. CASE Goto(p, "bind") /\ UNCHANGED <<mode, tasks>>
      BY <3>1, <3>3 DEF Goto, TypeInv, LocalTypes
    <3>4. CASE UNCHANGED <<pc, mode, tasks>>
      BY <3>4 DEF TypeInv, LocalTypes
    <3> QED BY <1>4, <3>2, <3>3, <3>4 DEF Register
  <2> QED BY <1>4, <2>1, <2>2 DEF Register, TypeInv, LocalTypes, SharedTypes, disk
<1>5. CASE StartServices(p)
  BY <1>5 DEF StartServices, OnlineTasks, MapPort, Goto, TypeInv, LocalTypes, SharedTypes,
     PCs, Alive, disk
<1>6. CASE ClearStop(p)
  BY <1>6 DEF ClearStop, Goto, TypeInv, LocalTypes, SharedTypes, PCs, Alive, local, world
<1>7. CASE WriteControl(p)
  BY <1>7, ConstantsAssumption DEF WriteControl, Written, Goto, TypeInv, LocalTypes,
     SharedTypes, PCs, Alive, Looping, local, world
<1> QED BY <1>1, <1>2, <1>3, <1>4, <1>5, <1>6, <1>7 DEF StartStep

\* So does the clean-up, complete or cut short.
LEMMA CleanupTypes ==
    ASSUME TypeInv, NEW p \in Procs, CleanupStep(p) \/ CleanupRaises(p)
    PROVE  TypeInv'
<1>1. CASE Cleanup(p)
  <2>1. todo' \in [Procs -> Seq(Tasks)]
    BY <1>1, TailSet DEF Cleanup, TypeInv, LocalTypes
  <2>2. /\ mapped' \in [Procs -> BOOLEAN] /\ mapping' \in BOOLEAN
        /\ faults' \in 0 .. MaxFaults
    BY <1>1, FaultType DEF Cleanup, Teardown, TypeInv, LocalTypes, SharedTypes
  <2>3. tasks' \in [Procs -> SUBSET Tasks]
    BY <1>1 DEF Cleanup, TypeInv, LocalTypes
  <2> QED BY <1>1, <2>1, <2>2, <2>3 DEF Cleanup, TypeInv, LocalTypes, SharedTypes, disk
<1>2. CASE RemoveControl(p)
  BY <1>2 DEF RemoveControl, Goto, TypeInv, LocalTypes, SharedTypes, PCs, Alive,
     local, world
<1>3. CASE RemoveStop(p)
  BY <1>3, EndTypes DEF RemoveStop, TypeInv, SharedTypes, world
<1>4. CASE CleanupRaises(p)
  BY <1>4, FaultType DEF CleanupRaises, TypeInv, LocalTypes, SharedTypes, disk, world
<1> QED BY <1>1, <1>2, <1>3, <1>4 DEF CleanupStep

\* So do the background recovery and its heartbeat.
LEMMA RecoveryTypes ==
    ASSUME TypeInv, NEW p \in Procs, RecoveryStep(p) \/ Heartbeat(p)
    PROVE  TypeInv'
<1>1. CASE AttemptRecovery(p)
  BY <1>1 DEF AttemptRecovery, TypeInv, LocalTypes, SharedTypes, Attempts, disk, world
<1>2. CASE RecoverRegister(p)
  <2>1. /\ id' \in [Procs -> BOOLEAN] /\ heard' \in BOOLEAN
        /\ tries' \in [Procs -> 0 .. MaxTries - 1]
    BY <1>2, RegisterTypes DEF RecoverRegister
  <2>2. attempt' \in [Procs -> Attempts]
    BY <1>2 DEF RecoverRegister, TypeInv, LocalTypes, Attempts
  <2> QED BY <1>2, <2>1, <2>2 DEF RecoverRegister, TypeInv, LocalTypes, SharedTypes, disk
<1>3. CASE RecoverSync(p)
  BY <1>3, FaultType DEF RecoverSync, TypeInv, LocalTypes, SharedTypes, Attempts, disk, world
<1>4. CASE RecoverP2P(p)
  BY <1>4 DEF RecoverP2P, TypeInv, LocalTypes, SharedTypes, Attempts, Tasks, disk, world
<1>5. CASE RecoverTasks(p)
  BY <1>5 DEF RecoverTasks, TypeInv, LocalTypes, SharedTypes, Attempts, Tasks, disk, world
<1>6. CASE Heartbeat(p)
  BY <1>6 DEF Heartbeat, TypeInv, LocalTypes, SharedTypes, local, disk
<1> QED BY <1>1, <1>2, <1>3, <1>4, <1>5, <1>6 DEF RecoveryStep

\* So do the main loop and the ways out of it.
LEMMA ServeTypes ==
    ASSUME TypeInv, NEW p \in Procs,
           StartFails(p) \/ Beat(p) \/ Leave(p) \/ Interrupt(p) \/ Crash(p)
    PROVE  TypeInv'
<1>1. CASE StartFails(p)
  BY <1>1, EndTypes, FaultType DEF StartFails, TypeInv, SharedTypes, disk, world
<1>2. CASE Beat(p)
  BY <1>2, ConstantsAssumption DEF Beat, Written, TypeInv, LocalTypes, SharedTypes,
     local, world
<1>3. CASE Leave(p)
  BY <1>3, OrderSet DEF Leave, BeginCleanup, Goto, TypeInv, LocalTypes, SharedTypes,
     PCs, Alive, Looping, disk, world
<1>4. CASE Interrupt(p)
  BY <1>4, OrderSet, ConstantsAssumption DEF Interrupt, BeginCleanup, Goto, TypeInv,
     LocalTypes, SharedTypes, PCs, Alive, Looping, disk
<1>5. CASE Crash(p)
  BY <1>5, EndTypes, FaultType DEF Crash, TypeInv, SharedTypes, disk, world
<1> QED BY <1>1, <1>2, <1>3, <1>4, <1>5

\* So do the stop command, the clock and the server.
LEMMA SharedStepTypes ==
    ASSUME TypeInv,
           StopCheck \/ StopWrite \/ StopSeen \/ StopTimeout \/ Tick \/ ServerChanges
    PROVE  TypeInv'
<1>1. CASE StopCheck
  BY <1>1, ConstantsAssumption DEF StopCheck, TypeInv, LocalTypes, SharedTypes, local, disk
<1>2. CASE StopWrite
  BY <1>2 DEF StopWrite, Live, TypeInv, LocalTypes, SharedTypes, local
<1>3. CASE StopSeen
  BY <1>3 DEF StopSeen, TypeInv, LocalTypes, SharedTypes, local, disk
<1>4. CASE StopTimeout
  BY <1>4 DEF StopTimeout, TypeInv, LocalTypes, SharedTypes, local, disk
<1>5. CASE Tick
  <2>1. control' \in [by : Procs, age : 0 .. StaleAge]
    BY <1>5, ConstantsAssumption DEF Tick, TypeInv, SharedTypes
  <2>2. faults' \in 0 .. MaxFaults /\ raced' \in BOOLEAN
    BY <1>5, FaultType DEF Tick, Race, TypeInv, SharedTypes
  <2>3. ASSUME NEW p \in Procs, pc[p] \in Looping, ~raced'
        PROVE  missed[p] + 1 \in 0 .. StaleAge - 1
    <3>1. missed[p] + 1 # StaleAge
      BY <1>5, <2>3 DEF Tick, Race
    <3> QED BY <3>1, ConstantsAssumption DEF TypeInv, LocalTypes
  <2>4. missed' \in [Procs -> 0 .. StaleAge - 1]
    BY <1>5, <2>3, ConstantsAssumption DEF Tick
  <2> QED BY <1>5, <2>1, <2>2, <2>4 DEF Tick, TypeInv, LocalTypes, SharedTypes, local, world
<1>6. CASE ServerChanges
  BY <1>6 DEF ServerChanges, TypeInv, LocalTypes, SharedTypes, local, disk
<1> QED BY <1>1, <1>2, <1>3, <1>4, <1>5, <1>6

-----------------------------------------------------------------------------
(***************************************************************************)
(* One daemon at a time.                                                   *)
(***************************************************************************)

\* A step in which no process comes alive or enters its loop, and the control
\* file is left alone.
NobodyComes ==
    /\ \A q \in Procs :
         /\ pc'[q] \in Alive => pc[q] \in Alive
         /\ pc'[q] \in Looping => pc[q] \in Looping /\ missed'[q] = missed[q]
         /\ mapped'[q] => mapped[q]
         /\ pc'[q] \notin Alive => ~mapped'[q]
    /\ mapping => mapping'
    /\ ~raced' => ~raced
    /\ control' = control

\* Where no process comes to own the control file, the owner stays alone.
LEMMA SoleFrame ==
    ASSUME SoleInv, NobodyComes
    PROVE  SoleInv'
  BY DEF SoleInv, NobodyComes

\* In particular where no process moves.
LEMMA SameProcesses ==
    ASSUME SoleInv, UNCHANGED <<pc, mapped, missed, control>>,
           mapping => mapping', ~raced' => ~raced
    PROVE  SoleInv'
  BY SoleFrame DEF SoleInv, NobodyComes

\* A process that ends takes nobody else's place.
LEMMA EndSole ==
    ASSUME TypeInv, SoleInv, NEW p \in Procs, End(p), UNCHANGED <<mapping, raced, control>>
    PROVE  SoleInv'
<1>1. NobodyComes
  BY DEF End, Goto, TypeInv, LocalTypes, SoleInv, NobodyComes, Alive, Looping
<1> QED BY <1>1, SoleFrame

\* A process that goes on where it already was a daemon becomes no second
\* one.
LEMMA GotoSole ==
    ASSUME TypeInv, SoleInv, NEW p \in Procs, NEW where \in Alive, Goto(p, where),
           pc[p] \in Alive, where \in Looping => pc[p] \in Looping,
           UNCHANGED <<mapped, missed, mapping, raced, control>>
    PROVE  SoleInv'
<1>1. NobodyComes
  BY DEF Goto, TypeInv, LocalTypes, SoleInv, NobodyComes
<1> QED BY <1>1, SoleFrame

\* A start finds the control file of a running daemon fresh and gives up,
\* unless the two race.
LEMMA StartSole ==
    ASSUME TypeInv, SoleInv, NEW p \in Procs, StartStep(p)
    PROVE  SoleInv'
<1>1. CASE Check(p)
  <2>1. CASE Running
    <3>1. NobodyComes
      BY <1>1, <2>1 DEF Check, Goto, TypeInv, LocalTypes, SoleInv, NobodyComes,
         Alive, Looping, local, disk, world
    <3> QED BY <3>1, SoleFrame
  <2>2. CASE ~Running
    <3>1. pc' = [pc EXCEPT ![p] = "auth"] /\ UNCHANGED <<mapped, mapping, control, missed>>
      BY <1>1, <2>2 DEF Check, Goto, local, disk, world
    <3>2. ASSUME ~raced' PROVE ~raced /\ \A q \in Procs : pc[q] \notin Alive
      <4>1. ~raced /\ \A q \in Live : pc[q] \in Looping
        BY <1>1, <2>2, <3>2 DEF Check, Race
      <4>2. \A q \in Procs : pc[q] \notin Looping
        BY <2>2, <4>1, ConstantsAssumption
           DEF SoleInv, Running, TypeInv, LocalTypes, SharedTypes
      <4> QED BY <4>1, <4>2 DEF Live
    <3>3. pc[p] = "off"
      BY <1>1 DEF Check
    <3> QED BY <3>1, <3>2, <3>3 DEF SoleInv, TypeInv, LocalTypes, Alive, Looping
  <2> QED BY <2>1, <2>2
<1>2. CASE Auth(p)
  <2>1. /\ pc[p] = "auth" /\ (Goto(p, "clear") \/ Goto(p, "backup"))
        /\ UNCHANGED <<mapped, missed, mapping, raced, control>>
    BY <1>2 DEF Auth, Outcome, disk, world
  <2> QED BY <2>1, GotoSole DEF Alive, Looping
<1>3. CASE BackupKey(p)
  <2>1. CASE up
    <3>1. /\ pc[p] = "backup" /\ Goto(p, "register")
          /\ UNCHANGED <<mapped, missed, mapping, raced, control>>
      BY <1>3, <2>1 DEF BackupKey, local, disk, world
    <3> QED BY <3>1, GotoSole DEF Alive, Looping
  <2>2. CASE ~up
    BY <1>3, <2>2, EndSole DEF BackupKey, disk, world
  <2> QED BY <2>1, <2>2
<1>4. CASE Register(p)
  <2>1. /\ pc[p] = "register"
        /\ Goto(p, "bind") \/ pc' = pc \/ Goto(p, "clear")
        /\ UNCHANGED <<mapped, missed, mapping, raced, control>>
    BY <1>4 DEF Register, Outcome, disk
  <2> QED BY <2>1, GotoSole, SameProcesses DEF Alive, Looping
<1>5. CASE StartServices(p)
  <2>1. /\ pc[p] = "bind" /\ pc' = [pc EXCEPT ![p] = "clear"]
        /\ UNCHANGED <<missed, raced, control>>
    BY <1>5 DEF StartServices, Goto, disk
  <2>2. PICK found \in BOOLEAN :
           mapped' = [mapped EXCEPT ![p] = found] /\ mapping' = (mapping \/ found)
    BY <1>5 DEF StartServices, MapPort
  <2> QED BY <2>1, <2>2 DEF SoleInv, TypeInv, LocalTypes, Alive, Looping
<1>6. CASE ClearStop(p)
  <2>1. /\ pc[p] = "clear" /\ Goto(p, "write")
        /\ UNCHANGED <<mapped, missed, mapping, raced, control>>
    BY <1>6 DEF ClearStop, local, world
  <2> QED BY <2>1, GotoSole DEF Alive, Looping
<1>7. CASE WriteControl(p)
  <2>1. /\ pc[p] = "write" /\ pc' = [pc EXCEPT ![p] = "serve"]
        /\ control' = [by |-> p, age |-> 0] /\ missed' = [missed EXCEPT ![p] = 0]
        /\ UNCHANGED <<mapped, mapping, raced>>
    BY <1>7 DEF WriteControl, Written, Goto, local, world
  <2>2. control' # NoFile
    BY <2>1, ConstantsAssumption
  <2> QED BY <2>1, <2>2 DEF SoleInv, TypeInv, LocalTypes, Alive, Looping
<1> QED BY <1>1, <1>2, <1>3, <1>4, <1>5, <1>6, <1>7 DEF StartStep

\* The main loop makes no second daemon.
LEMMA ServeSole ==
    ASSUME TypeInv, SoleInv, NEW p \in Procs,
           StartFails(p) \/ Beat(p) \/ Leave(p) \/ Interrupt(p) \/ Crash(p)
    PROVE  SoleInv'
<1>1. CASE StartFails(p)
  BY <1>1, EndSole DEF StartFails, disk, world
<1>2. CASE Beat(p)
  <2>1. /\ pc[p] = "serve" /\ control' = [by |-> p, age |-> 0]
        /\ missed' = [missed EXCEPT ![p] = 0]
        /\ UNCHANGED <<pc, mapped, mapping, raced>>
    BY <1>2 DEF Beat, Written, local, world
  <2>2. control' # NoFile
    BY <2>1, ConstantsAssumption
  <2> QED BY <2>1, <2>2 DEF SoleInv, TypeInv, LocalTypes, Alive, Looping
<1>3. CASE Leave(p) \/ Interrupt(p)
  <2>1. /\ pc[p] = "serve" /\ Goto(p, "cleanup")
        /\ UNCHANGED <<mapped, missed, mapping, raced, control>>
    BY <1>3 DEF Leave, Interrupt, BeginCleanup, disk, world
  <2> QED BY <2>1, GotoSole DEF Alive, Looping
<1>4. CASE Crash(p)
  BY <1>4, EndSole DEF Crash, disk, world
<1> QED BY <1>1, <1>2, <1>3, <1>4

\* A clean-up makes none either.
LEMMA CleanupSole ==
    ASSUME TypeInv, SoleInv, NEW p \in Procs, CleanupStep(p) \/ CleanupRaises(p)
    PROVE  SoleInv'
<1>1. CASE Cleanup(p)
  <2>1. pc[p] = "cleanup" /\ UNCHANGED <<pc, missed, raced, control>>
    BY <1>1 DEF Cleanup, disk
  <2>2. CASE UNCHANGED <<mapped, mapping>>
    BY <2>1, <2>2, SameProcesses
  <2>3. CASE mapped' = [mapped EXCEPT ![p] = FALSE] /\ mapping' = FALSE
    BY <2>1, <2>3 DEF SoleInv, TypeInv, LocalTypes, Alive, Looping
  <2> QED BY <1>1, <2>2, <2>3 DEF Cleanup, Teardown
<1>2. CASE RemoveControl(p)
  <2>1. /\ pc[p] = "cleanup" /\ pc' = [pc EXCEPT ![p] = "unstop"]
        /\ UNCHANGED <<mapped, mapping, raced>>
    BY <1>2 DEF RemoveControl, Goto, local, world
  <2> QED BY <2>1 DEF SoleInv, TypeInv, LocalTypes, Alive, Looping
<1>3. CASE RemoveStop(p)
  BY <1>3, EndSole DEF RemoveStop, world
<1>4. CASE CleanupRaises(p)
  BY <1>4, SameProcesses DEF CleanupRaises, disk, world
<1> QED BY <1>1, <1>2, <1>3, <1>4 DEF CleanupStep

\* Nor does the recovery.
LEMMA RecoverySole ==
    ASSUME SoleInv, NEW p \in Procs, RecoveryStep(p) \/ Heartbeat(p)
    PROVE  SoleInv'
<1>1. UNCHANGED <<pc, mapped, missed, control, mapping, raced>>
  BY DEF RecoveryStep, AttemptRecovery, RecoverRegister, RecoverSync, RecoverP2P,
     RecoverTasks, Heartbeat, local, disk, world
<1> QED BY <1>1, SameProcesses

\* Nor do the stop command, the clock and the server.
LEMMA SharedSole ==
    ASSUME TypeInv, SoleInv,
           StopCheck \/ StopWrite \/ StopSeen \/ StopTimeout \/ Tick \/ ServerChanges
    PROVE  SoleInv'
<1>1. CASE StopCheck \/ StopWrite \/ StopSeen \/ StopTimeout \/ ServerChanges
  <2>1. UNCHANGED <<pc, mapped, missed, control, mapping, raced>>
    BY <1>1 DEF StopCheck, StopWrite, StopSeen, StopTimeout, ServerChanges, local, disk
  <2> QED BY <2>1, SameProcesses
<1>2. CASE Tick
  <2>1. /\ control # NoFile /\ control' = [control EXCEPT !.age = @ + 1]
        /\ UNCHANGED <<pc, mapped, mapping>>
        /\ ~raced' => ~raced
    BY <1>2 DEF Tick, Race, local, world
  <2>2. control' # NoFile /\ control'.by = control.by /\ control'.age = control.age + 1
    BY <2>1, ConstantsAssumption DEF TypeInv, SharedTypes
  <2>3. ~raced' => \A q \in Procs : pc[q] \in Looping => missed'[q] = missed[q] + 1
    BY <1>2 DEF Tick
  <2> QED BY <2>1, <2>2, <2>3 DEF SoleInv
<1> QED BY <1>1, <1>2

-----------------------------------------------------------------------------
(***************************************************************************)
(* The tasks and the cleanup.                                              *)
(***************************************************************************)

\* TasksInv of the other processes, when only p moves.
LEMMA CleanFrame ==
    ASSUME CleanInv, NEW p \in Procs, TasksInv(p)',
           \A q \in Procs \ {p} :
             /\ pc'[q] = pc[q] /\ tasks'[q] = tasks[q] /\ mode'[q] = mode[q]
             /\ todo'[q] = todo[q] /\ (q \in torn' <=> q \in torn)
    PROVE  CleanInv'
  BY DEF CleanInv, TasksInv

\* Where no process and no task moves, the bookkeeping of tasks stays
\* true.
LEMMA SameTasks ==
    ASSUME CleanInv, UNCHANGED <<pc, tasks, mode, todo, torn>>
    PROVE  CleanInv'
  BY DEF CleanInv, TasksInv

\* A process that ends keeps it true.
LEMMA EndClean ==
    ASSUME TypeInv, CleanInv, NEW p \in Procs, End(p)
    PROVE  CleanInv'
<1>1. TasksInv(p)'
  BY DEF End, Goto, TypeInv, LocalTypes, TasksInv
<1> QED BY <1>1, CleanFrame DEF End, Goto, TypeInv, LocalTypes

\* So does start-up,
LEMMA StartClean ==
    ASSUME TypeInv, CleanInv, NEW p \in Procs, StartStep(p)
    PROVE  CleanInv'
<1>0. TasksInv(p)
  BY DEF CleanInv
<1>1. CASE Check(p)
  <2>1. /\ pc[p] = "off" /\ UNCHANGED <<tasks, mode, todo, torn>>
        /\ pc' = [pc EXCEPT ![p] = "gone"] \/ pc' = [pc EXCEPT ![p] = "auth"]
    BY <1>1 DEF Check, Goto, local
  <2>2. TasksInv(p)'
    BY <1>0, <2>1 DEF TypeInv, LocalTypes, TasksInv
  <2> QED BY <2>1, <2>2, CleanFrame DEF TypeInv, LocalTypes
<1>2. CASE Auth(p)
  <2>1. UNCHANGED <<todo, torn>>
    BY <1>2 DEF Auth
  <2>2. TasksInv(p)'
    BY <1>2, OrderSet DEF Auth, Outcome, Goto, TypeInv, LocalTypes, TasksInv
  <2> QED BY <1>2, <2>1, <2>2, CleanFrame DEF Auth, Outcome, Goto, TypeInv, LocalTypes
<1>3. CASE BackupKey(p)
  <2>1. CASE up
    <3>1. /\ pc[p] = "backup" /\ pc' = [pc EXCEPT ![p] = "register"]
          /\ UNCHANGED <<tasks, mode, todo, torn>>
      BY <1>3, <2>1 DEF BackupKey, Goto, local
    <3>2. TasksInv(p)'
      BY <1>0, <3>1 DEF TypeInv, LocalTypes, TasksInv
    <3> QED BY <3>1, <3>2, CleanFrame DEF TypeInv, LocalTypes
  <2>2. CASE ~up
    BY <1>3, <2>2, EndClean DEF BackupKey
  <2> QED BY <2>1, <2>2
<1>4. CASE Register(p)
  <2>1. pc[p] = "register" /\ UNCHANGED <<todo, torn>>
    BY <1>4 DEF Register
  <2>2. CASE pc' = [pc EXCEPT ![p] = "bind"] /\ UNCHANGED <<mode, tasks>>
    <3>1. TasksInv(p)'
      BY <1>0, <2>1, <2>2 DEF TypeInv, LocalTypes, TasksInv
    <3> QED BY <2>1, <2>2, <3>1, CleanFrame DEF TypeInv, LocalTypes
  <2>3. CASE UNCHANGED <<pc, mode, tasks>>
    BY <2>1, <2>3, SameTasks
  <2>4. CASE Outcome(p, "unregistered", {}, "clear")
    <3>1. TasksInv(p)'
      BY <2>1, <2>4 DEF Outcome, Goto, TypeInv, LocalTypes, TasksInv
    <3> QED BY <2>1, <2>4, <3>1, CleanFrame DEF Outcome, Goto, TypeInv, LocalTypes
  <2> QED BY <1>4, <2>2, <2>3, <2>4 DEF Register, Goto
<1>5. CASE StartServices(p)
  <2>1. /\ pc[p] = "bind" /\ pc' = [pc EXCEPT ![p] = "clear"]
        /\ tasks' = [tasks EXCEPT ![p] = OnlineTasks(p)] /\ UNCHANGED <<mode, todo, torn>>
    BY <1>5 DEF StartServices, Goto
  <2>2. mode[p] = "online"
    BY <1>0, <2>1 DEF TasksInv
  <2>3. OnlineTasks(p) \subseteq {"scheduler", "periodic", "heartbeat", "relay", "p2p"}
    BY DEF OnlineTasks
  <2>4. TasksInv(p)'
    BY <2>1, <2>2, <2>3, OrderSet DEF TypeInv, LocalTypes, TasksInv
  <2> QED BY <2>1, <2>4, CleanFrame DEF TypeInv, LocalTypes
<1>6. CASE ClearStop(p) \/ WriteControl(p)
  <2>1. /\ pc[p] \in {"clear", "write"} /\ UNCHANGED <<tasks, mode, todo, torn>>
        /\ \/ pc' = [pc EXCEPT ![p] = "write"]
           \/ pc' = [pc EXCEPT ![p] = "serve"]
    BY <1>6 DEF ClearStop, WriteControl, Goto, local
  <2>2. TasksInv(p)'
    BY <1>0, <2>1 DEF TypeInv, LocalTypes, TasksInv
  <2> QED BY <2>1, <2>2, CleanFrame DEF TypeInv, LocalTypes
<1> QED BY <1>1, <1>2, <1>3, <1>4, <1>5, <1>6 DEF StartStep

\* the main loop,
LEMMA ServeClean ==
    ASSUME TypeInv, CleanInv, NEW p \in Procs,
           StartFails(p) \/ Beat(p) \/ Leave(p) \/ Interrupt(p) \/ Crash(p)
    PROVE  CleanInv'
<1>1. CASE StartFails(p) \/ Crash(p)
  BY <1>1, EndClean DEF StartFails, Crash
<1>2. CASE Beat(p)
  BY <1>2, SameTasks DEF Beat, local
<1>3. CASE Leave(p) \/ Interrupt(p)
  <2>1. /\ pc[p] = "serve" /\ pc' = [pc EXCEPT ![p] = "cleanup"]
        /\ todo' = [todo EXCEPT ![p] = CleanupOrder(mode[p])]
        /\ UNCHANGED <<tasks, mode, torn>>
    BY <1>3 DEF Leave, Interrupt, BeginCleanup, Goto
  <2>2. TasksInv(p)
    BY DEF CleanInv
  <2>3. TasksInv(p)'
    BY <2>1, <2>2 DEF TypeInv, LocalTypes, TasksInv
  <2> QED BY <2>1, <2>3, CleanFrame DEF TypeInv, LocalTypes
<1> QED BY <1>1, <1>2, <1>3

\* each step of the clean-up, which ends the task it crosses off its list,
LEMMA CleanupClean ==
    ASSUME TypeInv, CleanInv, NEW p \in Procs, CleanupStep(p) \/ CleanupRaises(p)
    PROVE  CleanInv'
<1>0. TasksInv(p)
  BY DEF CleanInv
<1>1. CASE Cleanup(p)
  <2>1. /\ pc[p] = "cleanup" /\ todo[p] # <<>>
        /\ todo' = [todo EXCEPT ![p] = Tail(@)]
        /\ tasks' = [tasks EXCEPT ![p] = @ \ {Head(todo[p])}]
        /\ UNCHANGED <<pc, mode, torn>>
    BY <1>1 DEF Cleanup
  <2>2. /\ todo'[p] = Tail(todo[p]) /\ tasks'[p] = tasks[p] \ {Head(todo[p])}
        /\ ToSet(todo[p]) \subseteq {Head(todo[p])} \cup ToSet(Tail(todo[p]))
    BY <2>1, TailSet DEF TypeInv, LocalTypes
  <2>3. p \notin torn => tasks'[p] \subseteq ToSet(todo'[p])
    BY <1>0, <2>1, <2>2 DEF TasksInv
  <2>4. p \notin torn => "recovery" \notin tasks'[p]
    BY <1>0, <2>1, <2>2, OrderSet DEF TasksInv
  <2>5. TasksInv(p)'
    BY <1>0, <2>1, <2>2, <2>3, <2>4 DEF TasksInv
  <2> QED BY <2>1, <2>5, CleanFrame DEF TypeInv, LocalTypes
<1>2. CASE RemoveControl(p)
  <2>1. /\ pc[p] = "cleanup" /\ todo[p] = <<>> /\ pc' = [pc EXCEPT ![p] = "unstop"]
        /\ UNCHANGED <<tasks, mode, todo, torn>>
    BY <1>2 DEF RemoveControl, Goto, local
  <2>2. TasksInv(p)'
    BY <1>0, <2>1 DEF TypeInv, LocalTypes, TasksInv
  <2> QED BY <2>1, <2>2, CleanFrame DEF TypeInv, LocalTypes
<1>3. CASE RemoveStop(p)
  BY <1>3, EndClean DEF RemoveStop
<1>4. CASE CleanupRaises(p)
  <2>1. /\ pc[p] = "cleanup" /\ todo' = [todo EXCEPT ![p] = <<>>]
        /\ torn' = torn \cup {p} /\ UNCHANGED <<pc, tasks, mode>>
    BY <1>4 DEF CleanupRaises
  <2>2. TasksInv(p)'
    BY <1>0, <2>1 DEF TypeInv, LocalTypes, TasksInv
  <2> QED BY <2>1, <2>2, CleanFrame DEF TypeInv, LocalTypes
<1> QED BY <1>1, <1>2, <1>3, <1>4 DEF CleanupStep

\* Tasks that the recovery of p adds while it is one of p's tasks.
LEMMA RecoveryAdds ==
    ASSUME TypeInv, CleanInv, NEW p \in Procs, TaskRuns(p, "recovery"),
           UNCHANGED <<pc, mode, todo, torn>>,
           NEW ts \in SUBSET {"recovery", "periodic", "heartbeat", "p2p"},
           tasks' = [tasks EXCEPT ![p] = ts]
    PROVE  CleanInv'
<1>1. TasksInv(p) /\ pc[p] \in {"serve", "cleanup"} /\ "recovery" \in tasks[p]
  BY DEF CleanInv, TaskRuns, Looping
<1>2. mode[p] = "offline"
  BY <1>1 DEF TasksInv
<1>3. tasks'[p] = ts
  BY DEF TypeInv, LocalTypes
<1>4. TasksInv(p)'
  BY <1>1, <1>2, <1>3, OrderSet DEF TasksInv
<1> QED BY <1>4, CleanFrame DEF TypeInv, LocalTypes

\* the background recovery,
LEMMA RecoveryClean ==
    ASSUME TypeInv, CleanInv, NEW p \in Procs, RecoveryStep(p) \/ Heartbeat(p)
    PROVE  CleanInv'
<1> DEFINE Rec == {"recovery", "periodic", "heartbeat", "p2p"}
<1>0. ASSUME TaskRuns(p, "recovery") PROVE tasks[p] \subseteq Rec
  <2>1. /\ TasksInv(p) /\ pc[p] \in {"serve", "cleanup"} /\ "recovery" \in tasks[p]
    BY <1>0 DEF CleanInv, TaskRuns, Looping
  <2> QED BY <2>1, OrderSet DEF TasksInv
<1>1. CASE AttemptRecovery(p) \/ RecoverRegister(p) \/ RecoverSync(p) \/ Heartbeat(p)
  BY <1>1, SameTasks DEF AttemptRecovery, RecoverRegister, RecoverSync, Heartbeat, local
<1>2. CASE RecoverP2P(p)
  <2>1. TaskRuns(p, "recovery") /\ UNCHANGED <<pc, mode, todo, torn>>
    BY <1>2 DEF RecoverP2P
  <2>2. tasks' = tasks \/ tasks' = [tasks EXCEPT ![p] = tasks[p] \cup {"p2p"}]
    BY <1>2 DEF RecoverP2P
  <2> QED BY <1>0, <2>1, <2>2, SameTasks, RecoveryAdds
<1>3. CASE RecoverTasks(p)
  <2>1. TaskRuns(p, "recovery") /\ UNCHANGED <<pc, mode, todo, torn>>
    BY <1>3 DEF RecoverTasks
  <2>2. tasks' = [tasks EXCEPT ![p] =
                   (tasks[p] \ {"recovery"}) \cup {"heartbeat", "periodic"}]
    BY <1>3 DEF RecoverTasks
  <2> QED BY <1>0, <2>1, <2>2, RecoveryAdds
<1> QED BY <1>1, <1>2, <1>3 DEF RecoveryStep

\* and the stop command, the clock and the server.
LEMMA SharedClean ==
    ASSUME CleanInv,
           StopCheck \/ StopWrite \/ StopSeen \/ StopTimeout \/ Tick \/ ServerChanges
    PROVE  CleanInv'
  BY SameTasks DEF StopCheck, StopWrite, StopSeen, StopTimeout, Tick, ServerChanges, local

-----------------------------------------------------------------------------
(***************************************************************************)
(* The sentinel.                                                           *)
(***************************************************************************)

\* Where no process begins to find the sentinel, none needs to have been
\* asked.
LEMMA SameAsked ==
    ASSUME AskedInv, stop' => stop, asked \subseteq asked',
           \A q \in Procs : pc'[q] \in {"write", "serve", "cleanup"}
               => pc[q] \in {"write", "serve", "cleanup"} \/ q \in asked'
    PROVE  AskedInv'
  BY DEF AskedInv

\* A process that ends keeps this true.
LEMMA EndAsked ==
    ASSUME TypeInv, AskedInv, NEW p \in Procs, End(p), stop' => stop
    PROVE  AskedInv'
  BY DEF End, Goto, TypeInv, LocalTypes, AskedInv

\* So does start-up, which removes the old sentinel first,
LEMMA StartAsked ==
    ASSUME TypeInv, AskedInv, NEW p \in Procs, StartStep(p)
    PROVE  AskedInv'
<1>1. CASE Check(p) \/ Auth(p) \/ Register(p) \/ StartServices(p)
  <2>1. /\ UNCHANGED <<stop, asked>>
        /\ \E where \in {"gone", "auth", "backup", "register", "bind", "clear"} :
             pc' = [pc EXCEPT ![p] = where] \/ pc' = pc
    BY <1>1 DEF Check, Auth, Register, StartServices, Outcome, Goto, disk
  <2> QED BY <2>1, SameAsked DEF TypeInv, LocalTypes
<1>2. CASE BackupKey(p)
  <2>1. CASE up
    <3>1. UNCHANGED <<stop, asked>> /\ pc' = [pc EXCEPT ![p] = "register"]
      BY <1>2, <2>1 DEF BackupKey, Goto, disk
    <3> QED BY <3>1, SameAsked DEF TypeInv, LocalTypes
  <2>2. CASE ~up
    BY <1>2, <2>2, EndAsked DEF BackupKey, disk
  <2> QED BY <2>1, <2>2
<1>3. CASE ClearStop(p)
  BY <1>3 DEF ClearStop, AskedInv
<1>4. CASE WriteControl(p)
  <2>1. /\ pc[p] = "write" /\ pc' = [pc EXCEPT ![p] = "serve"]
        /\ UNCHANGED <<stop, asked>>
    BY <1>4 DEF WriteControl, Goto
  <2> QED BY <2>1, SameAsked DEF TypeInv, LocalTypes
<1> QED BY <1>1, <1>2, <1>3, <1>4 DEF StartStep

\* the main loop,
LEMMA ServeAsked ==
    ASSUME TypeInv, AskedInv, NEW p \in Procs,
           StartFails(p) \/ Beat(p) \/ Leave(p) \/ Interrupt(p) \/ Crash(p)
    PROVE  AskedInv'
<1>1. CASE StartFails(p) \/ Crash(p)
  BY <1>1, EndAsked DEF StartFails, Crash, disk
<1>2. CASE Beat(p)
  BY <1>2, SameAsked DEF Beat
<1>3. CASE Leave(p) \/ Interrupt(p)
  <2>1. /\ pc[p] = "serve" /\ pc' = [pc EXCEPT ![p] = "cleanup"]
        /\ stop' = stop /\ asked \subseteq asked'
    BY <1>3 DEF Leave, Interrupt, BeginCleanup, Goto, disk
  <2> QED BY <2>1, SameAsked DEF TypeInv, LocalTypes
<1> QED BY <1>1, <1>2, <1>3

\* the clean-up,
LEMMA CleanupAsked ==
    ASSUME TypeInv, AskedInv, NEW p \in Procs, CleanupStep(p) \/ CleanupRaises(p)
    PROVE  AskedInv'
<1>1. CASE Cleanup(p) \/ CleanupRaises(p)
  BY <1>1, SameAsked DEF Cleanup, CleanupRaises, disk
<1>2. CASE RemoveControl(p)
  <2>1. pc' = [pc EXCEPT ![p] = "unstop"] /\ UNCHANGED <<stop, asked>>
    BY <1>2 DEF RemoveControl, Goto
  <2> QED BY <2>1, SameAsked DEF TypeInv, LocalTypes
<1>3. CASE RemoveStop(p)
  BY <1>3, EndAsked DEF RemoveStop
<1> QED BY <1>1, <1>2, <1>3 DEF CleanupStep

\* the background recovery,
LEMMA RecoveryAsked ==
    ASSUME AskedInv, NEW p \in Procs, RecoveryStep(p) \/ Heartbeat(p)
    PROVE  AskedInv'
  BY SameAsked DEF RecoveryStep, AttemptRecovery, RecoverRegister, RecoverSync,
     RecoverP2P, RecoverTasks, Heartbeat, disk

\* and the stop command, which asks every process that runs when it writes
\* the sentinel.
LEMMA SharedAsked ==
    ASSUME AskedInv,
           StopCheck \/ StopWrite \/ StopSeen \/ StopTimeout \/ Tick \/ ServerChanges
    PROVE  AskedInv'
<1>1. CASE StopWrite
  BY <1>1 DEF StopWrite, AskedInv, Live, Alive, Looping
<1>2. CASE StopCheck \/ StopSeen \/ StopTimeout \/ Tick \/ ServerChanges
  BY <1>2, SameAsked DEF StopCheck, StopSeen, StopTimeout, Tick, ServerChanges, disk
<1> QED BY <1>1, <1>2

-----------------------------------------------------------------------------
(***************************************************************************)
(* Every step, and the theorems.                                           *)
(***************************************************************************)

\* Every step of the daemon keeps the four parts of the invariant.
LEMMA DaemonStep == DaemonInv /\ [Next]_vars => DaemonInv'
<1> SUFFICES ASSUME DaemonInv, [Next]_vars PROVE DaemonInv'
  OBVIOUS
<1> USE DEF DaemonInv
<1>1. CASE \E p \in Procs : StartStep(p)
  BY <1>1, StartTypes, StartSole, StartClean, StartAsked
<1>2. CASE \E p \in Procs :
             StartFails(p) \/ Beat(p) \/ Leave(p) \/ Interrupt(p) \/ Crash(p)
  <2>1. PICK p \in Procs :
             StartFails(p) \/ Beat(p) \/ Leave(p) \/ Interrupt(p) \/ Crash(p)
    BY <1>2
  <2> QED BY <2>1, ServeTypes, ServeSole, ServeClean, ServeAsked
<1>3. CASE \E p \in Procs : CleanupStep(p) \/ CleanupRaises(p)
  <2>1. PICK p \in Procs : CleanupStep(p) \/ CleanupRaises(p)
    BY <1>3
  <2> QED BY <2>1, CleanupTypes, CleanupSole, CleanupClean, CleanupAsked
<1>4. CASE \E p \in Procs : RecoveryStep(p) \/ Heartbeat(p)
  <2>1. PICK p \in Procs : RecoveryStep(p) \/ Heartbeat(p)
    BY <1>4
  <2> QED BY <2>1, RecoveryTypes, RecoverySole, RecoveryClean, RecoveryAsked
<1>5. CASE StopCheck \/ StopWrite \/ StopSeen \/ StopTimeout \/ Tick \/ ServerChanges
  BY <1>5, SharedStepTypes, SharedSole, SharedClean, SharedAsked
<1>6. CASE UNCHANGED vars
  <2>1. UNCHANGED <<LocalTypes, SharedTypes>>
    BY <1>6 DEF vars, local, disk, world, LocalTypes, SharedTypes
  <2>2. UNCHANGED <<pc, tasks, mode, todo, torn, mapped, missed, control, mapping,
                    raced, stop, asked>>
    BY <1>6 DEF vars, local, disk, world
  <2> QED BY <2>1, <2>2, SameProcesses, SameTasks, SameAsked DEF TypeInv
<1> QED BY <1>1, <1>2, <1>3, <1>4, <1>5, <1>6 DEF Next

\* Only finding the sentinel and a signal begin a cleanup.
LEMMA BeginsCleanup ==
    ASSUME TypeInv, Next, NEW p \in Procs, pc[p] = "serve", pc'[p] = "cleanup"
    PROVE  Leave(p) \/ Interrupt(p)
<1>1. ASSUME NEW q \in Procs, StartStep(q) PROVE FALSE
  <2>1. pc' = pc \/ \E where : where # "cleanup" /\ pc' = [pc EXCEPT ![q] = where]
    BY <1>1 DEF StartStep, Check, Auth, BackupKey, Register, StartServices, ClearStop,
       WriteControl, Outcome, Goto, End
  <2> QED BY <2>1 DEF TypeInv, LocalTypes
<1>2. ASSUME NEW q \in Procs, StartFails(q) \/ Beat(q) \/ Crash(q) PROVE FALSE
  <2>1. pc' = pc \/ pc' = [pc EXCEPT ![q] = "gone"]
    BY <1>2 DEF StartFails, Beat, Crash, End, Goto
  <2> QED BY <2>1 DEF TypeInv, LocalTypes
<1>3. ASSUME NEW q \in Procs, CleanupStep(q) \/ CleanupRaises(q) PROVE FALSE
  <2>1. pc' = pc \/ pc' = [pc EXCEPT ![q] = "unstop"] \/ pc' = [pc EXCEPT ![q] = "gone"]
    BY <1>3 DEF CleanupStep, Cleanup, RemoveControl, RemoveStop, CleanupRaises, End, Goto
  <2> QED BY <2>1 DEF TypeInv, LocalTypes
<1>4. ASSUME NEW q \in Procs, RecoveryStep(q) \/ Heartbeat(q) PROVE FALSE
  BY <1>4 DEF RecoveryStep, AttemptRecovery, RecoverRegister, RecoverSync, RecoverP2P,
     RecoverTasks, Heartbeat
<1>5. ASSUME StopCheck \/ StopWrite \/ StopSeen \/ StopTimeout \/ Tick \/ ServerChanges
      PROVE  FALSE
  BY <1>5 DEF StopCheck, StopWrite, StopSeen, StopTimeout, Tick, ServerChanges
<1>6. ASSUME NEW q \in Procs, Leave(q) \/ Interrupt(q) PROVE q = p
  BY <1>6 DEF Leave, Interrupt, BeginCleanup, Goto, TypeInv, LocalTypes
<1> QED BY <1>1, <1>2, <1>3, <1>4, <1>5, <1>6 DEF Next

\* So they hold in every state.
LEMMA DaemonAlways == Spec => []DaemonInv
  BY InitDaemon, DaemonStep, PTL DEF Spec

\* The daemon, its files and its tasks keep their types (daemon_control.py,
\* stardustfs.py): a registration under way never gets to MaxTries failures.
THEOREM DaemonTypeCorrect == Spec => []TypeOK
<1>1. DaemonInv => TypeOK
  <2> SUFFICES ASSUME DaemonInv PROVE TypeOK
    OBVIOUS
  <2>1. \A p \in Procs : ToSet(todo[p]) \subseteq Tasks
    BY SeqSet DEF DaemonInv, TypeInv, LocalTypes
  <2>2. {stop, mapping, up, heard, raced} \subseteq BOOLEAN
    BY DEF DaemonInv, TypeInv, SharedTypes
  <2> QED BY <2>1, <2>2 DEF DaemonInv, TypeInv, LocalTypes, SharedTypes, TypeOK,
             PCs, Modes, Attempts
<1> QED BY DaemonAlways, <1>1, PTL

\* As long as no two starts overlapped and no loop was late, at most one daemon
\* of a device is alive, and it keeps its control file and its port mapping,
\* however many processes are started (_run_daemon, read_status, serve).
THEOREM SoleDaemonAlways == Spec => []SoleDaemon
<1>1. DaemonInv => SoleDaemon
  <2> SUFFICES ASSUME DaemonInv, ~raced
               PROVE  /\ Cardinality(Live) <= 1
                      /\ \A p \in Procs : pc[p] \in Looping =>
                           /\ control # NoFile /\ control.by = p
                           /\ mapped[p] => mapping
    BY DEF SoleDaemon
  <2>1. \A p, q \in Live : p = q
    BY DEF DaemonInv, SoleInv, Live
  <2>2. Live = {} \/ \E p : Live = {p}
    BY <2>1
  <2>3. Cardinality(Live) <= 1
    <3>1. Cardinality(Live) = 0 \/ Cardinality(Live) = 1
      BY <2>2, FS_EmptySet, FS_Singleton, Zenon
    <3> QED BY <3>1
  <2> QED BY <2>3 DEF DaemonInv, SoleInv
<1> QED BY DaemonAlways, <1>1, PTL

\* No background task outlives a cleanup that ran to its end, although a
\* recovery attempt may be starting tasks meanwhile: the cleanup of an offline
\* daemon stops the recovery first (_cleanup, OnlineRecoveryManager.stop).
THEOREM CleanupEndsTasks == Spec => []NoTaskOutlivesCleanup
<1>1. ToSet(<<>>) = {}
  BY DEF ToSet
<1>2. DaemonInv => NoTaskOutlivesCleanup
  BY <1>1 DEF DaemonInv, CleanInv, TasksInv, NoTaskOutlivesCleanup
<1> QED BY DaemonAlways, <1>2, PTL

\* A daemon leaves its loop only for a stop asked for during its life (serve
\* removes an old sentinel before it writes its control file).
THEOREM StopsAreAskedFor == Spec => StopsOnlyWhenAsked
<1> DEFINE Asked == \A p \in Procs : pc[p] = "serve" /\ pc'[p] = "cleanup" => p \in asked'
<1>1. DaemonInv /\ [Next]_vars => [Asked]_vars
  <2> SUFFICES ASSUME DaemonInv, Next, NEW p \in Procs, pc[p] = "serve", pc'[p] = "cleanup"
               PROVE  p \in asked'
    OBVIOUS
  <2>0. TypeInv
    BY DEF DaemonInv
  <2>1. Leave(p) \/ Interrupt(p)
    BY <2>0, BeginsCleanup
  <2>2. CASE Leave(p)
    BY <2>2 DEF Leave, DaemonInv, AskedInv
  <2>3. CASE Interrupt(p)
    BY <2>3 DEF Interrupt
  <2> QED BY <2>1, <2>2, <2>3
<1> QED BY DaemonAlways, <1>1, PTL DEF Spec, StopsOnlyWhenAsked

\* When `daemon stop' reports a stop, no daemon is serving or cleaning up,
\* unless something raced (request_stop waits for the control file to go).
THEOREM ReportedStopsAreTrue == Spec => StoppedIsTrue
<1>1. DaemonInv /\ [Next]_vars =>
        [stopper # "stopped" /\ stopper' = "stopped"
           => raced \/ \A p \in Procs : pc[p] \notin Looping]_vars
  <2> SUFFICES ASSUME DaemonInv, Next, stopper # "stopped", stopper' = "stopped", ~raced,
                      NEW p \in Procs, pc[p] \in Looping
               PROVE  FALSE
    OBVIOUS
  <2>1. control # NoFile
    BY DEF DaemonInv, SoleInv
  <2>2. ASSUME NEW q \in Procs, StartStep(q) PROVE stopper' = stopper
    BY <2>2 DEF StartStep, Check, Auth, BackupKey, Register, StartServices, ClearStop,
       WriteControl, world
  <2>3. ASSUME NEW q \in Procs,
               StartFails(q) \/ Beat(q) \/ Leave(q) \/ Interrupt(q) \/ Crash(q)
        PROVE  stopper' = stopper
    BY <2>3 DEF StartFails, Beat, Leave, Interrupt, Crash, world
  <2>4. ASSUME NEW q \in Procs, CleanupStep(q) \/ CleanupRaises(q)
        PROVE  stopper' = stopper
    BY <2>4 DEF CleanupStep, Cleanup, RemoveControl, RemoveStop, CleanupRaises, world
  <2>5. ASSUME NEW q \in Procs, RecoveryStep(q) \/ Heartbeat(q)
        PROVE  stopper' = stopper
    BY <2>5 DEF RecoveryStep, AttemptRecovery, RecoverRegister, RecoverSync, RecoverP2P,
       RecoverTasks, Heartbeat, world
  <2>6. CASE StopCheck \/ StopWrite \/ StopSeen \/ StopTimeout \/ Tick \/ ServerChanges
    BY <2>1, <2>6 DEF StopCheck, StopWrite, StopSeen, StopTimeout, Tick, ServerChanges, world
  <2> QED BY <2>2, <2>3, <2>4, <2>5, <2>6 DEF Next
<1> QED BY DaemonAlways, <1>1, PTL DEF Spec, StoppedIsTrue
=============================================================================
