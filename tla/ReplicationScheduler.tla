------------------------ MODULE ReplicationScheduler ------------------------
(***************************************************************************)
(* The two loops of the daemon that pick files for backup and for healing  *)
(* (stardustlib/replication_scheduler.py).  What replicate and             *)
(* ensure_replicas do to one file is in module Replication; here a call    *)
(* has an outcome.                                                         *)
(***************************************************************************)
EXTENDS Integers, Sequences, FiniteSets, Functions

CONSTANTS
    Order,        \* the virtual paths, in the order the query gives them
    Missing,      \* records without device_id whose file another device has
    MaxPerCycle,  \* max_files_per_cycle
    Grace,        \* heal_grace_seconds, in heal cycles
    MaxBad,       \* bound: calls that fail or find too few holders
    MaxDegrade,   \* bound: times a replicated file loses replicas
    MaxRestarts   \* bound: restarts of the daemon

ASSUME SchedulerBounds ==
    /\ MaxPerCycle \in Nat \ {0}
    /\ Grace \in Nat /\ MaxBad \in Nat /\ MaxDegrade \in Nat /\ MaxRestarts \in Nat
    /\ Order \in Seq(Range(Order))
    /\ Missing \subseteq Range(Order)

Files == Range(Order)

Never == -1   \* not in _degraded_since

VARIABLES
    status,     \* replication_status
    degraded,   \* external: files with too few online replicas
    skip,       \* _skip_backup
    age,        \* heal cycles since a file's entry in _degraded_since
    backupQ,    \* files the backup cycle under way still has to do
    healQ,      \* files the heal cycle under way still has to do, in their order
    backing,    \* a backup cycle is under way
    healing,    \* a heal cycle is under way
    nbad, ndeg, nrestart

vars == <<status, degraded, skip, age, backupQ, healQ, backing, healing,
          nbad, ndeg, nrestart>>
backupVars == <<skip, backupQ, backing>>
healVars == <<age, healQ, healing>>

\* The type invariant; a cycle of backups or of heals does at most MaxPerCycle
\* files, and no file waits longer than Grace.
TypeOK ==
    /\ status \in [Files -> {"none", "pending", "replicated"}]
    /\ degraded \subseteq Files
    /\ skip \subseteq Files
    /\ age \in [Files -> {Never} \cup 0..Grace]
    /\ backupQ \subseteq Files /\ Cardinality(backupQ) <= MaxPerCycle
    /\ healQ \subseteq Files /\ Cardinality(healQ) <= MaxPerCycle
    /\ backing \in BOOLEAN /\ healing \in BOOLEAN
    /\ nbad \in 0..MaxBad /\ ndeg \in 0..MaxDegrade /\ nrestart \in 0..MaxRestarts

Init ==
    /\ status = [f \in Files |-> "none"]
    /\ degraded = {}
    /\ skip = {}
    /\ age = [f \in Files |-> Never]
    /\ backupQ = {} /\ healQ = {}
    /\ backing = FALSE /\ healing = FALSE
    /\ nbad = 0 /\ ndeg = 0 /\ nrestart = 0

-----------------------------------------------------------------------------
\* k of the bounded number of failures happen.
Failures(k) == nbad + k <= MaxBad /\ nbad' = nbad + k

Bad == Failures(1)

Good == nbad' = nbad

\* list_virtual_paths_for_replication: a part of the files, in their order.
Listed(S) == {f \in Files : status[f] \in S}

\* The place of a file in the order.
Place(f) == CHOOSE i \in DOMAIN Order : Order[i] = f

\* The files of Q that come before f, and f itself.
UpTo(f, Q) == {g \in Q : Place(g) <= Place(f)}

\* Mutant: the whole list.
FirstAll(Q) == Q

\* paths[:max]
First(Q) == {f \in Q : Cardinality(UpTo(f, Q)) <= MaxPerCycle}

\* The file of Q whose turn it is.
IsNext(f, Q) == f \in Q /\ UpTo(f, Q) = {f}

-----------------------------------------------------------------------------
\* Mutant: only files that were never tried.
BackupStatusesNew == {"none"}

\* run_backup_cycle retries pending files as well.
BackupStatuses == {"none", "pending"}

\* run_backup_cycle: the first max files, without those known to be missing.
BackupCycle ==
    /\ ~backing
    /\ backing' = TRUE
    /\ backupQ' = First(Listed(BackupStatuses)) \ skip
    /\ UNCHANGED <<status, degraded, skip, healVars, nbad, ndeg, nrestart>>

\* replicate of one of them, in whatever order the threads end: no local
\* file; enough holders; too few; an exception.
BackupOne(f) ==
    /\ f \in backupQ
    /\ backupQ' = backupQ \ {f}
    /\ IF f \in Missing
       THEN /\ skip' = skip \cup {f}
            /\ Good
            /\ UNCHANGED <<status, degraded>>
       ELSE /\ skip' = skip
            /\ \/ /\ status' = [status EXCEPT ![f] = "replicated"]
                  /\ degraded' = degraded \ {f}
                  /\ Good
               \/ /\ status' = [status EXCEPT ![f] = "pending"]
                  /\ degraded' = degraded
                  /\ Bad
               \/ Bad /\ UNCHANGED <<status, degraded>>
    /\ UNCHANGED <<backing, healVars, ndeg, nrestart>>

\* The cycle is over; _backup_loop sleeps.
BackupSleep ==
    /\ backing
    /\ backupQ = {}
    /\ backing' = FALSE
    /\ UNCHANGED <<status, degraded, skip, backupQ, healVars, nbad, ndeg, nrestart>>

-----------------------------------------------------------------------------
Older(a) == IF a = Never THEN Never ELSE IF a < Grace THEN a + 1 ELSE Grace

\* run_heal_cycle, a heal interval after the last one.
HealCycle ==
    /\ ~healing
    /\ healing' = TRUE
    /\ healQ' = First(Listed({"replicated"}))
    /\ age' = [f \in Files |-> Older(age[f])]
    /\ UNCHANGED <<status, degraded, backupVars, nbad, ndeg, nrestart>>

\* The first time a file is seen degraded.
Since(f) == IF age[f] = Never THEN 0 ELSE age[f]

\* Mutant: the record of a file is dropped every time it is looked at.
HealOneForgetful(f) ==
    /\ IsNext(f, healQ)
    /\ healQ' = healQ \ {f}
    /\ age' = [age EXCEPT ![f] = Never]
    /\ degraded' = IF Since(f) >= Grace THEN degraded \ {f} ELSE degraded
    /\ UNCHANGED <<status, healing, backupVars, nbad, ndeg, nrestart>>

\* The next file.  Its health cannot be had; it seems healthy; the grace
\* period is not over; ensure_replicas repairs it, finds too few sources or
\* holders, or fails.  A list the server refuses makes the health wrong.
HealOne(f) ==
    /\ IsNext(f, healQ)
    /\ healQ' = healQ \ {f}
    /\ \/ Bad /\ UNCHANGED <<status, degraded, age>>
       \/ \E seen \in BOOLEAN :
            LET k == IF seen = (f \in degraded) THEN 0 ELSE 1 IN
            \/ /\ ~seen
               /\ age' = [age EXCEPT ![f] = Never]
               /\ Failures(k) /\ UNCHANGED <<status, degraded>>
            \/ /\ seen /\ Since(f) < Grace
               /\ age' = [age EXCEPT ![f] = Since(f)]
               /\ Failures(k) /\ UNCHANGED <<status, degraded>>
            \/ /\ seen /\ Since(f) >= Grace
               /\ \/ /\ age' = [age EXCEPT ![f] = Never]
                     /\ degraded' = degraded \ {f}
                     /\ status' = [status EXCEPT ![f] = "replicated"]
                     /\ Failures(k)
                  \/ /\ age' = [age EXCEPT ![f] = Never]
                     /\ status' = [status EXCEPT ![f] = "pending"]
                     /\ degraded' = degraded
                     /\ Failures(k + 1)
                  \/ /\ age' = [age EXCEPT ![f] = Since(f)]
                     /\ Failures(k + 1) /\ UNCHANGED <<status, degraded>>
    /\ UNCHANGED <<healing, backupVars, ndeg, nrestart>>

HealSleep ==
    /\ healing
    /\ healQ = {}
    /\ healing' = FALSE
    /\ UNCHANGED <<status, degraded, age, healQ, backupVars, nbad, ndeg, nrestart>>

-----------------------------------------------------------------------------
\* Holders of a replicated file go away, or the policy asks for more.
Degrade(f) ==
    /\ status[f] = "replicated" /\ f \notin degraded
    /\ ndeg < MaxDegrade
    /\ ndeg' = ndeg + 1
    /\ degraded' = degraded \cup {f}
    /\ UNCHANGED <<status, backupVars, healVars, nbad, nrestart>>

\* stop and start: what the scheduler has in memory is gone.
Restart ==
    /\ nrestart < MaxRestarts
    /\ nrestart' = nrestart + 1
    /\ skip' = {}
    /\ age' = [f \in Files |-> Never]
    /\ backupQ' = {} /\ healQ' = {}
    /\ backing' = FALSE /\ healing' = FALSE
    /\ UNCHANGED <<status, degraded, nbad, ndeg>>

BackupLoop == BackupCycle \/ (\E f \in Files : BackupOne(f)) \/ BackupSleep

HealLoop == HealCycle \/ (\E f \in Files : HealOne(f)) \/ HealSleep

Next == BackupLoop \/ HealLoop \/ (\E f \in Files : Degrade(f)) \/ Restart

Spec == Init /\ [][Next]_vars

\* Both tasks of the event loop go on; sleeping ends.
FairSpec == Spec /\ WF_vars(BackupLoop) /\ WF_vars(HealLoop)

-----------------------------------------------------------------------------
\* Every local file is replicated in the end, and again after a heal made it
\* pending, however many there are for one cycle and whichever calls fail, as
\* long as the missing files do not fill a cycle (run_backup_cycle's bound and
\* retries).
AllBackedUp ==
    Cardinality(Missing) < MaxPerCycle =>
       \A f \in Files \ Missing : []<>(status[f] = "replicated")

\* The files at the front of the list, as many as a cycle takes, get lost
\* replicas back in the end, after the grace period (run_heal_cycle).
FrontHealed ==
    \A f \in First(Files) : f \in degraded ~> f \notin degraded
=============================================================================
