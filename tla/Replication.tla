----------------------------- MODULE Replication -----------------------------
(***************************************************************************)
(* Backup of one file on other devices (stardustlib/replication_manager.py, *)
(* the jobs that replication_scheduler.py and the CLI run on it, chunker.py). *)
(*                                                                         *)
(* replicate encrypts the file to a blob, cuts the blob into chunks and    *)
(* pushes every chunk to MinReplicas holders; ensure_replicas copies chunks *)
(* from holder to holder; recover collects the chunks and decrypts.  The   *)
(* id of a chunk is the hash of the path and its index: it does not depend *)
(* on the blob.  Every encryption has a fresh IV and an authentication tag *)
(* over the whole blob, so chunks of different blobs never decrypt.        *)
(*                                                                         *)
(* A job is a thread: "backup" and "heal" of the daemon's scheduler, "cli" *)
(* a backup, heal or restore command.  One action is what a job does       *)
(* between two answers from the server or from a holder.  _ensure_chunks   *)
(* heals up to four chunks at a time; they share no state, so that taking  *)
(* them one after the other, in any order, is the same.                    *)
(***************************************************************************)
EXTENDS Integers, Sequences, FiniteSets, FiniteSetsExt

CONSTANTS
    Holders,      \* the devices that may hold chunks (never the owner's own)
    MinReplicas,  \* min_replicas of the policy
    MaxChunks,    \* bound: chunks of a blob
    MaxEdits,     \* bound: times the user changes the file
    MaxRuns,      \* bound: calls of replicate
    MaxLoss,      \* bound: failed requests, killed jobs
    MaxOff,       \* bound: times a holder goes offline
    CliOps        \* the commands the user gives

ASSUME ReplicationBounds ==
    /\ IsFiniteSet(Holders)
    /\ MinReplicas \in Nat \ {0}
    /\ MaxChunks \in Nat \ {0}
    /\ MaxEdits \in Nat /\ MaxRuns \in Nat /\ MaxLoss \in Nat /\ MaxOff \in Nat

Jobs == {"backup", "heal", "cli"}

Idx == 1..MaxChunks

NoData == 0

VARIABLES
    cur,        \* the file's content: the number of the edit that made it
    n,          \* the number of chunks of that content
    status,     \* replication_status
    enc,        \* enc[b]: content and chunk count of blob b
    chunks,     \* external: indices registered with the server
    reg,        \* external: reg[i]: the holders recorded for chunk i
    held,       \* held[h][i]: the blob that holder h's chunk i is of
    online,     \* the holders that are online
    job,        \* job[j]: where job j is
    corrupt,    \* a recover of a replicated file did not decrypt
    nedits, nloss, noff

netVars == <<chunks, reg, held>>
fileVars == <<cur, n, status, enc>>
vars == <<cur, n, status, enc, chunks, reg, held, online, job, corrupt,
          nedits, nloss, noff>>

(***************************************************************************)
(* A job's locals.  data: the blob whose chunk is pushed; left: chunks     *)
(* still to do; src: holders to fetch from; excl: holders placement leaves *)
(* out; todo: holders to push to; have: online replicas found; placed:     *)
(* replicas recorded; ok: every chunk so far has enough; parts: chunks     *)
(* recovered; safe: the file was marked replicated when recover began.     *)
(***************************************************************************)
NoJob == [pc |-> "idle", op |-> "none", data |-> NoData, left |-> {}, idx |-> 1,
          src |-> {}, excl |-> {}, todo |-> {}, have |-> 0, placed |-> 0,
          ok |-> TRUE, parts |-> [i \in Idx |-> NoData], safe |-> FALSE]

JobType ==
    [pc : {"idle", "picked", "due", "chunk", "fetch", "place", "store", "record"},
     op : {"none", "replicate", "ensure", "recover"},
     data : 0..MaxRuns, left : SUBSET Idx, idx : Idx,
     src : SUBSET Holders, excl : SUBSET Holders, todo : SUBSET Holders,
     have : Nat, placed : Nat, ok : BOOLEAN,
     parts : [Idx -> 0..MaxRuns], safe : BOOLEAN]

\* The type invariant: the file's rows, the chunk map and each replication run
\* keep their shape.
TypeOK ==
    /\ cur \in 0..MaxEdits
    /\ n \in Idx
    /\ status \in {"none", "pending", "replicated"}
    /\ enc \in Seq([edit : 0..MaxEdits, n : Idx]) /\ Len(enc) <= MaxRuns
    /\ chunks \subseteq Idx
    /\ reg \in [Idx -> SUBSET Holders]
    /\ held \in [Holders -> [Idx -> 0..MaxRuns]]
    /\ online \subseteq Holders
    /\ job \in [Jobs -> JobType]
    /\ \A j \in Jobs : job[j].placed + Cardinality(job[j].todo) <= MinReplicas
    /\ corrupt \in BOOLEAN
    /\ nedits \in 0..MaxEdits /\ nloss \in 0..MaxLoss /\ noff \in 0..MaxOff

\* A new file, not yet backed up.
Init ==
    /\ cur = 0
    /\ n \in Idx
    /\ status = "none"
    /\ enc = <<>>
    /\ chunks = {}
    /\ reg = [i \in Idx |-> {}]
    /\ held = [h \in Holders |-> [i \in Idx |-> NoData]]
    /\ online = Holders
    /\ job = [j \in Jobs |-> NoJob]
    /\ corrupt = FALSE
    /\ nedits = 0 /\ nloss = 0 /\ noff = 0

-----------------------------------------------------------------------------
\* A failure: one of the bounded number of them.
Lose == nloss < MaxLoss /\ nloss' = nloss + 1

NoLoss == nloss' = nloss

Set(j, r) == job' = [job EXCEPT ![j] = r]

\* POST /replication/placement: as many online holders as are asked for.
Placement(excl) ==
    LET C == online \ excl
        k == IF Cardinality(C) < MinReplicas THEN Cardinality(C) ELSE MinReplicas
    IN  kSubset(k, C)

\* Placement's answer: its holders, or none after an error status.
Placed(excl, H) ==
    \/ H \in Placement(excl) /\ NoLoss
    \/ H = {} /\ Lose

-----------------------------------------------------------------------------
(***************************************************************************)
(* replicate                                                               *)
(***************************************************************************)

\* The files a cycle of the scheduler lists: run_backup_cycle none and
\* pending, run_heal_cycle replicated ones.
ListedFor(j) ==
    \/ j = "backup" /\ status \in {"none", "pending"}
    \/ j = "heal" /\ status = "replicated"

\* A cycle lists the file; its turn comes later, whatever the status then is.
Pick(j) ==
    /\ job[j].pc = "idle"
    /\ ListedFor(j)
    /\ Set(j, [NoJob EXCEPT !.pc = "picked"])
    /\ UNCHANGED <<fileVars, netVars, online, corrupt, nedits, nloss, noff>>

\* Who calls an operation: a cycle when the file's turn comes, or the user.
Called(j, op) ==
    \/ j = "backup" /\ op = "replicate" /\ job[j].pc = "picked"
    \/ j = "heal" /\ op = "ensure" /\ job[j].pc = "due"
    \/ j = "cli" /\ op \in CliOps /\ job[j].pc = "idle"

\* Read, encrypt, split.
ReplicateStart(j) ==
    /\ Called(j, "replicate")
    /\ Len(enc) < MaxRuns
    /\ enc' = Append(enc, [edit |-> cur, n |-> n])
    /\ Set(j, [NoJob EXCEPT !.pc = "chunk", !.op = "replicate",
                            !.data = Len(enc) + 1, !.left = 1..n])
    /\ UNCHANGED <<cur, n, status, netVars, online, corrupt, nedits, nloss, noff>>

\* Mutant: the count goes on from chunk to chunk.
PlaceChunkNoReset(j) ==
    LET i == Min(job[j].left) IN
    /\ job[j].pc = "chunk" /\ job[j].op = "replicate"
    /\ job[j].left # {}
    /\ chunks' = chunks \cup {i}
    /\ \E H \in SUBSET Holders :
        /\ Placed({}, H)
        /\ Set(j, [job[j] EXCEPT !.pc = "store", !.idx = i, !.left = @ \ {i},
                                 !.todo = H])
    /\ UNCHANGED <<fileVars, reg, held, online, corrupt, nedits, noff>>

\* Register the next chunk and ask for holders.
PlaceChunk(j) ==
    LET i == Min(job[j].left) IN
    /\ job[j].pc = "chunk" /\ job[j].op = "replicate"
    /\ job[j].left # {}
    /\ chunks' = chunks \cup {i}
    /\ \E H \in SUBSET Holders :
        /\ Placed({}, H)
        /\ Set(j, [job[j] EXCEPT !.pc = "store", !.idx = i, !.left = @ \ {i},
                                 !.todo = H, !.have = 0, !.placed = 0])
    /\ UNCHANGED <<fileVars, reg, held, online, corrupt, nedits, noff>>

-----------------------------------------------------------------------------
(***************************************************************************)
(* Pushing a chunk, for both operations                                    *)
(***************************************************************************)

\* _heal_chunk stops when nothing is needed any more.
Enough(j) == job[j].op = "ensure" /\ job[j].have + job[j].placed >= MinReplicas

\* _holder_store, directly or by relay: stored; stored but the answer is
\* lost; not stored, because the holder is offline or refuses.
HolderStore(j, h) ==
    /\ job[j].pc = "store"
    /\ h \in job[j].todo
    /\ ~Enough(j)
    /\ \/ /\ h \in online
          /\ held' = [held EXCEPT ![h][job[j].idx] = job[j].data]
          /\ Set(j, [job[j] EXCEPT !.pc = "record", !.todo = @ \ {h}, !.src = {h}])
          /\ NoLoss
       \/ /\ h \in online
          /\ held' = [held EXCEPT ![h][job[j].idx] = job[j].data]
          /\ Set(j, [job[j] EXCEPT !.todo = @ \ {h}])
          /\ Lose
       \/ /\ Set(j, [job[j] EXCEPT !.todo = @ \ {h}])
          /\ IF h \in online THEN Lose ELSE NoLoss
          /\ held' = held
    /\ UNCHANGED <<fileVars, chunks, reg, online, corrupt, nedits, noff>>

\* _record_replica counts if the server takes it.
RecordReplica(j) ==
    /\ job[j].pc = "record"
    /\ \/ /\ reg' = [reg EXCEPT ![job[j].idx] = @ \cup job[j].src]
          /\ Set(j, [job[j] EXCEPT !.pc = "store", !.src = {}, !.placed = @ + 1])
          /\ NoLoss
       \/ /\ Set(j, [job[j] EXCEPT !.pc = "store", !.src = {}])
          /\ Lose
          /\ reg' = reg
    /\ UNCHANGED <<fileVars, chunks, held, online, corrupt, nedits, noff>>

\* Mutant: one replica of a chunk is enough.
ChunkDoneAny(j) ==
    /\ job[j].pc = "store"
    /\ job[j].todo = {} \/ Enough(j)
    /\ Set(j, [job[j] EXCEPT !.pc = "chunk", !.todo = {},
                             !.ok = @ /\ job[j].have + job[j].placed >= 1])
    /\ UNCHANGED <<fileVars, netVars, online, corrupt, nedits, nloss, noff>>

\* The chunk has been offered to all holders: does it have enough replicas?
ChunkDone(j) ==
    /\ job[j].pc = "store"
    /\ job[j].todo = {} \/ Enough(j)
    /\ Set(j, [job[j] EXCEPT !.pc = "chunk", !.todo = {},
                 !.ok = @ /\ job[j].have + job[j].placed >= MinReplicas])
    /\ UNCHANGED <<fileVars, netVars, online, corrupt, nedits, nloss, noff>>

\* The end of replicate and of ensure_replicas: set_replication_status.
Finish(j) ==
    /\ job[j].pc = "chunk" /\ job[j].op \in {"replicate", "ensure"}
    /\ job[j].left = {}
    /\ status' = IF job[j].ok THEN "replicated" ELSE "pending"
    /\ Set(j, NoJob)
    /\ UNCHANGED <<cur, n, enc, netVars, online, corrupt, nedits, nloss, noff>>

-----------------------------------------------------------------------------
(***************************************************************************)
(* ensure_replicas                                                         *)
(***************************************************************************)

\* replication_health
Degraded ==
    \E i \in chunks : Cardinality(reg[i] \cap online) < MinReplicas

\* run_heal_cycle asks for the file's health (the grace period only delays
\* what follows).  A list that cannot be had makes the answer wrong.
CheckHealth(j) ==
    /\ job[j].pc = "picked" /\ j = "heal"
    /\ \E d \in BOOLEAN :
        /\ IF d = Degraded THEN NoLoss ELSE Lose
        /\ Set(j, IF d THEN [job[j] EXCEPT !.pc = "due"] ELSE NoJob)
    /\ UNCHANGED <<fileVars, netVars, online, corrupt, nedits, noff>>

\* The chunks are those the server lists; none is an error.
EnsureStart(j) ==
    /\ Called(j, "ensure")
    /\ chunks # {}
    /\ Set(j, [NoJob EXCEPT !.pc = "chunk", !.op = "ensure", !.left = chunks])
    /\ UNCHANGED <<fileVars, netVars, online, corrupt, nedits, nloss, noff>>

\* _heal_chunk counts the online replicas.  Without any, or if the list
\* cannot be had, the chunk is unrecoverable.
HealChunk(j, i) ==
    /\ job[j].pc = "chunk" /\ job[j].op = "ensure"
    /\ i \in job[j].left
    /\ \E O \in {reg[i] \cap online, {}} :
        /\ IF O = reg[i] \cap online THEN NoLoss ELSE Lose
        /\ LET rest == [job[j] EXCEPT !.left = @ \ {i}] IN
           IF Cardinality(O) >= MinReplicas
           THEN Set(j, rest)
           ELSE IF O = {}
           THEN Set(j, [rest EXCEPT !.ok = FALSE])
           ELSE Set(j, [rest EXCEPT !.pc = "fetch", !.idx = i, !.src = O,
                                    !.excl = reg[i], !.have = Cardinality(O),
                                    !.placed = 0])
    /\ UNCHANGED <<fileVars, netVars, online, corrupt, nedits, noff>>

\* _holder_fetch from one of them.
HealFetch(j, h) ==
    LET d == held[h][job[j].idx] IN
    /\ job[j].pc = "fetch"
    /\ h \in job[j].src
    /\ \/ /\ h \in online /\ d # NoData
          /\ Set(j, [job[j] EXCEPT !.pc = "place", !.src = {}, !.data = d])
          /\ NoLoss
       \/ /\ IF h \in online /\ d # NoData THEN Lose ELSE NoLoss
          /\ IF job[j].src = {h}
             THEN Set(j, [job[j] EXCEPT !.pc = "chunk", !.src = {}, !.ok = FALSE])
             ELSE Set(j, [job[j] EXCEPT !.src = @ \ {h}])
    /\ UNCHANGED <<fileVars, netVars, online, corrupt, nedits, noff>>

\* Holders for the copy, none of which is recorded already.
PlaceCopy(j) ==
    /\ job[j].pc = "place"
    /\ \E H \in SUBSET Holders :
        /\ Placed(job[j].excl, H)
        /\ Set(j, [job[j] EXCEPT !.pc = "store", !.todo = H])
    /\ UNCHANGED <<fileVars, netVars, online, corrupt, nedits, noff>>

-----------------------------------------------------------------------------
(***************************************************************************)
(* recover                                                                 *)
(***************************************************************************)

RecoverStart(j) ==
    /\ Called(j, "recover")
    /\ chunks # {}
    /\ Set(j, [NoJob EXCEPT !.pc = "chunk", !.op = "recover", !.left = chunks,
                            !.safe = status = "replicated"])
    /\ UNCHANGED <<fileVars, netVars, online, corrupt, nedits, nloss, noff>>

\* Mutant: a chunk nobody has is left out silently.
RecoverFetchSilently(j, i) ==
    /\ job[j].pc = "chunk" /\ job[j].op = "recover"
    /\ i \in job[j].left
    /\ LET S == {h \in reg[i] \cap online : held[h][i] # NoData} IN
       \/ \E h \in S :
            /\ Set(j, [job[j] EXCEPT !.left = @ \ {i}, !.parts[i] = held[h][i]])
            /\ NoLoss
       \/ /\ IF S = {} THEN NoLoss ELSE Lose
          /\ Set(j, [job[j] EXCEPT !.left = @ \ {i}])
    /\ UNCHANGED <<fileVars, netVars, online, corrupt, nedits, noff>>

\* _fetch_from_any_holder
RecoverFetch(j, i) ==
    /\ job[j].pc = "chunk" /\ job[j].op = "recover"
    /\ i \in job[j].left
    /\ LET S == {h \in reg[i] \cap online : held[h][i] # NoData} IN
       \/ \E h \in S :
            /\ Set(j, [job[j] EXCEPT !.left = @ \ {i}, !.parts[i] = held[h][i]])
            /\ NoLoss
       \/ /\ IF S = {} THEN NoLoss ELSE Lose
          /\ Set(j, [job[j] EXCEPT !.left = @ \ {i}, !.ok = FALSE])
    /\ UNCHANGED <<fileVars, netVars, online, corrupt, nedits, noff>>

\* join, and decrypt's check of the tag: the parts are all chunks of a blob.
Whole(parts, b) ==
    \A i \in Idx : parts[i] = IF i <= enc[b].n THEN b ELSE NoData

\* A missing chunk is a RecoveryError, a wrong tag an IntegrityError; what
\* decrypts is written to the file.
RecoverFinish(j) ==
    LET parts == job[j].parts
        b == parts[1] IN
    /\ job[j].pc = "chunk" /\ job[j].op = "recover"
    /\ job[j].left = {}
    /\ Set(j, NoJob)
    /\ IF job[j].ok /\ b # NoData /\ Whole(parts, b)
       THEN cur' = enc[b].edit /\ n' = enc[b].n /\ UNCHANGED corrupt
       ELSE /\ corrupt' = (corrupt \/ (job[j].ok /\ job[j].safe))
            /\ UNCHANGED <<cur, n>>
    /\ UNCHANGED <<status, enc, netVars, online, nedits, nloss, noff>>

-----------------------------------------------------------------------------
\* An exception of a request, or the end of the process, ends a job; the
\* replication_status stays what it was.
Abort(j) ==
    /\ job[j].pc # "idle"
    /\ Lose
    /\ Set(j, NoJob)
    /\ UNCHANGED <<fileVars, netVars, online, corrupt, nedits, noff>>

\* write_file: update does not touch replication_status.
Edit ==
    /\ nedits < MaxEdits
    /\ nedits' = nedits + 1
    /\ cur' = nedits + 1
    /\ n' \in Idx
    /\ UNCHANGED <<status, enc, netVars, online, job, corrupt, nloss, noff>>

GoOffline(h) ==
    /\ h \in online
    /\ noff < MaxOff
    /\ noff' = noff + 1
    /\ online' = online \ {h}
    /\ UNCHANGED <<fileVars, netVars, job, corrupt, nedits, nloss>>

GoOnline(h) ==
    /\ h \notin online
    /\ online' = online \cup {h}
    /\ UNCHANGED <<fileVars, netVars, job, corrupt, nedits, nloss, noff>>

JobStep(j) ==
    \/ Pick(j)
    \/ ReplicateStart(j)
    \/ PlaceChunk(j)
    \/ \E h \in Holders : HolderStore(j, h)
    \/ RecordReplica(j)
    \/ ChunkDone(j)
    \/ Finish(j)
    \/ CheckHealth(j)
    \/ EnsureStart(j)
    \/ \E i \in Idx : HealChunk(j, i)
    \/ \E h \in Holders : HealFetch(j, h)
    \/ PlaceCopy(j)
    \/ RecoverStart(j)
    \/ \E i \in Idx : RecoverFetch(j, i)
    \/ RecoverFinish(j)

Next ==
    \/ \E j \in Jobs : JobStep(j)
    \/ \E j \in Jobs : Abort(j)
    \/ Edit
    \/ \E h \in Holders : GoOffline(h)
    \/ \E h \in Holders : GoOnline(h)

Spec == Init /\ [][Next]_vars

-----------------------------------------------------------------------------
\* Blob b has all its chunks on enough holders the server knows.
Backup(b) ==
    \A i \in 1..enc[b].n :
        Cardinality({h \in reg[i] : held[h][i] = b}) >= MinReplicas

\* A file marked replicated has a backup: every chunk of one and the same
\* blob is on MinReplicas holders, whatever failed before or was healed since
\* (replicate, ensure_replicas).
ReplicatedHasBackup ==
    status = "replicated" => \E b \in 1..Len(enc) : Backup(b)

\* A file backed up once is restored, or the user is told that a chunk is
\* missing, whatever was healed in the meantime (recover).
SingleBackupRestores == Len(enc) <= 1 => ~corrupt
==============================================================================
