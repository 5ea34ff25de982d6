-------------------------- MODULE ReplicationProofs --------------------------
(***************************************************************************)
(* What Replication guarantees for any holders, replicas, chunks and any   *)
(* number of backups, failures and holders that go away.                   *)
(***************************************************************************)
EXTENDS Replication, FiniteSetTheorems, TLAPS

\* Natural numbers have a least one among them.
LEMMA LeastElement ==
    ASSUME NEW A, A \subseteq Nat, A # {}
    PROVE  \E m \in A : \A k \in A : m <= k
<1>1. PICK m \in A : \A k \in A : <<k, m>> \notin OpToRel(<, Nat)
  <2> HIDE DEF OpToRel
  <2> QED BY NatLessThanWellFounded, WFMin
<1>2. \A k \in A : ~(k < m)
  BY <1>1 DEF OpToRel
<1> QED BY <1>2

\* The user gives no backup or heal command beside the daemon's jobs (such a
\* command can mark a file replicated while chunks are missing).
OnlyRestores == CliOps \subseteq {"recover"}

\* What pushing leaves room for: todo holders at most are still to be counted.
PushShape(r) ==
    /\ r.pc \in {"chunk", "fetch", "place"} => r.todo = {}
    /\ r.pc \in {"fetch", "place"} => r.placed = 0
    /\ r.pc = "record" => r.placed + Cardinality(r.todo) < MinReplicas

TypeInv == TypeOK /\ \A j \in Jobs : PushShape(job[j])

\* The holders the server knows that do have chunk i of blob b.
CopiesIn(rg, hd, i, b) == {h \in rg[i] : hd[h][i] = b}

Copies(i, b) == CopiesIn(reg, held, i, b)

\* A backup under way: the file is not marked; the chunks done, if all went
\* well, have their replicas; of the one being pushed as many are counted as
\* there are copies at the holders that have been offered it.
BackupJob(r) ==
    /\ r.pc \in {"idle", "picked", "chunk", "store", "record"}
    /\ r.pc # "idle" => status # "replicated"
    /\ r.op = IF r.pc \in {"idle", "picked"} THEN "none" ELSE "replicate"
    /\ r.op = "replicate" =>
        /\ r.data \in 1..Len(enc)
        /\ r.left \subseteq 1..enc[r.data].n
        /\ r.have = 0
        /\ \A i \in (1..enc[r.data].n) \ r.left :
             r.ok /\ (r.pc = "chunk" \/ i # r.idx) =>
                Cardinality(Copies(i, r.data)) >= MinReplicas
    /\ r.pc \in {"store", "record"} =>
        r.placed <= Cardinality(Copies(r.idx, r.data) \ (r.todo \cup r.src))
    /\ r.pc \in {"chunk", "store"} => r.src = {}
    /\ r.pc = "record" =>
        \E h \in Holders : r.src = {h} /\ h \notin r.todo /\ held[h][r.idx] = r.data

\* A heal under way: the file is marked; it copies to holders that are not
\* recorded for the chunk.
HealJob(r) ==
    /\ r.pc # "idle" => status = "replicated"
    /\ r.op = IF r.pc \in {"idle", "picked", "due"} THEN "none" ELSE "ensure"
    /\ r.pc \in {"fetch", "place"} => r.excl = reg[r.idx]
    /\ r.pc \in {"store", "record"} => (r.todo \cup r.src) \cap reg[r.idx] = {}
    /\ r.pc \in {"place", "store"} => r.src = {}
    /\ r.pc = "record" => r.todo \cap r.src = {}

\* A command under way restores.
CliJob(r) ==
    /\ r.pc \in {"idle", "chunk"}
    /\ r.op = IF r.pc = "idle" THEN "none" ELSE "recover"

\* Whatever is anywhere is of a blob that was made.
BlobInv ==
    /\ \A h \in Holders, i \in Idx : held[h][i] <= Len(enc)
    /\ \A j \in Jobs : /\ job[j].data <= Len(enc)
                      /\ \A i \in Idx : job[j].parts[i] <= Len(enc)

JobInv == BackupJob(job["backup"]) /\ HealJob(job["heal"]) /\ CliJob(job["cli"])

ReplInv == TypeInv /\ JobInv /\ BlobInv /\ ReplicatedHasBackup

\* While the file has been encrypted once at most: the server lists chunks of
\* that blob only, all of them once the file is marked; a restore begun then
\* has all parts it has fetched so far.
ChunksOfOne ==
    Len(enc) <= 1 =>
        /\ Len(enc) = 0 => chunks = {} /\ job["cli"].op # "recover"
        /\ Len(enc) = 1 => chunks \subseteq 1..enc[1].n
        /\ job["backup"].op = "replicate" => chunks \cup job["backup"].left = 1..enc[1].n
        /\ status = "replicated" => chunks = 1..enc[1].n
        /\ ~corrupt

RestoreOfOne(r) ==
    Len(enc) = 1 /\ r.op = "recover" /\ r.safe /\ r.ok =>
        /\ r.left \subseteq 1..enc[1].n
        /\ \A i \in Idx : r.parts[i] = IF i \in (1..enc[1].n) \ r.left THEN 1 ELSE NoData

SingleInv == ReplInv /\ ChunksOfOne /\ RestoreOfOne(job["cli"])

-----------------------------------------------------------------------------
\* A job's locals are in order.
JobOK(r) ==
    /\ r \in JobType
    /\ r.placed + Cardinality(r.todo) <= MinReplicas
    /\ PushShape(r)

\* A job's step keeps the types if its new locals are in order.
LEMMA SetKeepsType ==
    ASSUME TypeInv, NEW j \in Jobs, NEW r, JobOK(r), Set(j, r),
           nloss' \in 0..MaxLoss, enc' \in Seq([edit : 0..MaxEdits, n : Idx]),
           Len(enc') <= MaxRuns, status' \in {"none", "pending", "replicated"},
           cur' \in 0..MaxEdits, n' \in Idx, chunks' \subseteq Idx,
           reg' \in [Idx -> SUBSET Holders], held' \in [Holders -> [Idx -> 0..MaxRuns]],
           corrupt' \in BOOLEAN, UNCHANGED <<online, nedits, noff>>
    PROVE  TypeInv'
<1>1. job' \in [Jobs -> JobType]
  BY DEF TypeInv, TypeOK, Set, JobOK
<1>2. \A k \in Jobs : job'[k] = IF k = j THEN r ELSE job[k]
  BY DEF TypeInv, TypeOK, Set
<1>3. \A k \in Jobs : /\ job'[k].placed + Cardinality(job'[k].todo) <= MinReplicas
                      /\ PushShape(job'[k])
  BY <1>2 DEF TypeInv, TypeOK, JobOK
<1> QED BY <1>1, <1>3 DEF TypeInv, TypeOK

\* The same for a step that only the job and the loss counter see.
LEMMA LocalKeepsType ==
    ASSUME TypeInv, NEW j \in Jobs, NEW r, JobOK(r), Set(j, r), nloss' \in 0..MaxLoss,
           UNCHANGED <<fileVars, netVars, online, corrupt, nedits, noff>>
    PROVE  TypeInv'
<1>1. /\ enc' = enc /\ status' = status /\ cur' = cur /\ n' = n /\ chunks' = chunks
      /\ reg' = reg /\ held' = held /\ corrupt' = corrupt
      /\ UNCHANGED <<online, nedits, noff>>
  BY DEF fileVars, netVars
<1> QED BY <1>1, SetKeepsType DEF TypeInv, TypeOK

\* A step that loses something still has a loss left.
LEMMA LossCounted ==
    ASSUME TypeInv, Lose \/ NoLoss
    PROVE  nloss' \in 0..MaxLoss
  BY ReplicationBounds DEF TypeInv, TypeOK, Lose, NoLoss

\* A set of holders is finite.
LEMMA HoldersFinite ==
    ASSUME NEW H \in SUBSET Holders
    PROVE  IsFiniteSet(H) /\ Cardinality(H) \in Nat
  BY FS_Subset, FS_CardinalityType, ReplicationBounds

\* A job that has not begun is well-typed.
LEMMA NoJobOK == JobOK(NoJob)
<1>1. Cardinality({}) = 0
  BY FS_EmptySet
<1>2. NoJob \in JobType
  BY ReplicationBounds DEF NoJob, JobType, Idx, NoData
<1> QED BY <1>1, <1>2, ReplicationBounds DEF JobOK, NoJob, PushShape

\* A job that is there is in order.
LEMMA JobThere ==
    ASSUME TypeInv, NEW j \in Jobs
    PROVE  JobOK(job[j])
  BY DEF TypeInv, TypeOK, JobOK

\* Placement answers with at most MinReplicas holders, none of them excluded.
LEMMA PlacedFew ==
    ASSUME TypeOK, NEW excl, NEW H \in SUBSET Holders, Placed(excl, H)
    PROVE  Cardinality(H) <= MinReplicas /\ H \cap excl = {}
<1>1. CASE H \in Placement(excl)
  <2>1. online \ excl \in SUBSET Holders
    BY DEF TypeOK
  <2>2. Cardinality(online \ excl) \in Nat /\ MinReplicas \in Nat
    BY <2>1, HoldersFinite, ReplicationBounds
  <2> QED BY <1>1, <2>2 DEF Placement, kSubset
<1>2. CASE H = {}
  BY <1>2, FS_EmptySet, ReplicationBounds
<1> QED BY <1>1, <1>2 DEF Placed

\* The smallest of some chunk numbers is one of them.
LEMMA MinIn ==
    ASSUME NEW s \in SUBSET Idx, s # {}
    PROVE  Min(s) \in s
<1>1. s \subseteq Nat
  BY DEF Idx
<1>2. \E m \in s : \A k \in s : m <= k
  BY <1>1, LeastElement
<1> QED BY <1>2 DEF Min

-----------------------------------------------------------------------------
\* A cycle that lists the file keeps the types.
LEMMA PickType ==
    ASSUME TypeInv, NEW j \in Jobs, Pick(j)
    PROVE  TypeInv'
<1> DEFINE r == [NoJob EXCEPT !.pc = "picked"]
<1>1. JobOK(r)
  BY NoJobOK DEF JobOK, JobType, PushShape, NoJob
<1>2. /\ Set(j, r) /\ nloss' = nloss
      /\ UNCHANGED <<fileVars, netVars, online, corrupt, nedits, noff>>
  BY DEF Pick
<1>3. nloss' \in 0..MaxLoss
  BY <1>2 DEF TypeInv, TypeOK
<1> HIDE DEF r
<1> QED BY <1>1, <1>2, <1>3, LocalKeepsType

\* A backup begins with the first chunk of a new encoding.
LEMMA ReplicateStartType ==
    ASSUME TypeInv, NEW j \in Jobs, ReplicateStart(j)
    PROVE  TypeInv'
<1> DEFINE r == [NoJob EXCEPT !.pc = "chunk", !.op = "replicate",
                              !.data = Len(enc) + 1, !.left = 1..n]
<1>1. Len(enc) \in Nat /\ Len(enc) + 1 \in 0..MaxRuns /\ 1..n \subseteq Idx
  BY ReplicationBounds DEF TypeInv, TypeOK, ReplicateStart, Idx
<1>2. JobOK(r)
  BY <1>1, NoJobOK DEF JobOK, JobType, PushShape, NoJob
<1>3. enc' \in Seq([edit : 0..MaxEdits, n : Idx]) /\ Len(enc') <= MaxRuns
  BY <1>1 DEF TypeInv, TypeOK, ReplicateStart
<1>4. Set(j, r) /\ UNCHANGED <<online, nedits, noff, nloss, corrupt, cur, n, status, netVars>>
  BY DEF ReplicateStart
<1> HIDE DEF r
<1> QED BY <1>2, <1>3, <1>4, SetKeepsType DEF TypeInv, TypeOK, netVars

\* Choosing holders keeps the targets within min_replicas.
LEMMA PlaceChunkType ==
    ASSUME TypeInv, NEW j \in Jobs, PlaceChunk(j)
    PROVE  TypeInv'
<1> DEFINE i == Min(job[j].left)
<1>1. PICK H \in SUBSET Holders :
        /\ Placed({}, H)
        /\ Set(j, [job[j] EXCEPT !.pc = "store", !.idx = i, !.left = @ \ {i},
                                 !.todo = H, !.have = 0, !.placed = 0])
  BY DEF PlaceChunk
<1>2. JobOK(job[j])
  BY JobThere
<1>3. i \in Idx
  BY <1>2, MinIn DEF PlaceChunk, JobOK, JobType
<1> HIDE DEF i
<1> DEFINE r == [job[j] EXCEPT !.pc = "store", !.idx = i, !.left = @ \ {i},
                               !.todo = H, !.have = 0, !.placed = 0]
<1>4. Cardinality(H) <= MinReplicas /\ Cardinality(H) \in Nat
  BY <1>1, PlacedFew, HoldersFinite DEF TypeInv
<1>5. JobOK(r)
  <2>1. r \in JobType
    BY <1>2, <1>3 DEF JobOK, JobType
  <2>2. r.pc = "store" /\ r.placed = 0 /\ r.todo = H
    BY <1>2 DEF JobOK, JobType
  <2> HIDE DEF r
  <2> QED BY <1>4, <2>1, <2>2 DEF JobOK, PushShape
<1>6. nloss' \in 0..MaxLoss
  BY <1>1, LossCounted DEF Placed
<1>7. /\ chunks' \subseteq Idx
      /\ UNCHANGED <<fileVars, reg, held, online, corrupt, nedits, noff>>
  BY <1>3 DEF PlaceChunk, TypeInv, TypeOK, i
<1> HIDE DEF r
<1>8. Set(j, r)
  BY <1>1 DEF r
<1> QED BY <1>5, <1>6, <1>7, <1>8, SetKeepsType DEF TypeInv, TypeOK, fileVars

\* Without one of its holders the rest still to push is one less.
LEMMA TodoLess ==
    ASSUME NEW r, JobOK(r), NEW h \in r.todo
    PROVE  /\ Cardinality(r.todo \ {h}) = Cardinality(r.todo) - 1
           /\ Cardinality(r.todo) \in Nat /\ r.todo \subseteq Holders
<1>1. r.todo \subseteq Holders
  BY DEF JobOK, JobType
<1> QED BY <1>1, HoldersFinite, FS_RemoveElement

\* A holder stores a chunk of a known encoding.
LEMMA HolderStoreType ==
    ASSUME TypeInv, NEW j \in Jobs, NEW h \in Holders, HolderStore(j, h)
    PROVE  TypeInv'
<1> DEFINE q == job[j]
<1>1. JobOK(q) /\ h \in q.todo /\ q.pc = "store"
  BY JobThere DEF HolderStore
<1>2. /\ Cardinality(q.todo \ {h}) = Cardinality(q.todo) - 1
      /\ Cardinality(q.todo) \in Nat
  BY <1>1, TodoLess
<1> HIDE DEF q
<1>3. JobOK([q EXCEPT !.pc = "record", !.todo = @ \ {h}, !.src = {h}])
  <2> DEFINE r == [q EXCEPT !.pc = "record", !.todo = @ \ {h}, !.src = {h}]
  <2>1. r \in JobType /\ q.placed \in Nat
    BY <1>1 DEF JobOK, JobType
  <2>2. r.pc = "record" /\ r.placed = q.placed /\ r.todo = q.todo \ {h}
    BY <1>1 DEF JobOK, JobType
  <2> HIDE DEF r
  <2>3. JobOK(r)
    BY <1>1, <1>2, <2>1, <2>2, ReplicationBounds DEF JobOK, PushShape
  <2> QED BY <2>3 DEF r
<1>4. JobOK([q EXCEPT !.todo = @ \ {h}])
  BY <1>1, <1>2, ReplicationBounds DEF JobOK, JobType, PushShape
<1>5. PICK r : JobOK(r) /\ Set(j, r)
  BY <1>3, <1>4 DEF HolderStore, q
<1>6. held' \in [Holders -> [Idx -> 0..MaxRuns]]
  <2>1. q.idx \in Idx /\ q.data \in 0..MaxRuns
    BY <1>1 DEF JobOK, JobType
  <2>2. held' = held \/ held' = [held EXCEPT ![h][q.idx] = q.data]
    BY DEF HolderStore, q
  <2>3. [held[h] EXCEPT ![q.idx] = q.data] \in [Idx -> 0..MaxRuns]
    BY <2>1 DEF TypeInv, TypeOK
  <2> QED BY <2>2, <2>3 DEF TypeInv, TypeOK
<1>7. nloss' \in 0..MaxLoss
  BY LossCounted DEF HolderStore
<1>8. UNCHANGED <<fileVars, chunks, reg, online, corrupt, nedits, noff>>
  BY DEF HolderStore
<1> QED BY <1>5, <1>6, <1>7, <1>8, SetKeepsType DEF TypeInv, TypeOK, fileVars

\* Recording a replica keeps the types.
LEMMA RecordReplicaType ==
    ASSUME TypeInv, NEW j \in Jobs, RecordReplica(j)
    PROVE  TypeInv'
<1> DEFINE q == job[j]
<1>1. JobOK(q) /\ q.pc = "record"
  BY JobThere DEF RecordReplica
<1>2. q.todo \subseteq Holders /\ Cardinality(q.todo) \in Nat
  BY <1>1, HoldersFinite DEF JobOK, JobType
<1> HIDE DEF q
<1>3. JobOK([q EXCEPT !.pc = "store", !.src = {}, !.placed = @ + 1])
  <2> DEFINE r == [q EXCEPT !.pc = "store", !.src = {}, !.placed = @ + 1]
  <2>1. q \in JobType /\ q.placed \in Nat /\ q.placed + 1 \in Nat
    BY <1>1 DEF JobOK, JobType
  <2>2. r \in JobType
    BY <2>1 DEF JobType
  <2>3. r.pc = "store" /\ r.placed = q.placed + 1 /\ r.todo = q.todo
    BY <1>1 DEF JobOK, JobType
  <2> HIDE DEF r
  <2>4. JobOK(r)
    BY <1>1, <1>2, <2>1, <2>2, <2>3, ReplicationBounds DEF JobOK, PushShape
  <2> QED BY <2>4 DEF r
<1>4. JobOK([q EXCEPT !.pc = "store", !.src = {}])
  BY <1>1, <1>2 DEF JobOK, JobType, PushShape
<1>5. PICK r : JobOK(r) /\ Set(j, r)
  BY <1>3, <1>4 DEF RecordReplica, q
<1>6. reg' \in [Idx -> SUBSET Holders]
  <2>1. q.idx \in Idx /\ q.src \subseteq Holders
    BY <1>1 DEF JobOK, JobType
  <2>2. reg' = reg \/ reg' = [reg EXCEPT ![q.idx] = @ \cup q.src]
    BY DEF RecordReplica, q
  <2> QED BY <2>1, <2>2 DEF TypeInv, TypeOK
<1>7. nloss' \in 0..MaxLoss
  BY LossCounted DEF RecordReplica
<1>8. UNCHANGED <<fileVars, chunks, held, online, corrupt, nedits, noff>>
  BY DEF RecordReplica
<1> QED BY <1>5, <1>6, <1>7, <1>8, SetKeepsType DEF TypeInv, TypeOK, fileVars

\* So does going on to the next chunk,
LEMMA ChunkDoneType ==
    ASSUME TypeInv, NEW j \in Jobs, ChunkDone(j)
    PROVE  TypeInv'
<1> DEFINE q == job[j]
           r == [q EXCEPT !.pc = "chunk", !.todo = {},
                          !.ok = @ /\ q.have + q.placed >= MinReplicas]
<1>1. JobOK(q)
  BY JobThere
<1>2. q.placed \in Nat /\ q.placed <= MinReplicas /\ Cardinality({}) = 0
  <2>1. q.todo \subseteq Holders /\ q.placed \in Nat
    BY <1>1 DEF JobOK, JobType
  <2>2. Cardinality(q.todo) \in Nat
    BY <2>1, HoldersFinite
  <2> QED BY <1>1, <2>1, <2>2, FS_EmptySet, ReplicationBounds DEF JobOK
<1>3. JobOK(r)
  <2>1. r \in JobType
    BY <1>1 DEF JobOK, JobType
  <2>2. r.pc = "chunk" /\ r.placed = q.placed /\ r.todo = {}
    BY <1>1 DEF JobOK, JobType
  <2> HIDE DEF q, r
  <2> QED BY <1>2, <2>1, <2>2, ReplicationBounds DEF JobOK, PushShape
<1>4. /\ Set(j, r) /\ nloss' \in 0..MaxLoss
      /\ UNCHANGED <<fileVars, netVars, online, corrupt, nedits, noff>>
  BY DEF ChunkDone, TypeInv, TypeOK
<1> HIDE DEF q, r
<1> QED BY <1>3, <1>4, LocalKeepsType

\* ending a backup,
LEMMA FinishType ==
    ASSUME TypeInv, NEW j \in Jobs, Finish(j)
    PROVE  TypeInv'
<1>1. status' \in {"none", "pending", "replicated"}
  BY DEF Finish
<1> QED BY <1>1, NoJobOK, SetKeepsType DEF Finish, TypeInv, TypeOK, netVars

\* finding the holders that are gone,
LEMMA CheckHealthType ==
    ASSUME TypeInv, NEW j \in Jobs, CheckHealth(j)
    PROVE  TypeInv'
<1> DEFINE q == job[j]
<1>1. JobOK(q) /\ q.pc = "picked"
  BY JobThere DEF CheckHealth
<1>2. JobOK([q EXCEPT !.pc = "due"])
  BY <1>1 DEF JobOK, JobType, PushShape
<1>3. PICK r : JobOK(r) /\ Set(j, r)
  BY <1>2, NoJobOK DEF CheckHealth
<1>4. nloss' \in 0..MaxLoss
  BY LossCounted DEF CheckHealth
<1>5. UNCHANGED <<fileVars, netVars, online, corrupt, nedits, noff>>
  BY DEF CheckHealth
<1> QED BY <1>3, <1>4, <1>5, LocalKeepsType

\* beginning to heal,
LEMMA EnsureStartType ==
    ASSUME TypeInv, NEW j \in Jobs, EnsureStart(j)
    PROVE  TypeInv'
<1> DEFINE r == [NoJob EXCEPT !.pc = "chunk", !.op = "ensure", !.left = chunks]
<1>1. JobOK(r)
  BY NoJobOK DEF JobOK, JobType, PushShape, NoJob, TypeInv, TypeOK
<1>2. /\ Set(j, r) /\ nloss' = nloss
      /\ UNCHANGED <<fileVars, netVars, online, corrupt, nedits, noff>>
  BY DEF EnsureStart
<1>3. nloss' \in 0..MaxLoss
  BY <1>2 DEF TypeInv, TypeOK
<1> HIDE DEF r
<1> QED BY <1>1, <1>2, <1>3, LocalKeepsType

\* taking a chunk to heal,
LEMMA HealChunkType ==
    ASSUME TypeInv, NEW j \in Jobs, NEW i \in Idx, HealChunk(j, i)
    PROVE  TypeInv'
<1> DEFINE q == job[j]
           rest == [q EXCEPT !.left = @ \ {i}]
<1>1. JobOK(q) /\ q.pc = "chunk"
  BY JobThere DEF HealChunk
<1>2. JobOK(rest)
  BY <1>1 DEF JobOK, JobType, PushShape
<1>3. JobOK([rest EXCEPT !.ok = FALSE])
  BY <1>1 DEF JobOK, JobType, PushShape
<1>4. ASSUME NEW O \in {reg[i] \cap online, {}}
      PROVE  JobOK([rest EXCEPT !.pc = "fetch", !.idx = i, !.src = O, !.excl = reg[i],
                                !.have = Cardinality(O), !.placed = 0])
  <2> DEFINE r == [rest EXCEPT !.pc = "fetch", !.idx = i, !.src = O, !.excl = reg[i],
                               !.have = Cardinality(O), !.placed = 0]
  <2>1. O \subseteq Holders /\ reg[i] \subseteq Holders
    BY DEF TypeInv, TypeOK
  <2>2. Cardinality(O) \in Nat
    BY <2>1, HoldersFinite
  <2>3. q \in JobType
    BY <1>1 DEF JobOK
  <2>4. r \in JobType
    BY <2>1, <2>2, <2>3 DEF JobType
  <2>5. r.pc = "fetch" /\ r.placed = 0 /\ r.todo = {}
    BY <1>1 DEF JobOK, JobType, PushShape
  <2> HIDE DEF r, rest
  <2>6. JobOK(r)
    BY <2>4, <2>5, FS_EmptySet, ReplicationBounds DEF JobOK, PushShape
  <2> QED BY <2>6 DEF r
<1>5. PICK O \in {reg[i] \cap online, {}} :
        /\ IF O = reg[i] \cap online THEN NoLoss ELSE Lose
        /\ \/ Set(j, rest)
           \/ Set(j, [rest EXCEPT !.ok = FALSE])
           \/ Set(j, [rest EXCEPT !.pc = "fetch", !.idx = i, !.src = O, !.excl = reg[i],
                                  !.have = Cardinality(O), !.placed = 0])
  BY DEF HealChunk
<1> HIDE DEF rest
<1>6. PICK r : JobOK(r) /\ Set(j, r)
  BY <1>2, <1>3, <1>4, <1>5
<1>7. nloss' \in 0..MaxLoss
  BY <1>5, LossCounted
<1>8. UNCHANGED <<fileVars, netVars, online, corrupt, nedits, noff>>
  BY DEF HealChunk
<1> QED BY <1>6, <1>7, <1>8, LocalKeepsType

\* fetching it from a holder that is left,
LEMMA HealFetchType ==
    ASSUME TypeInv, NEW j \in Jobs, NEW h \in Holders, HealFetch(j, h)
    PROVE  TypeInv'
<1> DEFINE q == job[j]
           d == held[h][q.idx]
<1>1. JobOK(q) /\ q.pc = "fetch"
  BY JobThere DEF HealFetch
<1>2. d \in 0..MaxRuns
  BY <1>1 DEF JobOK, JobType, TypeInv, TypeOK
<1> HIDE DEF d
<1>3. JobOK([q EXCEPT !.pc = "place", !.src = {}, !.data = d])
  BY <1>1, <1>2 DEF JobOK, JobType, PushShape
<1>4. JobOK([q EXCEPT !.pc = "chunk", !.src = {}, !.ok = FALSE])
  BY <1>1 DEF JobOK, JobType, PushShape
<1>5. JobOK([q EXCEPT !.src = @ \ {h}])
  BY <1>1 DEF JobOK, JobType, PushShape
<1>6. PICK r : JobOK(r) /\ Set(j, r)
  BY <1>3, <1>4, <1>5 DEF HealFetch, d
<1>7. nloss' \in 0..MaxLoss
  BY LossCounted DEF HealFetch
<1>8. UNCHANGED <<fileVars, netVars, online, corrupt, nedits, noff>>
  BY DEF HealFetch
<1> QED BY <1>6, <1>7, <1>8, LocalKeepsType

\* choosing holders for the copy,
LEMMA PlaceCopyType ==
    ASSUME TypeInv, NEW j \in Jobs, PlaceCopy(j)
    PROVE  TypeInv'
<1> DEFINE q == job[j]
<1>1. JobOK(q) /\ q.pc = "place"
  BY JobThere DEF PlaceCopy
<1>2. PICK H \in SUBSET Holders :
        Placed(q.excl, H) /\ Set(j, [q EXCEPT !.pc = "store", !.todo = H])
  BY DEF PlaceCopy
<1> DEFINE r == [q EXCEPT !.pc = "store", !.todo = H]
<1>3. Cardinality(H) <= MinReplicas /\ Cardinality(H) \in Nat
  BY <1>2, PlacedFew, HoldersFinite DEF TypeInv
<1>4. JobOK(r)
  <2>1. r \in JobType /\ q.placed = 0
    BY <1>1 DEF JobOK, JobType, PushShape
  <2>2. r.pc = "store" /\ r.placed = q.placed /\ r.todo = H
    BY <1>1 DEF JobOK, JobType
  <2> HIDE DEF q, r
  <2> QED BY <1>3, <2>1, <2>2 DEF JobOK, PushShape
<1>5. nloss' \in 0..MaxLoss
  BY <1>2, LossCounted DEF Placed
<1>6. Set(j, r) /\ UNCHANGED <<fileVars, netVars, online, corrupt, nedits, noff>>
  BY <1>2 DEF PlaceCopy
<1> HIDE DEF r
<1> QED BY <1>4, <1>5, <1>6, LocalKeepsType

\* beginning a restore,
LEMMA RecoverStartType ==
    ASSUME TypeInv, NEW j \in Jobs, RecoverStart(j)
    PROVE  TypeInv'
<1> DEFINE safe == status = "replicated"
           r == [NoJob EXCEPT !.pc = "chunk", !.op = "recover", !.left = chunks,
                              !.safe = safe]
<1>1. safe \in BOOLEAN /\ chunks \subseteq Idx
  BY DEF TypeInv, TypeOK
<1>2. Set(j, r) /\ nloss' = nloss
      /\ UNCHANGED <<fileVars, netVars, online, corrupt, nedits, noff>>
  BY DEF RecoverStart
<1> HIDE DEF safe
<1>3. JobOK(r)
  BY <1>1, NoJobOK DEF JobOK, JobType, PushShape, NoJob
<1>4. nloss' \in 0..MaxLoss
  BY <1>2 DEF TypeInv, TypeOK
<1> HIDE DEF r
<1> QED BY <1>2, <1>3, <1>4, LocalKeepsType

\* fetching one of its chunks,
LEMMA RecoverFetchType ==
    ASSUME TypeInv, NEW j \in Jobs, NEW i \in Idx, RecoverFetch(j, i)
    PROVE  TypeInv'
<1> DEFINE q == job[j]
<1>1. JobOK(q) /\ q.pc = "chunk"
  BY JobThere DEF RecoverFetch
<1>2. ASSUME NEW h \in Holders
      PROVE  JobOK([q EXCEPT !.left = @ \ {i}, !.parts[i] = held[h][i]])
  <2> DEFINE d == held[h][i]
  <2>1. d \in 0..MaxRuns
    BY DEF TypeInv, TypeOK
  <2> HIDE DEF d
  <2>2. JobOK([q EXCEPT !.left = @ \ {i}, !.parts[i] = d])
    BY <1>1, <2>1 DEF JobOK, JobType, PushShape
  <2> QED BY <2>2 DEF d
<1>3. JobOK([q EXCEPT !.left = @ \ {i}, !.ok = FALSE])
  BY <1>1 DEF JobOK, JobType, PushShape
<1>4. reg[i] \subseteq Holders
  BY DEF TypeInv, TypeOK
<1>5. PICK r : JobOK(r) /\ Set(j, r)
  BY <1>2, <1>3, <1>4 DEF RecoverFetch
<1>6. nloss' \in 0..MaxLoss
  BY LossCounted DEF RecoverFetch
<1>7. UNCHANGED <<fileVars, netVars, online, corrupt, nedits, noff>>
  BY DEF RecoverFetch
<1> QED BY <1>5, <1>6, <1>7, LocalKeepsType

\* writing the restored file, whose chunks are of encodings that exist,
LEMMA RecoverFinishType ==
    ASSUME TypeInv, BlobInv, NEW j \in Jobs, RecoverFinish(j)
    PROVE  TypeInv'
<1> DEFINE b == job[j].parts[1]
<1>1. cur' \in 0..MaxEdits /\ n' \in Idx /\ corrupt' \in BOOLEAN
  <2>1. b \in 0..MaxRuns /\ job[j].ok \in BOOLEAN /\ job[j].safe \in BOOLEAN
    <3>1. job[j] \in JobType
      BY DEF TypeInv, TypeOK
    <3>2. job[j].parts \in [Idx -> 0..MaxRuns] /\ job[j].ok \in BOOLEAN
            /\ job[j].safe \in BOOLEAN
      BY <3>1 DEF JobType
    <3>3. 1 \in Idx
      BY ReplicationBounds DEF Idx
    <3> QED BY <3>2, <3>3
  <2>2. b <= Len(enc)
    BY ReplicationBounds DEF BlobInv, Idx
  <2>3. \/ b # NoData /\ cur' = enc[b].edit /\ n' = enc[b].n /\ corrupt' = corrupt
        \/ corrupt' = (corrupt \/ (job[j].ok /\ job[j].safe)) /\ UNCHANGED <<cur, n>>
    BY DEF RecoverFinish
  <2> HIDE DEF b
  <2>4. b # NoData => enc[b] \in [edit : 0..MaxEdits, n : Idx]
    <3>1. b # NoData => b \in 1..Len(enc)
      BY <2>1, <2>2 DEF NoData
    <3> DEFINE S == [edit : 0..MaxEdits, n : Idx]
    <3>2. enc \in Seq(S)
      BY DEF TypeInv, TypeOK
    <3> HIDE DEF S
    <3>3. b # NoData => enc[b] \in S
      BY <3>1, <3>2
    <3> QED BY <3>3 DEF S
  <2> QED BY <2>1, <2>3, <2>4 DEF TypeInv, TypeOK
<1>2. /\ Set(j, NoJob)
      /\ UNCHANGED <<status, enc, netVars, online, nedits, nloss, noff>>
  BY DEF RecoverFinish
<1> QED BY <1>1, <1>2, NoJobOK, SetKeepsType DEF TypeInv, TypeOK, netVars

\* a job that ends early,
LEMMA AbortType ==
    ASSUME TypeInv, NEW j \in Jobs, Abort(j)
    PROVE  TypeInv'
<1>1. nloss' \in 0..MaxLoss
  BY LossCounted DEF Abort
<1> QED BY <1>1, NoJobOK, LocalKeepsType DEF Abort

\* What happens to the file and to the holders between the jobs' steps.
Outside ==
    \/ Edit
    \/ \E h \in Holders : GoOffline(h) \/ GoOnline(h)

\* and the user, the holders and the devices.
LEMMA OutsideType ==
    ASSUME TypeInv, Outside
    PROVE  TypeInv'
<1>1. CASE Edit
  BY <1>1, ReplicationBounds DEF Edit, TypeInv, TypeOK, netVars
<1>2. ASSUME NEW h \in Holders, GoOffline(h) PROVE TypeInv'
  BY <1>2, ReplicationBounds DEF GoOffline, TypeInv, TypeOK, fileVars, netVars
<1>3. ASSUME NEW h \in Holders, GoOnline(h) PROVE TypeInv'
  BY <1>3 DEF GoOnline, TypeInv, TypeOK, fileVars, netVars
<1> QED BY <1>1, <1>2, <1>3 DEF Outside

\* No file is backed up at first.
LEMMA InitType == Init => TypeInv
<1> SUFFICES ASSUME Init PROVE TypeInv
  OBVIOUS
<1>1. \A j \in Jobs : JobOK(job[j])
  BY NoJobOK DEF Init
<1>2. job \in [Jobs -> JobType]
  BY NoJobOK DEF Init, JobOK
<1>3. /\ held \in [Holders -> [Idx -> 0..MaxRuns]] /\ reg \in [Idx -> SUBSET Holders]
      /\ enc \in Seq([edit : 0..MaxEdits, n : Idx]) /\ Len(enc) <= MaxRuns
  BY ReplicationBounds DEF Init, NoData
<1>4. \A j \in Jobs : job[j].placed + Cardinality(job[j].todo) <= MinReplicas
  BY <1>1 DEF JobOK
<1>5. /\ n \in Idx /\ status \in {"none", "pending", "replicated"}
      /\ chunks \subseteq Idx /\ online \subseteq Holders /\ corrupt \in BOOLEAN
  BY DEF Init
<1>6. /\ cur \in 0..MaxEdits
      /\ nedits \in 0..MaxEdits /\ nloss \in 0..MaxLoss /\ noff \in 0..MaxOff
  BY ReplicationBounds DEF Init
<1>7. TypeOK
  BY <1>2, <1>3, <1>4, <1>5, <1>6 DEF TypeOK
<1> QED BY <1>1, <1>7 DEF TypeInv, JobOK

\* Every step keeps the types.
LEMMA TypeStep == TypeInv /\ BlobInv /\ [Next]_vars => TypeInv'
<1> SUFFICES ASSUME TypeInv, BlobInv, [Next]_vars PROVE TypeInv'
  OBVIOUS
<1>1. ASSUME NEW j \in Jobs, JobStep(j) PROVE TypeInv'
  BY <1>1, PickType, ReplicateStartType, PlaceChunkType, HolderStoreType,
     RecordReplicaType, ChunkDoneType, FinishType, CheckHealthType, EnsureStartType,
     HealChunkType, HealFetchType, PlaceCopyType, RecoverStartType, RecoverFetchType,
     RecoverFinishType DEF JobStep
<1>2. CASE Outside
  BY <1>2, OutsideType
<1>3. CASE UNCHANGED vars
  BY <1>3 DEF vars, TypeInv, TypeOK
<1> QED BY <1>1, <1>2, <1>3, AbortType DEF Next, Outside

-----------------------------------------------------------------------------
\* New locals that name no later blob.
BlobsOf(r, m) == r.data <= m /\ \A i \in Idx : r.parts[i] <= m

\* The locals of every job.
LEMMA JobsType == TypeInv => job \in [Jobs -> JobType]
  BY DEF TypeInv, TypeOK

\* A step of one job that names only encodings that exist.
LEMMA OneJobKeepsBlobs ==
    ASSUME TypeInv, BlobInv, NEW j \in Jobs, \A k \in Jobs \ {j} : job'[k] = job[k],
           Len(enc') \in Nat, Len(enc) <= Len(enc'), BlobsOf(job'[j], Len(enc')),
           \A h \in Holders, i \in Idx : held'[h][i] <= Len(enc')
    PROVE  BlobInv'
<1>1. Len(enc) \in Nat
  BY DEF TypeInv, TypeOK
<1>2. ASSUME NEW k \in Jobs \ {j} PROVE BlobsOf(job'[k], Len(enc'))
  <2>1. job[k].data \in Nat /\ \A i \in Idx : job[k].parts[i] \in Nat
    BY JobsType DEF JobType
  <2>2. job'[k] = job[k]
    OBVIOUS
  <2>3. job[k].data <= Len(enc) /\ \A i \in Idx : job[k].parts[i] <= Len(enc)
    BY DEF BlobInv
  <2> QED BY <1>1, <2>1, <2>2, <2>3 DEF BlobsOf
<1> QED BY <1>2 DEF BlobInv, BlobsOf

\* What becomes of the job's locals where the code branches.
LEMMA HealChunkCases ==
    ASSUME TypeInv, NEW j \in Jobs, NEW i \in Idx, HealChunk(j, i)
    PROVE  /\ \A k \in Jobs \ {j} : job'[k] = job[k]
           /\ \/ job'[j] = [job[j] EXCEPT !.left = @ \ {i}]
              \/ job'[j] = [job[j] EXCEPT !.left = @ \ {i}, !.ok = FALSE]
              \/ \E O \in {reg[i] \cap online, {}} :
                   job'[j] = [job[j] EXCEPT !.left = @ \ {i}, !.pc = "fetch", !.idx = i,
                                !.src = O, !.excl = reg[i], !.have = Cardinality(O),
                                !.placed = 0]
<1> DEFINE q == job[j]
           rest == [q EXCEPT !.left = @ \ {i}]
<1>1. PICK O \in {reg[i] \cap online, {}} :
        \/ Set(j, rest)
        \/ Set(j, [rest EXCEPT !.ok = FALSE])
        \/ Set(j, [rest EXCEPT !.pc = "fetch", !.idx = i, !.src = O, !.excl = reg[i],
                               !.have = Cardinality(O), !.placed = 0])
  BY DEF HealChunk
<1>2. q \in JobType /\ job \in [Jobs -> JobType]
  BY JobsType
<1>3. ASSUME NEW r, Set(j, r)
      PROVE  job'[j] = r /\ \A k \in Jobs \ {j} : job'[k] = job[k]
  BY <1>2, <1>3 DEF Set
<1>4. [rest EXCEPT !.ok = FALSE] = [q EXCEPT !.left = @ \ {i}, !.ok = FALSE]
  BY <1>2 DEF JobType
<1>5. [rest EXCEPT !.pc = "fetch", !.idx = i, !.src = O, !.excl = reg[i],
                   !.have = Cardinality(O), !.placed = 0]
        = [q EXCEPT !.left = @ \ {i}, !.pc = "fetch", !.idx = i, !.src = O,
                    !.excl = reg[i], !.have = Cardinality(O), !.placed = 0]
  BY <1>2 DEF JobType
<1> HIDE DEF q, rest
<1>6. \/ job'[j] = rest
      \/ job'[j] = [rest EXCEPT !.ok = FALSE]
      \/ job'[j] = [rest EXCEPT !.pc = "fetch", !.idx = i, !.src = O, !.excl = reg[i],
                                !.have = Cardinality(O), !.placed = 0]
  BY <1>1, <1>3
<1>7. \A k \in Jobs \ {j} : job'[k] = job[k]
  BY <1>1, <1>3
<1> QED BY <1>4, <1>5, <1>6, <1>7 DEF q, rest

\* The three ways a fetch to heal a chunk ends.
LEMMA HealFetchCases ==
    ASSUME TypeInv, NEW j \in Jobs, NEW h \in Holders, HealFetch(j, h)
    PROVE  /\ \A k \in Jobs \ {j} : job'[k] = job[k]
           /\ \/ job'[j] = [job[j] EXCEPT !.pc = "place", !.src = {},
                                          !.data = held[h][job[j].idx]]
              \/ job'[j] = [job[j] EXCEPT !.pc = "chunk", !.src = {}, !.ok = FALSE]
              \/ job'[j] = [job[j] EXCEPT !.src = @ \ {h}]
<1> DEFINE q == job[j]
<1>1. \/ Set(j, [q EXCEPT !.pc = "place", !.src = {}, !.data = held[h][q.idx]])
      \/ Set(j, [q EXCEPT !.pc = "chunk", !.src = {}, !.ok = FALSE])
      \/ Set(j, [q EXCEPT !.src = @ \ {h}])
  BY DEF HealFetch
<1>2. ASSUME NEW r, Set(j, r)
      PROVE  job'[j] = r /\ \A k \in Jobs \ {j} : job'[k] = job[k]
  BY <1>2, JobsType DEF Set
<1> HIDE DEF q
<1>3. \/ job'[j] = [q EXCEPT !.pc = "place", !.src = {}, !.data = held[h][q.idx]]
      \/ job'[j] = [q EXCEPT !.pc = "chunk", !.src = {}, !.ok = FALSE]
      \/ job'[j] = [q EXCEPT !.src = @ \ {h}]
  BY <1>1, <1>2
<1>4. \A k \in Jobs \ {j} : job'[k] = job[k]
  BY <1>1, <1>2
<1> QED BY <1>3, <1>4 DEF q

\* The two ways a fetch to restore a chunk ends.
LEMMA RecoverFetchCases ==
    ASSUME TypeInv, NEW j \in Jobs, NEW i \in Idx, RecoverFetch(j, i)
    PROVE  /\ \A k \in Jobs \ {j} : job'[k] = job[k]
           /\ \/ \E h \in reg[i] : /\ held[h][i] # NoData
                                   /\ job'[j] = [job[j] EXCEPT !.left = @ \ {i},
                                                               !.parts[i] = held[h][i]]
              \/ job'[j] = [job[j] EXCEPT !.left = @ \ {i}, !.ok = FALSE]
<1> DEFINE q == job[j]
<1>1. ASSUME NEW r, Set(j, r)
      PROVE  job'[j] = r /\ \A k \in Jobs \ {j} : job'[k] = job[k]
  BY <1>1, JobsType DEF Set
<1>2. CASE Set(j, [q EXCEPT !.left = @ \ {i}, !.ok = FALSE])
  <2> HIDE DEF q
  <2>1. job'[j] = [q EXCEPT !.left = @ \ {i}, !.ok = FALSE]
    BY <1>1, <1>2
  <2> QED BY <1>1, <1>2, <2>1 DEF q
<1>3. ASSUME NEW h \in reg[i], held[h][i] # NoData,
             Set(j, [q EXCEPT !.left = @ \ {i}, !.parts[i] = held[h][i]])
      PROVE  /\ \A k \in Jobs \ {j} : job'[k] = job[k]
             /\ job'[j] = [q EXCEPT !.left = @ \ {i}, !.parts[i] = held[h][i]]
  <2> HIDE DEF q
  <2> QED BY <1>1, <1>3
<1> HIDE DEF q
<1>4. \/ \E h \in reg[i] : /\ held[h][i] # NoData
                           /\ Set(j, [q EXCEPT !.left = @ \ {i}, !.parts[i] = held[h][i]])
      \/ Set(j, [q EXCEPT !.left = @ \ {i}, !.ok = FALSE])
  BY DEF RecoverFetch, q
<1> QED BY <1>2, <1>3, <1>4 DEF q

\* Most steps name the blobs that the job has named before, or none.
KeepsBlobs(j) ==
    /\ \A k \in Jobs \ {j} : job'[k] = job[k]
    /\ \/ job'[j].data = job[j].data /\ job'[j].parts = job[j].parts
       \/ job'[j].data = NoData /\ job'[j].parts = [i \in Idx |-> NoData]

\* A job that takes up no new chunk data names no new encoding.
LEMMA KeepsBlobsKeeps ==
    ASSUME TypeInv, BlobInv, NEW j \in Jobs, KeepsBlobs(j), UNCHANGED <<enc, held>>
    PROVE  BlobInv'
<1>1. Len(enc) \in Nat
  BY DEF TypeInv, TypeOK
<1>2. BlobsOf(job'[j], Len(enc))
  BY <1>1 DEF KeepsBlobs, BlobsOf, BlobInv, NoData
<1> QED BY <1>1, <1>2, OneJobKeepsBlobs DEF KeepsBlobs, BlobInv

\* The steps of which this is true.
LEMMA QuietStepsKeepBlobs ==
    ASSUME TypeInv, BlobInv, NEW j \in Jobs,
           \/ Pick(j) \/ PlaceChunk(j) \/ RecordReplica(j) \/ ChunkDone(j) \/ Finish(j)
           \/ CheckHealth(j) \/ EnsureStart(j) \/ (\E i \in Idx : HealChunk(j, i))
           \/ PlaceCopy(j) \/ RecoverStart(j) \/ RecoverFinish(j) \/ Abort(j)
    PROVE  BlobInv'
<1> USE JobsType
<1>1. CASE Pick(j)
  <2>1. KeepsBlobs(j)
    BY <1>1 DEF Pick, KeepsBlobs, Set, JobType, NoJob
  <2> QED BY <1>1, <2>1, KeepsBlobsKeeps DEF Pick, fileVars, netVars
<1>2. CASE PlaceChunk(j)
  <2>1. KeepsBlobs(j)
    BY ZenonT(40), <1>2 DEF PlaceChunk, KeepsBlobs, Set, JobType, NoJob
  <2> QED BY <1>2, <2>1, KeepsBlobsKeeps DEF PlaceChunk, fileVars
<1>3. CASE RecordReplica(j)
  <2>1. KeepsBlobs(j)
    <3>1. job[j] \in JobType /\ job \in [Jobs -> JobType]
      BY DEF TypeInv, TypeOK
    <3>2. CASE Set(j, [job[j] EXCEPT !.pc = "store", !.src = {}, !.placed = @ + 1])
      BY <3>1, <3>2 DEF KeepsBlobs, Set, JobType
    <3>3. CASE Set(j, [job[j] EXCEPT !.pc = "store", !.src = {}])
      BY <3>1, <3>3 DEF KeepsBlobs, Set, JobType
    <3> QED BY <1>3, <3>2, <3>3 DEF RecordReplica
  <2> QED BY <1>3, <2>1, KeepsBlobsKeeps DEF RecordReplica, fileVars
<1>4. CASE ChunkDone(j)
  <2>1. KeepsBlobs(j)
    BY <1>4 DEF ChunkDone, KeepsBlobs, Set, JobType, NoJob
  <2> QED BY <1>4, <2>1, KeepsBlobsKeeps DEF ChunkDone, fileVars, netVars
<1>5. CASE Finish(j)
  <2>1. KeepsBlobs(j)
    BY <1>5 DEF Finish, KeepsBlobs, Set, JobType, NoJob
  <2> QED BY <1>5, <2>1, KeepsBlobsKeeps DEF Finish, netVars
<1>6. CASE CheckHealth(j)
  <2>1. KeepsBlobs(j)
    BY <1>6 DEF CheckHealth, KeepsBlobs, Set, JobType, NoJob
  <2> QED BY <1>6, <2>1, KeepsBlobsKeeps DEF CheckHealth, fileVars, netVars
<1>7. CASE EnsureStart(j)
  <2>1. KeepsBlobs(j)
    BY <1>7 DEF EnsureStart, KeepsBlobs, Set, JobType, NoJob
  <2> QED BY <1>7, <2>1, KeepsBlobsKeeps DEF EnsureStart, fileVars, netVars
<1>8. CASE \E i \in Idx : HealChunk(j, i)
  <2>1. KeepsBlobs(j)
    <3>1. PICK i \in Idx : HealChunk(j, i)
      BY <1>8
    <3>2. job[j] \in JobType
      OBVIOUS
    <3>3. job'[j].data = job[j].data /\ job'[j].parts = job[j].parts
      <4>1. \/ job'[j] = [job[j] EXCEPT !.left = @ \ {i}]
            \/ job'[j] = [job[j] EXCEPT !.left = @ \ {i}, !.ok = FALSE]
            \/ \E O : job'[j] = [job[j] EXCEPT !.left = @ \ {i}, !.pc = "fetch",
                                   !.idx = i, !.src = O, !.excl = reg[i],
                                   !.have = Cardinality(O), !.placed = 0]
        BY <3>1, HealChunkCases
      <4> QED BY <3>2, <4>1 DEF JobType
    <3>4. \A k \in Jobs \ {j} : job'[k] = job[k]
      BY <3>1, HealChunkCases
    <3> QED BY <3>3, <3>4 DEF KeepsBlobs
  <2> QED BY <1>8, <2>1, KeepsBlobsKeeps DEF HealChunk, fileVars, netVars
<1>9. CASE PlaceCopy(j)
  <2>1. KeepsBlobs(j)
    BY <1>9 DEF PlaceCopy, KeepsBlobs, Set, JobType, NoJob
  <2> QED BY <1>9, <2>1, KeepsBlobsKeeps DEF PlaceCopy, fileVars, netVars
<1>10. CASE RecoverStart(j)
  <2>1. KeepsBlobs(j)
    BY <1>10 DEF RecoverStart, KeepsBlobs, Set, JobType, NoJob
  <2> QED BY <1>10, <2>1, KeepsBlobsKeeps DEF RecoverStart, fileVars, netVars
<1>11. CASE RecoverFinish(j)
  <2>1. KeepsBlobs(j)
    BY <1>11 DEF RecoverFinish, KeepsBlobs, Set, JobType, NoJob
  <2> QED BY <1>11, <2>1, KeepsBlobsKeeps DEF RecoverFinish, netVars
<1>12. CASE Abort(j)
  <2>1. KeepsBlobs(j)
    BY <1>12 DEF Abort, KeepsBlobs, Set, JobType, NoJob
  <2> QED BY <1>12, <2>1, KeepsBlobsKeeps DEF Abort, fileVars, netVars
<1> QED BY <1>1, <1>2, <1>3, <1>4, <1>5, <1>6, <1>7, <1>8, <1>9, <1>10, <1>11, <1>12

\* A new backup names the encoding it makes.
LEMMA ReplicateStartKeepsBlobs ==
    ASSUME TypeInv, BlobInv, NEW j \in Jobs, ReplicateStart(j)
    PROVE  BlobInv'
<1>1. Len(enc) \in Nat /\ Len(enc') = Len(enc) + 1 /\ held' = held
  BY DEF ReplicateStart, TypeInv, TypeOK, netVars
<1>2. /\ \A k \in Jobs \ {j} : job'[k] = job[k]
      /\ job'[j].data = Len(enc) + 1 /\ job'[j].parts = [i \in Idx |-> NoData]
  BY JobsType DEF ReplicateStart, Set, NoJob
<1>3. \A h \in Holders, i \in Idx : held'[h][i] <= Len(enc) + 1
  BY <1>1 DEF BlobInv, TypeInv, TypeOK
<1>4. BlobsOf(job'[j], Len(enc) + 1)
  BY <1>1, <1>2 DEF NoData, BlobsOf
<1> QED BY <1>1, <1>2, <1>3, <1>4, OneJobKeepsBlobs

\* A holder stores what the job sends.
LEMMA HolderStoreKeepsBlobs ==
    ASSUME TypeInv, BlobInv, NEW j \in Jobs, NEW h \in Holders, HolderStore(j, h)
    PROVE  BlobInv'
<1>1. Len(enc) \in Nat /\ enc' = enc
  BY DEF HolderStore, TypeInv, TypeOK, fileVars
<1>2. KeepsBlobs(j)
  BY JobsType DEF HolderStore, KeepsBlobs, Set, JobType
<1>3. BlobsOf(job'[j], Len(enc))
  BY <1>1, <1>2 DEF KeepsBlobs, BlobsOf, BlobInv, NoData
<1>4. \A g \in Holders, i \in Idx : held'[g][i] <= Len(enc)
  <2>1. held' = held \/ held' = [held EXCEPT ![h][job[j].idx] = job[j].data]
    BY DEF HolderStore
  <2> QED BY ZenonT(40), <2>1 DEF BlobInv, TypeInv, TypeOK
<1> QED BY <1>1, <1>2, <1>3, <1>4, OneJobKeepsBlobs DEF KeepsBlobs

\* A fetch takes what a holder has.
LEMMA FetchKeepsBlobs ==
    ASSUME TypeInv, BlobInv, NEW j \in Jobs,
           \/ \E h \in Holders : HealFetch(j, h)
           \/ \E i \in Idx : RecoverFetch(j, i)
    PROVE  BlobInv'
<1>1. enc' = enc /\ held' = held
  BY DEF HealFetch, RecoverFetch, fileVars, netVars
<1>2. job[j] \in JobType /\ BlobsOf(job[j], Len(enc)) /\ Len(enc) \in Nat
  BY JobsType DEF BlobInv, BlobsOf, TypeInv, TypeOK
<1>3. \A k \in Jobs \ {j} : job'[k] = job[k]
  BY JobsType DEF HealFetch, RecoverFetch, Set
<1>4. BlobsOf(job'[j], Len(enc))
  <2>1. ASSUME NEW h \in Holders, HealFetch(j, h)
        PROVE  BlobsOf(job'[j], Len(enc))
    <3>1. job[j].idx \in Idx
      BY <1>2 DEF JobType
    <3>2. /\ job'[j].parts = job[j].parts
          /\ job'[j].data = job[j].data \/ job'[j].data = held[h][job[j].idx]
      <4>1. \/ job'[j] = [job[j] EXCEPT !.pc = "place", !.src = {},
                                        !.data = held[h][job[j].idx]]
            \/ job'[j] = [job[j] EXCEPT !.pc = "chunk", !.src = {}, !.ok = FALSE]
            \/ job'[j] = [job[j] EXCEPT !.src = @ \ {h}]
        BY <2>1, HealFetchCases
      <4> QED BY <1>2, <4>1 DEF JobType
    <3> QED BY <1>2, <3>1, <3>2 DEF BlobsOf, BlobInv
  <2>2. ASSUME NEW i \in Idx, RecoverFetch(j, i)
        PROVE  BlobsOf(job'[j], Len(enc))
    <3>1. reg[i] \subseteq Holders
      BY DEF TypeInv, TypeOK
    <3>2. /\ job'[j].data = job[j].data
          /\ \/ job'[j].parts = job[j].parts
             \/ \E h \in Holders : job'[j].parts = [job[j].parts EXCEPT ![i] = held[h][i]]
      <4>1. \/ \E h \in reg[i] : job'[j] = [job[j] EXCEPT !.left = @ \ {i},
                                                         !.parts[i] = held[h][i]]
            \/ job'[j] = [job[j] EXCEPT !.left = @ \ {i}, !.ok = FALSE]
        BY ZenonT(40), <2>2, RecoverFetchCases
      <4> QED BY <1>2, <3>1, <4>1 DEF JobType
    <3>3. job[j].parts \in [Idx -> 0..MaxRuns]
      BY <1>2 DEF JobType
    <3> QED BY <1>2, <3>2, <3>3 DEF BlobsOf, BlobInv
  <2> QED BY <2>1, <2>2
<1> QED BY <1>1, <1>2, <1>3, <1>4, OneJobKeepsBlobs DEF BlobInv

\* No step names an encoding that was never made.
LEMMA BlobStep == TypeInv /\ BlobInv /\ [Next]_vars => BlobInv'
<1> SUFFICES ASSUME TypeInv, BlobInv, [Next]_vars PROVE BlobInv'
  OBVIOUS
<1>1. ASSUME NEW j \in Jobs, JobStep(j) \/ Abort(j) PROVE BlobInv'
  BY <1>1, QuietStepsKeepBlobs, ReplicateStartKeepsBlobs, HolderStoreKeepsBlobs,
     FetchKeepsBlobs DEF JobStep
<1>2. CASE Outside
  BY <1>2 DEF Outside, Edit, GoOffline, GoOnline, BlobInv, netVars, fileVars
<1>3. CASE UNCHANGED vars
  BY <1>3 DEF vars, BlobInv
<1> QED BY <1>1, <1>2, <1>3 DEF Next, Outside

\* At first there is none to name.
LEMMA InitBlobs == Init => BlobInv
  BY DEF Init, BlobInv, NoJob, NoData

\* The file's record, the chunk map and the locals of every job keep their
\* types; no chunk is pushed to more than min_replicas holders
\* (replication_manager.py).
THEOREM ReplicationTypeCorrect == Spec => []TypeOK
<1>1. TypeInv => TypeOK
  BY DEF TypeInv
<1> QED BY InitType, TypeStep, InitBlobs, BlobStep, <1>1, PTL DEF Spec

-----------------------------------------------------------------------------
\* Which job does what, as long as commands only restore.
LEMMA Roles ==
    ASSUME OnlyRestores, JobInv, NEW j \in Jobs
    PROVE  /\ Called(j, "replicate") => j = "backup"
           /\ Called(j, "ensure") => j = "heal"
           /\ Called(j, "recover") => j = "cli"
           /\ job[j].op = "replicate" => j = "backup"
           /\ job[j].op = "ensure" => j = "heal"
           /\ job[j].op = "recover" => j = "cli"
           /\ job[j].pc \in {"store", "record"} => j \in {"backup", "heal"}
           /\ job[j].pc \in {"fetch", "place"} => j = "heal"
<1>1. /\ Called(j, "replicate") => j = "backup"
      /\ Called(j, "ensure") => j = "heal"
      /\ Called(j, "recover") => j = "cli"
  BY DEF OnlyRestores, Called
<1>2. j = "backup" \/ j = "heal" \/ j = "cli"
  BY DEF Jobs
<1>3. CASE j = "backup"
  BY <1>1, <1>3 DEF JobInv, BackupJob
<1>4. CASE j = "heal"
  BY <1>1, <1>4 DEF JobInv, HealJob
<1>5. CASE j = "cli"
  BY <1>1, <1>5 DEF JobInv, CliJob
<1> QED BY <1>2, <1>3, <1>4, <1>5

\* A step of one job that touches neither the mark nor what holders have.
LEMMA LocalKeeps ==
    ASSUME ReplInv, NEW j \in Jobs, \A k \in Jobs \ {j} : job'[k] = job[k],
           UNCHANGED <<status, enc, reg, held>>,
           j = "backup" => BackupJob(job'[j]),
           j = "heal" => HealJob(job'[j]),
           j = "cli" => CliJob(job'[j])
    PROVE  JobInv' /\ ReplicatedHasBackup'
<1>1. ReplicatedHasBackup'
  BY DEF ReplInv, ReplicatedHasBackup, Backup
<1>2. BackupJob(job'["backup"]) /\ HealJob(job'["heal"]) /\ CliJob(job'["cli"])
  BY DEF ReplInv, JobInv, Jobs
<1>3. BackupJob(job["backup"])'
  BY <1>2 DEF BackupJob, Copies, CopiesIn
<1>4. HealJob(job["heal"])'
  BY <1>2 DEF HealJob
<1>5. CliJob(job["cli"])'
  BY <1>2 DEF CliJob
<1> QED BY <1>1, <1>3, <1>4, <1>5 DEF JobInv

\* A job that has ended is all right.
LEMMA NoJobKeeps == BackupJob(NoJob) /\ HealJob(NoJob) /\ CliJob(NoJob)
  BY DEF NoJob, BackupJob, HealJob, CliJob

\* Copies(i, b) are holders, and finitely many.
LEMMA CopiesFinite ==
    ASSUME TypeInv, NEW i \in Idx, NEW b
    PROVE  Copies(i, b) \subseteq Holders /\ IsFiniteSet(Copies(i, b))
<1>1. Copies(i, b) \subseteq Holders
  BY DEF Copies, CopiesIn, TypeInv, TypeOK
<1> QED BY <1>1, HoldersFinite

\* A blob's record has a number of chunks.
LEMMA BlobShape ==
    ASSUME TypeInv, NEW b \in 1..Len(enc)
    PROVE  enc[b].n \in Idx
<1> DEFINE S == [edit : 0..MaxEdits, n : Idx]
<1>1. enc \in Seq(S)
  BY DEF TypeInv, TypeOK
<1> HIDE DEF S
<1>2. enc[b] \in S
  BY <1>1
<1> QED BY <1>2 DEF S

\* More copies only make the backup better.
LEMMA BackupGrows ==
    ASSUME TypeInv, TypeInv', ReplicatedHasBackup, UNCHANGED enc,
           \A i \in Idx : \A b \in Nat : Copies(i, b) \subseteq Copies(i, b)',
           status = "replicated"
    PROVE  ReplicatedHasBackup'
<1>1. PICK b \in 1..Len(enc) : Backup(b)
  BY DEF ReplicatedHasBackup
<1>2. b \in Nat /\ enc[b].n \in Idx
  BY BlobShape
<1>3. ASSUME NEW i \in 1..enc[b].n
      PROVE  Cardinality(Copies(i, b)') >= MinReplicas
  <2>1. i \in Idx
    BY <1>2, ReplicationBounds DEF Idx
  <2>2. IsFiniteSet(Copies(i, b)') /\ Copies(i, b) \subseteq Copies(i, b)'
    <3>1. reg'[i] \subseteq Holders
      BY <2>1 DEF TypeInv, TypeOK
    <3>2. Copies(i, b)' \subseteq Holders
      BY <3>1 DEF Copies, CopiesIn
    <3> QED BY <1>2, <2>1, <3>2, HoldersFinite
  <2>3. /\ Cardinality(Copies(i, b)) <= Cardinality(Copies(i, b)')
        /\ Cardinality(Copies(i, b)) \in Nat /\ Cardinality(Copies(i, b)') \in Nat
    <3>1. IsFiniteSet(Copies(i, b))
      BY <2>1, CopiesFinite
    <3> QED BY <2>2, <3>1, FS_Subset, FS_CardinalityType
  <2>4. Cardinality(Copies(i, b)) >= MinReplicas
    BY <1>1 DEF Backup, Copies, CopiesIn
  <2> QED BY <2>3, <2>4, ReplicationBounds
<1>4. Backup(b)'
  BY <1>3 DEF Backup, Copies, CopiesIn
<1> QED BY <1>4 DEF ReplicatedHasBackup

-----------------------------------------------------------------------------
\* Listing the file leaves what is recorded as it is.
LEMMA PickKeeps ==
    ASSUME ReplInv, OnlyRestores, NEW j \in Jobs, Pick(j)
    PROVE  JobInv' /\ ReplicatedHasBackup'
<1>1. /\ \A k \in Jobs \ {j} : job'[k] = job[k]
      /\ job'[j] = [NoJob EXCEPT !.pc = "picked"]
  BY JobsType DEF ReplInv, Pick, Set
<1>2. UNCHANGED <<status, enc, reg, held>>
  BY DEF Pick, fileVars, netVars
<1>3. job'[j].pc = "picked" /\ job'[j].op = "none"
  BY <1>1 DEF NoJob
<1>4. /\ j = "backup" => status # "replicated"
      /\ j = "heal" => status = "replicated"
      /\ j # "cli"
  BY DEF Pick, ListedFor
<1> QED BY <1>1, <1>2, <1>3, <1>4, LocalKeeps DEF BackupJob, HealJob

\* Beginning a backup.
LEMMA ReplicateStartKeeps ==
    ASSUME ReplInv, OnlyRestores, NEW j \in Jobs, ReplicateStart(j)
    PROVE  JobInv' /\ ReplicatedHasBackup'
<1>1. j = "backup" /\ job["backup"].pc = "picked" /\ status # "replicated" /\ j \in Jobs
  BY Roles DEF ReplInv, JobInv, BackupJob, ReplicateStart, Called, OnlyRestores
<1>2. /\ \A k \in Jobs \ {j} : job'[k] = job[k]
      /\ job'[j] = [NoJob EXCEPT !.pc = "chunk", !.op = "replicate",
                                 !.data = Len(enc) + 1, !.left = 1..n]
  BY JobsType DEF ReplInv, ReplicateStart, Set
<1>3. status' = status /\ reg' = reg /\ held' = held
      /\ enc' = Append(enc, [edit |-> cur, n |-> n])
  BY DEF ReplicateStart, netVars
<1>4. /\ job'[j].pc = "chunk" /\ job'[j].op = "replicate" /\ job'[j].have = 0
      /\ job'[j].data = Len(enc) + 1 /\ job'[j].left = 1..n /\ job'[j].src = {}
  BY <1>2 DEF NoJob
<1>5. Len(enc') = Len(enc) + 1 /\ Len(enc) \in Nat /\ enc'[Len(enc) + 1].n = n
  BY <1>3 DEF ReplInv, TypeInv, TypeOK
<1>6. BackupJob(job["backup"])'
  BY <1>1, <1>3, <1>4, <1>5 DEF BackupJob
<1>7. HealJob(job["heal"])' /\ CliJob(job["cli"])'
  BY <1>1, <1>2, <1>3 DEF HealJob, CliJob, ReplInv, JobInv, Jobs
<1> QED BY <1>1, <1>3, <1>6, <1>7 DEF JobInv, ReplicatedHasBackup

\* Choosing the holders of a chunk.
LEMMA PlaceChunkKeeps ==
    ASSUME ReplInv, OnlyRestores, NEW j \in Jobs, PlaceChunk(j)
    PROVE  JobInv' /\ ReplicatedHasBackup'
<1> DEFINE q == job[j]
           i == Min(q.left)
<1>1. j = "backup" /\ BackupJob(q) /\ q.pc = "chunk" /\ q.op = "replicate"
  BY Roles DEF ReplInv, JobInv, PlaceChunk
<1>2. /\ q \in JobType /\ i \in q.left
  BY JobsType, MinIn DEF ReplInv, PlaceChunk, JobType
<1>3. PICK H \in SUBSET Holders :
        Set(j, [q EXCEPT !.pc = "store", !.idx = i, !.left = @ \ {i},
                         !.todo = H, !.have = 0, !.placed = 0])
  BY DEF PlaceChunk
<1> HIDE DEF i
<1>4. /\ \A k \in Jobs \ {j} : job'[k] = job[k]
      /\ job'[j] = [q EXCEPT !.pc = "store", !.idx = i, !.left = @ \ {i},
                             !.todo = H, !.have = 0, !.placed = 0]
  BY <1>3, JobsType DEF ReplInv, Set
<1>5. /\ job'[j].pc = "store" /\ job'[j].op = "replicate" /\ job'[j].have = 0
      /\ job'[j].placed = 0 /\ job'[j].idx = i /\ job'[j].left = q.left \ {i}
      /\ job'[j].data = q.data /\ job'[j].ok = q.ok /\ job'[j].src = q.src
      /\ job'[j].todo = H
  BY <1>1, <1>2, <1>4 DEF JobType
<1>6. UNCHANGED <<status, enc, reg, held>>
  BY DEF PlaceChunk, fileVars
<1> HIDE DEF q
<1>7. 0 <= Cardinality(Copies(i, q.data) \ (H \cup q.src))
  <2>1. Copies(i, q.data) \ (H \cup q.src) \in SUBSET Holders
    BY <1>2, CopiesFinite DEF ReplInv, JobType
  <2> QED BY <2>1, HoldersFinite
<1>8. BackupJob(job'[j])
  BY <1>1, <1>2, <1>5, <1>7 DEF BackupJob
<1> QED BY <1>1, <1>4, <1>6, <1>8, LocalKeeps

\* Going on to the next chunk: enough copies of this one are recorded.
LEMMA ChunkDoneKeeps ==
    ASSUME ReplInv, OnlyRestores, NEW j \in Jobs, ChunkDone(j)
    PROVE  JobInv' /\ ReplicatedHasBackup'
<1> DEFINE q == job[j]
<1>1. j \in {"backup", "heal"} /\ q.pc = "store" /\ q \in JobType
  BY Roles, JobsType DEF ReplInv, ChunkDone
<1>2. /\ \A k \in Jobs \ {j} : job'[k] = job[k]
      /\ job'[j] = [q EXCEPT !.pc = "chunk", !.todo = {},
                             !.ok = @ /\ q.have + q.placed >= MinReplicas]
  BY JobsType DEF ReplInv, ChunkDone, Set
<1>3. /\ job'[j].pc = "chunk" /\ job'[j].op = q.op /\ job'[j].have = q.have
      /\ job'[j].left = q.left /\ job'[j].data = q.data /\ job'[j].src = q.src
      /\ job'[j].ok = (q.ok /\ q.have + q.placed >= MinReplicas)
  BY <1>1, <1>2 DEF JobType
<1>4. UNCHANGED <<status, enc, reg, held>>
  BY DEF ChunkDone, fileVars, netVars
<1>5. CASE j = "backup"
  <2>1. BackupJob(q) /\ q.op = "replicate" /\ q.have = 0 /\ q.todo = {} /\ q.src = {}
    BY <1>1, <1>5 DEF ReplInv, JobInv, BackupJob, ChunkDone, Enough
  <2> HIDE DEF q
  <2>2. job'[j].ok => q.ok /\ Cardinality(Copies(q.idx, q.data)) >= MinReplicas
    <3>1. Cardinality(Copies(q.idx, q.data)) \in Nat
      BY <1>1, CopiesFinite, FS_CardinalityType DEF ReplInv, JobType
    <3>2. Copies(q.idx, q.data) \ (q.todo \cup q.src) = Copies(q.idx, q.data)
      BY <2>1
    <3>3. q.placed <= Cardinality(Copies(q.idx, q.data)) /\ q.placed \in Nat
      BY <1>1, <2>1, <3>2 DEF BackupJob, JobType
    <3>4. job'[j].ok => q.ok /\ q.have + q.placed >= MinReplicas
      BY <1>3, Zenon
    <3>5. q.have + q.placed >= MinReplicas => Cardinality(Copies(q.idx, q.data)) >= MinReplicas
      BY <2>1, <3>1, <3>3, ReplicationBounds
    <3> QED BY <3>4, <3>5
  <2>3. BackupJob(job'[j])
    BY <1>1, <1>3, <2>1, <2>2 DEF BackupJob
  <2> QED BY <1>2, <1>4, <1>5, <2>3, LocalKeeps
<1>6. CASE j = "heal"
  <2>1. HealJob(q)
    BY <1>6 DEF ReplInv, JobInv
  <2> HIDE DEF q
  <2>2. HealJob(job'[j])
    BY <1>1, <1>3, <2>1 DEF HealJob
  <2> QED BY <1>2, <1>4, <1>6, <2>2, LocalKeeps
<1> QED BY <1>1, <1>5, <1>6

\* A file is marked replicated when every chunk is done.
LEMMA FinishKeeps ==
    ASSUME ReplInv, OnlyRestores, NEW j \in Jobs, Finish(j)
    PROVE  JobInv' /\ ReplicatedHasBackup'
<1> DEFINE q == job[j]
<1>1. j \in {"backup", "heal"} /\ q.pc = "chunk" /\ q.left = {}
  BY Roles DEF ReplInv, Finish
<1>2. \A k \in Jobs : job'[k] = IF k = j THEN NoJob ELSE job[k]
  BY JobsType DEF ReplInv, Finish, Set
<1>3. enc' = enc /\ reg' = reg /\ held' = held
      /\ status' = IF q.ok THEN "replicated" ELSE "pending"
  BY DEF Finish, netVars
<1>4. {"backup", "heal", "cli"} = Jobs
  BY DEF Jobs
<1>5. /\ job'["cli"] = job["cli"]
      /\ IF j = "backup" THEN job'["backup"] = NoJob /\ job'["heal"] = job["heal"]
                         ELSE job'["heal"] = NoJob /\ job'["backup"] = job["backup"]
  BY <1>1, <1>2, <1>4
<1>6. NoJob.pc = "idle" /\ NoJob.op = "none"
  BY DEF NoJob
<1>7. JobInv'
  <2>1. /\ job'["backup"].pc = "idle" /\ job'["backup"].op = "none"
        /\ job'["heal"].pc = "idle" /\ job'["heal"].op = "none"
    BY <1>1, <1>5, <1>6 DEF ReplInv, JobInv, BackupJob, HealJob
  <2> QED BY <1>5, <2>1 DEF ReplInv, JobInv, BackupJob, HealJob, CliJob
<1>8. ReplicatedHasBackup'
  <2>1. CASE j = "backup" /\ q.ok
    <3>1. q.op = "replicate" /\ BackupJob(q)
      BY <1>1, <2>1 DEF ReplInv, JobInv, BackupJob
    <3> HIDE DEF q
    <3>2. Backup(q.data) /\ q.data \in 1..Len(enc)
      BY <1>1, <2>1, <3>1 DEF BackupJob, Backup, Copies, CopiesIn
    <3>3. PICK b \in 1..Len(enc) : Backup(b)
      BY <3>2
    <3> QED BY <1>3, <3>3 DEF ReplicatedHasBackup, Backup
  <2>2. CASE j = "heal"
    BY <1>1, <1>3, <2>2 DEF ReplInv, JobInv, HealJob, ReplicatedHasBackup, Backup
  <2>3. CASE ~q.ok
    BY <1>3, <2>3 DEF ReplicatedHasBackup
  <2> QED BY <1>1, <2>1, <2>2, <2>3
<1> QED BY <1>7, <1>8

\* Healing does not touch the chunks of a backup until it stores one.
LEMMA HealStepsKeep ==
    ASSUME ReplInv, OnlyRestores, NEW j \in Jobs,
           \/ CheckHealth(j) \/ EnsureStart(j) \/ (\E i \in Idx : HealChunk(j, i))
           \/ (\E h \in Holders : HealFetch(j, h)) \/ PlaceCopy(j)
    PROVE  JobInv' /\ ReplicatedHasBackup'
<1> DEFINE q == job[j]
<1>0. q \in JobType /\ TypeInv /\ JobInv /\ job \in [Jobs -> JobType]
  BY JobsType DEF ReplInv
<1>1. UNCHANGED <<status, enc, reg, held>>
  BY DEF CheckHealth, EnsureStart, HealChunk, HealFetch, PlaceCopy, fileVars, netVars
<1>2. CASE CheckHealth(j)
  <2>1. j = "heal" /\ q.pc = "picked" /\ HealJob(q)
    BY <1>0, <1>2 DEF CheckHealth, JobInv
  <2>2. /\ \A k \in Jobs \ {j} : job'[k] = job[k]
        /\ job'[j] = NoJob \/ job'[j] = [q EXCEPT !.pc = "due"]
    BY <1>0, <1>2 DEF CheckHealth, Set
  <2> HIDE DEF q
  <2>3. HealJob(job'[j])
    BY <1>0, <2>1, <2>2, NoJobKeeps DEF HealJob, JobType
  <2> QED BY <1>1, <2>1, <2>2, <2>3, LocalKeeps
<1>3. CASE EnsureStart(j)
  <2>1. j = "heal" /\ q.pc = "due" /\ HealJob(q)
    BY <1>0, <1>3, Roles DEF EnsureStart, JobInv, Called
  <2>2. /\ \A k \in Jobs \ {j} : job'[k] = job[k]
        /\ job'[j] = [NoJob EXCEPT !.pc = "chunk", !.op = "ensure", !.left = chunks]
    BY <1>0, <1>3 DEF EnsureStart, Set
  <2>3. job'[j].pc = "chunk" /\ job'[j].op = "ensure"
    BY <2>2 DEF NoJob
  <2> HIDE DEF q
  <2>4. HealJob(job'[j])
    BY <2>1, <2>3 DEF HealJob
  <2> QED BY <1>1, <2>1, <2>2, <2>4, LocalKeeps
<1>4. ASSUME NEW i \in Idx, HealChunk(j, i) PROVE JobInv' /\ ReplicatedHasBackup'
  <2>1. j = "heal" /\ q.pc = "chunk" /\ q.op = "ensure" /\ HealJob(q)
    BY <1>0, <1>4, Roles DEF HealChunk, JobInv
  <2>2. \A k \in Jobs \ {j} : job'[k] = job[k]
    BY <1>0, <1>4, HealChunkCases
  <2>3. \/ job'[j] = [q EXCEPT !.left = @ \ {i}]
        \/ job'[j] = [q EXCEPT !.left = @ \ {i}, !.ok = FALSE]
        \/ \E O : job'[j] = [q EXCEPT !.left = @ \ {i}, !.pc = "fetch", !.idx = i,
                                !.src = O, !.excl = reg[i], !.have = Cardinality(O),
                                !.placed = 0]
    BY <1>0, <1>4, HealChunkCases
  <2> HIDE DEF q
  <2>4. /\ job'[j].op = "ensure"
        /\ \/ job'[j].pc = "chunk"
           \/ job'[j].pc = "fetch" /\ job'[j].excl = reg[i] /\ job'[j].idx = i
    BY <1>0, <2>1, <2>3 DEF JobType
  <2>5. HealJob(job'[j])
    BY <2>1, <2>4 DEF HealJob
  <2> QED BY <1>1, <2>1, <2>2, <2>5, LocalKeeps
<1>5. ASSUME NEW h \in Holders, HealFetch(j, h) PROVE JobInv' /\ ReplicatedHasBackup'
  <2>1. j = "heal" /\ q.pc = "fetch" /\ HealJob(q)
    BY <1>0, <1>5, Roles DEF HealFetch, JobInv
  <2>2. \A k \in Jobs \ {j} : job'[k] = job[k]
    BY <1>0, <1>5, HealFetchCases
  <2>3. \/ job'[j] = [q EXCEPT !.pc = "place", !.src = {}, !.data = held[h][q.idx]]
        \/ job'[j] = [q EXCEPT !.pc = "chunk", !.src = {}, !.ok = FALSE]
        \/ job'[j] = [q EXCEPT !.src = @ \ {h}]
    BY <1>0, <1>5, HealFetchCases
  <2> HIDE DEF q
  <2>4. /\ job'[j].op = q.op /\ job'[j].excl = q.excl /\ job'[j].idx = q.idx
        /\ \/ job'[j].pc = "place" /\ job'[j].src = {}
           \/ job'[j].pc = "chunk"
           \/ job'[j].pc = "fetch"
    BY <1>0, <2>1, <2>3 DEF JobType
  <2>5. HealJob(job'[j])
    BY <2>1, <2>4 DEF HealJob
  <2> QED BY <1>1, <2>1, <2>2, <2>5, LocalKeeps
<1>6. CASE PlaceCopy(j)
  <2>1. j = "heal" /\ q.pc = "place" /\ HealJob(q)
    BY <1>0, <1>6, Roles DEF PlaceCopy, JobInv
  <2>2. PICK H \in SUBSET Holders :
          Placed(q.excl, H) /\ Set(j, [q EXCEPT !.pc = "store", !.todo = H])
    BY <1>6 DEF PlaceCopy
  <2>3. /\ \A k \in Jobs \ {j} : job'[k] = job[k]
        /\ job'[j] = [q EXCEPT !.pc = "store", !.todo = H]
    BY <1>0, <2>2 DEF Set
  <2> HIDE DEF q
  <2>4. /\ job'[j].op = q.op /\ job'[j].idx = q.idx /\ job'[j].src = q.src
        /\ job'[j].pc = "store" /\ job'[j].todo = H
    BY <1>0, <2>1, <2>3 DEF JobType
  <2>5. H \cap reg[q.idx] = {}
    BY <1>0, <2>1, <2>2, PlacedFew DEF HealJob, TypeInv
  <2>6. HealJob(job'[j])
    BY <2>1, <2>4, <2>5 DEF HealJob
  <2> QED BY <1>1, <2>1, <2>3, <2>6, LocalKeeps
<1> QED BY <1>2, <1>3, <1>4, <1>5, <1>6

\* One entry of what holders have changes.
LEMMA OneHeld ==
    ASSUME TypeInv, NEW h \in Holders, NEW i0 \in Idx, NEW d,
           held' = held \/ held' = [held EXCEPT ![h][i0] = d]
    PROVE  \A g \in Holders, i \in Idx :
             /\ g # h \/ i # i0 => held'[g][i] = held[g][i]
             /\ held'[g][i] = held[g][i] \/ held'[g][i] = d
<1>1. held \in [Holders -> [Idx -> 0..MaxRuns]]
  BY DEF TypeInv, TypeOK
<1>2. CASE held' = [held EXCEPT ![h][i0] = d]
  <2>1. held' = [held EXCEPT ![h] = [held[h] EXCEPT ![i0] = d]]
    BY <1>2
  <2>2. held'[h] = [held[h] EXCEPT ![i0] = d]
    BY <1>1, <2>1
  <2>3. \A g \in Holders \ {h} : held'[g] = held[g]
    BY <1>1, <2>1
  <2>4. \A i \in Idx : held'[h][i] = IF i = i0 THEN d ELSE held[h][i]
    BY <1>1, <2>2
  <2> QED BY <2>3, <2>4
<1> QED BY <1>2

\* What a holder that is not recorded gets changes no copy.
LEMMA StrangerStores ==
    ASSUME TypeInv, NEW h \in Holders, NEW i0 \in Idx, NEW d, h \notin reg[i0],
           held' = held \/ held' = [held EXCEPT ![h][i0] = d]
    PROVE  \A i \in Idx : \A b : CopiesIn(reg, held', i, b) = Copies(i, b)
<1> SUFFICES ASSUME NEW i \in Idx, NEW b PROVE CopiesIn(reg, held', i, b) = Copies(i, b)
  OBVIOUS
<1>1. reg[i] \subseteq Holders
  BY DEF TypeInv, TypeOK
<1>2. \A g \in reg[i] : held'[g][i] = held[g][i]
  BY <1>1, OneHeld
<1> QED BY <1>2 DEF Copies, CopiesIn

\* What the backup's own chunk gets changes no copy of another one, and adds
\* to its own.
LEMMA BackupStores ==
    ASSUME TypeInv, NEW h \in Holders, NEW i0 \in Idx, NEW d,
           held' = held \/ held' = [held EXCEPT ![h][i0] = d]
    PROVE  /\ \A i \in Idx \ {i0} : CopiesIn(reg, held', i, d) = Copies(i, d)
           /\ Copies(i0, d) \subseteq CopiesIn(reg, held', i0, d)
<1>1. \A i \in Idx : reg[i] \subseteq Holders
  BY DEF TypeInv, TypeOK
<1>2. \A g \in Holders, i \in Idx :
         /\ g # h \/ i # i0 => held'[g][i] = held[g][i]
         /\ held'[g][i] = held[g][i] \/ held'[g][i] = d
  BY OneHeld
<1>3. \A i \in Idx \ {i0} : CopiesIn(reg, held', i, d) = Copies(i, d)
  BY <1>1, <1>2 DEF Copies, CopiesIn
<1>4. Copies(i0, d) \subseteq CopiesIn(reg, held', i0, d)
  BY <1>1, <1>2 DEF Copies, CopiesIn
<1> QED BY <1>3, <1>4

\* The step of HolderStore, seen from the job.
LEMMA HolderStoreCases ==
    ASSUME TypeInv, NEW j \in Jobs, NEW h \in Holders, HolderStore(j, h)
    PROVE  /\ \A k \in Jobs \ {j} : job'[k] = job[k]
           /\ held' = held \/ held' = [held EXCEPT ![h][job[j].idx] = job[j].data]
           /\ \/ /\ job'[j] = [job[j] EXCEPT !.pc = "record", !.todo = @ \ {h}, !.src = {h}]
                 /\ held'[h][job[j].idx] = job[j].data
              \/ job'[j] = [job[j] EXCEPT !.todo = @ \ {h}]
<1> DEFINE q == job[j]
<1>1. \/ /\ held' = [held EXCEPT ![h][q.idx] = q.data]
         /\ Set(j, [q EXCEPT !.pc = "record", !.todo = @ \ {h}, !.src = {h}])
      \/ /\ held' = held \/ held' = [held EXCEPT ![h][q.idx] = q.data]
         /\ Set(j, [q EXCEPT !.todo = @ \ {h}])
  BY DEF HolderStore
<1>2. ASSUME NEW r, Set(j, r)
      PROVE  job'[j] = r /\ \A k \in Jobs \ {j} : job'[k] = job[k]
  BY <1>2, JobsType DEF Set
<1>3. q.idx \in Idx
  BY JobsType DEF JobType
<1> HIDE DEF q
<1>4. CASE /\ held' = [held EXCEPT ![h][q.idx] = q.data]
           /\ Set(j, [q EXCEPT !.pc = "record", !.todo = @ \ {h}, !.src = {h}])
  <2>1. held'[h][q.idx] = q.data
    BY <1>3, <1>4 DEF TypeInv, TypeOK
  <2>2. /\ job'[j] = [q EXCEPT !.pc = "record", !.todo = @ \ {h}, !.src = {h}]
        /\ \A k \in Jobs \ {j} : job'[k] = job[k]
    BY <1>2, <1>4
  <2> QED BY <1>4, <2>1, <2>2 DEF q
<1>5. CASE /\ held' = held \/ held' = [held EXCEPT ![h][q.idx] = q.data]
           /\ Set(j, [q EXCEPT !.todo = @ \ {h}])
  <2>1. /\ job'[j] = [q EXCEPT !.todo = @ \ {h}]
        /\ \A k \in Jobs \ {j} : job'[k] = job[k]
    BY <1>2, <1>5
  <2> QED BY <1>5, <2>1 DEF q
<1> QED BY <1>1, <1>4, <1>5

\* A smaller set of holders has fewer.
LEMMA FewerHolders ==
    ASSUME NEW B \in SUBSET Holders, NEW A \in SUBSET B
    PROVE  Cardinality(A) <= Cardinality(B) /\ Cardinality(A) \in Nat /\ Cardinality(B) \in Nat
  BY HoldersFinite, FS_Subset, FS_CardinalityType

\* A holder that stores a chunk of the backup has it.
LEMMA BackupStoreKeeps ==
    ASSUME ReplInv, OnlyRestores, NEW h \in Holders, HolderStore("backup", h), TypeInv'
    PROVE  JobInv' /\ ReplicatedHasBackup'
<1> DEFINE q == job["backup"]
           p == job'["backup"]
<1>0. "backup" \in Jobs
  BY DEF Jobs
<1>1. /\ BackupJob(q) /\ q \in JobType /\ q.pc = "store" /\ h \in q.todo
      /\ TypeInv /\ JobInv
  BY <1>0, JobsType DEF ReplInv, JobInv, HolderStore
<1>2. q.op = "replicate" /\ status # "replicated" /\ q.src = {}
  BY <1>1 DEF BackupJob
<1>3. /\ reg' = reg /\ enc' = enc /\ status' = status
      /\ job'["heal"] = job["heal"] /\ job'["cli"] = job["cli"]
  BY <1>0, <1>1, HolderStoreCases DEF HolderStore, fileVars, Jobs
<1>4. /\ held' = held \/ held' = [held EXCEPT ![h][q.idx] = q.data]
      /\ \/ /\ p = [q EXCEPT !.pc = "record", !.todo = @ \ {h}, !.src = {h}]
            /\ held'[h][q.idx] = q.data
         \/ p = [q EXCEPT !.todo = @ \ {h}]
  BY <1>0, <1>1, HolderStoreCases
<1> HIDE DEF q, p
<1>5. /\ p.op = q.op /\ p.data = q.data /\ p.left = q.left /\ p.have = q.have /\ p.ok = q.ok
      /\ p.idx = q.idx /\ p.placed = q.placed /\ p.todo = q.todo \ {h}
      /\ \/ p.pc = "record" /\ p.src = {h} /\ held'[h][q.idx] = q.data
         \/ p.pc = "store" /\ p.src = {}
  BY <1>1, <1>2, <1>4 DEF JobType
<1>6. q.idx \in Idx /\ q.data \in Nat /\ q.todo \subseteq Holders
  BY <1>1 DEF JobType
<1>7. /\ \A i \in Idx \ {q.idx} : CopiesIn(reg, held', i, q.data) = Copies(i, q.data)
      /\ Copies(q.idx, q.data) \subseteq CopiesIn(reg, held', q.idx, q.data)
      /\ CopiesIn(reg, held', q.idx, q.data) \subseteq Holders
  <2>1. reg[q.idx] \subseteq Holders
    BY <1>1, <1>6 DEF TypeInv, TypeOK
  <2> QED BY <1>1, <1>4, <1>6, <2>1, BackupStores DEF CopiesIn
<1>8. p.placed <= Cardinality(CopiesIn(reg, held', p.idx, p.data) \ (p.todo \cup p.src))
  <2> DEFINE A == Copies(q.idx, q.data) \ (q.todo \cup q.src)
             B == CopiesIn(reg, held', q.idx, q.data) \ (p.todo \cup p.src)
  <2>1. A \subseteq B /\ B \subseteq Holders
    BY <1>1, <1>2, <1>5, <1>7
  <2>2. q.placed <= Cardinality(A) /\ q.placed \in Nat
    BY <1>1 DEF BackupJob, JobType
  <2>3. B = CopiesIn(reg, held', p.idx, p.data) \ (p.todo \cup p.src)
    BY <1>5
  <2> HIDE DEF A, B
  <2>4. Cardinality(A) <= Cardinality(B) /\ Cardinality(A) \in Nat /\ Cardinality(B) \in Nat
    BY <2>1, FewerHolders
  <2>5. q.placed <= Cardinality(B)
    BY <2>2, <2>4
  <2> QED BY <1>5, <2>3, <2>5
<1>9. \A i \in (1..enc[p.data].n) \ p.left :
        p.ok /\ i # p.idx => Cardinality(CopiesIn(reg, held', i, p.data)) >= MinReplicas
  <2> SUFFICES ASSUME NEW i \in (1..enc[p.data].n) \ p.left, p.ok, i # p.idx
      PROVE  Cardinality(CopiesIn(reg, held', i, p.data)) >= MinReplicas
    OBVIOUS
  <2>1. Cardinality(Copies(i, q.data)) >= MinReplicas
    BY <1>1, <1>2, <1>5 DEF BackupJob
  <2>2. i \in Idx
    <3>1. enc[q.data].n \in Idx
      BY <1>1, <1>2, BlobShape DEF BackupJob
    <3> QED BY <1>5, <3>1, ReplicationBounds DEF Idx
  <2>3. CopiesIn(reg, held', i, q.data) = Copies(i, q.data)
    BY <1>5, <1>7, <2>2
  <2> QED BY <1>5, <2>1, <2>3
<1>10. BackupJob(job["backup"])'
  <2>1. /\ p.op = "replicate" /\ p.have = 0 /\ p.data \in 1..Len(enc)
        /\ p.left \subseteq 1..enc[p.data].n
        /\ p.pc = "record" => h \notin p.todo /\ held'[h][p.idx] = p.data
    BY <1>1, <1>2, <1>5 DEF BackupJob
  <2> QED BY <1>2, <1>3, <1>5, <1>8, <1>9, <2>1 DEF BackupJob, Copies, p
<1>11. HealJob(job["heal"])' /\ CliJob(job["cli"])'
  BY <1>1, <1>3 DEF JobInv, HealJob, CliJob
<1> QED BY <1>2, <1>3, <1>10, <1>11 DEF JobInv, ReplicatedHasBackup

\* A holder that stores a healed chunk has a copy of a chunk that was
\* recorded.
LEMMA HealStoreKeeps ==
    ASSUME ReplInv, OnlyRestores, NEW h \in Holders, HolderStore("heal", h), TypeInv'
    PROVE  JobInv' /\ ReplicatedHasBackup'
<1> DEFINE q == job["heal"]
           p == job'["heal"]
<1>0. "heal" \in Jobs
  BY DEF Jobs
<1>1. /\ HealJob(q) /\ q \in JobType /\ q.pc = "store" /\ h \in q.todo
      /\ TypeInv /\ JobInv
  BY <1>0, JobsType DEF ReplInv, JobInv, HolderStore
<1>2. q.op = "ensure" /\ status = "replicated" /\ q.src = {} /\ h \notin reg[q.idx]
  BY <1>1 DEF HealJob
<1>3. /\ reg' = reg /\ enc' = enc /\ status' = status
      /\ job'["backup"] = job["backup"] /\ job'["cli"] = job["cli"]
  BY <1>0, <1>1, HolderStoreCases DEF HolderStore, fileVars, Jobs
<1>4. /\ held' = held \/ held' = [held EXCEPT ![h][q.idx] = q.data]
      /\ \/ p = [q EXCEPT !.pc = "record", !.todo = @ \ {h}, !.src = {h}]
         \/ p = [q EXCEPT !.todo = @ \ {h}]
  BY <1>0, <1>1, HolderStoreCases
<1> HIDE DEF q, p
<1>5. /\ p.op = q.op /\ p.idx = q.idx /\ p.todo = q.todo \ {h}
      /\ \/ p.pc = "record" /\ p.src = {h}
         \/ p.pc = "store" /\ p.src = {}
  BY <1>1, <1>2, <1>4 DEF JobType
<1>6. \A i \in Idx : \A b : CopiesIn(reg, held', i, b) = Copies(i, b)
  <2>1. q.idx \in Idx
    BY <1>1 DEF JobType
  <2> QED BY <1>1, <1>2, <1>4, <2>1, StrangerStores
<1>7. \A i \in Idx : \A b \in Nat : Copies(i, b) \subseteq Copies(i, b)'
  BY <1>3, <1>6 DEF Copies
<1>8. ReplicatedHasBackup'
  BY <1>1, <1>2, <1>3, <1>7, BackupGrows DEF ReplInv
<1>9. HealJob(job["heal"])'
  BY <1>1, <1>2, <1>3, <1>5 DEF HealJob, p
<1>10. job["backup"].pc = "idle" /\ job["backup"].op = "none"
  BY <1>1, <1>2 DEF JobInv, BackupJob
<1>11. BackupJob(job["backup"])' /\ CliJob(job["cli"])'
  BY <1>1, <1>3, <1>10 DEF JobInv, BackupJob, CliJob
<1> QED BY <1>8, <1>9, <1>11 DEF JobInv

\* The step of RecordReplica, seen from the job.
LEMMA RecordReplicaCases ==
    ASSUME TypeInv, NEW j \in Jobs, RecordReplica(j)
    PROVE  /\ \A k \in Jobs \ {j} : job'[k] = job[k]
           /\ \/ /\ job'[j] = [job[j] EXCEPT !.pc = "store", !.src = {}, !.placed = @ + 1]
                 /\ reg'[job[j].idx] = reg[job[j].idx] \cup job[j].src
              \/ /\ job'[j] = [job[j] EXCEPT !.pc = "store", !.src = {}]
                 /\ reg'[job[j].idx] = reg[job[j].idx]
           /\ \A i \in Idx \ {job[j].idx} : reg'[i] = reg[i]
<1> DEFINE q == job[j]
<1>1. \/ /\ reg' = [reg EXCEPT ![q.idx] = @ \cup q.src]
         /\ Set(j, [q EXCEPT !.pc = "store", !.src = {}, !.placed = @ + 1])
      \/ /\ reg' = reg
         /\ Set(j, [q EXCEPT !.pc = "store", !.src = {}])
  BY DEF RecordReplica
<1>2. ASSUME NEW r, Set(j, r)
      PROVE  job'[j] = r /\ \A k \in Jobs \ {j} : job'[k] = job[k]
  BY <1>2, JobsType DEF Set
<1>3. q.idx \in Idx /\ reg \in [Idx -> SUBSET Holders]
  BY JobsType DEF JobType, TypeInv, TypeOK
<1> HIDE DEF q
<1>4. CASE /\ reg' = [reg EXCEPT ![q.idx] = @ \cup q.src]
           /\ Set(j, [q EXCEPT !.pc = "store", !.src = {}, !.placed = @ + 1])
  <2>1. /\ job'[j] = [q EXCEPT !.pc = "store", !.src = {}, !.placed = @ + 1]
        /\ \A k \in Jobs \ {j} : job'[k] = job[k]
    BY <1>2, <1>4
  <2>2. reg'[q.idx] = reg[q.idx] \cup q.src /\ \A i \in Idx \ {q.idx} : reg'[i] = reg[i]
    BY <1>3, <1>4
  <2> QED BY <2>1, <2>2 DEF q
<1>5. CASE /\ reg' = reg
           /\ Set(j, [q EXCEPT !.pc = "store", !.src = {}])
  <2>1. /\ job'[j] = [q EXCEPT !.pc = "store", !.src = {}]
        /\ \A k \in Jobs \ {j} : job'[k] = job[k]
    BY <1>2, <1>5
  <2> QED BY <1>5, <2>1 DEF q
<1> QED BY <1>1, <1>4, <1>5

\* What a backup records is on the holder.
LEMMA BackupRecordKeeps ==
    ASSUME ReplInv, OnlyRestores, RecordReplica("backup"), TypeInv'
    PROVE  JobInv' /\ ReplicatedHasBackup'
<1> DEFINE q == job["backup"]
           p == job'["backup"]
<1>0. "backup" \in Jobs
  BY DEF Jobs
<1>1. /\ BackupJob(q) /\ q \in JobType /\ q.pc = "record" /\ TypeInv /\ JobInv
  BY <1>0, JobsType DEF ReplInv, JobInv, RecordReplica
<1>2. PICK h \in Holders : q.src = {h} /\ h \notin q.todo /\ held[h][q.idx] = q.data
  BY <1>1 DEF BackupJob
<1>3. q.op = "replicate" /\ status # "replicated"
  BY <1>1 DEF BackupJob
<1>4. /\ held' = held /\ enc' = enc /\ status' = status
      /\ job'["heal"] = job["heal"] /\ job'["cli"] = job["cli"]
  BY <1>0, <1>1, RecordReplicaCases DEF RecordReplica, fileVars, Jobs
<1>5. /\ \/ /\ p = [q EXCEPT !.pc = "store", !.src = {}, !.placed = @ + 1]
            /\ reg'[q.idx] = reg[q.idx] \cup q.src
         \/ /\ p = [q EXCEPT !.pc = "store", !.src = {}]
            /\ reg'[q.idx] = reg[q.idx]
      /\ \A i \in Idx \ {q.idx} : reg'[i] = reg[i]
  BY <1>0, <1>1, RecordReplicaCases
<1> HIDE DEF q, p
<1>6. q.idx \in Idx /\ q.data \in Nat /\ q.todo \subseteq Holders /\ q.placed \in Nat
  BY <1>1 DEF JobType
<1>7. /\ p.op = q.op /\ p.data = q.data /\ p.left = q.left /\ p.have = q.have /\ p.ok = q.ok
      /\ p.idx = q.idx /\ p.todo = q.todo /\ p.pc = "store" /\ p.src = {}
      /\ \/ p.placed = q.placed + 1 /\ reg'[q.idx] = reg[q.idx] \cup {h}
         \/ p.placed = q.placed /\ reg'[q.idx] = reg[q.idx]
  BY ZenonT(40), <1>1, <1>2, <1>5 DEF JobType
<1>8. p.placed <= Cardinality(CopiesIn(reg', held, p.idx, p.data) \ (p.todo \cup p.src))
  <2> DEFINE A == Copies(q.idx, q.data) \ (q.todo \cup q.src)
             B == CopiesIn(reg', held, q.idx, q.data) \ q.todo
  <2>1. reg[q.idx] \subseteq Holders
    BY <1>1, <1>6 DEF TypeInv, TypeOK
  <2>2. A \subseteq B /\ B \subseteq Holders /\ h \notin A
    BY <1>2, <1>7, <2>1 DEF Copies, CopiesIn
  <2>3. p.placed = q.placed + 1 => A \cup {h} \subseteq B
    BY <1>2, <1>6, <1>7, <2>2 DEF CopiesIn
  <2>4. q.placed <= Cardinality(A)
    BY <1>1 DEF BackupJob
  <2>5. B = CopiesIn(reg', held, p.idx, p.data) \ (p.todo \cup p.src)
    BY <1>7
  <2> HIDE DEF A, B
  <2>6. /\ Cardinality(A) <= Cardinality(B) /\ Cardinality(A) \in Nat
        /\ Cardinality(B) \in Nat
    BY <2>2, FewerHolders
  <2>7. p.placed = q.placed + 1 => q.placed + 1 <= Cardinality(B)
    <3> SUFFICES ASSUME A \cup {h} \subseteq B PROVE q.placed + 1 <= Cardinality(B)
      BY <2>3
    <3>1. Cardinality(A \cup {h}) = Cardinality(A) + 1
      BY <2>2, HoldersFinite, FS_AddElement
    <3>2. Cardinality(A \cup {h}) <= Cardinality(B)
      BY <2>2, FewerHolders
    <3> QED BY <1>6, <2>4, <2>6, <3>1, <3>2
  <2>8. p.placed <= Cardinality(B)
    BY <1>6, <1>7, <2>4, <2>6, <2>7
  <2> QED BY <2>5, <2>8
<1>9. \A i \in (1..enc[p.data].n) \ p.left :
        p.ok /\ i # p.idx => Cardinality(CopiesIn(reg', held, i, p.data)) >= MinReplicas
  <2> SUFFICES ASSUME NEW i \in (1..enc[p.data].n) \ p.left, p.ok, i # p.idx
      PROVE  Cardinality(CopiesIn(reg', held, i, p.data)) >= MinReplicas
    OBVIOUS
  <2>1. Cardinality(Copies(i, q.data)) >= MinReplicas
    BY <1>1, <1>3, <1>7 DEF BackupJob
  <2>2. i \in Idx
    <3>1. enc[q.data].n \in Idx
      BY <1>1, <1>3, BlobShape DEF BackupJob
    <3> QED BY <1>7, <3>1, ReplicationBounds DEF Idx
  <2>3. CopiesIn(reg', held, i, q.data) = Copies(i, q.data)
    BY <1>5, <1>7, <2>2 DEF Copies, CopiesIn
  <2> QED BY <1>7, <2>1, <2>3
<1>10. BackupJob(job["backup"])'
  <2>1. /\ p.op = "replicate" /\ p.have = 0 /\ p.data \in 1..Len(enc)
        /\ p.left \subseteq 1..enc[p.data].n
    BY <1>1, <1>3, <1>7 DEF BackupJob
  <2> QED BY <1>3, <1>4, <1>7, <1>8, <1>9, <2>1 DEF BackupJob, Copies, p
<1>11. job["heal"].pc = "idle" /\ job["heal"].op = "none"
  BY <1>1, <1>3 DEF JobInv, HealJob
<1>12. HealJob(job["heal"])' /\ CliJob(job["cli"])'
  BY <1>1, <1>4, <1>11 DEF JobInv, HealJob, CliJob
<1> QED BY <1>3, <1>4, <1>10, <1>12 DEF JobInv, ReplicatedHasBackup

\* So is what a heal records.
LEMMA HealRecordKeeps ==
    ASSUME ReplInv, OnlyRestores, RecordReplica("heal"), TypeInv'
    PROVE  JobInv' /\ ReplicatedHasBackup'
<1> DEFINE q == job["heal"]
           p == job'["heal"]
<1>0. "heal" \in Jobs
  BY DEF Jobs
<1>1. /\ HealJob(q) /\ q \in JobType /\ q.pc = "record" /\ TypeInv /\ JobInv
  BY <1>0, JobsType DEF ReplInv, JobInv, RecordReplica
<1>2. /\ q.op = "ensure" /\ status = "replicated" /\ q.todo \cap q.src = {}
      /\ q.todo \cap reg[q.idx] = {}
  BY <1>1 DEF HealJob
<1>3. /\ held' = held /\ enc' = enc /\ status' = status
      /\ job'["backup"] = job["backup"] /\ job'["cli"] = job["cli"]
  BY <1>0, <1>1, RecordReplicaCases DEF RecordReplica, fileVars, Jobs
<1>4. /\ \/ /\ p = [q EXCEPT !.pc = "store", !.src = {}, !.placed = @ + 1]
            /\ reg'[q.idx] = reg[q.idx] \cup q.src
         \/ /\ p = [q EXCEPT !.pc = "store", !.src = {}]
            /\ reg'[q.idx] = reg[q.idx]
      /\ \A i \in Idx \ {q.idx} : reg'[i] = reg[i]
  BY <1>0, <1>1, RecordReplicaCases
<1> HIDE DEF q, p
<1>5. /\ p.op = q.op /\ p.idx = q.idx /\ p.todo = q.todo /\ p.pc = "store" /\ p.src = {}
      /\ \A i \in Idx : reg[i] \subseteq reg'[i]
      /\ q.todo \cap reg'[q.idx] = {}
  BY <1>1, <1>2, <1>4 DEF JobType
<1>6. \A i \in Idx : \A b \in Nat : Copies(i, b) \subseteq Copies(i, b)'
  BY <1>3, <1>5 DEF Copies, CopiesIn
<1>7. ReplicatedHasBackup'
  BY <1>1, <1>2, <1>3, <1>6, BackupGrows DEF ReplInv
<1>8. HealJob(job["heal"])'
  BY <1>1, <1>2, <1>3, <1>5 DEF HealJob, p
<1>9. job["backup"].pc = "idle" /\ job["backup"].op = "none"
  BY <1>1, <1>2 DEF JobInv, BackupJob
<1>10. BackupJob(job["backup"])' /\ CliJob(job["cli"])'
  BY <1>1, <1>3, <1>9 DEF JobInv, BackupJob, CliJob
<1> QED BY <1>7, <1>8, <1>10 DEF JobInv

\* A restore changes no chunk on a holder.
LEMMA RecoverKeeps ==
    ASSUME ReplInv, OnlyRestores, NEW j \in Jobs,
           RecoverStart(j) \/ (\E i \in Idx : RecoverFetch(j, i)) \/ RecoverFinish(j)
    PROVE  JobInv' /\ ReplicatedHasBackup'
<1>0. job[j] \in JobType /\ TypeInv /\ JobInv /\ job \in [Jobs -> JobType]
  BY JobsType DEF ReplInv
<1>1. UNCHANGED <<status, enc, reg, held>>
  BY DEF RecoverStart, RecoverFetch, RecoverFinish, fileVars, netVars
<1>2. j = "cli"
  BY <1>0, Roles DEF RecoverStart, RecoverFetch, RecoverFinish
<1>3. CASE RecoverStart(j)
  <2> DEFINE safe == status = "replicated"
  <2>1. /\ \A k \in Jobs \ {j} : job'[k] = job[k]
        /\ job'[j] = [NoJob EXCEPT !.pc = "chunk", !.op = "recover", !.left = chunks,
                                   !.safe = safe]
    BY <1>0, <1>3 DEF RecoverStart, Set
  <2> HIDE DEF safe
  <2>2. job'[j].pc = "chunk" /\ job'[j].op = "recover"
    BY <2>1 DEF NoJob
  <2>3. CliJob(job'[j])
    BY <2>2 DEF CliJob
  <2> QED BY <1>1, <1>2, <2>1, <2>3, LocalKeeps
<1>4. ASSUME NEW i \in Idx, RecoverFetch(j, i) PROVE JobInv' /\ ReplicatedHasBackup'
  <2>1. \A k \in Jobs \ {j} : job'[k] = job[k]
    BY <1>0, <1>4, RecoverFetchCases
  <2>2. \/ \E h \in reg[i] : job'[j] = [job[j] EXCEPT !.left = @ \ {i},
                                                      !.parts[i] = held[h][i]]
        \/ job'[j] = [job[j] EXCEPT !.left = @ \ {i}, !.ok = FALSE]
    BY <1>0, <1>4, RecoverFetchCases
  <2>3. job'[j].pc = job[j].pc /\ job'[j].op = job[j].op
    BY <1>0, <2>2 DEF JobType
  <2>4. CliJob(job'[j])
    BY <1>0, <1>2, <2>3 DEF JobInv, CliJob
  <2> QED BY <1>1, <1>2, <2>1, <2>4, LocalKeeps
<1>5. CASE RecoverFinish(j)
  <2>1. (\A k \in Jobs \ {j} : job'[k] = job[k]) /\ job'[j] = NoJob
    BY <1>0, <1>5 DEF RecoverFinish, Set
  <2> QED BY <1>1, <1>2, <2>1, NoJobKeeps, LocalKeeps
<1> QED BY <1>3, <1>4, <1>5

\* A job that ends early marks nothing replicated.
LEMMA AbortKeeps ==
    ASSUME ReplInv, NEW j \in Jobs, Abort(j)
    PROVE  JobInv' /\ ReplicatedHasBackup'
<1>1. (\A k \in Jobs \ {j} : job'[k] = job[k]) /\ job'[j] = NoJob
  BY JobsType DEF ReplInv, Abort, Set
<1>2. UNCHANGED <<status, enc, reg, held>>
  BY DEF Abort, fileVars, netVars
<1> QED BY <1>1, <1>2, NoJobKeeps, LocalKeeps

\* Nor does anything outside the jobs.
LEMMA RestKeeps ==
    ASSUME ReplInv, Outside \/ UNCHANGED vars
    PROVE  JobInv' /\ ReplicatedHasBackup'
<1>1. UNCHANGED <<status, enc, reg, held, job>>
  BY DEF Outside, Edit, GoOffline, GoOnline, vars, fileVars, netVars
<1>2. ReplicatedHasBackup'
  BY <1>1 DEF ReplInv, ReplicatedHasBackup, Backup
<1>3. JobInv'
  BY <1>1 DEF ReplInv, JobInv, BackupJob, HealJob, CliJob, Copies
<1> QED BY <1>2, <1>3

\* Every step keeps the invariant.
LEMMA ReplStep == OnlyRestores /\ ReplInv /\ [Next]_vars => ReplInv'
<1> SUFFICES ASSUME OnlyRestores, ReplInv, [Next]_vars PROVE ReplInv'
  OBVIOUS
<1>1. TypeInv' /\ BlobInv'
  BY TypeStep, BlobStep DEF ReplInv
<1>2. ASSUME NEW j \in Jobs, JobStep(j) PROVE JobInv' /\ ReplicatedHasBackup'
  <2>1. ASSUME NEW h \in Holders, HolderStore(j, h) PROVE JobInv' /\ ReplicatedHasBackup'
    <3>1. j = "backup" \/ j = "heal"
      BY <2>1, Roles DEF ReplInv, HolderStore
    <3> QED BY <1>1, <2>1, <3>1, BackupStoreKeeps, HealStoreKeeps
  <2>2. CASE RecordReplica(j)
    <3>1. j = "backup" \/ j = "heal"
      BY <2>2, Roles DEF ReplInv, RecordReplica
    <3> QED BY <1>1, <2>2, <3>1, BackupRecordKeeps, HealRecordKeeps
  <2> QED BY <1>2, <2>1, <2>2, PickKeeps, ReplicateStartKeeps, PlaceChunkKeeps,
             ChunkDoneKeeps, FinishKeeps, HealStepsKeep, RecoverKeeps DEF JobStep
<1>3. ASSUME NEW j \in Jobs, Abort(j) PROVE JobInv' /\ ReplicatedHasBackup'
  BY <1>3, AbortKeeps
<1>4. ASSUME Outside \/ UNCHANGED vars PROVE JobInv' /\ ReplicatedHasBackup'
  BY <1>4, RestKeeps
<1>5. \/ \E j \in Jobs : JobStep(j)
      \/ \E j \in Jobs : Abort(j)
      \/ Outside \/ UNCHANGED vars
  BY DEF Next, Outside
<1>6. JobInv' /\ ReplicatedHasBackup'
  BY <1>2, <1>3, <1>4, <1>5
<1> QED BY <1>1, <1>6 DEF ReplInv

\* It holds when nothing is backed up.
LEMMA InitRepl == Init => ReplInv
<1> SUFFICES ASSUME Init PROVE ReplInv
  OBVIOUS
<1>1. JobInv
  BY NoJobKeeps DEF Init, JobInv, Jobs
<1> QED BY <1>1, InitType, InitBlobs DEF ReplInv, Init, ReplicatedHasBackup

\* A file marked replicated has a whole backup, for any number of holders,
\* chunks, replicas, backups, heals, failures and holders that go away, while the
\* daemon's jobs and restores run: replicate marks the file when every chunk is
\* recorded at min_replicas holders that have it, and ensure_replicas copies only
\* to holders that are not recorded.
THEOREM ReplicatedFilesHaveBackups ==
    ASSUME OnlyRestores
    PROVE  Spec => []ReplicatedHasBackup
<1>1. ReplInv => ReplicatedHasBackup
  BY DEF ReplInv
<1>2. ReplInv /\ [Next]_vars => ReplInv'
  BY ReplStep
<1> QED BY InitRepl, <1>1, <1>2, PTL DEF Spec

-----------------------------------------------------------------------------
\* A step that leaves the restore, the chunks and what the backup has still to
\* push.
LEMMA SingleQuiet ==
    ASSUME SingleInv, UNCHANGED <<enc, chunks, status, corrupt>>,
           job'["cli"] = job["cli"],
           job'["backup"].op = "replicate" =>
              job["backup"].op = "replicate" /\ job'["backup"].left = job["backup"].left
    PROVE  ChunksOfOne' /\ RestoreOfOne(job["cli"])'
  BY DEF SingleInv, ChunksOfOne, RestoreOfOne

\* The same for a step of one job: the backup with op and left as they were or
\* idle, the heal, or any job that ends.
LEMMA SingleLocal ==
    ASSUME SingleInv, NEW j \in Jobs, \A k \in Jobs \ {j} : job'[k] = job[k],
           UNCHANGED <<enc, chunks, status, corrupt>>,
           \/ j = "heal"
           \/ j = "backup" /\ job'[j].op = job[j].op /\ job'[j].left = job[j].left
           \/ job'[j].op = "none"
    PROVE  ChunksOfOne' /\ RestoreOfOne(job["cli"])'
<1>1. "cli" \in Jobs /\ "backup" \in Jobs /\ "heal" \in Jobs
  BY DEF Jobs
<1>2. CASE j # "cli"
  BY <1>1, <1>2, SingleQuiet
<1>3. CASE j = "cli"
  <2>1. job'["backup"] = job["backup"] /\ job'["cli"].op = "none"
    BY <1>1, <1>3
  <2> QED BY <2>1 DEF SingleInv, ChunksOfOne, RestoreOfOne
<1> QED BY <1>2, <1>3

\* No blob, one blob, or more.
LEMMA BlobCount ==
    ASSUME SingleInv
    PROVE  /\ Len(enc) \in Nat
           /\ Len(enc) <= 1 <=> Len(enc) = 0 \/ Len(enc) = 1
<1>1. Len(enc) \in Nat
  BY DEF SingleInv, ReplInv, TypeInv, TypeOK
<1>2. \A k \in Nat : k <= 1 <=> k = 0 \/ k = 1
  OBVIOUS
<1> QED BY <1>1, <1>2

\* Pushing a chunk, and asking who has it, changes nothing of this.
LEMMA PushKeepsSingle ==
    ASSUME SingleInv, OnlyRestores, NEW j \in Jobs,
           \/ Pick(j) \/ (\E h \in Holders : HolderStore(j, h)) \/ RecordReplica(j)
           \/ ChunkDone(j)
    PROVE  ChunksOfOne' /\ RestoreOfOne(job["cli"])'
<1>1. TypeInv /\ JobInv /\ job \in [Jobs -> JobType] /\ job[j] \in JobType
  BY DEF SingleInv, ReplInv, TypeInv, TypeOK
<1>2. CASE Pick(j)
  <2>1. (\A k \in Jobs \ {j} : job'[k] = job[k]) /\ job'[j].op = "none"
    BY <1>1, <1>2 DEF Pick, Set, NoJob
  <2>2. UNCHANGED <<enc, chunks, status, corrupt>>
    BY <1>2 DEF Pick, fileVars, netVars
  <2> QED BY <2>1, <2>2, SingleLocal
<1>3. ASSUME NEW h \in Holders, HolderStore(j, h)
      PROVE  ChunksOfOne' /\ RestoreOfOne(job["cli"])'
  <2>1. j \in {"backup", "heal"}
    BY <1>1, <1>3, Roles DEF HolderStore
  <2>2. \A k \in Jobs \ {j} : job'[k] = job[k]
    BY <1>1, <1>3, HolderStoreCases
  <2>3. \/ job'[j] = [job[j] EXCEPT !.pc = "record", !.todo = @ \ {h}, !.src = {h}]
        \/ job'[j] = [job[j] EXCEPT !.todo = @ \ {h}]
    BY <1>1, <1>3, HolderStoreCases
  <2>4. job'[j].op = job[j].op /\ job'[j].left = job[j].left
    BY <1>1, <2>3 DEF JobType
  <2>5. UNCHANGED <<enc, chunks, status, corrupt>>
    BY <1>3 DEF HolderStore, fileVars
  <2> QED BY <2>1, <2>2, <2>4, <2>5, SingleLocal
<1>4. CASE RecordReplica(j)
  <2>1. j \in {"backup", "heal"}
    BY <1>1, <1>4, Roles DEF RecordReplica
  <2>2. \A k \in Jobs \ {j} : job'[k] = job[k]
    BY <1>1, <1>4, RecordReplicaCases
  <2>3. \/ job'[j] = [job[j] EXCEPT !.pc = "store", !.src = {}, !.placed = @ + 1]
        \/ job'[j] = [job[j] EXCEPT !.pc = "store", !.src = {}]
    BY <1>1, <1>4, RecordReplicaCases
  <2>4. job'[j].op = job[j].op /\ job'[j].left = job[j].left
    BY <1>1, <2>3 DEF JobType
  <2>5. UNCHANGED <<enc, chunks, status, corrupt>>
    BY <1>4 DEF RecordReplica, fileVars
  <2> QED BY <2>1, <2>2, <2>4, <2>5, SingleLocal
<1>5. CASE ChunkDone(j)
  <2>1. j \in {"backup", "heal"}
    BY <1>1, <1>5, Roles DEF ChunkDone
  <2>2. /\ \A k \in Jobs \ {j} : job'[k] = job[k]
        /\ job'[j].op = job[j].op /\ job'[j].left = job[j].left
    BY <1>1, <1>5 DEF ChunkDone, Set, JobType
  <2>3. UNCHANGED <<enc, chunks, status, corrupt>>
    BY <1>5 DEF ChunkDone, fileVars, netVars
  <2> QED BY <2>1, <2>2, <2>3, SingleLocal
<1> QED BY <1>2, <1>3, <1>4, <1>5

\* Nor does a heal before it ends.
LEMMA HealKeepsSingle ==
    ASSUME SingleInv, OnlyRestores, NEW j \in Jobs,
           \/ CheckHealth(j) \/ EnsureStart(j) \/ (\E i \in Idx : HealChunk(j, i))
           \/ (\E h \in Holders : HealFetch(j, h)) \/ PlaceCopy(j)
    PROVE  ChunksOfOne' /\ RestoreOfOne(job["cli"])'
<1>1. JobInv /\ job \in [Jobs -> JobType]
  BY DEF SingleInv, ReplInv, TypeInv, TypeOK
<1>2. j = "heal"
  BY <1>1, Roles DEF CheckHealth, EnsureStart, HealChunk, HealFetch, PlaceCopy
<1>3. \A k \in Jobs \ {j} : job'[k] = job[k]
  BY <1>1 DEF CheckHealth, EnsureStart, HealChunk, HealFetch, PlaceCopy, Set
<1>4. UNCHANGED <<enc, chunks, status, corrupt>>
  BY DEF CheckHealth, EnsureStart, HealChunk, HealFetch, PlaceCopy, fileVars, netVars
<1> QED BY <1>2, <1>3, <1>4, SingleLocal

\* The first blob registers its own chunks only; from the second on there is
\* nothing to show.
LEMMA ReplicateKeepsSingle ==
    ASSUME SingleInv, OnlyRestores, NEW j \in Jobs, ReplicateStart(j)
    PROVE  ChunksOfOne' /\ RestoreOfOne(job["cli"])'
<1>1. JobInv /\ ReplicatedHasBackup /\ ChunksOfOne /\ job \in [Jobs -> JobType]
      /\ n \in Idx /\ enc \in Seq([edit : 0..MaxEdits, n : Idx]) /\ cur \in 0..MaxEdits
  BY DEF SingleInv, ReplInv, TypeInv, TypeOK
<1>2. j = "backup"
  BY <1>1, Roles DEF ReplicateStart
<1>3. /\ job'["cli"] = job["cli"]
      /\ job'["backup"].left = 1..n
  BY <1>1, <1>2 DEF ReplicateStart, Set, Jobs, NoJob
<1>4. /\ enc' = Append(enc, [edit |-> cur, n |-> n])
      /\ UNCHANGED <<chunks, status, corrupt>>
  BY DEF ReplicateStart, netVars
<1>5. Len(enc) \in Nat /\ Len(enc') = Len(enc) + 1 /\ enc'[Len(enc) + 1].n = n
  BY <1>1, <1>4
<1>6. CASE Len(enc) = 0
  <2>1. chunks = {} /\ ~corrupt /\ job["cli"].op # "recover"
    BY <1>1, <1>6 DEF ChunksOfOne
  <2>2. status # "replicated"
    BY <1>1, <1>6 DEF ReplicatedHasBackup
  <2>3. Len(enc') = 1 /\ enc'[1].n = n
    BY <1>5, <1>6
  <2> QED BY <1>3, <1>4, <2>1, <2>2, <2>3 DEF ChunksOfOne, RestoreOfOne
<1>7. CASE Len(enc) > 0
  <2>1. ~(Len(enc') <= 1) /\ Len(enc') # 1
    BY <1>5, <1>7
  <2> QED BY <2>1 DEF ChunksOfOne, RestoreOfOne
<1> QED BY <1>5, <1>6, <1>7

\* A chunk goes from the chunks to push to the chunks registered.
LEMMA PlaceKeepsSingle ==
    ASSUME SingleInv, OnlyRestores, NEW j \in Jobs, PlaceChunk(j)
    PROVE  ChunksOfOne' /\ RestoreOfOne(job["cli"])'
<1> DEFINE i == Min(job[j].left)
<1>1. JobInv /\ ReplicatedHasBackup /\ ChunksOfOne /\ RestoreOfOne(job["cli"])
      /\ job \in [Jobs -> JobType] /\ job[j] \in JobType
      /\ enc \in Seq([edit : 0..MaxEdits, n : Idx])
  BY DEF SingleInv, ReplInv, TypeInv, TypeOK
<1>2. j = "backup" /\ job[j].pc = "chunk" /\ job[j].op = "replicate"
  BY <1>1, Roles DEF PlaceChunk
<1>3. i \in job[j].left
  BY <1>1, MinIn DEF PlaceChunk, JobType
<1>4. PICK H \in SUBSET Holders :
        job' = [job EXCEPT ![j] = [job[j] EXCEPT !.pc = "store", !.idx = i, !.left = @ \ {i},
                                 !.todo = H, !.have = 0, !.placed = 0]]
  BY DEF PlaceChunk, Set
<1>5. chunks' = chunks \cup {i} /\ UNCHANGED <<enc, status, corrupt>>
  BY DEF PlaceChunk, fileVars
<1> HIDE DEF i
<1>6. job'["cli"] = job["cli"] /\ job'["backup"].left = job["backup"].left \ {i}
      /\ job'["backup"].op = "replicate"
  BY <1>1, <1>2, <1>4 DEF Jobs, JobType
<1>7. status # "replicated" /\ job["backup"].data \in 1..Len(enc)
  BY <1>1, <1>2 DEF JobInv, BackupJob
<1>8. Len(enc) \in Nat /\ Len(enc) # 0
  BY <1>1, <1>7
<1>9. CASE Len(enc) = 1
  <2>1. chunks \subseteq 1..enc[1].n /\ chunks \cup job["backup"].left = 1..enc[1].n /\ ~corrupt
    BY <1>1, <1>2, <1>9 DEF ChunksOfOne
  <2>2. chunks' \subseteq 1..enc[1].n /\ chunks' \cup job'["backup"].left = 1..enc[1].n
    BY <1>2, <1>3, <1>5, <1>6, <2>1
  <2>3. ChunksOfOne'
    BY <1>5, <1>7, <1>9, <2>1, <2>2 DEF ChunksOfOne
  <2>4. RestoreOfOne(job["cli"])'
    BY <1>1, <1>5, <1>6 DEF RestoreOfOne
  <2> QED BY <2>3, <2>4
<1>10. CASE ~(Len(enc) <= 1)
  <2>1. ~(Len(enc') <= 1) /\ Len(enc') # 1
    BY <1>5, <1>10, BlobCount
  <2> QED BY <2>1 DEF ChunksOfOne, RestoreOfOne
<1> QED BY <1>8, <1>9, <1>10, BlobCount

\* A backup that ends has registered all chunks; a heal ends with the mark, or
\* takes it away.
LEMMA FinishKeepsSingle ==
    ASSUME SingleInv, OnlyRestores, NEW j \in Jobs, Finish(j)
    PROVE  ChunksOfOne' /\ RestoreOfOne(job["cli"])'
<1>1. JobInv /\ ChunksOfOne /\ RestoreOfOne(job["cli"]) /\ job \in [Jobs -> JobType]
      /\ enc \in Seq([edit : 0..MaxEdits, n : Idx])
  BY DEF SingleInv, ReplInv, TypeInv, TypeOK
<1>2. /\ job' = [job EXCEPT ![j] = NoJob]
      /\ status' \in {"replicated", "pending"}
      /\ UNCHANGED <<enc, chunks, corrupt>>
      /\ job[j].pc = "chunk" /\ job[j].op \in {"replicate", "ensure"} /\ job[j].left = {}
  BY DEF Finish, Set, netVars
<1>3. /\ job[j].op = "replicate" => j = "backup"
      /\ job[j].op = "ensure" => j = "heal"
  BY <1>1, Roles
<1>4. j # "cli" /\ job'["cli"] = job["cli"]
  BY <1>1, <1>2, <1>3 DEF Jobs
<1>5. RestoreOfOne(job["cli"])'
  BY <1>1, <1>2, <1>4 DEF RestoreOfOne
<1>6. CASE job[j].op = "replicate"
  <2>1. job'["backup"].op = "none"
    BY <1>1, <1>2, <1>3, <1>6 DEF NoJob
  <2>2. Len(enc) # 0
    BY <1>1, <1>3, <1>6 DEF JobInv, BackupJob
  <2>3. Len(enc) = 1 => chunks = 1..enc[1].n
    <3> SUFFICES ASSUME Len(enc) = 1 PROVE chunks = 1..enc[1].n
      OBVIOUS
    <3>1. chunks \cup job["backup"].left = 1..enc[1].n
      BY <1>1, <1>3, <1>6, BlobCount DEF ChunksOfOne
    <3> QED BY <1>2, <1>3, <1>6, <3>1
  <2>4. Len(enc) <= 1 => Len(enc) = 1 /\ ~corrupt
    BY <1>1, <2>2, BlobCount DEF ChunksOfOne
  <2>5. ChunksOfOne'
    BY <1>2, <2>1, <2>2, <2>3, <2>4 DEF ChunksOfOne
  <2> QED BY <1>5, <2>5
<1>7. CASE job[j].op = "ensure"
  <2>1. j = "heal" /\ job'["backup"] = job["backup"]
    BY <1>1, <1>2, <1>3, <1>7 DEF Jobs
  <2>2. status = "replicated"
    BY <1>1, <1>2, <2>1 DEF JobInv, HealJob
  <2>3. ChunksOfOne'
    BY <1>1, <1>2, <1>4, <2>1, <2>2 DEF ChunksOfOne
  <2> QED BY <1>5, <2>3
<1> QED BY <1>2, <1>6, <1>7

\* Data, if not missing, of a blob that there is.
LEMMA OneBlob ==
    ASSUME NEW d \in 0..MaxRuns, d # NoData, d <= 1
    PROVE  d = 1
  BY ReplicationBounds DEF NoData

\* A restore collects the chunks of the one blob.
LEMMA RestoreCollects ==
    ASSUME SingleInv, NEW r, RestoreOfOne(job["cli"]), job["cli"].op = "recover",
           NEW i \in job["cli"].left, i \in Idx,
           \/ \E h \in reg[i] : /\ held[h][i] # NoData
                                /\ r = [job["cli"] EXCEPT !.left = @ \ {i}, !.parts[i] = held[h][i]]
           \/ r = [job["cli"] EXCEPT !.left = @ \ {i}, !.ok = FALSE]
    PROVE  RestoreOfOne(r) /\ r.op = "recover"
<1>1. /\ job["cli"] \in JobType /\ BlobInv /\ reg \in [Idx -> SUBSET Holders]
      /\ held \in [Holders -> [Idx -> 0..MaxRuns]]
  BY DEF SingleInv, ReplInv, TypeInv, TypeOK, Jobs
<1>2. CASE r = [job["cli"] EXCEPT !.left = @ \ {i}, !.ok = FALSE]
  BY <1>1, <1>2 DEF RestoreOfOne, JobType
<1>3. ASSUME NEW h \in reg[i], held[h][i] # NoData,
             r = [job["cli"] EXCEPT !.left = @ \ {i}, !.parts[i] = held[h][i]]
      PROVE  RestoreOfOne(r) /\ r.op = "recover"
  <2>1. held[h][i] \in 0..MaxRuns /\ held[h][i] <= Len(enc)
    <3>1. h \in Holders
      BY <1>1
    <3> QED BY <1>1, <3>1 DEF BlobInv
  <2>2. /\ r.op = "recover" /\ r.safe = job["cli"].safe /\ r.ok = job["cli"].ok
        /\ r.left = job["cli"].left \ {i}
        /\ \A k \in Idx : r.parts[k] = IF k = i THEN held[h][i] ELSE job["cli"].parts[k]
    BY <1>1, <1>3 DEF JobType
  <2>3. ASSUME Len(enc) = 1, r.safe, r.ok
        PROVE  /\ r.left \subseteq 1..enc[1].n
               /\ \A k \in Idx : r.parts[k] = IF k \in (1..enc[1].n) \ r.left THEN 1 ELSE NoData
    <3>1. /\ job["cli"].left \subseteq 1..enc[1].n
          /\ \A k \in Idx : job["cli"].parts[k] =
                IF k \in (1..enc[1].n) \ job["cli"].left THEN 1 ELSE NoData
      BY <2>2, <2>3 DEF RestoreOfOne
    <3>2. held[h][i] <= 1
      BY <2>1, <2>3
    <3>3. held[h][i] = 1
      BY <1>3, <2>1, <3>2, OneBlob
    <3> QED BY <2>2, <3>1, <3>3
  <2> QED BY <2>2, <2>3 DEF RestoreOfOne
<1> QED BY <1>2, <1>3

\* A restore of one blob that has all its parts decrypts.
LEMMA RestoreWhole ==
    ASSUME SingleInv, RestoreOfOne(job["cli"]), Len(enc) = 1,
           job["cli"].op = "recover", job["cli"].left = {}, job["cli"].safe, job["cli"].ok
    PROVE  job["cli"].parts[1] = 1 /\ Whole(job["cli"].parts, 1)
<1>1. enc[1].n \in Idx /\ 1 \in Idx
  <2>1. 1 \in 1..Len(enc)
    OBVIOUS
  <2> QED BY <2>1, BlobShape, ReplicationBounds DEF SingleInv, ReplInv, Idx
<1>2. \A i \in Idx : job["cli"].parts[i] = IF i \in 1..enc[1].n THEN 1 ELSE NoData
  BY DEF RestoreOfOne
<1>3. \A i \in Idx : i \in 1..enc[1].n <=> i <= enc[1].n
  BY <1>1 DEF Idx
<1> QED BY <1>1, <1>2, <1>3 DEF Whole, Idx

\* A restore of a file backed up once takes its chunks from that backup.
LEMMA RecoverKeepsSingle ==
    ASSUME SingleInv, OnlyRestores, NEW j \in Jobs,
           RecoverStart(j) \/ (\E i \in Idx : RecoverFetch(j, i)) \/ RecoverFinish(j)
    PROVE  ChunksOfOne' /\ RestoreOfOne(job["cli"])'
<1>1. JobInv /\ ChunksOfOne /\ RestoreOfOne(job["cli"]) /\ job \in [Jobs -> JobType]
      /\ "cli" \in Jobs /\ "backup" \in Jobs
  BY DEF SingleInv, ReplInv, TypeInv, TypeOK, Jobs
<1>2. j = "cli"
  BY <1>1, Roles DEF RecoverStart, RecoverFetch, RecoverFinish
<1>3. UNCHANGED <<enc, chunks, status>>
  BY DEF RecoverStart, RecoverFetch, RecoverFinish, fileVars, netVars
<1>4. job'["backup"] = job["backup"]
  BY <1>1, <1>2 DEF RecoverStart, RecoverFetch, RecoverFinish, Set
<1>5. CASE RecoverStart(j)
  <2> DEFINE safe == status = "replicated"
  <2>1. /\ job'["cli"] = [NoJob EXCEPT !.pc = "chunk", !.op = "recover", !.left = chunks,
                                       !.safe = safe]
        /\ chunks # {} /\ corrupt' = corrupt
    BY <1>1, <1>2, <1>5 DEF RecoverStart, Set
  <2>2. /\ job'["cli"].left = chunks
        /\ job'["cli"].safe = safe
        /\ \A i \in Idx : job'["cli"].parts[i] = NoData
    BY <2>1 DEF NoJob
  <2>3. ChunksOfOne'
    BY <1>1, <1>3, <1>4, <2>1 DEF ChunksOfOne
  <2>4. ASSUME Len(enc) = 1, safe PROVE chunks = 1..enc[1].n
    BY <1>1, <2>4, BlobCount DEF ChunksOfOne
  <2>5. RestoreOfOne(job'["cli"])
    BY <2>2, <2>4 DEF RestoreOfOne
  <2>6. RestoreOfOne(job["cli"])'
    BY <1>3, <2>5 DEF RestoreOfOne
  <2> QED BY <2>3, <2>6
<1>6. ASSUME NEW i \in Idx, RecoverFetch(j, i)
      PROVE  ChunksOfOne' /\ RestoreOfOne(job["cli"])'
  <2>1. /\ \/ \E h \in reg[i] : /\ held[h][i] # NoData
                                /\ job'["cli"] = [job["cli"] EXCEPT !.left = @ \ {i},
                                                                    !.parts[i] = held[h][i]]
           \/ job'["cli"] = [job["cli"] EXCEPT !.left = @ \ {i}, !.ok = FALSE]
        /\ corrupt' = corrupt /\ i \in job["cli"].left /\ job["cli"].op = "recover"
    BY <1>1, <1>2, <1>6 DEF RecoverFetch, Set
  <2>2. RestoreOfOne(job'["cli"]) /\ job'["cli"].op = "recover"
    BY <1>1, <2>1, RestoreCollects
  <2>3. ChunksOfOne'
    BY <1>1, <1>3, <1>4, <2>1 DEF ChunksOfOne
  <2> QED BY <1>3, <2>2, <2>3 DEF RestoreOfOne
<1>7. CASE RecoverFinish(j)
  <2>1. job'["cli"] = NoJob /\ NoJob.op = "none"
    BY <1>1, <1>2, <1>7 DEF RecoverFinish, Set, NoJob
  <2>2. Len(enc) # 0 \/ ~(Len(enc) <= 1)
    BY <1>1, <1>2, <1>7 DEF ChunksOfOne, RecoverFinish
  <2>3. ASSUME Len(enc) <= 1 PROVE ~corrupt'
    <3>1. Len(enc) = 1
      BY <2>2, <2>3, BlobCount
    <3>2. ~corrupt
      BY <1>1, <2>3 DEF ChunksOfOne
    <3>3. CASE job["cli"].ok /\ job["cli"].safe
      <4>1. job["cli"].parts[1] = 1 /\ Whole(job["cli"].parts, 1)
        BY <1>1, <1>2, <1>7, <3>1, <3>3, RestoreWhole DEF RecoverFinish
      <4>2. corrupt' = corrupt
        BY <1>2, <1>7, <3>3, <4>1 DEF RecoverFinish, NoData
      <4> QED BY <3>2, <4>2
    <3>4. CASE ~(job["cli"].ok /\ job["cli"].safe)
      BY <1>2, <1>7, <3>2, <3>4 DEF RecoverFinish
    <3> QED BY <3>3, <3>4
  <2>4. ChunksOfOne'
    BY <1>1, <1>3, <1>4, <2>1, <2>3 DEF ChunksOfOne
  <2> QED BY <2>1, <2>4 DEF RestoreOfOne
<1> QED BY <1>5, <1>6, <1>7

\* Every step keeps this too.
LEMMA SingleStep == OnlyRestores /\ SingleInv /\ [Next]_vars => SingleInv'
<1> SUFFICES ASSUME OnlyRestores, SingleInv, [Next]_vars PROVE SingleInv'
  OBVIOUS
<1>1. ReplInv'
  BY ReplStep DEF SingleInv
<1>2. ASSUME NEW j \in Jobs, JobStep(j) PROVE ChunksOfOne' /\ RestoreOfOne(job["cli"])'
  BY <1>2, PushKeepsSingle, HealKeepsSingle, ReplicateKeepsSingle, PlaceKeepsSingle,
     FinishKeepsSingle, RecoverKeepsSingle DEF JobStep
<1>3. ASSUME NEW j \in Jobs, Abort(j) PROVE ChunksOfOne' /\ RestoreOfOne(job["cli"])'
  <2>1. (\A k \in Jobs \ {j} : job'[k] = job[k]) /\ job'[j].op = "none"
    BY <1>3 DEF Abort, Set, NoJob, SingleInv, ReplInv, TypeInv, TypeOK
  <2>2. UNCHANGED <<enc, chunks, status, corrupt>>
    BY <1>3 DEF Abort, fileVars, netVars
  <2> QED BY <2>1, <2>2, SingleLocal
<1>4. ASSUME Outside \/ UNCHANGED vars PROVE ChunksOfOne' /\ RestoreOfOne(job["cli"])'
  <2>1. UNCHANGED <<enc, chunks, status, corrupt, job>>
    BY <1>4 DEF Outside, Edit, GoOffline, GoOnline, vars, fileVars, netVars
  <2> QED BY <2>1, SingleQuiet
<1>5. \/ \E j \in Jobs : JobStep(j)
      \/ \E j \in Jobs : Abort(j)
      \/ Outside \/ UNCHANGED vars
  BY DEF Next, Outside
<1> QED BY <1>1, <1>2, <1>3, <1>4, <1>5 DEF SingleInv

\* A file that was encrypted once and is marked replicated is restored whenever
\* the chunks are found, for any number of holders and chunks and whatever was
\* healed, lost or stored twice in the meantime: the server lists the chunks of
\* that blob and no other, and recover finds exactly those.
THEOREM SingleBackupsRestore ==
    ASSUME OnlyRestores
    PROVE  Spec => []SingleBackupRestores
<1>1. Init => SingleInv
  <2> SUFFICES ASSUME Init PROVE SingleInv
    OBVIOUS
  <2>1. ChunksOfOne /\ RestoreOfOne(job["cli"])
    BY DEF Init, ChunksOfOne, RestoreOfOne, NoJob, Jobs
  <2> QED BY <2>1, InitRepl DEF SingleInv
<1>2. SingleInv /\ [Next]_vars => SingleInv'
  BY SingleStep
<1>3. SingleInv => SingleBackupRestores
  BY DEF SingleInv, ChunksOfOne, SingleBackupRestores
<1> QED BY <1>1, <1>2, <1>3, PTL DEF Spec
==============================================================================
