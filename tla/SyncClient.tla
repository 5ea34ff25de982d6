----------------------------- MODULE SyncClient -----------------------------
(***************************************************************************)
(* Metadata synchronisation of one user's devices                          *)
(* (stardustlib/sync_client.py, metadata_store.py, conflict_resolver.py,   *)
(* cli/session.py).                                                        *)
(*                                                                         *)
(* Every device owns one SQLite metadata database, db[d], shared by two    *)
(* processes: the resident daemon and the one-shot CLI.  Each process has  *)
(* its own SyncClient object with its own _last_synced_version.  In the    *)
(* daemon two coroutines share that object, the periodic loop and the      *)
(* long-poll loop.  A coroutine is a "worker" here; it gives up control at *)
(* every await, and one action below is what it does between two awaits.   *)
(*                                                                         *)
(* The central server (another repository) keeps one opaque blob and a     *)
(* version.  hist is every blob it ever accepted, hist[v] being version v: *)
(* the server itself only holds the last one.  A PUT with X-Base-Version   *)
(* is accepted when the base is the current version, otherwise answered    *)
(* 409; a PUT without that header is always accepted.                      *)
(***************************************************************************)
EXTENDS Integers, Sequences, FiniteSets

CONSTANTS
    Devices,        \* the user's devices
    Files,          \* virtual paths the user edits
    Seeded,         \* the ones that exist when the behaviour starts
    Workers,        \* coroutines, a set of <<device, kind>>
    NoRec,          \* a virtual path without a row in the files table
    MaxCasRetries,  \* _MAX_CAS_RETRIES
    MaxEdits,       \* bound: writes and deletions the user makes
    MaxMoves,       \* bound: mv commands the user makes
    MaxLoss,        \* bound: requests or answers that are lost or time out
    MaxEra,         \* bound: times a whole tombstone retention period passes
    QuietUser       \* TRUE: the user edits only between uploads (see CanEdit)

Kinds == {"periodic", "wait", "cli"}

ASSUME WorkersAssumption == Workers \subseteq Devices \X Kinds

ASSUME BoundsAssumption ==
    /\ MaxCasRetries \in Nat \ {0}
    /\ MaxEdits \in Nat
    /\ MaxMoves \in Nat
    /\ MaxLoss \in Nat
    /\ MaxEra \in Nat
    /\ QuietUser \in BOOLEAN

Dev(w) == w[1]

Kind(w) == w[2]

Clients == Devices \X {"daemon", "cli"}

\* The SyncClient object a worker runs on.
Client(w) == <<Dev(w), IF Kind(w) = "cli" THEN "cli" ELSE "daemon">>

(***************************************************************************)
(* Rows of the files table.  ver, st (sync_status), del (deleted) and mod  *)
(* (modified_at, in retention periods) are columns.  edit and past are     *)
(* observations the code does not keep: the user operation the row is the  *)
(* result of (0: the seeded content) and the operations it superseded      *)
(* knowingly, i.e. the ones its author saw at that path.                   *)
(***************************************************************************)
EditIds == 0..MaxEdits

Copy(p, e) == <<p, e>>

\* generate_conflict_name: device name and time stamp make the name fresh.
\* The edit that is put aside identifies both.
Copies == {Copy(p, e) : p \in Files, e \in EditIds}

ASSUME PathsAssumption == Files \cap Copies = {} /\ Seeded \subseteq Files

Paths == Files \cup Copies

Statuses == {"synced", "pending", "conflict"}

Rec == [ver : Nat, st : Statuses, del : BOOLEAN, mod : Nat,
        edit : EditIds, past : SUBSET EditIds]

ASSUME NoRecAssumption == NoRec \notin Rec

DB == [Paths -> Rec \cup {NoRec}]

Exists(r) == r # NoRec

Live(r) == r # NoRec /\ ~r.del

NoBase == -1   \* a PUT without X-Base-Version (_force_upload)

Never == -1    \* no syncstate file: this device has never synced

VARIABLES
    db,          \* db[d]: the metadata database of device d
    hist,        \* external: blobs the server accepted, oldest first
    late,        \* external: PUTs whose sender gave up, still in the network
    lastSynced,  \* lastSynced[c]: _last_synced_version of a SyncClient
    pc,          \* pc[w]: the await a worker is at
    cap,         \* cap[w]: upload_metadata's pending_files
    put,         \* put[w]: body and X-Base-Version of the PUT in flight
    sv,          \* sv[w]: server_version, from a status or an upload answer
    fv,          \* fv[w]: the version of the blob a GET was answered with
    att,         \* att[w]: upload_metadata's attempt (0: not in upload_metadata)
    ret,         \* ret[w]: where the call the worker is in returns to
    now,         \* retention periods that have passed
    syncAt,      \* syncAt[d]: last_sync_at in the syncstate file of device d
    nedits,      \* user edits so far
    nloss,       \* losses so far
    gone,        \* observation: paths whose row some device removed
    moved        \* observation: the <<src, dst>> of every mv

netVars == <<hist, late>>
callVars == <<cap, put, sv, fv, att, ret>>   \* a worker's locals
timeVars == <<now, syncAt>>
obsVars == <<nedits, gone, moved>>
vars == <<db, hist, late, lastSynced, pc, cap, put, sv, fv, att, ret,
          now, syncAt, nedits, nloss, gone, moved>>

NoPut == [blob |-> NoRec, base |-> NoBase]

Puts == [blob : DB, base : Nat \cup {NoBase}]

PCs == {"off", "boot", "isolated", "bootUpload", "bootLoop", "start", "idle",
        "gotInit", "ready", "upload", "loop", "token", "put",
        "accepted", "rejected", "gotStatus", "fetch", "gotBlob", "force"}

Returns == {"idle", "start", "ready", "upload", "loop", "bootUpload",
            "bootLoop"}

\* Where a worker is when its process has just started.  The periodic
\* worker also runs the daemon's start-up; the long-poll worker starts
\* when that is done; the CLI has no session.
Fresh(w) == CASE Kind(w) = "periodic" -> "boot"
              [] Kind(w) = "wait" -> "off"
              [] Kind(w) = "cli" -> "idle"

\* The type invariant: every device's table, its sync state, each process's step
\* and the server's versions keep their shape.
TypeOK ==
    /\ db \in [Devices -> DB]
    /\ hist \in Seq(DB)
    /\ late \subseteq Puts
    /\ lastSynced \in [Clients -> Nat]
    /\ pc \in [Workers -> PCs]
    /\ cap \in [Workers -> SUBSET Paths]
    /\ put \in [Workers -> Puts \cup {NoPut}]
    /\ sv \in [Workers -> Nat]
    /\ fv \in [Workers -> Nat]
    /\ att \in [Workers -> 0..MaxCasRetries]
    /\ ret \in [Workers -> Returns]
    /\ now \in 0..MaxEra
    /\ syncAt \in [Devices -> 0..MaxEra \cup {Never}]
    /\ nedits \in 0..MaxEdits
    /\ nloss \in 0..MaxLoss
    /\ gone \subseteq Paths
    /\ moved \subseteq Files \X Files

SeedRec == [ver |-> 1, st |-> "synced", del |-> FALSE, mod |-> 0,
            edit |-> 0, past |-> {}]

Seed == [p \in Paths |-> IF p \in Seeded THEN SeedRec ELSE NoRec]

Empty == [p \in Paths |-> NoRec]

InitClients ==
    /\ late = {}
    /\ lastSynced = [c \in Clients |-> 0]
    /\ pc = [w \in Workers |-> Fresh(w)]
    /\ cap = [w \in Workers |-> {}]
    /\ put = [w \in Workers |-> NoPut]
    /\ sv = [w \in Workers |-> 0]
    /\ fv = [w \in Workers |-> 0]
    /\ att = [w \in Workers |-> 0]
    /\ ret = [w \in Workers |-> "idle"]
    /\ nedits = 0
    /\ nloss = 0
    /\ gone = {}
    /\ moved = {}

\* The account already has metadata and every device has it.
Init ==
    /\ db = [d \in Devices |-> Seed]
    /\ hist = <<Seed>>
    /\ now = 0
    /\ syncAt = [d \in Devices |-> 0]
    /\ InitClients

\* A new account: nothing on the server, nothing on the devices.  Bound: no
\* retention period passes.
InitFirst ==
    /\ db = [d \in Devices |-> Empty]
    /\ hist = <<>>
    /\ now = MaxEra
    /\ syncAt = [d \in Devices |-> Never]
    /\ InitClients

-----------------------------------------------------------------------------
(***************************************************************************)
(* MetadataStore                                                           *)
(***************************************************************************)

\* Mutant: get_pending_files skips tombstones.
PendingLive(t) == {p \in Paths : Live(t[p]) /\ t[p].st = "pending"}

\* get_pending_files
Pending(t) == {p \in Paths : Exists(t[p]) /\ t[p].st = "pending"}

\* The tombstones purge_expired_tombstones deletes, pending ones included.
Expired(t) == {p \in Paths : Exists(t[p]) /\ t[p].del /\ t[p].mod < now}

\* The table without the rows of X.
Without(t, X) == [p \in Paths |-> IF p \in X THEN NoRec ELSE t[p]]

\* set_sync_status(path, "synced") for every path of S: by path, whatever
\* the row's version is by now; no row, no effect.
MarkSynced(t, S) ==
    [p \in Paths |-> IF p \in S /\ Exists(t[p])
                     THEN [t[p] EXCEPT !.st = "synced"] ELSE t[p]]

\* Mutant: update leaves sync_status alone.
WrittenQuietly(r, e, deleted) ==
    [ver |-> IF Exists(r) THEN r.ver + 1 ELSE 1,
     st |-> IF Exists(r) THEN r.st ELSE "pending", del |-> deleted, mod |-> now,
     edit |-> e, past |-> IF Exists(r) THEN r.past \cup {r.edit} ELSE {}]

\* insert / update: version 1, or version + 1 over whatever row is there.
Written(r, e, deleted) ==
    IF Exists(r)
    THEN [ver |-> r.ver + 1, st |-> "pending", del |-> deleted,
          mod |-> now, edit |-> e, past |-> r.past \cup {r.edit}]
    ELSE [ver |-> 1, st |-> "pending", del |-> deleted,
          mod |-> now, edit |-> e, past |-> {}]

-----------------------------------------------------------------------------
(***************************************************************************)
(* SyncClient._merge_server_metadata                                       *)
(***************************************************************************)

\* local_base_version of _merge_record
BaseVersion(l) == IF l.st = "pending" THEN l.ver - 1 ELSE l.ver

\* Mutant: the server's version is compared with the local one, not the base.
IsConflictStrict(l, s) == s.ver > l.ver /\ l.ver > BaseVersion(l)

\* ConflictResolver.detect_conflict, and the same test in _merge_record
IsConflict(l, s) == s.ver > BaseVersion(l) /\ l.ver > BaseVersion(l)

\* The rows of t that a merge of server blob s puts aside.
Conflicts(t, s) ==
    {p \in Files : Exists(t[p]) /\ Exists(s[p]) /\ IsConflict(t[p], s[p])}

\* _insert_from_server, _update_from_server
FromServer(s) == [s EXCEPT !.st = "synced"]

\* Mutant: a row that is there is never updated from the server.
MergeRecordStale(l, s) ==
    CASE ~Exists(s) -> l
      [] Exists(s) /\ ~Exists(l) -> IF s.del THEN NoRec ELSE FromServer(s)
      [] Exists(s) /\ Exists(l) -> IF IsConflict(l, s) THEN FromServer(s) ELSE l

\* What _merge_record leaves at the path of server record s.
MergeRecord(l, s) ==
    CASE ~Exists(s) -> l
      [] Exists(s) /\ ~Exists(l) -> IF s.del THEN NoRec ELSE FromServer(s)
      [] Exists(s) /\ Exists(l) /\ IsConflict(l, s) -> FromServer(s)
      [] Exists(s) /\ Exists(l) /\ ~IsConflict(l, s) ->
            IF s.ver > l.ver THEN FromServer(s) ELSE l

\* The name of a conflict copy is taken by no row, here or on the server.
FreshName(t, s, p) == ~Exists(t[p]) /\ ~Exists(s[p])

\* Mutant: a conflict makes no copy.
MergeNoCopy(t, s) == [p \in Paths |-> MergeRecord(t[p], s[p])]

\* The whole merge.  Rows are independent of each other, so it does not
\* matter in which order they are taken.  A row in conflict is renamed to
\* its conflict copy, tombstone or not (ConflictResolver.resolve_conflict).
Merge(t, s) ==
    LET C == Conflicts(t, s) IN
    [p \in Paths |->
        IF \E f \in C : p = Copy(f, t[f].edit) /\ FreshName(t, s, p)
        THEN LET f == CHOOSE f \in C : p = Copy(f, t[f].edit)
             IN  [t[f] EXCEPT !.st = "conflict"]
        ELSE MergeRecord(t[p], s[p])]

-----------------------------------------------------------------------------
(***************************************************************************)
(* Start-up of the two processes: initial_sync                             *)
(***************************************************************************)

\* Bound: no session is opened that could not edit any more.
SessionsLeft == nedits < MaxEdits \/ Cardinality(moved) < MaxMoves

\* A CLI session opens: a new SyncClient object, and the server answers
\* initial_sync's GET /sync/metadata, with 404 when it has nothing.
OpenSession(w) ==
    /\ Kind(w) = "cli"
    /\ pc[w] = "idle"
    /\ SessionsLeft
    /\ lastSynced' = [lastSynced EXCEPT ![Client(w)] = 0]
    /\ fv' = [fv EXCEPT ![w] = Len(hist)]
    /\ ret' = [ret EXCEPT ![w] = "ready"]
    /\ pc' = [pc EXCEPT ![w] = IF Len(hist) = 0 THEN "force" ELSE "gotInit"]
    /\ UNCHANGED <<db, netVars, cap, put, sv, att, timeVars, nloss, obsVars>>

\* _is_stale: a whole retention period since the last recorded success.
Stale(d) == syncAt[d] # Never /\ syncAt[d] < now

\* The live pending rows reconcile_if_stale renames, those whose conflict
\* name is free.  A row that already is a conflict copy keeps its name here:
\* the second name is not told from the first.
PutAside(t) ==
    {p \in Files : /\ p \in Pending(t) /\ Live(t[p])
                   /\ ~Exists(t[Copy(p, t[p].edit)])}

\* Mutant: the row is removed and not kept under the other name.
IsolatedNowhere(t) == Without(t, PutAside(t))

\* The table after these rows were renamed, still pending.
Isolated(t) ==
    [p \in Paths |->
        IF p \in PutAside(t) THEN NoRec
        ELSE IF \E f \in PutAside(t) : p = Copy(f, t[f].edit)
        THEN LET f == CHOOSE f \in PutAside(t) : p = Copy(f, t[f].edit)
             IN  [t[f] EXCEPT !.st = "pending"]
        ELSE t[p]]

\* reconcile_if_stale, up to its own call of initial_sync.  If it put
\* anything aside an upload follows.
Isolate(w) ==
    /\ pc[w] = "boot"
    /\ Stale(Dev(w))
    /\ LET t == db[Dev(w)]
       IN  /\ db' = [db EXCEPT ![Dev(w)] = Isolated(t)]
           /\ gone' = gone \cup PutAside(t)
           /\ ret' = [ret EXCEPT ![w] =
                         IF \E p \in Pending(t) : Live(t[p])
                         THEN "bootUpload" ELSE "start"]
    /\ lastSynced' = [lastSynced EXCEPT ![Client(w)] = 0]
    /\ pc' = [pc EXCEPT ![w] = "isolated"]
    /\ UNCHANGED <<netVars, cap, put, sv, fv, att, timeVars, nloss, nedits,
                   moved>>

\* The daemon's start-up calls initial_sync too, itself or at the end of
\* reconcile_if_stale.
BootSync(w) ==
    /\ \/ /\ pc[w] = "boot"
          /\ ~Stale(Dev(w))
          /\ ret' = [ret EXCEPT ![w] = "start"]
       \/ /\ pc[w] = "isolated"
          /\ ret' = ret
    /\ fv' = [fv EXCEPT ![w] = Len(hist)]
    /\ pc' = [pc EXCEPT ![w] = IF Len(hist) = 0 THEN "force" ELSE "gotInit"]
    /\ UNCHANGED <<db, netVars, lastSynced, cap, put, sv, att, timeVars, nloss,
                   obsVars>>

\* initial_sync merges; _last_synced_version stays as it is.
InitialMerge(w) ==
    /\ pc[w] = "gotInit"
    /\ db' = [db EXCEPT ![Dev(w)] = Merge(@, hist[fv[w]])]
    /\ fv' = [fv EXCEPT ![w] = 0]
    /\ pc' = [pc EXCEPT ![w] = ret[w]]
    /\ UNCHANGED <<netVars, lastSynced, cap, put, sv, att, ret, timeVars,
                   nloss, obsVars>>

\* start_periodic_sync creates the two tasks of the daemon.
StartPeriodicSync(w) ==
    /\ pc[w] = "start"
    /\ pc' = [v \in Workers |->
                IF Client(v) = Client(w) THEN "idle" ELSE pc[v]]
    /\ UNCHANGED <<db, netVars, lastSynced, callVars, timeVars, nloss,
                   obsVars>>

-----------------------------------------------------------------------------
(***************************************************************************)
(* The user's command, in the middle of a CLI session                      *)
(***************************************************************************)

Uploading(d) == \E w \in Workers : Dev(w) = d /\ cap[w] # {}

\* With QuietUser the user waits until the device has nothing pending and
\* no upload in flight; otherwise commands come whenever they come.
CanEdit(d) ==
    QuietUser => Pending(db[d]) = {} /\ ~Uploading(d)

\* put (write_file): creates, overwrites, takes over or reactivates.
WriteFile(w, p) ==
    /\ pc[w] = "ready"
    /\ nedits < MaxEdits
    /\ CanEdit(Dev(w))
    /\ db' = [db EXCEPT ![Dev(w)][p] = Written(@, nedits + 1, FALSE)]
    /\ nedits' = nedits + 1
    /\ pc' = [pc EXCEPT ![w] = "upload"]
    /\ UNCHANGED <<netVars, lastSynced, callVars, timeVars, nloss, gone,
                   moved>>

\* rm (delete_file): the row becomes a tombstone.
DeleteFile(w, p) ==
    /\ pc[w] = "ready"
    /\ nedits < MaxEdits
    /\ CanEdit(Dev(w))
    /\ Live(db[Dev(w)][p])
    /\ db' = [db EXCEPT ![Dev(w)][p] = Written(@, nedits + 1, TRUE)]
    /\ nedits' = nedits + 1
    /\ pc' = [pc EXCEPT ![w] = "upload"]
    /\ UNCHANGED <<netVars, lastSynced, callVars, timeVars, nloss, gone,
                   moved>>

\* mv (move_file): the row gets another path, nothing else changes.  A
\* row at the destination, even a tombstone, makes SQLite refuse it.
MoveFile(w, p, q) ==
    /\ pc[w] = "ready"
    /\ Cardinality(moved) < MaxMoves
    /\ CanEdit(Dev(w))
    /\ Live(db[Dev(w)][p])
    /\ ~Exists(db[Dev(w)][q])
    /\ db' = [db EXCEPT ![Dev(w)] = [@ EXCEPT ![q] = db[Dev(w)][p],
                                              ![p] = NoRec]]
    /\ gone' = gone \cup {p}
    /\ moved' = moved \cup {<<p, q>>}
    /\ pc' = [pc EXCEPT ![w] = "upload"]
    /\ UNCHANGED <<netVars, lastSynced, callVars, timeVars, nloss, nedits>>

\* get, or a command that fails: the session ends without an edit.
CloseSession(w) ==
    /\ pc[w] = "ready"
    /\ pc' = [pc EXCEPT ![w] = "idle"]
    /\ UNCHANGED <<db, netVars, lastSynced, callVars, timeVars, nloss,
                   obsVars>>

-----------------------------------------------------------------------------
(***************************************************************************)
(* SyncClient.upload_metadata and _force_upload                            *)
(***************************************************************************)

\* upload_metadata returns to the loops, or to the start-up after a reconcile.
Caller(w) == IF pc[w] \in {"bootUpload", "bootLoop"} THEN "start" ELSE "idle"

\* Nothing pending: return.  Otherwise purge tombstones, take the list of
\* pending files and wait for a token.
UploadStart(w) ==
    /\ pc[w] \in {"upload", "bootUpload"}
    /\ LET t == db[Dev(w)]
           X == IF Pending(t) = {} THEN {} ELSE Expired(t)
           C == Pending(t) \ X
       IN  /\ db' = [db EXCEPT ![Dev(w)] = Without(t, X)]
           /\ gone' = gone \cup X
           /\ cap' = [cap EXCEPT ![w] = C]
           /\ att' = [att EXCEPT ![w] = IF C = {} THEN 0 ELSE 1]
           /\ pc' = [pc EXCEPT ![w] = IF C = {} THEN Caller(w) ELSE "token"]
    /\ ret' = [ret EXCEPT ![w] = Caller(w)]
    /\ UNCHANGED <<netVars, lastSynced, put, sv, fv, timeVars, nloss, nedits,
                   moved>>

\* The retry loop of upload_metadata, called by the loops or by the start-up.
Loops == {"loop", "bootLoop"}

\* Mutant: the retry loop allows one turn too many.
UploadRetryOnceMore(w) ==
    /\ pc[w] \in Loops
    /\ LET C == IF att[w] <= MaxCasRetries THEN Pending(db[Dev(w)]) ELSE {}
       IN  /\ cap' = [cap EXCEPT ![w] = C]
           /\ att' = [att EXCEPT ![w] = IF C = {} THEN 0 ELSE @ + 1]
           /\ pc' = [pc EXCEPT ![w] = IF C = {} THEN Caller(w) ELSE "token"]
    /\ ret' = [ret EXCEPT ![w] = Caller(w)]
    /\ UNCHANGED <<db, netVars, lastSynced, put, sv, fv, timeVars, nloss,
                   obsVars>>

\* The next turn of the retry loop, after a 409 and a merge.
UploadRetry(w) ==
    /\ pc[w] \in Loops
    /\ LET C == IF att[w] < MaxCasRetries THEN Pending(db[Dev(w)]) ELSE {}
       IN  /\ cap' = [cap EXCEPT ![w] = C]
           /\ att' = [att EXCEPT ![w] = IF C = {} THEN 0 ELSE @ + 1]
           /\ pc' = [pc EXCEPT ![w] = IF C = {} THEN Caller(w) ELSE "token"]
    /\ ret' = [ret EXCEPT ![w] = Caller(w)]
    /\ UNCHANGED <<db, netVars, lastSynced, put, sv, fv, timeVars, nloss,
                   obsVars>>

\* Checkpoint, read the database file, read _last_synced_version, send.
UploadSend(w) ==
    /\ pc[w] = "token"
    /\ put' = [put EXCEPT ![w] = [blob |-> db[Dev(w)],
                                  base |-> lastSynced[Client(w)]]]
    /\ pc' = [pc EXCEPT ![w] = "put"]
    /\ UNCHANGED <<db, netVars, lastSynced, cap, sv, fv, att, ret, timeVars,
                   nloss, obsVars>>

\* _force_upload sends the same body without X-Base-Version.
ForceSend(w) ==
    /\ pc[w] = "force"
    /\ put' = [put EXCEPT ![w] = [blob |-> db[Dev(w)], base |-> NoBase]]
    /\ pc' = [pc EXCEPT ![w] = "put"]
    /\ UNCHANGED <<db, netVars, lastSynced, cap, sv, fv, att, ret, timeVars,
                   nloss, obsVars>>

\* The server's compare-and-set.
Accepts(m) == m.base = NoBase \/ m.base = Len(hist)

ServerAccept(w) ==
    /\ pc[w] = "put"
    /\ Accepts(put[w])
    /\ hist' = Append(hist, put[w].blob)
    /\ sv' = [sv EXCEPT ![w] = Len(hist) + 1]
    /\ pc' = [pc EXCEPT ![w] = "accepted"]
    /\ UNCHANGED <<db, late, lastSynced, cap, put, fv, att, ret, timeVars,
                   nloss, obsVars>>

\* 409: upload_metadata calls _download_and_merge and then retries.
ServerReject(w) ==
    /\ pc[w] = "put"
    /\ ~Accepts(put[w])
    /\ put' = [put EXCEPT ![w] = NoPut]
    /\ cap' = [cap EXCEPT ![w] = {}]
    /\ ret' = [ret EXCEPT ![w] = IF @ = "start" THEN "bootLoop" ELSE "loop"]
    /\ pc' = [pc EXCEPT ![w] = "rejected"]
    /\ UNCHANGED <<db, netVars, lastSynced, sv, fv, att, timeVars, nloss,
                   obsVars>>

\* The answer to an accepted upload: _last_synced_version, then every
\* captured path is marked synced.  After _force_upload it is every path
\* that is pending by now.
UploadDone(w) ==
    /\ pc[w] = "accepted"
    /\ LET S == IF put[w].base = NoBase THEN Pending(db[Dev(w)]) ELSE cap[w]
       IN  db' = [db EXCEPT ![Dev(w)] = MarkSynced(@, S)]
    /\ lastSynced' = [lastSynced EXCEPT ![Client(w)] = sv[w]]
    /\ cap' = [cap EXCEPT ![w] = {}]
    /\ put' = [put EXCEPT ![w] = NoPut]
    /\ sv' = [sv EXCEPT ![w] = 0]
    /\ fv' = [fv EXCEPT ![w] = 0]
    /\ att' = [att EXCEPT ![w] = IF ret[w] \in Loops THEN @ ELSE 0]
    /\ pc' = [pc EXCEPT ![w] = ret[w]]
    /\ syncAt' = [syncAt EXCEPT ![Dev(w)] = now]
    /\ UNCHANGED <<netVars, ret, now, nloss, obsVars>>

-----------------------------------------------------------------------------
(***************************************************************************)
(* SyncClient._download_and_merge                                          *)
(***************************************************************************)

\* The long poll's answer: the server has more than known_version.
Changed(w) == Len(hist) > lastSynced[Client(w)]

\* Called by the periodic loop, by the long-poll loop when the server
\* reports a newer version, and by upload_metadata after a 409.  The
\* server answers GET /sync/metadata/status.
DownloadStatus(w) ==
    /\ \/ /\ pc[w] = "rejected"
          /\ ret' = ret
       \/ /\ pc[w] = "idle"
          /\ Kind(w) = "periodic"
          /\ ret' = [ret EXCEPT ![w] = "upload"]
       \/ /\ pc[w] = "idle"
          /\ Kind(w) = "wait"
          /\ Changed(w)
          /\ ret' = [ret EXCEPT ![w] = "idle"]
    /\ sv' = [sv EXCEPT ![w] = Len(hist)]
    /\ pc' = [pc EXCEPT ![w] = "gotStatus"]
    /\ UNCHANGED <<db, netVars, lastSynced, cap, put, fv, att, timeVars, nloss,
                   obsVars>>

\* Mutant: the version is remembered before the blob is there.
HandleStatusEarly(w) ==
    /\ pc[w] = "gotStatus"
    /\ IF sv[w] \in 1..lastSynced[Client(w)]
       THEN pc' = [pc EXCEPT ![w] = ret[w]] /\ sv' = [sv EXCEPT ![w] = 0]
       ELSE pc' = [pc EXCEPT ![w] = IF sv[w] = 0 THEN "force" ELSE "fetch"] /\ sv' = sv
    /\ lastSynced' = [lastSynced EXCEPT ![Client(w)] = sv[w]]
    /\ UNCHANGED <<db, netVars, cap, put, fv, att, ret, timeVars, nloss,
                   obsVars>>

\* No metadata on the server, nothing newer than what was merged, or GET.
HandleStatus(w) ==
    /\ pc[w] = "gotStatus"
    /\ \/ /\ sv[w] = 0
          /\ pc' = [pc EXCEPT ![w] = "force"]
          /\ sv' = sv
       \/ /\ sv[w] \in 1..lastSynced[Client(w)]
          /\ pc' = [pc EXCEPT ![w] = ret[w]]
          /\ sv' = [sv EXCEPT ![w] = 0]
       \/ /\ sv[w] > lastSynced[Client(w)]
          /\ pc' = [pc EXCEPT ![w] = "fetch"]
          /\ sv' = sv
    /\ UNCHANGED <<db, netVars, lastSynced, cap, put, fv, att, ret, timeVars,
                   nloss, obsVars>>

\* GET /sync/metadata is answered with the blob of that moment.
ServerGet(w) ==
    /\ pc[w] = "fetch"
    /\ fv' = [fv EXCEPT ![w] = Len(hist)]
    /\ pc' = [pc EXCEPT ![w] = "gotBlob"]
    /\ UNCHANGED <<db, netVars, lastSynced, cap, put, sv, att, ret, timeVars,
                   nloss, obsVars>>

\* Merge the blob, remember the version the status answer had named, then
\* purge expired tombstones.
DownloadMerge(w) ==
    /\ pc[w] = "gotBlob"
    /\ LET m == Merge(db[Dev(w)], hist[fv[w]])
       IN  /\ db' = [db EXCEPT ![Dev(w)] = Without(m, Expired(m))]
           /\ gone' = gone \cup Expired(m)
    /\ lastSynced' = [lastSynced EXCEPT ![Client(w)] = sv[w]]
    /\ sv' = [sv EXCEPT ![w] = 0]
    /\ fv' = [fv EXCEPT ![w] = 0]
    /\ pc' = [pc EXCEPT ![w] = ret[w]]
    /\ syncAt' = [syncAt EXCEPT ![Dev(w)] = now]
    /\ UNCHANGED <<netVars, cap, put, att, ret, now, nloss, nedits, moved>>

-----------------------------------------------------------------------------
(***************************************************************************)
(* Failures                                                                *)
(***************************************************************************)

\* The awaits at which a request or its answer can be lost.
Awaiting == {"gotInit", "force", "token", "put", "accepted", "rejected",
             "gotStatus", "fetch", "gotBlob"}

\* A request, or its answer, is lost, times out or comes back as an error.
\* initial_sync falls back on the local database, _download_and_merge and
\* _force_upload return, upload_metadata gives up until the next cycle.  A
\* PUT that timed out may still reach the server.
Fail(w) ==
    /\ pc[w] \in Awaiting
    /\ nloss < MaxLoss
    /\ nloss' = nloss + 1
    /\ late' = IF pc[w] = "put" THEN late \cup {put[w]} ELSE late
    /\ pc' = [pc EXCEPT ![w] = ret[w]]
    /\ att' = [att EXCEPT ![w] = IF ret[w] \in Loops THEN @ ELSE 0]
    /\ put' = [put EXCEPT ![w] = NoPut]
    /\ cap' = [cap EXCEPT ![w] = {}]
    /\ sv' = [sv EXCEPT ![w] = 0]
    /\ fv' = [fv EXCEPT ![w] = 0]
    /\ UNCHANGED <<db, hist, lastSynced, ret, timeVars, obsVars>>

\* The server gets such a PUT after all and finds its base current.
LateAccept ==
    /\ \E m \in late :
        /\ Accepts(m)
        /\ hist' = Append(hist, m.blob)
        /\ late' = late \ {m}
    /\ UNCHANGED <<db, lastSynced, pc, callVars, timeVars, nloss, obsVars>>

\* The daemon dies, at whatever awaits its coroutines are, and is started
\* again with a new SyncClient.
RestartDaemon(d) ==
    LET W == {w \in Workers : Client(w) = <<d, "daemon">>} IN
    /\ W # {}
    /\ nloss < MaxLoss
    /\ nloss' = nloss + 1
    /\ late' = late \cup {put[w] : w \in {v \in W : pc[v] = "put"}}
    /\ pc' = [w \in Workers |-> IF w \in W THEN Fresh(w) ELSE pc[w]]
    /\ cap' = [w \in Workers |-> IF w \in W THEN {} ELSE cap[w]]
    /\ put' = [w \in Workers |-> IF w \in W THEN NoPut ELSE put[w]]
    /\ sv' = [w \in Workers |-> IF w \in W THEN 0 ELSE sv[w]]
    /\ fv' = [w \in Workers |-> IF w \in W THEN 0 ELSE fv[w]]
    /\ att' = [w \in Workers |-> IF w \in W THEN 0 ELSE att[w]]
    /\ ret' = [w \in Workers |-> IF w \in W THEN "idle" ELSE ret[w]]
    /\ lastSynced' = [lastSynced EXCEPT ![<<d, "daemon">>] = 0]
    /\ UNCHANGED <<db, hist, timeVars, obsVars>>

\* A retention period passes.
Elapse ==
    /\ now < MaxEra
    /\ now' = now + 1
    /\ UNCHANGED <<syncAt, db, netVars, lastSynced, pc, callVars, nloss,
                   obsVars>>

-----------------------------------------------------------------------------
UserCommand(w) ==
    \/ \E p \in Files : WriteFile(w, p)
    \/ \E p \in Files : DeleteFile(w, p)
    \/ \E p, q \in Files : MoveFile(w, p, q)

\* The steps a worker takes by itself, and the server's answers to them.
WorkerStep(w) ==
    \/ Isolate(w)
    \/ BootSync(w)
    \/ InitialMerge(w)
    \/ StartPeriodicSync(w)
    \/ UploadStart(w)
    \/ UploadRetry(w)
    \/ UploadSend(w)
    \/ ForceSend(w)
    \/ ServerAccept(w)
    \/ ServerReject(w)
    \/ UploadDone(w)
    \/ DownloadStatus(w)
    \/ HandleStatus(w)
    \/ ServerGet(w)
    \/ DownloadMerge(w)

Next ==
    \/ \E w \in Workers : WorkerStep(w)
    \/ \E w \in Workers : OpenSession(w)
    \/ \E w \in Workers : UserCommand(w)
    \/ \E w \in Workers : CloseSession(w)
    \/ \E w \in Workers : Fail(w)
    \/ \E d \in Devices : RestartDaemon(d)
    \/ LateAccept
    \/ Elapse

Spec == Init /\ [][Next]_vars

SpecAny == (Init \/ InitFirst) /\ [][Next]_vars

\* A coroutine whose await has been answered runs again: the event loop
\* does not starve it, and the server answers what is not lost.
Fairness == \A w \in Workers : WF_vars(WorkerStep(w))

FairSpec == Spec /\ Fairness

FairSpecAny == SpecAny /\ Fairness

-----------------------------------------------------------------------------
(***************************************************************************)
(* Properties                                                              *)
(***************************************************************************)

\* The server's blobs are the abstract log.
Log == INSTANCE MetadataLog
         WITH Paths <- Paths, NoRec <- NoRec, log <- hist, removed <- gone

Dominates(b, a) == Log!Dominates(b, a)

\* Compare-and-set on _last_synced_version works: no upload ever takes a live
\* row, or a newer version of one, away from the server, whatever the
\* interleaving of devices, processes, coroutines, late PUTs and restarts.
ServerNeverRegresses ==
    \A k \in 1..(Len(hist) - 1) : Dominates(hist[k + 1], hist[k])

\* upload_metadata and _download_and_merge implement the abstract log: every
\* blob dominates its predecessor at the moment the server accepts it.
ImplementsLog == Log!LogSpec

(***************************************************************************)
(* The inductive invariant behind it.  "Version v is covered by table t"   *)
(* says that if v is still the server's version then t has everything the  *)
(* server has, so that an upload of t on base v is harmless.               *)
(***************************************************************************)
Covered(t, v) == v = Len(hist) => Dominates(t, hist[Len(hist)])

\* What a SyncClient believes it has merged is in its device's database,
\* whatever the other process of the device did to that database.
ClientsCovered ==
    \A c \in Clients :
        lastSynced[c] <= Len(hist) /\ Covered(db[c[1]], lastSynced[c])

\* A PUT under way, or abandoned, covers its base; nobody forces an upload.
PutsCovered ==
    /\ \A m \in late : m.base \in 0..Len(hist) /\ Covered(m.blob, m.base)
    /\ \A w \in Workers : pc[w] = "put" =>
          /\ put[w] \in Puts
          /\ put[w].base \in 0..Len(hist)
          /\ Covered(put[w].blob, put[w].base)
          /\ Dominates(db[Dev(w)], put[w].blob)

\* An answer on its way names a version that will be covered when it is
\* taken over, even if the blob that came with it is newer.
AnswersCovered ==
    \A w \in Workers :
        /\ pc[w] \in {"gotInit", "gotBlob"} => fv[w] \in 1..Len(hist)
        /\ pc[w] \in {"gotStatus", "fetch"} => sv[w] \in 1..Len(hist)
        /\ pc[w] = "gotBlob" => sv[w] <= fv[w]
        /\ pc[w] = "accepted" =>
              sv[w] \in 1..Len(hist) /\ Covered(db[Dev(w)], sv[w])
        /\ pc[w] # "force"

SyncInv ==
    /\ Len(hist) >= 1
    /\ ServerNeverRegresses
    /\ ClientsCovered
    /\ PutsCovered
    /\ AnswersCovered

\* An edit that waits for its upload is never thrown away: it stays at its
\* path, or a later edit that knew it does, or it lives on under another
\* name, the conflict copy of a merge (_merge_record, _handle_conflict), the
\* one reconcile_if_stale gives it, or the destination of a mv.
PendingNeverDropped ==
    [][\A d \in Devices : \A p \in Files :
          LET r == db[d][p]
              n == db'[d][p]
          IN  Live(r) /\ r.st = "pending" =>
                 \/ Exists(n) /\ (n.edit = r.edit \/ r.edit \in n.past)
                 \/ \E q \in Paths :
                       Live(db'[d][q]) /\ db'[d][q].edit = r.edit]_vars

\* The account had metadata from the start: no upload was forced.
Established == Len(hist) >= 1 /\ hist[1] = Seed

\* An upload replaces a row on the server only by the result of an edit
\* whose author had seen the row (ConflictResolver: both sides changed since
\* the base is a conflict and makes a conflict copy).  This is said of the
\* files every device has from the start: a device that never had a file
\* skips its tombstone (_merge_record) and uploads a table without it, and
\* versions at that path then start at 1 again.
NoLostUpdate ==
    Established => \A k \in 1..(Len(hist) - 1) : \A p \in Seeded \ gone :
        LET a == hist[k][p]
            b == hist[k + 1][p]
        IN  Exists(a) /\ Exists(b) => b.edit = a.edit \/ a.edit \in b.past

\* A row marked synced is a row the server has had (upload_metadata marks
\* synced only what it uploaded).
SyncedIsUploaded ==
    Established => \A d \in Devices : \A p \in Files \ gone :
        LET r == db[d][p]
        IN  Exists(r) /\ r.st = "synced" /\ ~(\E m \in moved : m[2] = p) =>
               \E k \in 1..Len(hist) :
                  Exists(hist[k][p]) /\ hist[k][p].edit = r.edit

Daemons == {d \in Devices : <<d, "periodic">> \in Workers}

\* Some edit of the device waits for its upload.
Waits(d) == \E p \in Paths : Exists(db[d][p]) /\ db[d][p].st = "pending"

\* On a device with a daemon every edit is uploaded, or put aside in a
\* conflict copy, in the end, and what reconcile_if_stale put aside is
\* uploaded too: a failed or rejected upload is tried again in the next cycle
\* of _periodic_loop.
PendingEventuallySynced ==
    \A d \in Daemons : Waits(d) ~> ~Waits(d)

ServerBlob == hist[Len(hist)]

\* In the end every device with a daemon has every file the server has.
Converges ==
    <>[](\A d \in Daemons : \A p \in Paths :
            Len(hist) > 0 /\ Live(ServerBlob[p]) =>
               Exists(db[d][p]) /\ db[d][p].edit = ServerBlob[p].edit)
=============================================================================
