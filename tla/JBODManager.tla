----------------------------- MODULE JBODManager -----------------------------
(***************************************************************************)
(* The files of one device: rows in the metadata database, data in the     *)
(* storage sources (stardustlib/jbod_manager.py, storage_source.py,        *)
(* metadata_store.py).                                                     *)
(*                                                                         *)
(* Several processes work on the same database and directories: the        *)
(* daemon, CLI commands, the GUI.  SQLite serialises their transactions;   *)
(* nothing serialises what they do to the directories.  An operation is a  *)
(* job with one step for every access to database or sources that another  *)
(* process could come between.                                             *)
(*                                                                         *)
(* A virtual path is <<directory, name>>, directories nest one level deep. *)
(* A physical file stays in the directory its path had when it was         *)
(* created.                                                                *)
(***************************************************************************)
EXTENDS Integers, FiniteSets

CONSTANTS
    Procs,      \* processes of the device
    Sources,    \* its local storage sources
    Loopbacks,  \* those that are loopback files, the others are directories
    Dirs,       \* directories below the root
    Names,      \* file names
    Root,       \* the root directory
    Stored,     \* paths this device has stored files under from the beginning
    ForeignSrc, \* source id in the rows of other devices
    Ids,        \* the device ids a session may have found: Me, or Null if none
    MaxOps,     \* bound: operations of users
    MaxFaults,  \* bound: I/O errors, kills, lock timeouts
    MaxMerges,  \* bound: records merged from the server
    MaxSessions \* bound: sessions opened

NoLock == "free"

ASSUME JBODConstants ==
    /\ Loopbacks \subseteq Sources
    /\ Root \notin Dirs /\ Names # {}
    /\ NoLock \notin Procs \cup Dirs \cup {Root}
    /\ Stored \subseteq (Dirs \cup {Root}) \X Names
    /\ Ids \subseteq {"me", "null"}
    /\ {MaxOps, MaxFaults, MaxMerges, MaxSessions} \subseteq Nat

AllDirs == Dirs \cup {Root}

Paths == AllDirs \X Names

VARIABLES
    rows,       \* table files
    dirRows,    \* table directories
    disk,       \* physical files that exist
    torn,       \* those that were not written to the end
    tree,       \* tree[s]: physical directories of source s
    session,    \* session[pr]: the JBODManager of process pr
    job,        \* job[pr]: the operation under way in pr
    lock,       \* who has the write lock of the database
    nops, nfaults, nmerges, nsessions

vars == <<rows, dirRows, disk, torn, tree, session, job, lock,
          nops, nfaults, nmerges, nsessions>>

\* A physical path in a source: directory and name of the path it was made for,
\* and an id.  Operation n creates id n; 0 stands for files of other devices,
\* MaxOps + 1 for those stored from the beginning.
File == [src : Sources \cup {ForeignSrc}, dir : AllDirs, name : Names,
         id : 0..(MaxOps + 1)]

FileAt(s, p, i) == [src |-> s, dir |-> p[1], name |-> p[2], id |-> i]

Foreign(p) == FileAt(ForeignSrc, p, 0)

NoRow == [live |-> FALSE, owner |-> "none"]

Closed == [id |-> "none", active |-> {}, gc |-> FALSE]

Idle == [kind |-> "idle"]

\* risky is a ghost: the row has been through one of the situations that the
\* code does not protect against; see CommittedDataSurvives.
Row == [live : BOOLEAN, owner : {"me", "other", "null"}, file : File,
        risky : BOOLEAN]

Job ==
    {Idle}
    \cup [kind : {"over", "new", "takeover"}, path : Paths, file : File,
          step : {"begin", "data", "row"}, hit : BOOLEAN]
    \cup [kind : {"rm"}, todo : SUBSET Paths, dir : Dirs \cup {NoLock},
          path : Paths, file : File, step : {"next", "data", "row"}]
    \cup [kind : {"mvdir"}, dir : Dirs, to : Dirs, step : {"dirs", "tree"}]
    \cup [kind : {"gc"}, live : SUBSET File, todo : SUBSET Sources]

\* The type invariant: rows, physical data and every step of an operation under
\* way have their shape, whatever the operations and the collector interleave.
TypeOK ==
    /\ rows \in [Paths -> Row \cup {NoRow}]
    /\ dirRows \subseteq Dirs
    /\ disk \subseteq File /\ torn \subseteq disk
    /\ tree \in [Sources -> SUBSET Dirs]
    /\ session \in [Procs -> {Closed} \cup [id : Ids, active : SUBSET Sources,
                                            gc : BOOLEAN]]
    /\ job \in [Procs -> Job]
    /\ lock \in Procs \cup {NoLock}
    /\ nops \in 0..MaxOps /\ nfaults \in 0..MaxFaults
    /\ nmerges \in 0..MaxMerges /\ nsessions \in 0..MaxSessions

\* A device that has stored some files in one of its sources.
Init ==
    /\ \E s \in Sources :
         LET File0(p) == FileAt(s, p, MaxOps + 1) IN
         /\ rows = [p \in Paths |->
                      IF p \in Stored
                      THEN [live |-> TRUE, owner |-> "me", file |-> File0(p), risky |-> FALSE]
                      ELSE NoRow]
         /\ disk = {File0(p) : p \in Stored}
         /\ dirRows = {p[1] : p \in Stored} \ {Root}
         /\ tree = [t \in Sources |-> IF t = s THEN dirRows ELSE {}]
    /\ torn = {}
    /\ session = [pr \in Procs |-> Closed]
    /\ job = [pr \in Procs |-> Idle]
    /\ lock = NoLock
    /\ nops = 0 /\ nfaults = 0 /\ nmerges = 0 /\ nsessions = 0

-----------------------------------------------------------------------------
(* Rows and sources.                                                       *)

Fault == nfaults < MaxFaults /\ nfaults' = nfaults + 1

NoFault == nfaults' = nfaults

Operation == nops < MaxOps /\ nops' = nops + 1

Exists(p) == rows[p] # NoRow

\* lookup: a tombstone is no file.
Found(p) == Exists(p) /\ rows[p].live

\* owner is not None and owner != self.device_id
IsRemote(pr, r) == r.owner # "null" /\ r.owner # session[pr].id

Active(pr) == session[pr].active

\* Mutant: files nobody has claimed are left out.
OwnFilesOnly(id) == {rows[p].file : p \in {q \in Paths : Found(q) /\ rows[q].owner = id}}

\* live_physical_paths_for_device
LivePhysicalPaths(id) ==
    {rows[p].file : p \in {q \in Paths : Found(q) /\ rows[q].owner \in {id, "null"}}}

\* The files of source s below directory d.
Under(s, d) == {f \in disk : f.src = s /\ f.dir = d}

\* list_physical_files: the root only.
PhysicalFiles(s) == Under(s, Root)

\* An I/O error makes a directory source inactive in this process, a
\* loopback source stays as it is.
Deactivate(pr, S) == session' = [session EXCEPT ![pr].active = @ \ (S \ Loopbacks)]

End(pr) == job' = [job EXCEPT ![pr] = Idle]

\* Whoever writes the database outside a transaction waits for the lock.
LockFree == lock = NoLock

Idling(pr) == session[pr] # Closed /\ job[pr] = Idle

\* Ghost: the rows that point at one of the files F become risky.
Endanger(F) ==
    [p \in Paths |-> IF Exists(p) /\ rows[p].file \in F
                     THEN [rows[p] EXCEPT !.risky = TRUE] ELSE rows[p]]

\* Ghost: writes under way that lose their file before they commit.
Hit(F) ==
    [pr \in Procs |-> IF job[pr].kind \in {"new", "takeover"} /\ job[pr].file \in F
                      THEN [job[pr] EXCEPT !.hit = TRUE] ELSE job[pr]]

-----------------------------------------------------------------------------
(* Sessions.                                                               *)

\* A process builds its JBODManager, after an earlier one has ended; sources
\* that fail initialize are inactive.  The device id is unknown offline or
\* before registration.  The first synchronisation collects orphans, hence gc.
Open(pr, id) ==
    /\ job[pr] = Idle
    /\ nsessions < MaxSessions /\ nsessions' = nsessions + 1
    /\ \E S \in SUBSET Sources :
         /\ IF S = Sources THEN NoFault ELSE Fault
         /\ session' = [session EXCEPT ![pr] = [id |-> id, active |-> S, gc |-> TRUE]]
    /\ UNCHANGED <<rows, dirRows, disk, torn, tree, job, lock, nops, nmerges>>

\* A process is killed in an operation; the file it is about to write may be
\* left empty or half written.
Kill(pr) ==
    /\ job[pr] # Idle
    /\ Fault
    /\ session' = [session EXCEPT ![pr] = Closed]
    /\ End(pr)
    /\ lock' = IF lock = pr THEN NoLock ELSE lock
    /\ \/ UNCHANGED <<rows, disk, torn>>
       \/ /\ job[pr].kind \in {"over", "new", "takeover"} /\ job[pr].step = "data"
          /\ disk' = disk \cup {job[pr].file}
          /\ torn' = torn \cup {job[pr].file}
          /\ rows' = Endanger({job[pr].file})
    /\ UNCHANGED <<dirRows, tree, nops, nmerges, nsessions>>

\* A read that fails makes the source inactive.
ReadFails(pr, p) ==
    /\ Idling(pr)
    /\ Found(p) /\ ~IsRemote(pr, rows[p])
    /\ rows[p].file.src \in Active(pr) \ Loopbacks
    /\ Fault
    /\ Deactivate(pr, {rows[p].file.src})
    /\ UNCHANGED <<rows, dirRows, disk, torn, tree, job, lock, nops, nmerges, nsessions>>

\* busy_timeout has passed while another process held the lock.
LockTimeout(pr) ==
    /\ lock \notin {NoLock, pr}
    /\ \/ job[pr].kind \in {"over", "new", "takeover"} /\ job[pr].step = "begin"
       \/ job[pr].kind = "rm" /\ job[pr].step = "row"
       \/ job[pr].kind = "mvdir" /\ job[pr].step = "dirs"
    /\ Fault
    /\ End(pr)
    /\ UNCHANGED <<rows, dirRows, disk, torn, tree, session, lock, nops, nmerges,
                   nsessions>>

-----------------------------------------------------------------------------
(* write_file                                                              *)

\* select_source and _generate_physical_path
NewFile(p, s) == FileAt(s, p, nops + 1)

WriteJob(kind, p, f) ==
    [kind |-> kind, path |-> p, file |-> f, step |-> "begin", hit |-> FALSE]

\* The row is looked up before the transaction begins.  copy_file is a read
\* followed by this.
WriteFile(pr, p) ==
    /\ Idling(pr)
    /\ Operation
    /\ \/ /\ Found(p) /\ ~IsRemote(pr, rows[p])
          /\ rows[p].file.src \in Active(pr)
          /\ job' = [job EXCEPT ![pr] = WriteJob("over", p, rows[p].file)]
       \/ /\ Found(p) => IsRemote(pr, rows[p])
          /\ \E s \in Active(pr) :
               job' = [job EXCEPT ![pr] =
                         WriteJob(IF Found(p) THEN "takeover" ELSE "new", p, NewFile(p, s))]
    /\ UNCHANGED <<rows, dirRows, disk, torn, tree, session, lock, nfaults, nmerges,
                   nsessions>>

\* BEGIN IMMEDIATE
BeginTransaction(pr) ==
    /\ job[pr].kind \in {"over", "new", "takeover"} /\ job[pr].step = "begin"
    /\ LockFree
    /\ lock' = pr
    /\ job' = [job EXCEPT ![pr].step = "data"]
    /\ UNCHANGED <<rows, dirRows, disk, torn, tree, session, nops, nfaults, nmerges,
                   nsessions>>

Writing(pr, step) ==
    job[pr].kind \in {"over", "new", "takeover"} /\ job[pr].step = step

\* source.write
WriteData(pr) ==
    /\ Writing(pr, "data")
    /\ disk' = disk \cup {job[pr].file}
    /\ torn' = torn \ {job[pr].file}
    /\ tree' = [tree EXCEPT ![job[pr].file.src] = @ \cup ({job[pr].file.dir} \ {Root})]
    /\ job' = [job EXCEPT ![pr].step = "row"]
    /\ UNCHANGED <<rows, dirRows, session, lock, nops, nfaults, nmerges, nsessions>>

\* Mutant: the transaction is not rolled back.
WriteDataFailsOpen(pr) ==
    /\ Writing(pr, "data")
    /\ Fault
    /\ End(pr)
    /\ UNCHANGED <<rows, dirRows, disk, torn, tree, session, lock, nops, nmerges,
                   nsessions>>

\* source.write fails: refused by a full loopback source before anything is
\* written, or with a part of the data written.  The part is removed only
\* from a new file of a source that is still active.
WriteDataFails(pr) ==
    /\ Writing(pr, "data")
    /\ Fault
    /\ LET f == job[pr].file IN
         \/ f.src \in Loopbacks /\ UNCHANGED <<rows, disk, torn, session>>
         \/ /\ job[pr].kind # "over" /\ f.src \in Loopbacks
            /\ disk' = disk \ {f} /\ torn' = torn \ {f}
            /\ UNCHANGED <<rows, session>>
         \/ /\ job[pr].kind = "over" \/ f.src \notin Loopbacks
            /\ disk' = disk \cup {f} /\ torn' = torn \cup {f}
            /\ rows' = Endanger({f})
            /\ Deactivate(pr, {f.src})
    /\ End(pr)
    /\ lock' = NoLock
    /\ UNCHANGED <<dirRows, tree, nops, nmerges, nsessions>>

\* Ghost: another process has looked at the rows below d, and will now remove
\* the physical directory.
RemovalUnderWay(pr, d) ==
    \E o \in Procs \ {pr} : job[o].kind \in {"rm", "mvdir"} /\ job[o].dir = d

\* Ghost: another process will remove files by what it saw in the rows.
SweepUnderWay(pr, f) ==
    \/ RemovalUnderWay(pr, f.dir)
    \/ f.dir = Root /\ \E o \in Procs \ {pr} : job[o].kind = "gc"

\* Mutant: the row says nothing of its owner.
InsertedAnonymous(pr) ==
    [live |-> TRUE, owner |-> "none", file |-> job[pr].file, risky |-> FALSE]

\* MetadataStore.insert: a row that is there in the meantime is overwritten.
Inserted(pr) ==
    [live |-> TRUE, owner |-> session[pr].id, file |-> job[pr].file,
     risky |-> job[pr].hit \/ SweepUnderWay(pr, job[pr].file)]

\* MetadataStore.update: whatever row has the path by now, deleted or not;
\* without a device id the owner stays.
Updated(pr) ==
    LET r == rows[job[pr].path]
        f == IF job[pr].kind = "takeover" THEN job[pr].file ELSE r.file
        o == IF session[pr].id = "null" THEN r.owner ELSE session[pr].id
    IN  [r EXCEPT !.owner = o, !.file = f,
                  !.risky = \/ @ /\ job[pr].kind = "over"
                            \/ job[pr].hit
                            \/ job[pr].kind = "takeover" /\ SweepUnderWay(pr, f)
                            \/ job[pr].kind = "over" /\ r.owner = "other"
                            \/ f # job[pr].file]

\* The row, and the commit.
WriteRow(pr) ==
    /\ Writing(pr, "row")
    /\ rows' = CASE job[pr].kind = "new" -> [rows EXCEPT ![job[pr].path] = Inserted(pr)]
                 [] job[pr].kind # "new" /\ Exists(job[pr].path) ->
                      [rows EXCEPT ![job[pr].path] = Updated(pr)]
                 [] OTHER -> rows
    /\ session' = IF job[pr].kind = "takeover" THEN [session EXCEPT ![pr].gc = TRUE]
                  ELSE session
    /\ End(pr)
    /\ lock' = NoLock
    /\ UNCHANGED <<dirRows, disk, torn, tree, nops, nfaults, nmerges, nsessions>>

\* The database fails: rollback, and a new file is removed again.
WriteRowFails(pr) ==
    /\ Writing(pr, "row")
    /\ Fault
    /\ disk' = IF job[pr].kind = "over" THEN disk ELSE disk \ {job[pr].file}
    /\ torn' = torn \cap disk'
    /\ End(pr)
    /\ lock' = NoLock
    /\ UNCHANGED <<rows, dirRows, tree, session, nops, nmerges, nsessions>>

-----------------------------------------------------------------------------
(* delete_file and delete_directory                                        *)

NoPath == CHOOSE p \in Paths : TRUE

RmJob(T, d) ==
    [kind |-> "rm", todo |-> T, dir |-> d, path |-> NoPath, file |-> Foreign(NoPath),
     step |-> "next"]

\* The lookup of a file to delete; one that is gone is skipped, one of
\* another device gets its tombstone only.
Looked(pr, j, p) ==
    IF Found(p)
    THEN [j EXCEPT !.todo = @ \ {p}, !.path = p, !.file = rows[p].file,
                   !.step = IF IsRemote(pr, rows[p]) THEN "row" ELSE "data"]
    ELSE [j EXCEPT !.todo = @ \ {p}]

DeleteFile(pr, p) ==
    /\ Idling(pr)
    /\ Operation
    /\ Found(p)
    /\ job' = [job EXCEPT ![pr] = Looked(pr, RmJob({p}, NoLock), p)]
    /\ UNCHANGED <<rows, dirRows, disk, torn, tree, session, lock, nfaults, nmerges, nsessions>>

\* list_entries, then the files one by one.
DeleteDirectory(pr, d) ==
    /\ Idling(pr)
    /\ Operation
    /\ job' = [job EXCEPT ![pr] = RmJob({p \in Paths : p[1] = d /\ Found(p)}, d)]
    /\ UNCHANGED <<rows, dirRows, disk, torn, tree, session, lock, nfaults, nmerges, nsessions>>

Removing(pr, step) == job[pr].kind = "rm" /\ job[pr].step = step

RmNext(pr, p) ==
    /\ Removing(pr, "next")
    /\ p \in job[pr].todo
    /\ job' = [job EXCEPT ![pr] = Looked(pr, @, p)]
    /\ UNCHANGED <<rows, dirRows, disk, torn, tree, session, lock, nops,
                   nfaults, nmerges, nsessions>>

\* source.delete, if the source is active.  An error ends the job.
RmData(pr) ==
    /\ Removing(pr, "data")
    /\ LET f == job[pr].file IN
         \/ /\ disk' = IF f.src \in Active(pr) THEN disk \ {f} ELSE disk
            /\ torn' = torn \cap disk'
            /\ rows' = Endanger({f})
            /\ job' = [job EXCEPT ![pr].step = "row"]
            /\ session' = session /\ NoFault
         \/ /\ f.src \in Active(pr) /\ f \in disk
            /\ Fault
            /\ Deactivate(pr, {f.src})
            /\ End(pr)
            /\ UNCHANGED <<rows, disk, torn>>
    /\ UNCHANGED <<dirRows, tree, lock, nops, nmerges, nsessions>>

\* MetadataStore.delete
RmRow(pr) ==
    /\ Removing(pr, "row")
    /\ LockFree
    /\ rows' = IF Exists(job[pr].path) THEN [rows EXCEPT ![job[pr].path].live = FALSE]
               ELSE rows
    /\ job' = [job EXCEPT ![pr] = IF @.todo = {} /\ @.dir = NoLock THEN Idle
                                  ELSE [@ EXCEPT !.step = "next"]]
    /\ UNCHANGED <<dirRows, disk, torn, tree, session, lock, nops, nfaults, nmerges,
                   nsessions>>

\* rmdir in every active source: the whole physical directory, whatever is
\* in it.  Where it does not exist a directory source becomes inactive.
RmTree(pr) ==
    /\ Removing(pr, "next")
    /\ job[pr].todo = {} /\ job[pr].dir # NoLock
    /\ LockFree
    /\ LET d == job[pr].dir
           gone == UNION {Under(s, d) : s \in Active(pr)}
       IN  /\ disk' = disk \ gone
           /\ torn' = torn \ gone
           /\ tree' = [s \in Sources |-> IF s \in Active(pr) THEN tree[s] \ {d} ELSE tree[s]]
           /\ Deactivate(pr, {s \in Active(pr) : d \notin tree[s]})
           /\ dirRows' = dirRows \ {d}
           /\ job' = [Hit(gone) EXCEPT ![pr] = Idle]
    /\ UNCHANGED <<rows, lock, nops, nfaults, nmerges, nsessions>>

-----------------------------------------------------------------------------
(* Moves                                                                   *)

\* A row that process pr moves to directory d.  Its data stays where it is.
Moved(pr, r, d) == [r EXCEPT !.risky = \/ @ \/ r.file.dir # d
                                      \/ RemovalUnderWay(pr, d)]

\* move_file: rename_path fails if there is any row at the new path, a
\* tombstone too.
MoveFile(pr, p, q) ==
    /\ Idling(pr)
    /\ Operation
    /\ LockFree
    /\ Found(p) /\ ~Exists(q)
    /\ rows' = [rows EXCEPT ![q] = Moved(pr, rows[p], q[1]), ![p] = NoRow]
    /\ UNCHANGED <<dirRows, disk, torn, tree, session, job, lock, nfaults, nmerges,
                   nsessions>>

\* move_directory: rename_directory takes all rows below d, tombstones too,
\* or fails at a row that is there already.
MoveDirectory(pr, d, e) ==
    /\ Idling(pr)
    /\ Operation
    /\ LockFree
    /\ d # e
    /\ \A n \in Names : ~(Exists(<<d, n>>) /\ Exists(<<e, n>>))
    /\ rows' = [p \in Paths |->
                  CASE p[1] = d -> NoRow
                    [] p[1] = e /\ Exists(<<d, p[2]>>) -> Moved(pr, rows[<<d, p[2]>>], e)
                    [] OTHER -> rows[p]]
    /\ job' = [job EXCEPT ![pr] = [kind |-> "mvdir", dir |-> d, to |-> e, step |-> "dirs"]]
    /\ UNCHANGED <<dirRows, disk, torn, tree, session, lock, nfaults, nmerges, nsessions>>

\* A rename meets a row that is there already, or a tombstone.  The failed
\* statement leaves a transaction open until the session ends; the error ends
\* command and session.
MoveRefused(pr) ==
    /\ Idling(pr)
    /\ Operation
    /\ LockFree
    /\ \/ \E p, q \in Paths : p # q /\ Found(p) /\ Exists(q)
       \/ \E d, e \in Dirs : \E n \in Names : d # e /\ Exists(<<d, n>>) /\ Exists(<<e, n>>)
    /\ session' = [session EXCEPT ![pr] = Closed]
    /\ UNCHANGED <<rows, dirRows, disk, torn, tree, job, lock, nfaults, nmerges, nsessions>>

\* The row of the directory itself; refused, as above, if e is known already.
RenameDirRow(pr) ==
    /\ job[pr].kind = "mvdir" /\ job[pr].step = "dirs"
    /\ LockFree
    /\ LET d == job[pr].dir
           e == job[pr].to
       IN  \/ /\ {d, e} \subseteq dirRows
              /\ End(pr)
              /\ session' = [session EXCEPT ![pr] = Closed]
              /\ dirRows' = dirRows
           \/ /\ ~({d, e} \subseteq dirRows)
              /\ dirRows' = IF d \in dirRows THEN (dirRows \ {d}) \cup {e} ELSE dirRows
              /\ job' = [job EXCEPT ![pr].step = "tree"]
              /\ session' = session
    /\ UNCHANGED <<rows, disk, torn, tree, lock, nops, nfaults, nmerges, nsessions>>

\* In every active source: make the new directory, remove the old one.  A
\* source where the first fails is passed over.
MoveTree(pr) ==
    /\ job[pr].kind = "mvdir" /\ job[pr].step = "tree"
    /\ \E S \in SUBSET Active(pr) :
         LET d == job[pr].dir
             gone == UNION {Under(s, d) : s \in S}
         IN  /\ IF S = Active(pr) THEN NoFault ELSE Fault
             /\ disk' = disk \ gone
             /\ torn' = torn \ gone
             /\ tree' = [s \in Sources |->
                           IF s \in S THEN (tree[s] \ {d}) \cup {job[pr].to} ELSE tree[s]]
             /\ Deactivate(pr, Active(pr) \ S)
             /\ job' = [Hit(gone) EXCEPT ![pr] = Idle]
    /\ UNCHANGED <<rows, dirRows, lock, nops, nmerges, nsessions>>

\* create_directory; sources where mkdir fails are passed over.
CreateDirectory(pr, d) ==
    /\ Idling(pr)
    /\ Operation
    /\ LockFree
    /\ \E S \in SUBSET Active(pr) :
         /\ IF S = Active(pr) THEN NoFault ELSE Fault
         /\ tree' = [s \in Sources |-> IF s \in S THEN tree[s] \cup {d} ELSE tree[s]]
         /\ Deactivate(pr, Active(pr) \ S)
    /\ dirRows' = dirRows \cup {d}
    /\ UNCHANGED <<rows, disk, torn, job, lock, nmerges, nsessions>>

-----------------------------------------------------------------------------
(* Records from the server and the collection of orphans.                  *)

\* A merged record: another device has written the file or made it its own;
\* a record without owner was written by a device that did not know its id.
Merge(pr, p, o) ==
    /\ Idling(pr)
    /\ LockFree
    /\ nmerges < MaxMerges /\ nmerges' = nmerges + 1
    /\ rows' = [rows EXCEPT ![p] = [live |-> TRUE, owner |-> o, file |-> Foreign(p),
                                    risky |-> o = "null"]]
    /\ session' = IF Exists(p) /\ session[pr].id = "me" /\ rows[p].owner = "me"
                  THEN [session EXCEPT ![pr].gc = TRUE] ELSE session
    /\ UNCHANGED <<dirRows, disk, torn, tree, job, lock, nops, nfaults, nsessions>>

\* Another device has deleted the file: the data is deleted here as well.
MergeTombstone(pr, p) ==
    /\ Idling(pr)
    /\ LockFree
    /\ Exists(p)
    /\ nmerges < MaxMerges /\ nmerges' = nmerges + 1
    /\ disk' = IF Found(p) /\ rows[p].file.src \in Active(pr) THEN disk \ {rows[p].file}
               ELSE disk
    /\ torn' = torn \cap disk'
    /\ rows' = [rows EXCEPT ![p].live = FALSE]
    /\ UNCHANGED <<dirRows, tree, session, job, lock, nops, nfaults, nsessions>>

\* gc_orphan_files: first the rows.  It is skipped without a device id.
GcStart(pr) ==
    /\ Idling(pr)
    /\ session[pr].gc /\ session[pr].id = "me"
    /\ session' = [session EXCEPT ![pr].gc = FALSE]
    /\ job' = [job EXCEPT ![pr] = [kind |-> "gc", live |-> LivePhysicalPaths("me"),
                                   todo |-> Active(pr)]]
    /\ UNCHANGED <<rows, dirRows, disk, torn, tree, lock, nops, nfaults, nmerges,
                   nsessions>>

\* Then the files of each source: what the rows did not name is deleted.
GcSource(pr, s) ==
    /\ job[pr].kind = "gc"
    /\ s \in job[pr].todo
    /\ LET orphans == PhysicalFiles(s) \ job[pr].live
           left == job[pr].todo \ {s}
       IN  \E gone \in SUBSET orphans :
             /\ disk' = disk \ gone
             /\ torn' = torn \ gone
             /\ IF gone = orphans THEN NoFault /\ session' = session
                ELSE Fault /\ Deactivate(pr, {s})
             /\ job' = [Hit(gone) EXCEPT ![pr] = IF left = {} THEN Idle
                                              ELSE [@ EXCEPT !.todo = left]]
    /\ UNCHANGED <<rows, dirRows, tree, lock, nops, nmerges, nsessions>>

-----------------------------------------------------------------------------
Next ==
    \E pr \in Procs :
        \/ \E id \in Ids : Open(pr, id)
        \/ Kill(pr)
        \/ LockTimeout(pr)
        \/ \E p \in Paths : ReadFails(pr, p)
        \/ \E p \in Paths : WriteFile(pr, p)
        \/ BeginTransaction(pr)
        \/ WriteData(pr)
        \/ WriteDataFails(pr)
        \/ WriteRow(pr)
        \/ WriteRowFails(pr)
        \/ \E p \in Paths : DeleteFile(pr, p)
        \/ \E d \in Dirs : DeleteDirectory(pr, d)
        \/ \E p \in Paths : RmNext(pr, p)
        \/ RmData(pr)
        \/ RmRow(pr)
        \/ RmTree(pr)
        \/ \E p, q \in Paths : MoveFile(pr, p, q)
        \/ \E d, e \in Dirs : MoveDirectory(pr, d, e)
        \/ MoveRefused(pr)
        \/ RenameDirRow(pr)
        \/ MoveTree(pr)
        \/ \E d \in Dirs : CreateDirectory(pr, d)
        \/ \E p \in Paths : \E o \in {"other", "null"} : Merge(pr, p, o)
        \/ \E p \in Paths : MergeTombstone(pr, p)
        \/ GcStart(pr)
        \/ \E s \in Sources : GcSource(pr, s)

Spec == Init /\ [][Next]_vars

-----------------------------------------------------------------------------
\* A file of this device whose row is committed can be read: its data is
\* there and complete.  Excepted are the rows marked risky, where the code
\* makes no provision: data that stays behind in a directory its row has
\* left (move_file, move_directory), a commit while another process collects
\* orphans or removes the directory, a move within a directory that another
\* process is removing, a delete begun, an overwrite that failed or whose row
\* was replaced or given to another device in the meantime, a takeover or a
\* merged record without a device id.
CommittedDataSurvives ==
    \A p \in Paths :
        Found(p) /\ rows[p].owner \in {"me", "null"} /\ ~rows[p].risky
            => rows[p].file \in disk \ torn

\* Every error path of write_file rolls back: nobody holds the write lock
\* outside a transaction, which would keep all other processes from writing.
NoLeakedTransaction ==
    \A pr \in Procs : lock = pr <=> Writing(pr, "data") \/ Writing(pr, "row")

\* What write_file and gc_orphan_files promise without reserve: data of a
\* live file of this device is there.
LiveFilesHaveData ==
    \A p \in Paths :
        Found(p) /\ rows[p].owner = "me" /\ (\A pr \in Procs : job[pr].kind # "rm")
            => rows[p].file \in disk
=============================================================================
