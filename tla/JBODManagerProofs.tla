-------------------------- MODULE JBODManagerProofs --------------------------
(***************************************************************************)
(* What JBODManager guarantees for any number of processes, sources,       *)
(* directories and files, and any number of failures, kills and merges.    *)
(***************************************************************************)
EXTENDS JBODManager, TLAPS

\* A row that CommittedDataSurvives speaks of.
Safe(p) == Found(p) /\ rows[p].owner \in {"me", "null"} /\ ~rows[p].risky

\* A job with a file of its own, not yet in any row.
Fresh(j) == j.kind \in {"new", "takeover"}

\* A job that works on one file.
HasFile(j) == j.kind \in {"over", "new", "takeover", "rm"}

\* The id of the file is given out by the first k operations.
Known(f, k) == f.id \in 0..k \cup {MaxOps + 1}

-----------------------------------------------------------------------------
\* The rows: their files' ids have been given out; a safe one's file is this
\* device's own and lies in the directory of its path.
RowsKnown ==
    \A p \in Paths :
        /\ Exists(p) => Known(rows[p].file, nops)
        /\ Safe(p) => rows[p].file.id # 0 /\ rows[p].file.dir = p[1]

\* No two rows have the same file of this device.
RowsApart ==
    \A p, q \in Paths :
        p # q /\ Exists(p) /\ Exists(q) /\ rows[p].file = rows[q].file => rows[p].file.id = 0

\* A job has a session, and a new file has the directory of its path.
JobKnown(pr) ==
    /\ job[pr].kind # "idle" => session[pr] # Closed
    /\ HasFile(job[pr]) => Known(job[pr].file, nops)
    /\ Fresh(job[pr]) => job[pr].file.id # 0 /\ job[pr].file.dir = job[pr].path[1]

\* A new file is in no row and in no other job.
FreshApart(pr) ==
    Fresh(job[pr]) =>
        /\ \A p \in Paths : Exists(p) => rows[p].file # job[pr].file
        /\ \A o \in Procs \ {pr} : HasFile(job[o]) => job[o].file # job[pr].file

\* New data that nobody has removed is there and complete.
FreshData(pr) ==
    Fresh(job[pr]) /\ job[pr].step = "row" /\ ~job[pr].hit
        => job[pr].file \in disk \ torn

\* A collector knows the file of every safe row that it could meet.
CollectorKnows(pr) ==
    job[pr].kind = "gc" =>
        \A p \in Paths : Safe(p) /\ rows[p].file.dir = Root => rows[p].file \in job[pr].live

\* Who removes a directory has every safe row with data there on its list or
\* in its hands.
RemoverKnows(pr) ==
    job[pr].kind = "rm" =>
        \A p \in Paths : Safe(p) /\ rows[p].file.dir = job[pr].dir =>
            \/ p \in job[pr].todo
            \/ job[pr].step = "row" /\ p = job[pr].path
            \/ job[pr].step = "data" /\ p = job[pr].path /\ rows[p].file = job[pr].file

\* Nothing safe is left in a directory that is being moved.
MoverKnows(pr) ==
    job[pr].kind = "mvdir" =>
        \A p \in Paths : Safe(p) => rows[p].file.dir # job[pr].dir

JobInv(pr) ==
    /\ JobKnown(pr) /\ FreshApart(pr) /\ FreshData(pr)
    /\ CollectorKnows(pr) /\ RemoverKnows(pr) /\ MoverKnows(pr)

\* What makes CommittedDataSurvives inductive: how each job under way stands to
\* the rows and the files.
DataInv ==
    /\ TypeOK
    /\ CommittedDataSurvives
    /\ RowsKnown /\ RowsApart
    /\ \A pr \in Procs : JobInv(pr)

-----------------------------------------------------------------------------
(* Shapes.                                                                 *)

Sessions == {Closed} \cup [id : Ids, active : SUBSET Sources, gc : BOOLEAN]

WriteJobs ==
    [kind : {"over", "new", "takeover"}, path : Paths, file : File,
     step : {"begin", "data", "row"}, hit : BOOLEAN]

RmJobs ==
    [kind : {"rm"}, todo : SUBSET Paths, dir : Dirs \cup {NoLock},
     path : Paths, file : File, step : {"next", "data", "row"}]

MvJobs == [kind : {"mvdir"}, dir : Dirs, to : Dirs, step : {"dirs", "tree"}]

GcJobs == [kind : {"gc"}, live : SUBSET File, todo : SUBSET Sources]

\* The kinds of jobs.
LEMMA JobShape == Job = {Idle} \cup WriteJobs \cup RmJobs \cup MvJobs \cup GcJobs
  BY DEF Job, WriteJobs, RmJobs, MvJobs, GcJobs

\* A job's kind tells its fields.
LEMMA JobByKind ==
    ASSUME NEW j \in Job
    PROVE  /\ j.kind \in {"over", "new", "takeover"} => j \in WriteJobs
           /\ j.kind = "rm" => j \in RmJobs
           /\ j.kind = "mvdir" => j \in MvJobs
           /\ j.kind = "gc" => j \in GcJobs
           /\ j.kind = "idle" <=> j = Idle
           /\ HasFile(j) => j.file \in File
  BY JobShape DEF Idle, WriteJobs, RmJobs, MvJobs, GcJobs, HasFile

\* A job that is there has its shape.
LEMMA JobThere ==
    ASSUME TypeOK, NEW pr \in Procs
    PROVE  /\ job[pr] \in Job /\ session[pr] \in Sessions
           /\ session[pr].active \subseteq Sources
           /\ session[pr] # Closed => session[pr].id \in {"me", "null"}
<1>1. job[pr] \in Job /\ session[pr] \in Sessions
  BY DEF TypeOK, Sessions
<1>2. CASE session[pr] = Closed
  BY <1>1, <1>2 DEF Closed
<1>3. CASE session[pr] \in [id : Ids, active : SUBSET Sources, gc : BOOLEAN]
  <2>1. session[pr].id \in Ids /\ session[pr].active \subseteq Sources
    BY <1>3
  <2> QED BY <1>1, <2>1, JBODConstants
<1> QED BY <1>1, <1>2, <1>3 DEF Sessions

\* A row that is there has its shape.
LEMMA RowThere ==
    ASSUME TypeOK, NEW p \in Paths
    PROVE  /\ rows[p] \in Row \cup {NoRow}
           /\ Exists(p) => rows[p] \in Row /\ rows[p].file \in File
<1>1. rows[p] \in Row \cup {NoRow}
  BY DEF TypeOK
<1> QED BY <1>1 DEF Exists, Row

\* A physical path is of one source, directory, name and id.
LEMMA FileShape ==
    ASSUME NEW s \in Sources \cup {ForeignSrc}, NEW p \in Paths, NEW i \in 0..(MaxOps + 1)
    PROVE  FileAt(s, p, i) \in File /\ FileAt(s, p, i).id = i /\ FileAt(s, p, i).dir = p[1]
  BY DEF FileAt, File, Paths

\* The bounds of the model.
LEMMA Counted ==
    ASSUME TypeOK
    PROVE  /\ Fault => nfaults' \in 0..MaxFaults
           /\ NoFault => nfaults' \in 0..MaxFaults
           /\ Operation => /\ nops' \in 0..MaxOps /\ nops' = nops + 1
                           /\ nops + 1 \in 1..MaxOps
           /\ nops \in Nat /\ MaxOps \in Nat /\ nops <= MaxOps
<1>1. MaxOps \in Nat /\ MaxFaults \in Nat
  BY JBODConstants
<1> QED BY <1>1 DEF TypeOK, Fault, NoFault, Operation

\* A source fails in one process.
LEMMA DeactivateType ==
    ASSUME TypeOK, NEW pr \in Procs, NEW S, Deactivate(pr, S)
    PROVE  /\ session' \in [Procs -> Sessions]
           /\ \A o \in Procs \ {pr} : session'[o] = session[o]
           /\ session[pr] # Closed => session'[pr] # Closed
<1>1. session \in [Procs -> Sessions]
  BY DEF TypeOK, Sessions
<1>2. ASSUME NEW t \in Sessions, NEW A
      PROVE  /\ [t EXCEPT !.active = @ \ A] \in Sessions
             /\ t # Closed => [t EXCEPT !.active = @ \ A] # Closed
  <2>1. CASE t = Closed
    BY <2>1 DEF Closed, Sessions
  <2>2. CASE t \in [id : Ids, active : SUBSET Sources, gc : BOOLEAN]
    <3>1. [t EXCEPT !.active = @ \ A].id \in {"me", "null"}
      BY <2>2, JBODConstants
    <3> QED BY <2>2, <3>1 DEF Sessions, Closed
  <2> QED BY <2>1, <2>2 DEF Sessions
<1>3. session' = [session EXCEPT ![pr] = [session[pr] EXCEPT !.active = @ \ (S \ Loopbacks)]]
  BY DEF Deactivate
<1> QED BY <1>1, <1>2, <1>3

\* A session that is set.
LEMMA SessionSet ==
    ASSUME TypeOK, NEW pr \in Procs, NEW t \in Sessions, session' = [session EXCEPT ![pr] = t]
    PROVE  /\ session' \in [Procs -> Sessions] /\ session'[pr] = t
           /\ \A o \in Procs \ {pr} : session'[o] = session[o]
  BY DEF TypeOK, Sessions

\* A session whose collector is asked for or served is a session still.
LEMMA GcFlag ==
    ASSUME NEW t \in Sessions, t # Closed, NEW b \in BOOLEAN
    PROVE  [t EXCEPT !.gc = b] \in Sessions /\ [t EXCEPT !.gc = b] # Closed
<1>1. t \in [id : Ids, active : SUBSET Sources, gc : BOOLEAN]
  BY DEF Sessions
<1>2. [t EXCEPT !.gc = b].id \in {"me", "null"}
  BY <1>1, JBODConstants
<1> QED BY <1>1, <1>2 DEF Sessions, Closed

\* One job changes, the others stay or are told that they have lost their file.
OthersKept(pr) ==
    \A o \in Procs \ {pr} :
        \/ job'[o] = job[o]
        \/ Fresh(job[o]) /\ job'[o] = [job[o] EXCEPT !.hit = TRUE]

\* A job that is set.
LEMMA JobSet ==
    ASSUME TypeOK, NEW pr \in Procs, NEW j \in Job, job' = [job EXCEPT ![pr] = j]
    PROVE  job' \in [Procs -> Job] /\ job'[pr] = j /\ OthersKept(pr)
  BY DEF TypeOK, OthersKept

\* Losing its file does not change what a job is.
LEMMA HitShape ==
    ASSUME NEW j \in WriteJobs
    PROVE  LET k == [j EXCEPT !.hit = TRUE]
           IN  /\ k \in WriteJobs /\ k.kind = j.kind /\ k.file = j.file /\ k.step = j.step
               /\ k.path = j.path /\ k.hit = TRUE
  BY DEF WriteJobs

\* A job ends after files are gone.
LEMMA HitSet ==
    ASSUME TypeOK, NEW pr \in Procs, NEW F, NEW j \in Job,
           job' = [Hit(F) EXCEPT ![pr] = j]
    PROVE  /\ job' \in [Procs -> Job] /\ job'[pr] = j /\ OthersKept(pr)
           /\ \A o \in Procs \ {pr} :
                Fresh(job[o]) /\ job[o].file \in F => job'[o].hit
<1>1. \A o \in Procs : job[o] \in Job
  BY DEF TypeOK
<1>2. job' = [o \in Procs |-> IF o = pr THEN j ELSE Hit(F)[o]]
  BY DEF Hit
<1>3. ASSUME NEW o \in Procs
      PROVE  /\ Hit(F)[o] \in Job
             /\ \/ Hit(F)[o] = job[o] /\ ~(Fresh(job[o]) /\ job[o].file \in F)
                \/ Fresh(job[o]) /\ Hit(F)[o] = [job[o] EXCEPT !.hit = TRUE] /\ Hit(F)[o].hit
  <2>1. CASE Fresh(job[o]) /\ job[o].file \in F
    <3>1. Hit(F)[o] = [job[o] EXCEPT !.hit = TRUE]
      BY <2>1 DEF Hit, Fresh
    <3>2. job[o] \in WriteJobs
      BY <1>1, <2>1, JobByKind DEF Fresh
    <3>3. [job[o] EXCEPT !.hit = TRUE] \in WriteJobs /\ [job[o] EXCEPT !.hit = TRUE].hit = TRUE
      BY <3>2, HitShape
    <3> QED BY <2>1, <3>1, <3>3, JobShape
  <2>2. CASE ~(Fresh(job[o]) /\ job[o].file \in F)
    BY <1>1, <2>2 DEF Hit, Fresh
  <2> QED BY <2>1, <2>2
<1> QED BY <1>2, <1>3 DEF OthersKept

\* What other processes' jobs keep in a step.
LEMMA OtherJob ==
    ASSUME TypeOK, NEW pr \in Procs, OthersKept(pr), NEW o \in Procs \ {pr}
    PROVE  /\ job'[o].kind = job[o].kind
           /\ HasFile(job[o]) => job'[o].file = job[o].file
           /\ Fresh(job[o]) => /\ job'[o].step = job[o].step /\ job'[o].path = job[o].path
                               /\ job[o].hit => job'[o].hit
           /\ ~Fresh(job[o]) => job'[o] = job[o]
<1>1. CASE job'[o] = job[o]
  BY <1>1
<1>2. CASE Fresh(job[o]) /\ job'[o] = [job[o] EXCEPT !.hit = TRUE]
  <2>1. job[o] \in WriteJobs
    BY <1>2, JobThere, JobByKind DEF Fresh
  <2> QED BY <1>2, <2>1, HitShape
<1> QED BY <1>1, <1>2 DEF OthersKept

-----------------------------------------------------------------------------
(* What a step has to keep.                                                *)

\* A step of one process: the others keep their sessions and jobs, and the
\* ids given out stay given out.
StepOf(pr) ==
    /\ OthersKept(pr)
    /\ \A o \in Procs \ {pr} : session'[o] = session[o]
    /\ nops' \in Nat /\ nops <= nops'

\* The file that the process works on now is not a new one of another.
ApartFrom(pr) ==
    \A o \in Procs \ {pr} :
        Fresh(job[o]) /\ HasFile(job'[pr]) => job'[pr].file # job[o].file

\* What the others have written and not lost is still there.
FreshKept(pr) ==
    \A o \in Procs \ {pr} :
        Fresh(job[o]) /\ job[o].step = "row" /\ ~job'[o].hit
            => job[o].file \in disk' \ torn'

\* No row takes the new file of another process.
RowsLeaveFresh(pr) ==
    \A o \in Procs \ {pr} :
        Fresh(job[o]) => \A p \in Paths : Exists(p)' => rows'[p].file # job[o].file

\* A row is safe because it was, or its file is one of a row that was safe and
\* nobody is removing the directory, or nobody is sweeping at all.
SafeFrom(pr) ==
    \A p \in Paths : Safe(p)' =>
        \/ Safe(p) /\ rows'[p].file = rows[p].file
        \/ /\ \E q \in Paths : Safe(q) /\ rows'[p].file = rows[q].file
           /\ ~RemovalUnderWay(pr, rows'[p].file.dir)
        \/ ~SweepUnderWay(pr, rows'[p].file)

\* Ids stay given out.
LEMMA KnownStays ==
    ASSUME TypeOK, nops' \in Nat, nops <= nops', NEW f, Known(f, nops)
    PROVE  Known(f, nops')
<1>1. nops \in Nat
  BY Counted
<1> QED BY <1>1 DEF Known

\* What the other jobs have to know is not changed by a step of this process.
LEMMA OthersKeep ==
    ASSUME DataInv, NEW pr \in Procs, StepOf(pr), ApartFrom(pr), FreshKept(pr),
           RowsLeaveFresh(pr), SafeFrom(pr), NEW o \in Procs \ {pr}
    PROVE  JobInv(o)'
<1>1. TypeOK /\ JobInv(o) /\ OthersKept(pr)
  BY DEF DataInv, StepOf
<1>2. JobKnown(o)'
  <2>1. JobKnown(o) /\ session'[o] = session[o]
    BY <1>1 DEF JobInv, StepOf
  <2>2. job[o].kind = "idle" => job'[o].kind = "idle"
    BY <1>1, OtherJob
  <2>3. HasFile(job[o]) => Known(job[o].file, nops')
    BY <1>1, <2>1, KnownStays DEF JobKnown, StepOf
  <2>4. HasFile(job'[o]) <=> HasFile(job[o])
    BY <1>1, OtherJob DEF HasFile
  <2>5. Fresh(job'[o]) <=> Fresh(job[o])
    BY <1>1, OtherJob DEF Fresh
  <2>6. Fresh(job[o]) => HasFile(job[o])
    BY DEF Fresh, HasFile
  <2>7. HasFile(job'[o]) => Known(job'[o].file, nops')
    BY <1>1, <2>3, <2>4, OtherJob
  <2>8. Fresh(job'[o]) => job'[o].file.id # 0 /\ job'[o].file.dir = job'[o].path[1]
    BY <1>1, <2>1, <2>5, <2>6, OtherJob DEF JobKnown
  <2> QED BY <1>1, <2>1, <2>2, <2>7, <2>8, OtherJob DEF JobKnown
<1>3. FreshApart(o)'
  <2> SUFFICES ASSUME Fresh(job'[o])
               PROVE  /\ \A p \in Paths : Exists(p)' => rows'[p].file # job'[o].file
                      /\ \A q \in Procs \ {o} :
                           HasFile(job'[q]) => job'[q].file # job'[o].file
    BY DEF FreshApart
  <2>1. Fresh(job[o]) /\ job'[o].file = job[o].file
    BY <1>1, OtherJob DEF Fresh, HasFile
  <2>2. ASSUME NEW q \in Procs \ {o}, HasFile(job'[q])
        PROVE  job'[q].file # job'[o].file
    <3>1. CASE q = pr
      BY <2>1, <2>2, <3>1 DEF ApartFrom
    <3>2. CASE q # pr
      <4>1. HasFile(job[q]) /\ job'[q].file = job[q].file
        BY <1>1, <2>2, <3>2, OtherJob DEF HasFile
      <4> QED BY <1>1, <2>1, <4>1 DEF JobInv, FreshApart
    <3> QED BY <3>1, <3>2
  <2> QED BY <2>1, <2>2 DEF RowsLeaveFresh
<1>4. FreshData(o)'
  <2> SUFFICES ASSUME Fresh(job'[o]), job'[o].step = "row", ~job'[o].hit
               PROVE  job'[o].file \in disk' \ torn'
    BY DEF FreshData
  <2>1. Fresh(job[o]) /\ job'[o].file = job[o].file /\ job[o].step = "row"
    BY <1>1, OtherJob DEF Fresh, HasFile
  <2> QED BY <2>1 DEF FreshKept
<1>5. CollectorKnows(o)'
  <2> SUFFICES ASSUME job'[o].kind = "gc", NEW p \in Paths, Safe(p)', rows'[p].file.dir = Root
               PROVE  rows'[p].file \in job'[o].live
    BY DEF CollectorKnows
  <2>1. job'[o] = job[o] /\ job[o].kind = "gc"
    BY <1>1, OtherJob DEF Fresh
  <2>2. SweepUnderWay(pr, rows'[p].file)
    BY <2>1 DEF SweepUnderWay
  <2>3. PICK q \in Paths : Safe(q) /\ rows'[p].file = rows[q].file
    BY <2>2 DEF SafeFrom
  <2> QED BY <1>1, <2>1, <2>3 DEF JobInv, CollectorKnows
<1>6. ASSUME NEW p \in Paths, Safe(p)', job[o].kind \in {"rm", "mvdir"},
             rows'[p].file.dir = job[o].dir
      PROVE  Safe(p) /\ rows'[p].file = rows[p].file
  <2>1. RemovalUnderWay(pr, rows'[p].file.dir)
    BY <1>6 DEF RemovalUnderWay
  <2> QED BY <1>6, <2>1 DEF SafeFrom, SweepUnderWay
<1>7. RemoverKnows(o)'
  <2> SUFFICES ASSUME job'[o].kind = "rm", NEW p \in Paths, Safe(p)',
                      rows'[p].file.dir = job'[o].dir
               PROVE  \/ p \in job'[o].todo
                      \/ job'[o].step = "row" /\ p = job'[o].path
                      \/ /\ job'[o].step = "data" /\ p = job'[o].path
                         /\ rows'[p].file = job'[o].file
    BY DEF RemoverKnows
  <2>1. job'[o] = job[o] /\ job[o].kind = "rm"
    BY <1>1, OtherJob DEF Fresh
  <2> QED BY <1>1, <1>6, <2>1 DEF JobInv, RemoverKnows
<1>8. MoverKnows(o)'
  <2> SUFFICES ASSUME job'[o].kind = "mvdir", NEW p \in Paths, Safe(p)'
               PROVE  rows'[p].file.dir # job'[o].dir
    BY DEF MoverKnows
  <2>1. job'[o] = job[o] /\ job[o].kind = "mvdir"
    BY <1>1, OtherJob DEF Fresh
  <2> QED BY <1>1, <1>6, <2>1 DEF JobInv, MoverKnows
<1> QED BY <1>2, <1>3, <1>4, <1>5, <1>7, <1>8 DEF JobInv

\* A step keeps the invariant if it does so for the rows and for its own job.
LEMMA StepKeeps ==
    ASSUME DataInv, TypeOK', NEW pr \in Procs, StepOf(pr), ApartFrom(pr), FreshKept(pr),
           RowsLeaveFresh(pr), SafeFrom(pr), RowsKnown', RowsApart',
           CommittedDataSurvives', JobInv(pr)'
    PROVE  DataInv'
<1>1. \A o \in Procs \ {pr} : JobInv(o)'
  BY OthersKeep
<1> QED BY <1>1 DEF DataInv

\* Rows stay where they are, with the files they have; none becomes safe.
RowsStay ==
    \A p \in Paths :
        /\ Exists(p)' <=> Exists(p)
        /\ Exists(p) => rows'[p].file = rows[p].file
        /\ Safe(p)' => Safe(p)

\* A safe row is one that exists.
LEMMA SafeExists ==
    ASSUME NEW p \in Paths
    PROVE  (Safe(p) => Exists(p)) /\ (Safe(p)' => Exists(p)')
  BY DEF Safe, Found

\* A step in which rows stay keeps the invariant if it does so for its own job
\* and if the files of safe rows, and of the others' writes, stay.
LEMMA RowsStayKeeps ==
    ASSUME DataInv, TypeOK', NEW pr \in Procs, StepOf(pr), ApartFrom(pr), FreshKept(pr),
           RowsStay, \A p \in Paths : Safe(p)' => rows[p].file \in disk' \ torn',
           JobInv(pr)'
    PROVE  DataInv'
<1>1. TypeOK /\ nops' \in Nat /\ nops <= nops'
  BY DEF DataInv, StepOf
<1>2. RowsKnown'
  <2>1. ASSUME NEW p \in Paths, Exists(p)' PROVE Known(rows'[p].file, nops')
    <3>1. Known(rows[p].file, nops) /\ rows'[p].file = rows[p].file
      BY <2>1 DEF DataInv, RowsKnown, RowsStay
    <3> QED BY <1>1, <3>1, KnownStays
  <2>2. ASSUME NEW p \in Paths, Safe(p)'
        PROVE  rows'[p].file.id # 0 /\ rows'[p].file.dir = p[1]
    BY <2>2, SafeExists DEF DataInv, RowsKnown, RowsStay
  <2> QED BY <2>1, <2>2 DEF RowsKnown
<1>3. RowsApart'
  BY DEF DataInv, RowsApart, RowsStay
<1>4. CommittedDataSurvives'
  <2>1. ASSUME NEW p \in Paths, Safe(p)' PROVE rows'[p].file \in disk' \ torn'
    BY <2>1, SafeExists DEF RowsStay
  <2> QED BY <2>1 DEF CommittedDataSurvives, Safe
<1>5. SafeFrom(pr)
  BY SafeExists DEF SafeFrom, RowsStay
<1>6. RowsLeaveFresh(pr)
  BY DEF RowsLeaveFresh, RowsStay, DataInv, JobInv, FreshApart
<1> QED BY <1>2, <1>3, <1>4, <1>5, <1>6, StepKeeps

\* A process that has ended its operation has nothing to know.
LEMMA IdleKnows ==
    ASSUME NEW pr \in Procs, job'[pr] = Idle
    PROVE  JobInv(pr)' /\ ApartFrom(pr)
  BY DEF JobInv, JobKnown, FreshApart, FreshData, CollectorKnows, RemoverKnows, MoverKnows,
     ApartFrom, Idle, HasFile, Fresh

\* A step that changes neither rows nor files keeps the invariant if its own
\* job knows what it has to.
LEMMA StillKeeps ==
    ASSUME DataInv, TypeOK', NEW pr \in Procs, StepOf(pr), ApartFrom(pr),
           UNCHANGED <<rows, disk, torn>>, JobInv(pr)'
    PROVE  DataInv'
<1>1. RowsStay
  BY DEF RowsStay, Exists, Safe, Found
<1>2. \A p \in Paths : Safe(p)' => rows[p].file \in disk' \ torn'
  BY <1>1 DEF DataInv, CommittedDataSurvives, Safe, RowsStay
<1>3. FreshKept(pr)
  <2>1. ASSUME NEW o \in Procs \ {pr}, Fresh(job[o]), job[o].step = "row", ~job'[o].hit
        PROVE  job[o].file \in disk \ torn
    <3>1. ~job[o].hit
      BY <2>1, OtherJob DEF DataInv, StepOf
    <3> QED BY <2>1, <3>1 DEF DataInv, JobInv, FreshData
  <2> QED BY <2>1 DEF FreshKept
<1> QED BY <1>1, <1>2, <1>3, RowsStayKeeps

-----------------------------------------------------------------------------
(* Steps that change neither rows nor files.                               *)

\* A job that nobody touches.
LEMMA JobSame ==
    ASSUME TypeOK, NEW pr \in Procs, job' = job
    PROVE  job' \in [Procs -> Job] /\ OthersKept(pr)
  BY DEF TypeOK, OthersKept

\* A session that nobody touches.
LEMMA SessionSame ==
    ASSUME TypeOK, session' = session
    PROVE  session' \in [Procs -> Sessions]
  BY DEF TypeOK, Sessions

\* A new JBODManager.
LEMMA OpenKeeps ==
    ASSUME DataInv, NEW pr \in Procs, NEW id \in Ids, Open(pr, id)
    PROVE  DataInv'
<1>1. TypeOK
  BY DEF DataInv
<1>2. PICK S \in SUBSET Sources :
        /\ IF S = Sources THEN NoFault ELSE Fault
        /\ session' = [session EXCEPT ![pr] = [id |-> id, active |-> S, gc |-> TRUE]]
  BY DEF Open
<1>3. [id |-> id, active |-> S, gc |-> TRUE] \in Sessions
  BY DEF Sessions
<1>4. session' \in [Procs -> Sessions] /\ \A o \in Procs \ {pr} : session'[o] = session[o]
  BY <1>1, <1>2, <1>3, SessionSet
<1>5. job' \in [Procs -> Job] /\ OthersKept(pr) /\ job'[pr] = Idle
  BY <1>1, JobSame DEF Open
<1>6. nfaults' \in 0..MaxFaults /\ nsessions' \in 0..MaxSessions /\ nops \in Nat
  BY <1>1, <1>2, Counted, JBODConstants DEF Open, TypeOK
<1>7. TypeOK'
  BY <1>1, <1>4, <1>5, <1>6 DEF Open, TypeOK, Sessions
<1>8. StepOf(pr) /\ JobInv(pr)' /\ ApartFrom(pr)
  BY <1>4, <1>5, <1>6, IdleKnows DEF StepOf, Open
<1> QED BY <1>7, <1>8, StillKeeps DEF Open

\* A read that fails.
LEMMA ReadFailsKeeps ==
    ASSUME DataInv, NEW pr \in Procs, NEW p \in Paths, ReadFails(pr, p)
    PROVE  DataInv'
<1>1. TypeOK
  BY DEF DataInv
<1>2. session' \in [Procs -> Sessions] /\ \A o \in Procs \ {pr} : session'[o] = session[o]
  BY <1>1, DeactivateType DEF ReadFails
<1>3. job' \in [Procs -> Job] /\ OthersKept(pr) /\ job'[pr] = Idle
  BY <1>1, JobSame DEF ReadFails, Idling
<1>4. nfaults' \in 0..MaxFaults /\ nops \in Nat
  BY <1>1, Counted DEF ReadFails
<1>5. TypeOK'
  BY <1>1, <1>2, <1>3, <1>4 DEF ReadFails, TypeOK, Sessions
<1>6. StepOf(pr) /\ JobInv(pr)' /\ ApartFrom(pr)
  BY <1>2, <1>3, <1>4, IdleKnows DEF StepOf, ReadFails
<1> QED BY <1>5, <1>6, StillKeeps DEF ReadFails

\* A statement that waited too long for the lock.
LEMMA LockTimeoutKeeps ==
    ASSUME DataInv, NEW pr \in Procs, LockTimeout(pr)
    PROVE  DataInv'
<1>1. TypeOK
  BY DEF DataInv
<1>2. Idle \in Job
  BY JobShape
<1>3. job' \in [Procs -> Job] /\ OthersKept(pr) /\ job'[pr] = Idle
  BY <1>1, <1>2, JobSet DEF LockTimeout, End
<1>4. nfaults' \in 0..MaxFaults /\ nops \in Nat
  BY <1>1, Counted DEF LockTimeout
<1>5. TypeOK'
  BY <1>1, <1>3, <1>4 DEF LockTimeout, TypeOK
<1>6. StepOf(pr) /\ JobInv(pr)' /\ ApartFrom(pr)
  BY <1>3, <1>4, IdleKnows DEF StepOf, LockTimeout
<1> QED BY <1>5, <1>6, StillKeeps DEF LockTimeout

\* A rename that is refused ends the session.
LEMMA MoveRefusedKeeps ==
    ASSUME DataInv, NEW pr \in Procs, MoveRefused(pr)
    PROVE  DataInv'
<1>1. TypeOK
  BY DEF DataInv
<1>2. Closed \in Sessions
  BY DEF Sessions
<1>3. session' \in [Procs -> Sessions] /\ \A o \in Procs \ {pr} : session'[o] = session[o]
  BY <1>1, <1>2, SessionSet DEF MoveRefused
<1>4. job' \in [Procs -> Job] /\ OthersKept(pr) /\ job'[pr] = Idle
  BY <1>1, JobSame DEF MoveRefused, Idling
<1>5. nops' \in 0..MaxOps /\ nops' \in Nat /\ nops <= nops'
  BY <1>1, Counted DEF MoveRefused
<1>6. TypeOK'
  BY <1>1, <1>3, <1>4, <1>5 DEF MoveRefused, TypeOK, Sessions
<1>7. StepOf(pr) /\ JobInv(pr)' /\ ApartFrom(pr)
  BY <1>3, <1>4, <1>5, IdleKnows DEF StepOf
<1> QED BY <1>6, <1>7, StillKeeps DEF MoveRefused

\* mkdir in the sources.
LEMMA CreateDirectoryKeeps ==
    ASSUME DataInv, NEW pr \in Procs, NEW d \in Dirs, CreateDirectory(pr, d)
    PROVE  DataInv'
<1>1. TypeOK
  BY DEF DataInv
<1>2. PICK S \in SUBSET Active(pr) :
        /\ IF S = Active(pr) THEN NoFault ELSE Fault
        /\ tree' = [s \in Sources |-> IF s \in S THEN tree[s] \cup {d} ELSE tree[s]]
        /\ Deactivate(pr, Active(pr) \ S)
  BY DEF CreateDirectory
<1>3. session' \in [Procs -> Sessions] /\ \A o \in Procs \ {pr} : session'[o] = session[o]
  BY <1>1, <1>2, DeactivateType
<1>4. job' \in [Procs -> Job] /\ OthersKept(pr) /\ job'[pr] = Idle
  BY <1>1, JobSame DEF CreateDirectory, Idling
<1>5. /\ nops' \in 0..MaxOps /\ nops' \in Nat /\ nops <= nops'
      /\ nfaults' \in 0..MaxFaults
  BY <1>1, <1>2, Counted DEF CreateDirectory
<1>6. tree' \in [Sources -> SUBSET Dirs] /\ dirRows' \subseteq Dirs
  BY <1>1, <1>2 DEF TypeOK, CreateDirectory
<1>7. TypeOK'
  BY <1>1, <1>3, <1>4, <1>5, <1>6 DEF CreateDirectory, TypeOK, Sessions
<1>8. StepOf(pr) /\ JobInv(pr)' /\ ApartFrom(pr)
  BY <1>3, <1>4, <1>5, IdleKnows DEF StepOf
<1> QED BY <1>7, <1>8, StillKeeps DEF CreateDirectory

\* The directory's own row.
LEMMA RenameDirRowKeeps ==
    ASSUME DataInv, NEW pr \in Procs, RenameDirRow(pr)
    PROVE  DataInv'
<1>1. TypeOK /\ nops \in Nat /\ JobInv(pr)
  BY Counted DEF DataInv
<1>2. job[pr] \in MvJobs
  BY <1>1, JobThere, JobByKind DEF RenameDirRow
<1>3. dirRows' \subseteq Dirs
  BY <1>1, <1>2 DEF RenameDirRow, TypeOK, MvJobs
<1>4. CASE End(pr) /\ session' = [session EXCEPT ![pr] = Closed]
  <2>1. Closed \in Sessions /\ Idle \in Job
    BY JobShape DEF Sessions
  <2>2. session' \in [Procs -> Sessions] /\ \A o \in Procs \ {pr} : session'[o] = session[o]
    BY <1>1, <1>4, <2>1, SessionSet
  <2>3. job' \in [Procs -> Job] /\ OthersKept(pr) /\ job'[pr] = Idle
    BY <1>1, <1>4, <2>1, JobSet DEF End
  <2>4. TypeOK'
    BY <1>1, <1>3, <2>2, <2>3 DEF RenameDirRow, TypeOK, Sessions
  <2>5. StepOf(pr) /\ JobInv(pr)' /\ ApartFrom(pr)
    BY <1>1, <2>2, <2>3, IdleKnows DEF StepOf, RenameDirRow
  <2> QED BY <2>4, <2>5, StillKeeps DEF RenameDirRow
<1>5. CASE job' = [job EXCEPT ![pr].step = "tree"] /\ session' = session
  <2> DEFINE j == [job[pr] EXCEPT !.step = "tree"]
  <2>1. j \in MvJobs /\ j.kind = "mvdir" /\ j.dir = job[pr].dir
    BY <1>2 DEF MvJobs
  <2>2. job' = [job EXCEPT ![pr] = j] /\ j \in Job
    BY <1>5, <2>1, JobShape
  <2> HIDE DEF j
  <2>3. job' \in [Procs -> Job] /\ OthersKept(pr) /\ job'[pr] = j
    BY <1>1, <2>2, JobSet
  <2>4. TypeOK'
    BY <1>1, <1>3, <1>5, <2>3 DEF RenameDirRow, TypeOK
  <2>5. StepOf(pr) /\ ApartFrom(pr)
    BY <1>1, <1>5, <2>1, <2>3 DEF StepOf, ApartFrom, HasFile, RenameDirRow
  <2>6. JobInv(pr)'
    <3>1. job[pr].kind = "mvdir" /\ session[pr] # Closed /\ MoverKnows(pr)
      BY <1>1 DEF JobInv, JobKnown, RenameDirRow
    <3>2. MoverKnows(pr)'
      BY <2>1, <2>3, <3>1 DEF MoverKnows, RenameDirRow, Safe, Found, Exists
    <3> QED BY <1>5, <2>1, <2>3, <3>1, <3>2
        DEF JobInv, JobKnown, FreshApart, FreshData, CollectorKnows, RemoverKnows, Fresh, HasFile
  <2> QED BY <2>4, <2>5, <2>6, StillKeeps DEF RenameDirRow
<1> QED BY <1>4, <1>5 DEF RenameDirRow

\* The rows that a collector reads are all safe ones.
LEMMA GcStartKeeps ==
    ASSUME DataInv, NEW pr \in Procs, GcStart(pr)
    PROVE  DataInv'
<1>1. TypeOK /\ nops \in Nat /\ session[pr] \in Sessions /\ session[pr] # Closed
  BY Counted, JobThere DEF DataInv, GcStart, Idling
<1>2. /\ session' \in [Procs -> Sessions] /\ session'[pr] # Closed
      /\ \A o \in Procs \ {pr} : session'[o] = session[o]
  <2> DEFINE t == [session[pr] EXCEPT !.gc = FALSE]
  <2>1. t \in Sessions /\ t # Closed
    BY <1>1, GcFlag
  <2>2. session' = [session EXCEPT ![pr] = t]
    BY DEF GcStart
  <2> HIDE DEF t
  <2> QED BY <1>1, <2>1, <2>2, SessionSet
<1> DEFINE j == [kind |-> "gc", live |-> LivePhysicalPaths("me"), todo |-> Active(pr)]
<1>3. LivePhysicalPaths("me") \subseteq File
  BY <1>1, RowThere DEF LivePhysicalPaths, Found
<1>4. Active(pr) \subseteq Sources
  BY <1>1, JobThere DEF Active
<1>5. j \in Job
  BY <1>3, <1>4, JobShape DEF GcJobs
<1>6. job' = [job EXCEPT ![pr] = j] /\ j.kind = "gc" /\ j.live = LivePhysicalPaths("me")
  BY DEF GcStart
<1> HIDE DEF j
<1>7. job' \in [Procs -> Job] /\ OthersKept(pr) /\ job'[pr] = j
  BY <1>1, <1>5, <1>6, JobSet
<1>8. TypeOK'
  BY <1>1, <1>2, <1>7 DEF GcStart, TypeOK, Sessions
<1>9. StepOf(pr) /\ ApartFrom(pr)
  BY <1>1, <1>2, <1>6, <1>7 DEF StepOf, ApartFrom, HasFile, GcStart
<1>10. JobInv(pr)'
  <2>1. \A p \in Paths : Safe(p) => rows[p].file \in LivePhysicalPaths("me")
    BY DEF Safe, LivePhysicalPaths
  <2>2. CollectorKnows(pr)'
    BY <1>6, <1>7, <2>1 DEF CollectorKnows, GcStart, Safe, Found, Exists
  <2> QED BY <1>2, <1>6, <1>7, <2>2
        DEF JobInv, JobKnown, FreshApart, FreshData, MoverKnows, RemoverKnows, Fresh, HasFile
<1> QED BY <1>8, <1>9, <1>10, StillKeeps DEF GcStart

-----------------------------------------------------------------------------
(* write_file                                                              *)

\* A job that works on the file of a row.
LEMMA RowFileApart ==
    ASSUME DataInv, NEW pr \in Procs, NEW p \in Paths, Exists(p),
           HasFile(job'[pr]) => job'[pr].file = rows[p].file
    PROVE  ApartFrom(pr)
  BY DEF ApartFrom, DataInv, JobInv, FreshApart

\* A job that goes on with its file.
LEMMA SameFileApart ==
    ASSUME DataInv, NEW pr \in Procs,
           HasFile(job'[pr]) => HasFile(job[pr]) /\ job'[pr].file = job[pr].file
    PROVE  ApartFrom(pr)
  BY DEF ApartFrom, DataInv, JobInv, FreshApart

\* A write job as it begins.
LEMMA WriteJobShape ==
    ASSUME NEW k \in {"over", "new", "takeover"}, NEW p \in Paths, NEW f \in File
    PROVE  LET j == WriteJob(k, p, f)
           IN  /\ j \in Job /\ j \in WriteJobs /\ j.kind = k /\ j.file = f /\ j.path = p
               /\ j.step = "begin"
  BY JobShape DEF WriteJob, WriteJobs

\* The file of an operation that begins is new.
LEMMA NewFileIsNew ==
    ASSUME DataInv, NEW p \in Paths, NEW s \in Sources, Operation
    PROVE  LET f == NewFile(p, s)
           IN  /\ f \in File /\ f.id # 0 /\ f.dir = p[1] /\ Known(f, nops')
               /\ \A q \in Paths : Exists(q) => rows[q].file # f
               /\ \A o \in Procs : HasFile(job[o]) => job[o].file # f
<1> DEFINE f == NewFile(p, s)
<1>1. /\ nops + 1 \in 1..MaxOps /\ nops' = nops + 1 /\ nops \in Nat /\ MaxOps \in Nat
  BY Counted DEF DataInv
<1>2. f \in File /\ f.id = nops + 1 /\ f.dir = p[1]
  BY <1>1, FileShape DEF NewFile
<1> HIDE DEF f
<1>3. ~Known(f, nops) /\ Known(f, nops') /\ f.id # 0
  BY <1>1, <1>2 DEF Known
<1>4. \A q \in Paths : Exists(q) => rows[q].file # f
  BY <1>3 DEF DataInv, RowsKnown
<1>5. \A o \in Procs : HasFile(job[o]) => job[o].file # f
  BY <1>3 DEF DataInv, JobInv, JobKnown
<1> QED BY <1>2, <1>3, <1>4, <1>5 DEF f

\* A write that begins, over the file of the row or with a new one.
LEMMA WriteFileKeeps ==
    ASSUME DataInv, NEW pr \in Procs, NEW p \in Paths, WriteFile(pr, p)
    PROVE  DataInv'
<1>1. TypeOK /\ session[pr] # Closed /\ session' = session
  BY DEF DataInv, WriteFile, Idling
<1>2. nops' \in 0..MaxOps /\ nops' \in Nat /\ nops <= nops'
  BY <1>1, Counted DEF WriteFile
<1>3. PICK j \in Job :
        /\ job' = [job EXCEPT ![pr] = j] /\ HasFile(j) /\ j.step = "begin"
        /\ j.kind \in {"over", "new", "takeover"} /\ Known(j.file, nops')
        /\ \A o \in Procs \ {pr} : Fresh(job[o]) => j.file # job[o].file
        /\ Fresh(j) => /\ j.file.id # 0 /\ j.file.dir = j.path[1]
                       /\ \A q \in Paths : Exists(q) => rows[q].file # j.file
                       /\ \A o \in Procs : HasFile(job[o]) => job[o].file # j.file
  <2>1. CASE Found(p) /\ job' = [job EXCEPT ![pr] = WriteJob("over", p, rows[p].file)]
    <3> DEFINE j == WriteJob("over", p, rows[p].file)
    <3>1. Exists(p) /\ rows[p].file \in File
      BY <1>1, <2>1, RowThere DEF Found
    <3>2. /\ j \in Job /\ j.kind = "over" /\ j.file = rows[p].file /\ j.step = "begin"
          /\ job' = [job EXCEPT ![pr] = j]
      BY <2>1, <3>1, WriteJobShape
    <3>3. Known(rows[p].file, nops')
      BY <1>1, <1>2, <3>1, KnownStays DEF DataInv, RowsKnown
    <3>4. \A o \in Procs : Fresh(job[o]) => rows[p].file # job[o].file
      BY <3>1 DEF DataInv, JobInv, FreshApart
    <3> HIDE DEF j
    <3>5. HasFile(j) /\ ~Fresh(j) /\ j.kind \in {"over", "new", "takeover"} /\ Known(j.file, nops')
      BY <3>2, <3>3 DEF HasFile, Fresh
    <3>6. \A o \in Procs \ {pr} : Fresh(job[o]) => j.file # job[o].file
      BY <3>2, <3>4
    <3> QED BY <3>2, <3>5, <3>6
  <2>2. ASSUME NEW s \in Active(pr), NEW k \in {"new", "takeover"},
               job' = [job EXCEPT ![pr] = WriteJob(k, p, NewFile(p, s))]
        PROVE  \E j \in Job :
                 /\ job' = [job EXCEPT ![pr] = j] /\ HasFile(j) /\ j.step = "begin"
                 /\ j.kind \in {"over", "new", "takeover"} /\ Known(j.file, nops')
                 /\ \A o \in Procs \ {pr} : Fresh(job[o]) => j.file # job[o].file
                 /\ Fresh(j) => /\ j.file.id # 0 /\ j.file.dir = j.path[1]
                                /\ \A q \in Paths : Exists(q) => rows[q].file # j.file
                                /\ \A o \in Procs : HasFile(job[o]) => job[o].file # j.file
    <3> DEFINE f == NewFile(p, s)
               j == WriteJob(k, p, f)
    <3>1. s \in Sources
      BY <1>1, JobThere DEF Active
    <3>2. /\ f \in File /\ f.id # 0 /\ f.dir = p[1] /\ Known(f, nops')
          /\ \A q \in Paths : Exists(q) => rows[q].file # f
          /\ \A o \in Procs : HasFile(job[o]) => job[o].file # f
      BY <3>1, NewFileIsNew DEF WriteFile
    <3> HIDE DEF f
    <3>3. /\ j \in Job /\ j.kind = k /\ j.file = f /\ j.path = p /\ j.step = "begin"
      BY <3>2, WriteJobShape
    <3>4. job' = [job EXCEPT ![pr] = j]
      BY <2>2 DEF f
    <3> HIDE DEF j
    <3> QED BY <3>2, <3>3, <3>4 DEF HasFile, Fresh
  <2> QED BY <2>1, <2>2 DEF WriteFile
<1>4. job' \in [Procs -> Job] /\ OthersKept(pr) /\ job'[pr] = j
  BY <1>1, <1>3, JobSet
<1>5. TypeOK'
  BY <1>1, <1>2, <1>4 DEF WriteFile, TypeOK
<1>6. StepOf(pr)
  BY <1>1, <1>2, <1>4 DEF StepOf
<1>7. ApartFrom(pr)
  BY <1>3, <1>4 DEF ApartFrom
<1>8. JobInv(pr)'
  <2>1. rows' = rows
    BY DEF WriteFile
  <2>2. JobKnown(pr)'
    BY <1>1, <1>3, <1>4 DEF JobKnown
  <2>3. FreshApart(pr)'
    <3> SUFFICES ASSUME Fresh(j)
                 PROVE  /\ \A q \in Paths : Exists(q)' => rows'[q].file # j.file
                        /\ \A o \in Procs \ {pr} :
                             HasFile(job'[o]) => job'[o].file # j.file
      BY <1>4 DEF FreshApart
    <3>1. ASSUME NEW o \in Procs \ {pr}, HasFile(job'[o]) PROVE job'[o].file # j.file
      <4>1. HasFile(job[o]) /\ job'[o].file = job[o].file
        BY <1>1, <1>4, <3>1, OtherJob DEF HasFile
      <4> QED BY <1>3, <4>1
    <3> QED BY <1>3, <2>1, <3>1 DEF Exists
  <2> QED BY <1>3, <1>4, <2>2, <2>3
      DEF JobInv, FreshData, CollectorKnows, RemoverKnows, MoverKnows
<1> QED BY <1>5, <1>6, <1>7, <1>8, StillKeeps DEF WriteFile

\* A write job that goes on keeps its place.
LEMMA WriteStep ==
    ASSUME NEW j \in WriteJobs, NEW s \in {"begin", "data", "row"}
    PROVE  LET k == [j EXCEPT !.step = s]
           IN  /\ k \in Job /\ k.kind = j.kind /\ k.file = j.file /\ k.path = j.path
               /\ k.step = s /\ k.hit = j.hit
  BY JobShape DEF WriteJobs

\* What a write job that goes on still knows, if its new data is there.
LEMMA WriteGoesOn ==
    ASSUME DataInv, NEW pr \in Procs, OthersKept(pr), job[pr] \in WriteJobs,
           job'[pr].kind = job[pr].kind, job'[pr].file = job[pr].file,
           job'[pr].path = job[pr].path,
           rows' = rows, nops' = nops, session'[pr] = session[pr],
           Fresh(job[pr]) /\ job'[pr].step = "row" /\ ~job'[pr].hit
               => job[pr].file \in disk' \ torn'
    PROVE  JobInv(pr)' /\ ApartFrom(pr)
<1>1. job[pr].kind \in {"over", "new", "takeover"} /\ JobInv(pr) /\ TypeOK
  BY DEF WriteJobs, DataInv
<1>2. JobKnown(pr)'
  BY <1>1 DEF JobInv, JobKnown, HasFile, Fresh
<1>3. FreshApart(pr)'
  <2>1. ASSUME NEW o \in Procs \ {pr}, Fresh(job[pr]), HasFile(job'[o])
        PROVE  job'[o].file # job[pr].file
    <3>1. HasFile(job[o]) /\ job'[o].file = job[o].file
      BY <1>1, <2>1, OtherJob DEF HasFile
    <3> QED BY <1>1, <2>1, <3>1 DEF JobInv, FreshApart
  <2> QED BY <1>1, <2>1 DEF JobInv, FreshApart, Fresh, Exists
<1>4. FreshData(pr)'
  BY DEF FreshData, Fresh
<1>5. ApartFrom(pr)
  BY SameFileApart DEF HasFile
<1> QED BY <1>1, <1>2, <1>3, <1>4, <1>5 DEF JobInv, CollectorKnows, RemoverKnows, MoverKnows

\* The transaction begins.
LEMMA BeginKeeps ==
    ASSUME DataInv, NEW pr \in Procs, BeginTransaction(pr)
    PROVE  DataInv'
<1>1. TypeOK /\ nops \in Nat
  BY Counted DEF DataInv
<1>2. job[pr] \in WriteJobs
  BY <1>1, JobThere, JobByKind DEF BeginTransaction
<1> DEFINE j == [job[pr] EXCEPT !.step = "data"]
<1>3. /\ j \in Job /\ j.kind = job[pr].kind /\ j.file = job[pr].file /\ j.path = job[pr].path
      /\ j.step = "data"
  BY <1>2, WriteStep
<1>4. job' = [job EXCEPT ![pr] = j]
  BY DEF BeginTransaction
<1> HIDE DEF j
<1>5. job' \in [Procs -> Job] /\ OthersKept(pr) /\ job'[pr] = j
  BY <1>1, <1>3, <1>4, JobSet
<1>6. TypeOK'
  BY <1>1, <1>5 DEF BeginTransaction, TypeOK
<1>7. StepOf(pr)
  BY <1>1, <1>5 DEF StepOf, BeginTransaction
<1>8. JobInv(pr)' /\ ApartFrom(pr)
  BY <1>2, <1>3, <1>5, WriteGoesOn DEF BeginTransaction
<1> QED BY <1>6, <1>7, <1>8, StillKeeps DEF BeginTransaction

\* What was there and complete still is.
DataStays == disk \ torn \subseteq disk' \ torn'

\* A step that keeps all complete data and no longer calls rows safe keeps the
\* invariant if it does so for its own job.
LEMMA DataStaysKeeps ==
    ASSUME DataInv, TypeOK', NEW pr \in Procs, StepOf(pr), ApartFrom(pr), RowsStay,
           DataStays, JobInv(pr)'
    PROVE  DataInv'
<1>1. \A p \in Paths : Safe(p)' => rows[p].file \in disk' \ torn'
  BY DEF DataInv, CommittedDataSurvives, Safe, RowsStay, DataStays
<1>2. FreshKept(pr)
  <2>1. ASSUME NEW o \in Procs \ {pr}, Fresh(job[o]), job[o].step = "row", ~job'[o].hit
        PROVE  job[o].file \in disk \ torn
    <3>1. ~job[o].hit
      BY <2>1, OtherJob DEF DataInv, StepOf
    <3> QED BY <2>1, <3>1 DEF DataInv, JobInv, FreshData
  <2> QED BY <2>1 DEF FreshKept, DataStays
<1> QED BY <1>1, <1>2, RowsStayKeeps

\* The data is written.
LEMMA WriteDataKeeps ==
    ASSUME DataInv, NEW pr \in Procs, WriteData(pr)
    PROVE  DataInv'
<1>1. TypeOK /\ nops \in Nat
  BY Counted DEF DataInv
<1>2. job[pr] \in WriteJobs
  BY <1>1, JobThere, JobByKind DEF WriteData, Writing
<1> DEFINE j == [job[pr] EXCEPT !.step = "row"]
<1>3. /\ j \in Job /\ j.kind = job[pr].kind /\ j.file = job[pr].file /\ j.path = job[pr].path
      /\ j.step = "row"
  BY <1>2, WriteStep
<1>4. job' = [job EXCEPT ![pr] = j]
  BY DEF WriteData
<1> HIDE DEF j
<1>5. job' \in [Procs -> Job] /\ OthersKept(pr) /\ job'[pr] = j
  BY <1>1, <1>3, <1>4, JobSet
<1>6. job[pr].file \in File /\ job[pr].file.dir \in Dirs \cup {Root}
  BY <1>2 DEF WriteJobs, File, AllDirs
<1>7. disk' \subseteq File /\ torn' \subseteq disk'
  BY <1>1, <1>6 DEF WriteData, TypeOK
<1>8. tree' \in [Sources -> SUBSET Dirs]
  BY <1>1, <1>6 DEF WriteData, TypeOK
<1>9. TypeOK'
  BY <1>1, <1>5, <1>7, <1>8 DEF WriteData, TypeOK
<1>10. StepOf(pr)
  BY <1>1, <1>5 DEF StepOf, WriteData
<1>11. job[pr].file \in disk' \ torn' /\ DataStays
  BY DEF WriteData, DataStays
<1>12. JobInv(pr)' /\ ApartFrom(pr)
  BY <1>2, <1>3, <1>5, <1>11, WriteGoesOn DEF WriteData
<1>13. RowsStay
  BY DEF RowsStay, WriteData, Exists, Safe, Found
<1> QED BY <1>9, <1>10, <1>11, <1>12, <1>13, DataStaysKeeps

-----------------------------------------------------------------------------
(* Steps that lose files.                                                  *)

\* Rows that become risky stay where they are.
LEMMA EndangerShape ==
    ASSUME TypeOK, NEW F, rows' = Endanger(F)
    PROVE  /\ rows' \in [Paths -> Row \cup {NoRow}] /\ RowsStay
           /\ \A p \in Paths : Safe(p)' => rows[p].file \notin F
<1>1. ASSUME NEW p \in Paths
      PROVE  /\ rows'[p] \in Row \cup {NoRow}
             /\ Exists(p)' <=> Exists(p)
             /\ Exists(p) => rows'[p].file = rows[p].file
             /\ Safe(p)' => Safe(p) /\ rows[p].file \notin F
  <2>1. CASE Exists(p) /\ rows[p].file \in F
    <3>1. rows'[p] = [rows[p] EXCEPT !.risky = TRUE]
      BY <2>1 DEF Endanger
    <3>2. rows[p] \in Row
      BY <2>1, RowThere
    <3>3. rows'[p] \in Row /\ rows'[p].file = rows[p].file /\ rows'[p].risky = TRUE
      BY <3>1, <3>2 DEF Row
    <3>4. rows'[p] # NoRow
      <4>1. \A r \in Row : r # NoRow
        BY DEF Row, NoRow
      <4> QED BY <3>3, <4>1
    <3> QED BY <2>1, <3>3, <3>4 DEF Exists, Safe
  <2>2. CASE ~(Exists(p) /\ rows[p].file \in F)
    <3>1. rows'[p] = rows[p]
      BY <2>2 DEF Endanger
    <3> QED BY <2>2, <3>1, RowThere DEF Exists, Safe, Found
  <2> QED BY <2>1, <2>2
<1>2. rows' \in [Paths -> Row \cup {NoRow}]
  BY <1>1 DEF Endanger
<1> QED BY <1>1, <1>2 DEF RowsStay

\* A step that loses files of no safe row and of no other's write keeps the
\* invariant if it does so for its own job.
LEMMA LossKeeps ==
    ASSUME DataInv, TypeOK', NEW pr \in Procs, NEW F, StepOf(pr), ApartFrom(pr), RowsStay,
           (disk \ torn) \ F \subseteq disk' \ torn',
           \A p \in Paths : Safe(p)' => rows[p].file \notin F,
           \A o \in Procs \ {pr} : Fresh(job[o]) /\ ~job'[o].hit => job[o].file \notin F,
           JobInv(pr)'
    PROVE  DataInv'
<1>1. \A p \in Paths : Safe(p)' => rows[p].file \in disk' \ torn'
  BY DEF DataInv, CommittedDataSurvives, Safe, RowsStay
<1>2. FreshKept(pr)
  <2>1. ASSUME NEW o \in Procs \ {pr}, Fresh(job[o]), job[o].step = "row", ~job'[o].hit
        PROVE  job[o].file \in disk' \ torn'
    <3>1. ~job[o].hit
      BY <2>1, OtherJob DEF DataInv, StepOf
    <3>2. job[o].file \in disk \ torn
      BY <2>1, <3>1 DEF DataInv, JobInv, FreshData
    <3> QED BY <2>1, <3>2
  <2> QED BY <2>1 DEF FreshKept
<1> QED BY <1>1, <1>2, RowsStayKeeps

\* Rows that nobody touches.
LEMMA RowsSame ==
    ASSUME rows' = rows
    PROVE  RowsStay
  BY DEF RowsStay, Exists, Safe, Found

\* The file of a process's job is not a new file of another.
LEMMA OwnFileApart ==
    ASSUME DataInv, NEW pr \in Procs, HasFile(job[pr])
    PROVE  \A o \in Procs \ {pr} : Fresh(job[o]) => job[o].file # job[pr].file
  BY DEF DataInv, JobInv, FreshApart

\* A write that fails in the source.
LEMMA WriteDataFailsKeeps ==
    ASSUME DataInv, NEW pr \in Procs, WriteDataFails(pr)
    PROVE  DataInv'
<1>1. TypeOK /\ nops \in Nat
  BY Counted DEF DataInv
<1>2. job[pr] \in WriteJobs
  BY <1>1, JobThere, JobByKind DEF WriteDataFails, Writing
<1> DEFINE f == job[pr].file
<1>3. f \in File /\ HasFile(job[pr])
  BY <1>2 DEF WriteJobs, HasFile
<1>4. Idle \in Job
  BY JobShape
<1>5. job' \in [Procs -> Job] /\ OthersKept(pr) /\ job'[pr] = Idle
  BY <1>1, <1>4, JobSet DEF WriteDataFails, End
<1>6. nfaults' \in 0..MaxFaults
  BY <1>1, Counted DEF WriteDataFails
<1>7. JobInv(pr)' /\ ApartFrom(pr)
  BY <1>5, IdleKnows
<1>8. \A o \in Procs \ {pr} : Fresh(job[o]) => job[o].file # f
  BY <1>3, OwnFileApart
<1>9. CASE UNCHANGED <<rows, disk, torn, session>>
  <2>1. TypeOK'
    BY <1>1, <1>5, <1>6, <1>9 DEF WriteDataFails, TypeOK
  <2>2. StepOf(pr)
    BY <1>1, <1>5, <1>9 DEF StepOf, WriteDataFails
  <2> QED BY <1>7, <1>9, <2>1, <2>2, StillKeeps
<1>10. CASE /\ job[pr].kind # "over"
            /\ disk' = disk \ {f} /\ torn' = torn \ {f}
            /\ UNCHANGED <<rows, session>>
  <2>1. disk' \subseteq File /\ torn' \subseteq disk'
    BY <1>1, <1>10 DEF TypeOK
  <2>2. TypeOK'
    BY <1>1, <1>5, <1>6, <1>10, <2>1 DEF WriteDataFails, TypeOK
  <2>3. StepOf(pr)
    BY <1>1, <1>5, <1>10 DEF StepOf, WriteDataFails
  <2>4. RowsStay
    BY <1>10, RowsSame
  <2>5. Fresh(job[pr])
    BY <1>2, <1>10 DEF WriteJobs, Fresh
  <2>6. \A p \in Paths : Safe(p)' => rows[p].file \notin {f}
    BY <2>4, <2>5, SafeExists DEF DataInv, JobInv, FreshApart, RowsStay
  <2>7. (disk \ torn) \ {f} \subseteq disk' \ torn'
    BY <1>10
  <2> QED BY <1>7, <1>8, <2>2, <2>3, <2>4, <2>6, <2>7, LossKeeps
<1>11. CASE /\ disk' = disk \cup {f} /\ torn' = torn \cup {f}
            /\ rows' = Endanger({f})
            /\ Deactivate(pr, {f.src})
  <2>1. disk' \subseteq File /\ torn' \subseteq disk'
    BY <1>1, <1>3, <1>11 DEF TypeOK
  <2>2. session' \in [Procs -> Sessions] /\ \A o \in Procs \ {pr} : session'[o] = session[o]
    BY <1>1, <1>11, DeactivateType
  <2>3. /\ rows' \in [Paths -> Row \cup {NoRow}] /\ RowsStay
        /\ \A p \in Paths : Safe(p)' => rows[p].file \notin {f}
    BY <1>1, <1>11, EndangerShape
  <2>4. TypeOK'
    BY <1>1, <1>5, <1>6, <2>1, <2>2, <2>3 DEF WriteDataFails, TypeOK, Sessions
  <2>5. StepOf(pr)
    BY <1>1, <1>5, <2>2 DEF StepOf, WriteDataFails
  <2>6. (disk \ torn) \ {f} \subseteq disk' \ torn'
    BY <1>11
  <2> QED BY <1>7, <1>8, <2>3, <2>4, <2>5, <2>6, LossKeeps
<1> QED BY <1>9, <1>10, <1>11 DEF WriteDataFails

\* A transaction that fails, and a new file that is removed again.
LEMMA WriteRowFailsKeeps ==
    ASSUME DataInv, NEW pr \in Procs, WriteRowFails(pr)
    PROVE  DataInv'
<1>1. TypeOK /\ nops \in Nat
  BY Counted DEF DataInv
<1>2. job[pr] \in WriteJobs
  BY <1>1, JobThere, JobByKind DEF WriteRowFails, Writing
<1> DEFINE F == IF job[pr].kind = "over" THEN {} ELSE {job[pr].file}
<1>3. Idle \in Job
  BY JobShape
<1>4. job' \in [Procs -> Job] /\ OthersKept(pr) /\ job'[pr] = Idle
  BY <1>1, <1>3, JobSet DEF WriteRowFails, End
<1>5. JobInv(pr)' /\ ApartFrom(pr)
  BY <1>4, IdleKnows
<1>6. disk' \subseteq File /\ torn' \subseteq disk' /\ (disk \ torn) \ F \subseteq disk' \ torn'
  BY <1>1 DEF TypeOK, WriteRowFails
<1>7. TypeOK'
  BY <1>1, <1>4, <1>6, Counted DEF WriteRowFails, TypeOK
<1>8. StepOf(pr)
  BY <1>1, <1>4 DEF StepOf, WriteRowFails
<1>9. RowsStay
  BY RowsSame DEF WriteRowFails
<1>10. \A p \in Paths : Safe(p)' => rows[p].file \notin F
  <2>1. CASE Fresh(job[pr])
    BY <1>9, <2>1, SafeExists DEF DataInv, JobInv, FreshApart, RowsStay
  <2>2. CASE ~Fresh(job[pr])
    BY <1>2, <2>2 DEF WriteJobs, Fresh
  <2> QED BY <2>1, <2>2
<1>11. \A o \in Procs \ {pr} : Fresh(job[o]) => job[o].file \notin F
  BY <1>2, OwnFileApart DEF HasFile, WriteJobs
<1> QED BY <1>5, <1>6, <1>7, <1>8, <1>9, <1>10, <1>11, LossKeeps

\* A process that is killed leaves at most its own file half written.
LEMMA KillKeeps ==
    ASSUME DataInv, NEW pr \in Procs, Kill(pr)
    PROVE  DataInv'
<1>1. TypeOK /\ nops \in Nat /\ nfaults' \in 0..MaxFaults
  BY Counted DEF DataInv, Kill
<1>2. Closed \in Sessions /\ Idle \in Job
  BY JobShape DEF Sessions
<1>3. session' \in [Procs -> Sessions] /\ \A o \in Procs \ {pr} : session'[o] = session[o]
  BY <1>1, <1>2, SessionSet DEF Kill
<1>4. job' \in [Procs -> Job] /\ OthersKept(pr) /\ job'[pr] = Idle
  BY <1>1, <1>2, JobSet DEF Kill, End
<1>5. StepOf(pr) /\ JobInv(pr)' /\ ApartFrom(pr)
  BY <1>1, <1>3, <1>4, IdleKnows DEF StepOf, Kill
<1>6. lock' \in Procs \cup {NoLock}
  BY <1>1 DEF TypeOK, Kill
<1>7. CASE UNCHANGED <<rows, disk, torn>>
  <2>1. TypeOK'
    BY <1>1, <1>3, <1>4, <1>6, <1>7 DEF Kill, TypeOK, Sessions
  <2> QED BY <1>5, <1>7, <2>1, StillKeeps
<1>8. CASE /\ job[pr].kind \in {"over", "new", "takeover"}
           /\ disk' = disk \cup {job[pr].file}
           /\ torn' = torn \cup {job[pr].file}
           /\ rows' = Endanger({job[pr].file})
  <2>1. job[pr] \in WriteJobs
    BY <1>1, <1>8, JobThere, JobByKind
  <2>2. job[pr].file \in File
    BY <2>1 DEF WriteJobs
  <2>3. disk' \subseteq File /\ torn' \subseteq disk'
    BY <1>1, <1>8, <2>2 DEF TypeOK
  <2>4. /\ rows' \in [Paths -> Row \cup {NoRow}] /\ RowsStay
        /\ \A p \in Paths : Safe(p)' => rows[p].file \notin {job[pr].file}
    BY <1>1, <1>8, EndangerShape
  <2>5. TypeOK'
    BY <1>1, <1>3, <1>4, <1>6, <2>3, <2>4 DEF Kill, TypeOK, Sessions
  <2>6. \A o \in Procs \ {pr} : Fresh(job[o]) => job[o].file # job[pr].file
    BY <1>8, OwnFileApart DEF HasFile
  <2>7. (disk \ torn) \ {job[pr].file} \subseteq disk' \ torn'
    BY <1>8
  <2> QED BY <1>5, <2>4, <2>5, <2>6, <2>7, LossKeeps
<1> QED BY <1>7, <1>8 DEF Kill

-----------------------------------------------------------------------------
(* Rows that are committed.                                                *)

\* One row that is set.
LEMMA RowSet ==
    ASSUME TypeOK, NEW p \in Paths, NEW r \in Row, rows' = [rows EXCEPT ![p] = r]
    PROVE  /\ rows' \in [Paths -> Row \cup {NoRow}]
           /\ rows'[p] = r /\ Exists(p)'
           /\ Safe(p)' <=> r.live /\ r.owner \in {"me", "null"} /\ ~r.risky
           /\ \A q \in Paths \ {p} : /\ rows'[q] = rows[q]
                                     /\ Exists(q)' <=> Exists(q)
                                     /\ Safe(q)' <=> Safe(q)
<1>1. rows \in [Paths -> Row \cup {NoRow}]
  BY DEF TypeOK
<1>2. /\ rows' \in [Paths -> Row \cup {NoRow}] /\ rows'[p] = r
      /\ \A q \in Paths \ {p} : rows'[q] = rows[q]
  BY <1>1
<1>3. r # NoRow
  BY DEF Row, NoRow
<1> QED BY <1>2, <1>3 DEF Exists, Safe, Found

\* A process that ends with one row set keeps the invariant, if the row's file
\* is known and nobody else's, and if its data is there should it be safe.
LEMMA RowSetKeeps ==
    ASSUME DataInv, TypeOK', NEW pr \in Procs, NEW p \in Paths, NEW r \in Row,
           rows' = [rows EXCEPT ![p] = r], StepOf(pr), job'[pr] = Idle,
           UNCHANGED <<disk, torn>>,
           Known(r.file, nops'),
           \A q \in Paths \ {p} : Exists(q) /\ rows[q].file = r.file => r.file.id = 0,
           \A o \in Procs \ {pr} : Fresh(job[o]) => r.file # job[o].file,
           r.live /\ r.owner \in {"me", "null"} /\ ~r.risky =>
               /\ r.file.id # 0 /\ r.file.dir = p[1] /\ r.file \in disk \ torn
               /\ (Safe(p) /\ r.file = rows[p].file) \/ ~SweepUnderWay(pr, r.file)
    PROVE  DataInv'
<1>1. TypeOK /\ nops' \in Nat /\ nops <= nops'
  BY DEF DataInv, StepOf
<1>2. /\ rows'[p] = r /\ Exists(p)'
      /\ Safe(p)' <=> r.live /\ r.owner \in {"me", "null"} /\ ~r.risky
      /\ \A q \in Paths \ {p} : /\ rows'[q] = rows[q]
                                /\ Exists(q)' <=> Exists(q)
                                /\ Safe(q)' <=> Safe(q)
  BY <1>1, RowSet
<1>3. RowsKnown'
  <2>1. ASSUME NEW q \in Paths \ {p}
        PROVE  /\ Exists(q)' => Known(rows'[q].file, nops')
               /\ Safe(q)' => rows'[q].file.id # 0 /\ rows'[q].file.dir = q[1]
    BY <1>1, <1>2, KnownStays DEF DataInv, RowsKnown
  <2>2. /\ Exists(p)' => Known(rows'[p].file, nops')
        /\ Safe(p)' => rows'[p].file.id # 0 /\ rows'[p].file.dir = p[1]
    BY <1>2
  <2> QED BY <2>1, <2>2 DEF RowsKnown
<1>4. RowsApart'
  <2> SUFFICES ASSUME NEW q \in Paths, NEW s \in Paths, q # s, Exists(q)', Exists(s)',
                      rows'[q].file = rows'[s].file
               PROVE  rows'[q].file.id = 0
    BY DEF RowsApart
  <2>1. CASE q = p
    BY <1>2, <2>1
  <2>2. CASE s = p
    BY <1>2, <2>2
  <2>3. CASE q # p /\ s # p
    BY <1>2, <2>3 DEF DataInv, RowsApart
  <2> QED BY <2>1, <2>2, <2>3
<1>5. CommittedDataSurvives'
  <2>1. ASSUME NEW q \in Paths, Safe(q)' PROVE rows'[q].file \in disk' \ torn'
    <3>1. CASE q = p
      BY <1>2, <2>1, <3>1
    <3>2. CASE q # p
      <4>1. Safe(q) /\ rows'[q] = rows[q]
        BY <1>2, <2>1, <3>2
      <4> QED BY <4>1 DEF DataInv, CommittedDataSurvives, Safe
    <3> QED BY <3>1, <3>2
  <2> QED BY <2>1 DEF CommittedDataSurvives, Safe
<1>6. SafeFrom(pr)
  BY <1>2 DEF SafeFrom
<1>7. RowsLeaveFresh(pr)
  <2> SUFFICES ASSUME NEW o \in Procs \ {pr}, Fresh(job[o]), NEW q \in Paths, Exists(q)'
               PROVE  rows'[q].file # job[o].file
    BY DEF RowsLeaveFresh
  <2>1. CASE q = p
    BY <1>2, <2>1
  <2>2. CASE q # p
    BY <1>2, <2>2 DEF DataInv, JobInv, FreshApart
  <2> QED BY <2>1, <2>2
<1>8. FreshKept(pr)
  <2>1. ASSUME NEW o \in Procs \ {pr}, Fresh(job[o]), job[o].step = "row", ~job'[o].hit
        PROVE  job[o].file \in disk \ torn
    <3>1. ~job[o].hit
      BY <2>1, OtherJob DEF DataInv, StepOf
    <3> QED BY <2>1, <3>1 DEF DataInv, JobInv, FreshData
  <2> QED BY <2>1 DEF FreshKept
<1>9. JobInv(pr)' /\ ApartFrom(pr)
  BY IdleKnows
<1> QED BY <1>3, <1>4, <1>5, <1>6, <1>7, <1>8, <1>9, StepKeeps

\* The row that a write commits.
LEMMA Committed ==
    ASSUME DataInv, NEW pr \in Procs, NEW r, Writing(pr, "row"), session[pr] # Closed,
           \/ job[pr].kind = "new" /\ r = Inserted(pr)
           \/ job[pr].kind # "new" /\ Exists(job[pr].path) /\ r = Updated(pr)
    PROVE  LET p == job[pr].path IN
           /\ r \in Row /\ p \in Paths
           /\ Known(r.file, nops)
           /\ \A q \in Paths \ {p} : Exists(q) /\ rows[q].file = r.file => r.file.id = 0
           /\ \A o \in Procs \ {pr} : Fresh(job[o]) => r.file # job[o].file
           /\ r.live /\ r.owner \in {"me", "null"} /\ ~r.risky =>
               /\ r.file.id # 0 /\ r.file.dir = p[1] /\ r.file \in disk \ torn
               /\ (Safe(p) /\ r.file = rows[p].file) \/ ~SweepUnderWay(pr, r.file)
<1> DEFINE p == job[pr].path
<1>1. TypeOK /\ JobInv(pr)
  BY DEF DataInv
<1>2. job[pr] \in WriteJobs
  BY <1>1, JobThere, JobByKind DEF Writing
<1>3. /\ p \in Paths /\ job[pr].file \in File /\ job[pr].hit \in BOOLEAN
      /\ job[pr].kind \in {"over", "new", "takeover"} /\ job[pr].step = "row"
  BY <1>2 DEF WriteJobs, Writing
<1>4. session[pr].id \in {"me", "null"}
  BY <1>1, JobThere
<1>5. \A f : SweepUnderWay(pr, f) \in BOOLEAN
  BY DEF SweepUnderWay
<1>6. CASE Fresh(job[pr])
  <2>1. /\ r.file = job[pr].file /\ r \in Row
        /\ ~r.risky => ~job[pr].hit /\ ~SweepUnderWay(pr, r.file)
    <3>1. CASE job[pr].kind = "new" /\ r = Inserted(pr)
      BY <1>3, <1>4, <1>5, <3>1 DEF Inserted, Row
    <3>2. CASE job[pr].kind = "takeover" /\ Exists(p) /\ r = Updated(pr)
      <4>1. rows[p] \in Row
        BY <1>1, <1>3, <3>2, RowThere
      <4> DEFINE o == IF session[pr].id = "null" THEN rows[p].owner ELSE session[pr].id
                 k == job[pr].hit \/ SweepUnderWay(pr, job[pr].file)
      <4>2. o \in {"me", "other", "null"} /\ k \in BOOLEAN
        BY <1>4, <4>1 DEF Row
      <4>3. r = [rows[p] EXCEPT !.owner = o, !.file = job[pr].file, !.risky = k]
        BY <3>2, <4>1 DEF Updated
      <4>4. [rows[p] EXCEPT !.owner = o, !.file = job[pr].file, !.risky = k] \in Row
        BY <1>3, <4>1, <4>2 DEF Row
      <4> HIDE DEF o
      <4> QED BY <1>3, <4>1, <4>3, <4>4 DEF Row
    <3> QED BY <1>6, <3>1, <3>2 DEF Fresh
  <2>2. HasFile(job[pr])
    BY <1>6 DEF Fresh, HasFile
  <2>3. Known(r.file, nops) /\ r.file.id # 0 /\ r.file.dir = p[1]
    BY <1>1, <1>6, <2>1, <2>2 DEF JobInv, JobKnown
  <2>4. \A q \in Paths : Exists(q) => rows[q].file # r.file
    BY <1>1, <1>6, <2>1 DEF JobInv, FreshApart
  <2>5. \A o \in Procs \ {pr} : Fresh(job[o]) => r.file # job[o].file
    BY <2>1, <2>2, OwnFileApart
  <2>6. ~job[pr].hit => r.file \in disk \ torn
    BY <1>1, <1>3, <1>6, <2>1 DEF JobInv, FreshData
  <2> QED BY <1>3, <2>1, <2>3, <2>4, <2>5, <2>6
<1>7. CASE job[pr].kind = "over"
  <2>1. Exists(p) /\ r = Updated(pr)
    BY <1>7
  <2>2. rows[p] \in Row
    BY <1>1, <1>3, <2>1, RowThere
  <2> DEFINE o == IF session[pr].id = "null" THEN rows[p].owner ELSE session[pr].id
             k == \/ rows[p].risky \/ job[pr].hit \/ rows[p].owner = "other"
                  \/ rows[p].file # job[pr].file
  <2>3. o \in {"me", "other", "null"} /\ k \in BOOLEAN
    BY <1>4, <2>2 DEF Row
  <2>4. r = [rows[p] EXCEPT !.owner = o, !.file = rows[p].file, !.risky = k]
    BY <1>7, <2>1, <2>2 DEF Updated
  <2>5. r \in Row /\ r.file = rows[p].file /\ r.live = rows[p].live /\ (r.risky <=> k)
    BY <2>2, <2>3, <2>4 DEF Row
  <2>6. r.live /\ ~r.risky => Safe(p)
    BY <2>1, <2>2, <2>5 DEF Safe, Found, Row
  <2>7. Known(r.file, nops)
    BY <1>3, <2>1, <2>5 DEF DataInv, RowsKnown
  <2>8. \A q \in Paths \ {p} : Exists(q) /\ rows[q].file = r.file => r.file.id = 0
    BY <1>3, <2>1, <2>5 DEF DataInv, RowsApart
  <2>9. \A q \in Procs \ {pr} : Fresh(job[q]) => r.file # job[q].file
    BY <1>3, <2>1, <2>5 DEF DataInv, JobInv, FreshApart
  <2>10. Safe(p) => r.file.id # 0 /\ r.file.dir = p[1] /\ r.file \in disk \ torn
    BY <1>3, <2>5 DEF DataInv, RowsKnown, CommittedDataSurvives, Safe
  <2> QED BY <1>3, <2>5, <2>6, <2>7, <2>8, <2>9, <2>10
<1> QED BY <1>3, <1>6, <1>7 DEF Fresh

\* The transaction is committed.
LEMMA WriteRowKeeps ==
    ASSUME DataInv, NEW pr \in Procs, WriteRow(pr)
    PROVE  DataInv'
<1>1. TypeOK /\ nops \in Nat
  BY Counted DEF DataInv
<1>2. session[pr] \in Sessions /\ session[pr] # Closed
  <2>1. job[pr].kind # "idle"
    BY DEF WriteRow, Writing
  <2> QED BY <1>1, <2>1, JobThere DEF DataInv, JobInv, JobKnown
<1>3. Idle \in Job
  BY JobShape
<1>4. job' \in [Procs -> Job] /\ OthersKept(pr) /\ job'[pr] = Idle
  BY <1>1, <1>3, JobSet DEF WriteRow, End
<1>5. /\ session' \in [Procs -> Sessions]
      /\ \A o \in Procs \ {pr} : session'[o] = session[o]
  <2> DEFINE t == [session[pr] EXCEPT !.gc = TRUE]
  <2>1. t \in Sessions
    BY <1>2, GcFlag
  <2>2. CASE session' = [session EXCEPT ![pr] = t]
    <3> HIDE DEF t
    <3> QED BY <1>1, <2>1, <2>2, SessionSet
  <2>3. CASE session' = session
    BY <1>1, <2>3, SessionSame
  <2> QED BY <2>2, <2>3 DEF WriteRow
<1>6. StepOf(pr)
  BY <1>1, <1>4, <1>5 DEF StepOf, WriteRow
<1>7. ASSUME NEW r, rows' = [rows EXCEPT ![job[pr].path] = r],
             \/ job[pr].kind = "new" /\ r = Inserted(pr)
             \/ job[pr].kind # "new" /\ Exists(job[pr].path) /\ r = Updated(pr)
      PROVE  DataInv'
  <2> DEFINE p == job[pr].path
  <2>1. Writing(pr, "row")
    BY DEF WriteRow
  <2>2. /\ r \in Row /\ p \in Paths
        /\ Known(r.file, nops)
        /\ \A q \in Paths \ {p} : Exists(q) /\ rows[q].file = r.file => r.file.id = 0
        /\ \A o \in Procs \ {pr} : Fresh(job[o]) => r.file # job[o].file
        /\ r.live /\ r.owner \in {"me", "null"} /\ ~r.risky =>
            /\ r.file.id # 0 /\ r.file.dir = p[1] /\ r.file \in disk \ torn
            /\ (Safe(p) /\ r.file = rows[p].file) \/ ~SweepUnderWay(pr, r.file)
    BY <1>2, <1>7, <2>1, Committed
  <2>3. rows' \in [Paths -> Row \cup {NoRow}]
    BY <1>1, <1>7, <2>2, RowSet
  <2>4. TypeOK'
    BY <1>1, <1>4, <1>5, <2>3 DEF WriteRow, TypeOK, Sessions
  <2>5. UNCHANGED <<disk, torn>> /\ nops' = nops
    BY DEF WriteRow
  <2> QED BY <1>4, <1>6, <1>7, <2>2, <2>4, <2>5, RowSetKeeps
<1>8. CASE rows' = rows
  <2>1. TypeOK'
    BY <1>1, <1>4, <1>5, <1>8 DEF WriteRow, TypeOK, Sessions
  <2> QED BY <1>4, <1>6, <1>8, <2>1, IdleKnows, StillKeeps DEF WriteRow
<1> QED BY <1>7, <1>8 DEF WriteRow

-----------------------------------------------------------------------------
(* delete_file and delete_directory                                        *)

\* A removal as it begins.
LEMMA RmJobShape ==
    ASSUME NEW T \in SUBSET Paths, NEW d \in Dirs \cup {NoLock}, Paths # {}, TypeOK
    PROVE  LET j == RmJob(T, d)
           IN  /\ j \in RmJobs /\ j.todo = T /\ j.dir = d /\ j.step = "next"
               /\ j.file.id = 0 /\ Known(j.file, nops)
<1>1. NoPath \in Paths
  BY DEF NoPath
<1>2. 0 \in 0..(MaxOps + 1) /\ nops \in Nat
  BY Counted
<1>3. Foreign(NoPath) \in File /\ Foreign(NoPath).id = 0
  BY <1>1, <1>2, FileShape DEF Foreign
<1>4. Known(Foreign(NoPath), nops)
  BY <1>2, <1>3 DEF Known
<1> QED BY <1>1, <1>3, <1>4 DEF RmJob, RmJobs

\* A removal that looks up a row.
LEMMA LookedShape ==
    ASSUME TypeOK, NEW pr \in Procs, NEW j \in RmJobs, NEW p \in Paths
    PROVE  LET k == Looked(pr, j, p)
           IN  /\ k \in RmJobs /\ k \in Job /\ k.kind = "rm" /\ k.dir = j.dir
               /\ k.todo = j.todo \ {p}
               /\ Found(p) => k.path = p /\ k.file = rows[p].file /\ k.step \in {"row", "data"}
               /\ ~Found(p) => k.file = j.file
<1>1. CASE Found(p)
  <2>1. rows[p].file \in File
    BY <1>1, RowThere DEF Found
  <2> DEFINE s == IF IsRemote(pr, rows[p]) THEN "row" ELSE "data"
  <2>2. Looked(pr, j, p) = [j EXCEPT !.todo = @ \ {p}, !.path = p, !.file = rows[p].file,
                                     !.step = s]
    BY <1>1 DEF Looked
  <2>3. s \in {"row", "data"}
    OBVIOUS
  <2> DEFINE k == [j EXCEPT !.todo = @ \ {p}, !.path = p, !.file = rows[p].file, !.step = s]
  <2> HIDE DEF s
  <2>4. /\ k \in RmJobs
        /\ k.kind = "rm" /\ k.dir = j.dir /\ k.todo = j.todo \ {p}
        /\ k.path = p /\ k.file = rows[p].file /\ k.step = s
    BY <2>1, <2>3 DEF RmJobs
  <2> HIDE DEF k
  <2> QED BY <1>1, <2>2, <2>3, <2>4, JobShape DEF k
<1>2. CASE ~Found(p)
  BY <1>2, JobShape DEF Looked, RmJobs
<1> QED BY <1>1, <1>2

\* Who has looked up a row of the list has it in its hands.
LEMMA RemoverLooks ==
    ASSUME DataInv, NEW pr \in Procs, NEW j \in RmJobs, NEW p \in Paths, session[pr] # Closed,
           job' = [job EXCEPT ![pr] = Looked(pr, j, p)],
           UNCHANGED <<rows, disk, torn, session>>, nops' \in Nat, nops <= nops',
           Known(j.file, nops),
           \A o \in Procs \ {pr} : Fresh(job[o]) => j.file # job[o].file,
           \A q \in Paths : Safe(q) /\ rows[q].file.dir = j.dir => q \in j.todo
    PROVE  job' \in [Procs -> Job] /\ StepOf(pr) /\ ApartFrom(pr) /\ JobInv(pr)'
<1> DEFINE k == Looked(pr, j, p)
<1>1. TypeOK
  BY DEF DataInv
<1>2. /\ k \in Job /\ k.kind = "rm" /\ k.dir = j.dir /\ k.todo = j.todo \ {p}
      /\ Found(p) => k.path = p /\ k.file = rows[p].file /\ k.step \in {"row", "data"}
      /\ ~Found(p) => k.file = j.file
  BY <1>1, LookedShape
<1>3. job' = [job EXCEPT ![pr] = k]
  OBVIOUS
<1> HIDE DEF k
<1>4. job' \in [Procs -> Job] /\ OthersKept(pr) /\ job'[pr] = k
  BY <1>1, <1>2, <1>3, JobSet
<1>5. StepOf(pr)
  BY <1>4 DEF StepOf
<1>6. Known(k.file, nops)
  BY <1>2 DEF DataInv, RowsKnown, Found
<1>7. ApartFrom(pr)
  <2>1. CASE Found(p)
    BY <1>2, <1>4, <2>1, RowFileApart DEF Found
  <2>2. CASE ~Found(p)
    BY <1>2, <1>4, <2>2 DEF ApartFrom
  <2> QED BY <2>1, <2>2
<1>8. JobKnown(pr)'
  <2>1. Known(k.file, nops')
    BY <1>1, <1>6, KnownStays
  <2> QED BY <1>2, <1>4, <2>1 DEF JobKnown, Fresh
<1>9. RemoverKnows(pr)'
  <2> SUFFICES ASSUME NEW q \in Paths, Safe(q)', rows'[q].file.dir = k.dir
               PROVE  \/ q \in k.todo
                      \/ k.step = "row" /\ q = k.path
                      \/ k.step = "data" /\ q = k.path /\ rows'[q].file = k.file
    BY <1>4 DEF RemoverKnows
  <2>1. Safe(q) /\ Found(q) /\ rows'[q] = rows[q]
    BY DEF Safe, Found, Exists
  <2>2. q \in j.todo
    BY <1>2, <2>1
  <2> QED BY <1>2, <2>1, <2>2
<1>10. JobInv(pr)'
  BY <1>2, <1>4, <1>8, <1>9
     DEF JobInv, FreshApart, FreshData, CollectorKnows, MoverKnows, Fresh
<1> QED BY <1>4, <1>5, <1>7, <1>10

\* The file of another device is nobody's new file.
LEMMA ForeignApart ==
    ASSUME DataInv, NEW f, f.id = 0
    PROVE  \A o \in Procs : Fresh(job[o]) => f # job[o].file
  BY DEF DataInv, JobInv, JobKnown

\* A path has a directory.
LEMMA DirPaths ==
    ASSUME NEW d \in Dirs
    PROVE  Paths # {}
<1>1. PICK n \in Names : TRUE
  BY JBODConstants
<1>2. <<d, n>> \in Paths
  BY <1>1 DEF Paths, AllDirs
<1> QED BY <1>2

\* The deletion of a file begins.
LEMMA DeleteFileKeeps ==
    ASSUME DataInv, NEW pr \in Procs, NEW p \in Paths, DeleteFile(pr, p)
    PROVE  DataInv'
<1>1. TypeOK /\ session[pr] # Closed
  BY DEF DataInv, DeleteFile, Idling
<1>2. nops' \in 0..MaxOps /\ nops' \in Nat /\ nops <= nops'
  BY <1>1, Counted DEF DeleteFile
<1> DEFINE j == RmJob({p}, NoLock)
<1>3. j \in RmJobs /\ j.dir = NoLock /\ j.file.id = 0 /\ Known(j.file, nops)
  BY <1>1, RmJobShape
<1>4. job' = [job EXCEPT ![pr] = Looked(pr, j, p)]
  BY DEF DeleteFile
<1> HIDE DEF j
<1>5. \A q \in Paths : Safe(q) => rows[q].file.dir # j.dir
  <2>1. ASSUME NEW q \in Paths, Safe(q) PROVE rows[q].file.dir \in AllDirs
    <3>1. rows[q].file \in File
      BY <1>1, <2>1, SafeExists, RowThere
    <3> QED BY <3>1 DEF File
  <2> QED BY <1>3, <2>1, JBODConstants DEF AllDirs
<1>6. \A o \in Procs \ {pr} : Fresh(job[o]) => j.file # job[o].file
  BY <1>3, ForeignApart
<1>7. job' \in [Procs -> Job] /\ StepOf(pr) /\ ApartFrom(pr) /\ JobInv(pr)'
  BY <1>1, <1>2, <1>3, <1>4, <1>5, <1>6, RemoverLooks DEF DeleteFile
<1>8. TypeOK'
  BY <1>1, <1>2, <1>7 DEF DeleteFile, TypeOK
<1> QED BY <1>7, <1>8, StillKeeps DEF DeleteFile

\* The files of a directory are listed.
LEMMA DeleteDirectoryKeeps ==
    ASSUME DataInv, NEW pr \in Procs, NEW d \in Dirs, DeleteDirectory(pr, d)
    PROVE  DataInv'
<1>1. TypeOK /\ session[pr] # Closed /\ UNCHANGED <<rows, disk, torn, session>>
  BY DEF DataInv, DeleteDirectory, Idling
<1>2. nops' \in 0..MaxOps /\ nops' \in Nat /\ nops <= nops'
  BY <1>1, Counted DEF DeleteDirectory
<1> DEFINE T == {p \in Paths : p[1] = d /\ Found(p)}
           j == RmJob(T, d)
<1>3. j \in RmJobs /\ j.todo = T /\ j.dir = d /\ j.file.id = 0 /\ Known(j.file, nops)
  <2>1. T \in SUBSET Paths
    OBVIOUS
  <2> HIDE DEF T
  <2> QED BY <1>1, <2>1, DirPaths, RmJobShape
<1>4. job' = [job EXCEPT ![pr] = j] /\ j \in Job /\ j.kind = "rm"
  BY <1>3, JobShape DEF DeleteDirectory, RmJobs
<1>5. \A q \in Paths : Safe(q) /\ rows[q].file.dir = d => q \in T
  BY DEF DataInv, RowsKnown, Safe
<1> HIDE DEF j, T
<1>6. job' \in [Procs -> Job] /\ OthersKept(pr) /\ job'[pr] = j
  BY <1>1, <1>4, JobSet
<1>7. StepOf(pr)
  BY <1>1, <1>2, <1>6 DEF StepOf
<1>8. ApartFrom(pr)
  BY <1>3, <1>6, ForeignApart DEF ApartFrom
<1>9. JobInv(pr)'
  <2>1. Known(j.file, nops')
    BY <1>1, <1>2, <1>3, KnownStays
  <2>2. JobKnown(pr)'
    BY <1>1, <1>4, <1>6, <2>1 DEF JobKnown, Fresh
  <2>3. RemoverKnows(pr)'
    BY <1>1, <1>3, <1>5, <1>6 DEF RemoverKnows, Safe, Found, Exists
  <2> QED BY <1>4, <1>6, <2>2, <2>3
          DEF JobInv, FreshApart, FreshData, CollectorKnows, MoverKnows, Fresh
<1>10. TypeOK'
  BY <1>1, <1>2, <1>6 DEF DeleteDirectory, TypeOK
<1> QED BY <1>1, <1>7, <1>8, <1>9, <1>10, StillKeeps

\* The next file of the list is looked up.
LEMMA RmNextKeeps ==
    ASSUME DataInv, NEW pr \in Procs, NEW p \in Paths, RmNext(pr, p)
    PROVE  DataInv'
<1>1. TypeOK /\ nops \in Nat /\ JobInv(pr) /\ job[pr].kind = "rm" /\ job[pr].step = "next"
  BY Counted DEF DataInv, RmNext, Removing
<1>2. session[pr] # Closed /\ Known(job[pr].file, nops) /\ HasFile(job[pr])
  BY <1>1 DEF JobInv, JobKnown, HasFile
<1>3. PICK j \in RmJobs : j = job[pr]
  BY <1>1, JobThere, JobByKind
<1>4. job' = [job EXCEPT ![pr] = Looked(pr, j, p)]
  BY <1>1, <1>3 DEF RmNext, TypeOK
<1>5. \A q \in Paths : Safe(q) /\ rows[q].file.dir = j.dir => q \in j.todo
  BY <1>1, <1>3 DEF JobInv, RemoverKnows
<1>6. \A o \in Procs \ {pr} : Fresh(job[o]) => j.file # job[o].file
  BY <1>2, <1>3, OwnFileApart
<1>7. /\ UNCHANGED <<rows, disk, torn, session>>
      /\ nops' \in Nat /\ nops <= nops' /\ Known(j.file, nops)
  BY <1>1, <1>2, <1>3 DEF RmNext
<1>8. job' \in [Procs -> Job] /\ StepOf(pr) /\ ApartFrom(pr) /\ JobInv(pr)'
  BY <1>2, <1>4, <1>5, <1>6, <1>7, RemoverLooks
<1>9. TypeOK'
  BY <1>1, <1>8 DEF RmNext, TypeOK
<1> QED BY <1>7, <1>8, <1>9, StillKeeps

\* A removal that goes on keeps its place.
LEMMA RmStep ==
    ASSUME NEW j \in RmJobs, NEW s \in {"next", "data", "row"}
    PROVE  LET k == [j EXCEPT !.step = s]
           IN  /\ k \in Job /\ k.kind = "rm" /\ k.file = j.file /\ k.path = j.path
               /\ k.step = s /\ k.todo = j.todo /\ k.dir = j.dir
  BY JobShape DEF RmJobs

\* A removal that goes on, whatever became of the rows.
LEMMA RmGoesOn ==
    ASSUME DataInv, NEW pr \in Procs, OthersKept(pr), job[pr].kind = "rm",
           job'[pr].kind = "rm", job'[pr].file = job[pr].file,
           nops' = nops, session'[pr] # Closed, RemoverKnows(pr)'
    PROVE  JobInv(pr)' /\ ApartFrom(pr)
<1>1. JobInv(pr)
  BY DEF DataInv
<1>2. JobKnown(pr)'
  BY <1>1 DEF JobInv, JobKnown, HasFile, Fresh
<1>3. ApartFrom(pr)
  BY SameFileApart DEF HasFile
<1> QED BY <1>2, <1>3 DEF JobInv, FreshApart, FreshData, CollectorKnows, MoverKnows, Fresh

\* The data is removed, or cannot be.
LEMMA RmDataKeeps ==
    ASSUME DataInv, NEW pr \in Procs, RmData(pr)
    PROVE  DataInv'
<1>1. TypeOK /\ nops \in Nat /\ JobInv(pr) /\ job[pr].kind = "rm" /\ job[pr].step = "data"
  BY Counted DEF DataInv, RmData, Removing
<1>2. job[pr] \in RmJobs /\ HasFile(job[pr])
  BY <1>1, JobThere, JobByKind DEF HasFile
<1> DEFINE f == job[pr].file
<1>3. CASE /\ disk' = IF f.src \in Active(pr) THEN disk \ {f} ELSE disk
           /\ torn' = torn \cap disk'
           /\ rows' = Endanger({f})
           /\ job' = [job EXCEPT ![pr].step = "row"]
           /\ session' = session /\ NoFault
  <2> DEFINE j == [job[pr] EXCEPT !.step = "row"]
  <2>1. /\ j \in Job /\ j.kind = "rm" /\ j.file = f /\ j.path = job[pr].path
        /\ j.step = "row" /\ j.todo = job[pr].todo /\ j.dir = job[pr].dir
    BY <1>2, RmStep
  <2>2. job' = [job EXCEPT ![pr] = j]
    BY <1>3
  <2> HIDE DEF j
  <2>3. job' \in [Procs -> Job] /\ OthersKept(pr) /\ job'[pr] = j
    BY <1>1, <2>1, <2>2, JobSet
  <2>4. /\ rows' \in [Paths -> Row \cup {NoRow}] /\ RowsStay
        /\ \A p \in Paths : Safe(p)' => rows[p].file \notin {f}
    BY <1>1, <1>3, EndangerShape
  <2>5. /\ disk' \subseteq File /\ torn' \subseteq disk'
        /\ (disk \ torn) \ {f} \subseteq disk' \ torn'
    BY <1>1, <1>3 DEF TypeOK
  <2>6. TypeOK'
    BY <1>1, <1>3, <2>3, <2>4, <2>5, Counted DEF RmData, TypeOK
  <2>7. StepOf(pr)
    BY <1>1, <1>3, <2>3 DEF StepOf, RmData
  <2>8. RemoverKnows(pr)'
    <3> SUFFICES ASSUME NEW q \in Paths, Safe(q)', rows'[q].file.dir = j.dir
                 PROVE  q \in j.todo
      BY <2>3 DEF RemoverKnows
    <3>1. Safe(q) /\ rows'[q].file = rows[q].file /\ rows[q].file # f
      BY <2>4, SafeExists DEF RowsStay
    <3> QED BY <1>1, <2>1, <3>1 DEF JobInv, RemoverKnows
  <2>9. JobInv(pr)' /\ ApartFrom(pr)
    <3>1. session'[pr] # Closed
      BY <1>1, <1>3 DEF JobInv, JobKnown
    <3> QED BY <1>1, <2>1, <2>3, <2>8, <3>1, RmGoesOn DEF RmData
  <2>10. \A o \in Procs \ {pr} : Fresh(job[o]) => job[o].file # f
    BY <1>2, OwnFileApart
  <2> QED BY <2>4, <2>5, <2>6, <2>7, <2>9, <2>10, LossKeeps
<1>4. CASE /\ Fault
           /\ Deactivate(pr, {f.src})
           /\ End(pr)
           /\ UNCHANGED <<rows, disk, torn>>
  <2>1. session' \in [Procs -> Sessions] /\ \A o \in Procs \ {pr} : session'[o] = session[o]
    BY <1>1, <1>4, DeactivateType
  <2>2. Idle \in Job
    BY JobShape
  <2>3. job' \in [Procs -> Job] /\ OthersKept(pr) /\ job'[pr] = Idle
    BY <1>1, <1>4, <2>2, JobSet DEF End
  <2>4. TypeOK'
    BY <1>1, <1>4, <2>1, <2>3, Counted DEF RmData, TypeOK, Sessions
  <2>5. StepOf(pr)
    BY <1>1, <2>1, <2>3 DEF StepOf, RmData
  <2> QED BY <1>4, <2>3, <2>4, <2>5, IdleKnows, StillKeeps
<1> QED BY <1>3, <1>4 DEF RmData

\* A row that becomes a tombstone, if it is there.
LEMMA Buried ==
    ASSUME TypeOK, NEW p \in Paths,
           rows' = IF Exists(p) THEN [rows EXCEPT ![p].live = FALSE] ELSE rows
    PROVE  rows' \in [Paths -> Row \cup {NoRow}] /\ RowsStay /\ ~Safe(p)'
<1>1. CASE Exists(p)
  <2> DEFINE r == [rows[p] EXCEPT !.live = FALSE]
  <2>1. r \in Row /\ r.live = FALSE /\ r.file = rows[p].file
    BY <1>1, RowThere DEF Row
  <2>2. rows' = [rows EXCEPT ![p] = r]
    BY <1>1
  <2> HIDE DEF r
  <2> QED BY <1>1, <2>1, <2>2, RowSet DEF RowsStay
<1>2. CASE ~Exists(p)
  BY <1>2, RowsSame DEF TypeOK, Safe, Found, Exists
<1> QED BY <1>1, <1>2

\* The row becomes a tombstone.
LEMMA RmRowKeeps ==
    ASSUME DataInv, NEW pr \in Procs, RmRow(pr)
    PROVE  DataInv'
<1>1. TypeOK /\ nops \in Nat /\ JobInv(pr) /\ job[pr].kind = "rm" /\ job[pr].step = "row"
  BY Counted DEF DataInv, RmRow, Removing
<1>2. job[pr] \in RmJobs
  BY <1>1, JobThere, JobByKind
<1>3. PICK p \in Paths : p = job[pr].path
  BY <1>2 DEF RmJobs
<1>4. rows' \in [Paths -> Row \cup {NoRow}] /\ RowsStay /\ ~Safe(p)'
  BY <1>1, <1>3, Buried DEF RmRow
<1> DEFINE k == [job[pr] EXCEPT !.step = "next"]
           j == IF job[pr].todo = {} /\ job[pr].dir = NoLock THEN Idle ELSE k
<1>5. /\ k \in Job /\ k.kind = "rm" /\ k.file = job[pr].file
      /\ k.step = "next" /\ k.todo = job[pr].todo /\ k.dir = job[pr].dir
  BY <1>2, RmStep
<1>6. job' = [job EXCEPT ![pr] = j]
  BY <1>1 DEF RmRow, TypeOK
<1> HIDE DEF k
<1>7. j \in Job /\ (j = Idle \/ j = k)
  BY <1>5, JobShape
<1> HIDE DEF j
<1>8. job' \in [Procs -> Job] /\ OthersKept(pr) /\ job'[pr] = j
  BY <1>1, <1>6, <1>7, JobSet
<1>9. TypeOK'
  BY <1>1, <1>4, <1>8 DEF RmRow, TypeOK
<1>10. StepOf(pr)
  BY <1>1, <1>8 DEF StepOf, RmRow
<1>11. JobInv(pr)' /\ ApartFrom(pr)
  <2>1. CASE j = Idle
    BY <1>8, <2>1, IdleKnows
  <2>2. CASE j = k
    <3>1. RemoverKnows(pr)'
      <4> SUFFICES ASSUME NEW q \in Paths, Safe(q)', rows'[q].file.dir = k.dir
                   PROVE  q \in k.todo
        BY <1>5, <1>8, <2>2 DEF RemoverKnows
      <4>1. Safe(q) /\ rows'[q].file = rows[q].file /\ q # p
        BY <1>4, SafeExists DEF RowsStay
      <4> QED BY <1>1, <1>3, <1>5, <4>1 DEF JobInv, RemoverKnows
    <3>2. session'[pr] # Closed
      BY <1>1 DEF JobInv, JobKnown, RmRow
    <3> QED BY <1>1, <1>5, <1>8, <2>2, <3>1, <3>2, RmGoesOn DEF RmRow
  <2> QED BY <1>7, <2>1, <2>2
<1>12. DataStays
  BY DEF DataStays, RmRow
<1> QED BY <1>4, <1>9, <1>10, <1>11, <1>12, DataStaysKeeps

\* Files of one directory.
LEMMA UnderShape ==
    ASSUME NEW d, NEW S
    PROVE  \A f \in UNION {Under(s, d) : s \in S} : f.dir = d
  BY DEF Under

\* The directory itself is removed.
LEMMA RmTreeKeeps ==
    ASSUME DataInv, NEW pr \in Procs, RmTree(pr)
    PROVE  DataInv'
<1>1. /\ TypeOK /\ nops \in Nat /\ JobInv(pr)
      /\ job[pr].kind = "rm" /\ job[pr].step = "next" /\ job[pr].todo = {}
  BY Counted DEF DataInv, RmTree, Removing
<1> DEFINE d == job[pr].dir
           gone == UNION {Under(s, d) : s \in Active(pr)}
<1>2. /\ disk' = disk \ gone /\ torn' = torn \ gone
      /\ tree' = [s \in Sources |-> IF s \in Active(pr) THEN tree[s] \ {d} ELSE tree[s]]
      /\ Deactivate(pr, {s \in Active(pr) : d \notin tree[s]})
      /\ dirRows' = dirRows \ {d}
      /\ job' = [Hit(gone) EXCEPT ![pr] = Idle]
  BY DEF RmTree
<1>3. \A f \in gone : f.dir = d
  BY UnderShape
<1> HIDE DEF gone
<1>4. Idle \in Job
  BY JobShape
<1>5. /\ job' \in [Procs -> Job] /\ job'[pr] = Idle /\ OthersKept(pr)
      /\ \A o \in Procs \ {pr} : Fresh(job[o]) /\ job[o].file \in gone => job'[o].hit
  BY <1>1, <1>2, <1>4, HitSet
<1>6. session' \in [Procs -> Sessions] /\ \A o \in Procs \ {pr} : session'[o] = session[o]
  BY <1>1, <1>2, DeactivateType
<1>7. /\ disk' \subseteq File /\ torn' \subseteq disk'
      /\ (disk \ torn) \ gone \subseteq disk' \ torn'
  BY <1>1, <1>2 DEF TypeOK
<1>8. tree' \in [Sources -> SUBSET Dirs] /\ dirRows' \subseteq Dirs
  BY <1>1, <1>2 DEF TypeOK
<1>9. TypeOK'
  BY <1>1, <1>5, <1>6, <1>7, <1>8 DEF RmTree, TypeOK, Sessions
<1>10. StepOf(pr)
  BY <1>1, <1>5, <1>6 DEF StepOf, RmTree
<1>11. RowsStay
  BY RowsSame DEF RmTree
<1>12. \A p \in Paths : Safe(p)' => rows[p].file \notin gone
  BY <1>1, <1>3, <1>11 DEF JobInv, RemoverKnows, RowsStay
<1> QED BY <1>5, <1>7, <1>9, <1>10, <1>11, <1>12, IdleKnows, LossKeeps

-----------------------------------------------------------------------------
(* Moves.                                                                  *)

\* Rows that move one to one, with their files, to where nobody removes
\* anything, keep the invariant.
LEMMA MovedKeeps ==
    ASSUME DataInv, TypeOK', NEW pr \in Procs, StepOf(pr), ApartFrom(pr), JobInv(pr)',
           UNCHANGED <<disk, torn>>, NEW from \in [Paths -> Paths],
           \A x \in Paths : Exists(x)' =>
               /\ Exists(from[x]) /\ rows'[x].file = rows[from[x]].file
               /\ Safe(x)' =>
                    /\ Safe(from[x])
                    /\ \/ from[x] = x
                       \/ rows'[x].file.dir = x[1] /\ ~RemovalUnderWay(pr, x[1]),
           \A x, y \in Paths : x # y /\ Exists(x)' /\ Exists(y)' => from[x] # from[y]
    PROVE  DataInv'
<1>1. TypeOK /\ nops' \in Nat /\ nops <= nops'
  BY DEF DataInv, StepOf
<1>2. \A x \in Paths : from[x] \in Paths
  OBVIOUS
<1>3. RowsKnown'
  <2>1. ASSUME NEW x \in Paths, Exists(x)' PROVE Known(rows'[x].file, nops')
    <3>1. Known(rows[from[x]].file, nops)
      BY <1>2, <2>1 DEF DataInv, RowsKnown
    <3>2. Known(rows[from[x]].file, nops')
      BY <1>1, <3>1, KnownStays
    <3>3. rows'[x].file = rows[from[x]].file
      BY <2>1
    <3> QED BY <3>2, <3>3
  <2>2. ASSUME NEW x \in Paths, Safe(x)'
        PROVE  rows'[x].file.id # 0 /\ rows'[x].file.dir = x[1]
    <3>1. /\ Safe(from[x]) /\ rows'[x].file = rows[from[x]].file
          /\ from[x] = x \/ rows'[x].file.dir = x[1]
      BY <2>2, SafeExists
    <3>2. /\ rows[from[x]].file.id # 0
          /\ rows[from[x]].file.dir = from[x][1]
      BY <1>2, <3>1 DEF DataInv, RowsKnown
    <3> QED BY <3>1, <3>2
  <2> QED BY <2>1, <2>2 DEF RowsKnown
<1>4. RowsApart'
  <2> SUFFICES ASSUME NEW x \in Paths, NEW y \in Paths, x # y, Exists(x)', Exists(y)',
                      rows'[x].file = rows'[y].file
               PROVE  rows'[x].file.id = 0
    BY DEF RowsApart
  <2>1. /\ from[x] # from[y] /\ Exists(from[x]) /\ Exists(from[y])
        /\ rows'[x].file = rows[from[x]].file /\ rows'[y].file = rows[from[y]].file
    OBVIOUS
  <2>2. from[x] \in Paths /\ from[y] \in Paths
    BY <1>2
  <2>3. RowsApart
    BY DEF DataInv
  <2>4. rows[from[x]].file = rows[from[y]].file
    BY <2>1
  <2>5. rows[from[x]].file.id = 0
    BY ZenonT(40), <2>1, <2>2, <2>3, <2>4 DEF RowsApart
  <2> QED BY <2>1, <2>5
<1>5. CommittedDataSurvives'
  <2>1. ASSUME NEW x \in Paths, Safe(x)' PROVE rows'[x].file \in disk' \ torn'
    <3>1. Safe(from[x]) /\ rows'[x].file = rows[from[x]].file
      BY <2>1, SafeExists
    <3> QED BY <1>2, <3>1 DEF DataInv, CommittedDataSurvives, Safe
  <2> QED BY <2>1 DEF CommittedDataSurvives, Safe
<1>6. SafeFrom(pr)
  <2> SUFFICES ASSUME NEW x \in Paths, Safe(x)'
               PROVE  \/ Safe(x) /\ rows'[x].file = rows[x].file
                      \/ /\ \E q \in Paths : Safe(q) /\ rows'[x].file = rows[q].file
                         /\ ~RemovalUnderWay(pr, rows'[x].file.dir)
    BY DEF SafeFrom
  <2>1. /\ Safe(from[x]) /\ rows'[x].file = rows[from[x]].file
        /\ \/ from[x] = x
           \/ rows'[x].file.dir = x[1] /\ ~RemovalUnderWay(pr, x[1])
    BY SafeExists
  <2> QED BY <1>2, <2>1
<1>7. RowsLeaveFresh(pr)
  <2> SUFFICES ASSUME NEW o \in Procs \ {pr}, Fresh(job[o]), NEW x \in Paths, Exists(x)'
               PROVE  rows'[x].file # job[o].file
    BY DEF RowsLeaveFresh
  <2>1. Exists(from[x]) /\ rows'[x].file = rows[from[x]].file
    OBVIOUS
  <2> QED BY <1>2, <2>1 DEF DataInv, JobInv, FreshApart
<1>8. FreshKept(pr)
  <2>1. ASSUME NEW o \in Procs \ {pr}, Fresh(job[o]), job[o].step = "row", ~job'[o].hit
        PROVE  job[o].file \in disk \ torn
    <3>1. ~job[o].hit
      BY <2>1, OtherJob DEF DataInv, StepOf
    <3> QED BY <2>1, <3>1 DEF DataInv, JobInv, FreshData
  <2> QED BY <2>1 DEF FreshKept
<1> QED BY <1>3, <1>4, <1>5, <1>6, <1>7, <1>8, StepKeeps

\* A row that moves keeps its file.
LEMMA MovedShape ==
    ASSUME NEW pr \in Procs, NEW r \in Row, NEW d
    PROVE  LET m == Moved(pr, r, d)
           IN  /\ m \in Row /\ m # NoRow /\ m.live = r.live /\ m.owner = r.owner
               /\ m.file = r.file
               /\ ~m.risky => ~r.risky /\ r.file.dir = d /\ ~RemovalUnderWay(pr, d)
<1> DEFINE k == r.risky \/ r.file.dir # d \/ RemovalUnderWay(pr, d)
<1>1. k \in BOOLEAN
  BY DEF Row, RemovalUnderWay
<1>2. Moved(pr, r, d) = [r EXCEPT !.risky = k]
  BY DEF Moved, Row
<1>3. /\ [r EXCEPT !.risky = k] \in Row /\ [r EXCEPT !.risky = k].risky = k
      /\ [r EXCEPT !.risky = k].live = r.live /\ [r EXCEPT !.risky = k].owner = r.owner
      /\ [r EXCEPT !.risky = k].file = r.file
  <2> HIDE DEF k
  <2> QED BY <1>1 DEF Row
<1>4. \A m \in Row : m # NoRow
  BY DEF Row, NoRow
<1> QED BY <1>2, <1>3, <1>4

\* A file's row takes another path.
LEMMA MoveFileKeeps ==
    ASSUME DataInv, NEW pr \in Procs, NEW p \in Paths, NEW q \in Paths, MoveFile(pr, p, q)
    PROVE  DataInv'
<1>1. TypeOK /\ Exists(p) /\ ~Exists(q) /\ p # q /\ job[pr] = Idle /\ job' = job
  BY DEF DataInv, MoveFile, Found, Idling
<1>2. nops' \in 0..MaxOps /\ nops' \in Nat /\ nops <= nops'
  BY <1>1, Counted DEF MoveFile
<1> DEFINE r == Moved(pr, rows[p], q[1])
<1>3. /\ r \in Row /\ r # NoRow /\ r.live = rows[p].live /\ r.owner = rows[p].owner
      /\ r.file = rows[p].file
      /\ ~r.risky => ~rows[p].risky /\ rows[p].file.dir = q[1] /\ ~RemovalUnderWay(pr, q[1])
  BY <1>1, RowThere, MovedShape
<1>4. rows' = [rows EXCEPT ![q] = r, ![p] = NoRow]
  BY DEF MoveFile
<1> HIDE DEF r
<1>5. /\ rows' \in [Paths -> Row \cup {NoRow}] /\ rows'[q] = r /\ rows'[p] = NoRow
      /\ \A x \in Paths \ {p, q} : rows'[x] = rows[x]
  BY <1>1, <1>3, <1>4 DEF TypeOK
<1>6. /\ Exists(q)' /\ ~Exists(p)'
      /\ Safe(q)' => Safe(p) /\ r.file.dir = q[1] /\ ~RemovalUnderWay(pr, q[1])
      /\ \A x \in Paths \ {p, q} : (Exists(x)' <=> Exists(x)) /\ (Safe(x)' <=> Safe(x))
  BY <1>1, <1>3, <1>5 DEF Exists, Safe, Found
<1>7. job' \in [Procs -> Job] /\ OthersKept(pr) /\ job'[pr] = Idle
  BY <1>1, JobSame
<1>8. TypeOK'
  BY <1>1, <1>2, <1>5, <1>7 DEF MoveFile, TypeOK
<1>9. StepOf(pr) /\ JobInv(pr)' /\ ApartFrom(pr)
  BY <1>2, <1>7, IdleKnows DEF StepOf, MoveFile
<1> DEFINE from == [x \in Paths |-> IF x = q THEN p ELSE x]
<1>10. /\ from \in [Paths -> Paths] /\ from[q] = p
       /\ \A x \in Paths \ {q} : from[x] = x
  OBVIOUS
<1> HIDE DEF from
<1>11. ASSUME NEW x \in Paths, Exists(x)'
       PROVE  /\ Exists(from[x]) /\ rows'[x].file = rows[from[x]].file
              /\ Safe(x)' =>
                   /\ Safe(from[x])
                   /\ \/ from[x] = x
                      \/ rows'[x].file.dir = x[1] /\ ~RemovalUnderWay(pr, x[1])
  <2>1. CASE x = q
    BY <1>1, <1>3, <1>5, <1>6, <1>10, <2>1
  <2>2. CASE x # q
    BY <1>5, <1>6, <1>10, <1>11, <2>2
  <2> QED BY <2>1, <2>2
<1>12. \A x, y \in Paths : x # y /\ Exists(x)' /\ Exists(y)' => from[x] # from[y]
  BY <1>6, <1>10
<1>13. UNCHANGED <<disk, torn>>
  BY DEF MoveFile
<1> QED BY <1>8, <1>9, <1>10, <1>11, <1>12, <1>13, MovedKeeps

\* The rows of a directory take paths in another.
LEMMA MoveDirectoryKeeps ==
    ASSUME DataInv, NEW pr \in Procs, NEW d \in Dirs, NEW e \in Dirs, MoveDirectory(pr, d, e)
    PROVE  DataInv'
<1>1. /\ TypeOK /\ d # e /\ session[pr] # Closed /\ UNCHANGED <<disk, torn, session>>
      /\ \A n \in Names : ~(Exists(<<d, n>>) /\ Exists(<<e, n>>))
  BY DEF DataInv, MoveDirectory, Idling
<1>2. nops' \in 0..MaxOps /\ nops' \in Nat /\ nops <= nops'
  BY <1>1, Counted DEF MoveDirectory
<1>3. \A n \in Names : <<d, n>> \in Paths /\ <<e, n>> \in Paths
  BY DEF Paths, AllDirs
<1>4. \A x \in Paths : x[2] \in Names /\ x = <<x[1], x[2]>>
  BY DEF Paths
<1> DEFINE Comes(x) == x[1] = e /\ Exists(<<d, x[2]>>)
           from == [x \in Paths |-> IF Comes(x) THEN <<d, x[2]>> ELSE x]
<1>5. ASSUME NEW x \in Paths
      PROVE  /\ x[1] = d => rows'[x] = NoRow
             /\ Comes(x) => rows'[x] = Moved(pr, rows[<<d, x[2]>>], e)
             /\ x[1] # d /\ ~Comes(x) => rows'[x] = rows[x]
  BY <1>1 DEF MoveDirectory
<1>6. from \in [Paths -> Paths]
  BY <1>3, <1>4
<1>7. ASSUME NEW x \in Paths
      PROVE  /\ rows'[x] \in Row \cup {NoRow}
             /\ Exists(x)' =>
                 /\ x[1] # d
                 /\ Exists(from[x]) /\ rows'[x].file = rows[from[x]].file
                 /\ Safe(x)' =>
                      /\ Safe(from[x])
                      /\ \/ from[x] = x
                         \/ rows'[x].file.dir = x[1] /\ ~RemovalUnderWay(pr, x[1])
  <2>1. CASE x[1] = d
    BY <1>5, <2>1 DEF Exists
  <2>2. CASE Comes(x)
    <3>1. PICK y \in Paths : y = <<d, x[2]>>
      BY <1>3, <1>4
    <3>2. rows[y] \in Row /\ Exists(y)
      BY <1>1, <2>2, <3>1, RowThere
    <3> DEFINE m == Moved(pr, rows[y], e)
    <3>3. /\ m \in Row /\ m # NoRow /\ m.live = rows[y].live /\ m.owner = rows[y].owner
          /\ m.file = rows[y].file
          /\ ~m.risky => ~rows[y].risky /\ rows[y].file.dir = e /\ ~RemovalUnderWay(pr, e)
      BY <3>2, MovedShape
    <3>4. rows'[x] = m /\ from[x] = y /\ x[1] = e
      BY <1>5, <2>2, <3>1
    <3> HIDE DEF m, from
    <3>5. Safe(x)' => Safe(y) /\ m.file.dir = e /\ ~RemovalUnderWay(pr, e)
      BY <3>2, <3>3, <3>4 DEF Safe, Found, Exists
    <3> QED BY <1>1, <3>2, <3>3, <3>4, <3>5
  <2>3. CASE x[1] # d /\ ~Comes(x)
    <3>1. rows'[x] = rows[x] /\ from[x] = x
      BY <1>5, <2>3
    <3> HIDE DEF from
    <3> QED BY <1>1, <2>3, <3>1, RowThere DEF Exists, Safe, Found
  <2> QED BY <2>1, <2>2, <2>3
<1>8. \A x, y \in Paths : x # y /\ Exists(x)' /\ Exists(y)' => from[x] # from[y]
  <2> SUFFICES ASSUME NEW x \in Paths, NEW y \in Paths, x # y, Exists(x)', Exists(y)'
               PROVE  from[x] # from[y]
    OBVIOUS
  <2>1. x[1] # d /\ y[1] # d /\ x = <<x[1], x[2]>> /\ y = <<y[1], y[2]>>
    BY <1>4, <1>7
  <2>2. CASE Comes(x) /\ Comes(y)
    BY <2>1, <2>2
  <2>3. CASE Comes(x) /\ ~Comes(y)
    BY <2>1, <2>3
  <2>4. CASE ~Comes(x) /\ Comes(y)
    BY <2>1, <2>4
  <2>5. CASE ~Comes(x) /\ ~Comes(y)
    BY <2>5
  <2> QED BY <2>2, <2>3, <2>4, <2>5
<1> HIDE DEF from, Comes
<1>9. rows' \in [Paths -> Row \cup {NoRow}]
  BY <1>7 DEF MoveDirectory
<1> DEFINE j == [kind |-> "mvdir", dir |-> d, to |-> e, step |-> "dirs"]
<1>10. j \in Job /\ j.kind = "mvdir" /\ j.dir = d /\ job' = [job EXCEPT ![pr] = j]
  BY JobShape DEF MvJobs, MoveDirectory
<1> HIDE DEF j
<1>11. job' \in [Procs -> Job] /\ OthersKept(pr) /\ job'[pr] = j
  BY <1>1, <1>10, JobSet
<1>12. TypeOK'
  BY <1>1, <1>2, <1>9, <1>11 DEF MoveDirectory, TypeOK
<1>13. StepOf(pr) /\ ApartFrom(pr)
  BY <1>1, <1>2, <1>10, <1>11 DEF StepOf, ApartFrom, HasFile
<1>14. JobInv(pr)'
  <2>1. MoverKnows(pr)'
    <3> SUFFICES ASSUME NEW x \in Paths, Safe(x)' PROVE rows'[x].file.dir # d
      BY <1>10, <1>11 DEF MoverKnows
    <3>1. /\ x[1] # d /\ rows'[x].file = rows[from[x]].file /\ Safe(from[x])
          /\ from[x] = x \/ rows'[x].file.dir = x[1]
      BY <1>7, SafeExists
    <3>2. Safe(x) => rows[x].file.dir = x[1]
      BY DEF DataInv, RowsKnown
    <3> QED BY <3>1, <3>2
  <2> QED BY <1>1, <1>10, <1>11, <2>1
          DEF JobInv, JobKnown, FreshApart, FreshData, CollectorKnows, RemoverKnows, Fresh, HasFile
<1> QED BY <1>1, <1>6, <1>7, <1>8, <1>12, <1>13, <1>14, MovedKeeps

\* The directories in the sources follow.
LEMMA MoveTreeKeeps ==
    ASSUME DataInv, NEW pr \in Procs, MoveTree(pr)
    PROVE  DataInv'
<1>1. TypeOK /\ nops \in Nat /\ JobInv(pr) /\ job[pr].kind = "mvdir" /\ rows' = rows
  BY Counted DEF DataInv, MoveTree
<1>2. job[pr] \in MvJobs
  BY <1>1, JobThere, JobByKind
<1>3. job[pr].dir \in Dirs /\ job[pr].to \in Dirs
  BY <1>2 DEF MvJobs
<1> DEFINE d == job[pr].dir
<1>4. PICK S \in SUBSET Active(pr) :
        LET gone == UNION {Under(s, d) : s \in S} IN
        /\ IF S = Active(pr) THEN NoFault ELSE Fault
        /\ disk' = disk \ gone
        /\ torn' = torn \ gone
        /\ tree' = [s \in Sources |->
                      IF s \in S THEN (tree[s] \ {d}) \cup {job[pr].to} ELSE tree[s]]
        /\ Deactivate(pr, Active(pr) \ S)
        /\ job' = [Hit(gone) EXCEPT ![pr] = Idle]
  BY DEF MoveTree
<1> DEFINE gone == UNION {Under(s, d) : s \in S}
<1>5. \A f \in gone : f.dir = d
  BY UnderShape
<1>6. /\ disk' = disk \ gone /\ torn' = torn \ gone
      /\ job' = [Hit(gone) EXCEPT ![pr] = Idle]
  BY <1>4
<1> HIDE DEF gone
<1>7. Idle \in Job
  BY JobShape
<1>8. /\ job' \in [Procs -> Job] /\ job'[pr] = Idle /\ OthersKept(pr)
      /\ \A o \in Procs \ {pr} : Fresh(job[o]) /\ job[o].file \in gone => job'[o].hit
  BY <1>1, <1>6, <1>7, HitSet
<1>9. session' \in [Procs -> Sessions] /\ \A o \in Procs \ {pr} : session'[o] = session[o]
  BY <1>1, <1>4, DeactivateType
<1>10. /\ disk' \subseteq File /\ torn' \subseteq disk'
       /\ (disk \ torn) \ gone \subseteq disk' \ torn'
  BY <1>1, <1>6 DEF TypeOK
<1>11. tree' \in [Sources -> SUBSET Dirs]
  <2>1. \A s \in Sources : tree[s] \subseteq Dirs
    BY <1>1 DEF TypeOK
  <2> QED BY <1>3, <1>4, <2>1
<1>12. nfaults' \in 0..MaxFaults
  BY <1>1, <1>4, Counted
<1>13. TypeOK'
  BY <1>1, <1>8, <1>9, <1>10, <1>11, <1>12 DEF MoveTree, TypeOK, Sessions
<1>14. StepOf(pr)
  BY <1>1, <1>8, <1>9 DEF StepOf, MoveTree
<1>15. RowsStay
  BY <1>1, RowsSame
<1>16. \A p \in Paths : Safe(p)' => rows[p].file \notin gone
  BY <1>1, <1>5, <1>15 DEF JobInv, MoverKnows, RowsStay
<1> QED BY <1>8, <1>10, <1>13, <1>14, <1>15, <1>16, IdleKnows, LossKeeps

-----------------------------------------------------------------------------
(* Records from the server and the collection of orphans.                  *)

\* A record of another device.
LEMMA MergeKeeps ==
    ASSUME DataInv, NEW pr \in Procs, NEW p \in Paths, NEW o \in {"other", "null"},
           Merge(pr, p, o)
    PROVE  DataInv'
<1>1. /\ TypeOK /\ nops \in Nat /\ nops' = nops /\ session[pr] # Closed
      /\ session[pr] \in Sessions /\ job[pr] = Idle /\ job' = job
      /\ UNCHANGED <<disk, torn>>
  BY Counted, JobThere DEF DataInv, Merge, Idling
<1> DEFINE r == [live |-> TRUE, owner |-> o, file |-> Foreign(p), risky |-> o = "null"]
<1>2. 0 \in 0..(MaxOps + 1)
  BY <1>1, Counted
<1>3. Foreign(p) \in File /\ Foreign(p).id = 0
  BY <1>2, FileShape DEF Foreign
<1>4. /\ r \in Row /\ r.file.id = 0 /\ rows' = [rows EXCEPT ![p] = r]
      /\ ~(r.owner \in {"me", "null"} /\ ~r.risky)
  BY <1>3 DEF Row, Merge
<1> HIDE DEF r
<1>5. rows' \in [Paths -> Row \cup {NoRow}]
  BY <1>1, <1>4, RowSet
<1>6. session' \in [Procs -> Sessions] /\ \A q \in Procs \ {pr} : session'[q] = session[q]
  <2> DEFINE t == [session[pr] EXCEPT !.gc = TRUE]
  <2>1. t \in Sessions
    BY <1>1, GcFlag
  <2>2. CASE session' = [session EXCEPT ![pr] = t]
    <3> HIDE DEF t
    <3> QED BY <1>1, <2>1, <2>2, SessionSet
  <2>3. CASE session' = session
    BY <1>1, <2>3, SessionSame
  <2> QED BY <2>2, <2>3 DEF Merge
<1>7. job' \in [Procs -> Job] /\ OthersKept(pr) /\ job'[pr] = Idle
  BY <1>1, JobSame
<1>8. nmerges' \in 0..MaxMerges
  BY <1>1, JBODConstants DEF Merge, TypeOK
<1>9. TypeOK'
  BY <1>1, <1>5, <1>6, <1>7, <1>8 DEF Merge, TypeOK, Sessions
<1>10. StepOf(pr)
  BY <1>1, <1>6, <1>7 DEF StepOf
<1>11. Known(r.file, nops')
  BY <1>1, <1>4 DEF Known
<1>12. \A q \in Procs \ {pr} : Fresh(job[q]) => r.file # job[q].file
  BY <1>4, ForeignApart
<1> QED BY <1>1, <1>4, <1>7, <1>9, <1>10, <1>11, <1>12, RowSetKeeps

\* A tombstone of another device.
LEMMA MergeTombstoneKeeps ==
    ASSUME DataInv, NEW pr \in Procs, NEW p \in Paths, MergeTombstone(pr, p)
    PROVE  DataInv'
<1>1. /\ TypeOK /\ nops \in Nat /\ nops' = nops /\ job[pr] = Idle /\ job' = job
      /\ session' = session /\ Exists(p)
  BY Counted DEF DataInv, MergeTombstone, Idling
<1> DEFINE F == IF Found(p) /\ rows[p].file.src \in Active(pr) THEN {rows[p].file} ELSE {}
<1>2. rows' \in [Paths -> Row \cup {NoRow}] /\ RowsStay /\ ~Safe(p)'
  BY <1>1, Buried DEF MergeTombstone
<1>3. /\ disk' \subseteq File /\ torn' \subseteq disk'
      /\ (disk \ torn) \ F \subseteq disk' \ torn'
  BY <1>1 DEF TypeOK, MergeTombstone
<1>4. job' \in [Procs -> Job] /\ OthersKept(pr) /\ job'[pr] = Idle
  BY <1>1, JobSame
<1>5. nmerges' \in 0..MaxMerges
  BY <1>1, JBODConstants DEF MergeTombstone, TypeOK
<1>6. TypeOK'
  BY <1>1, <1>2, <1>3, <1>4, <1>5 DEF MergeTombstone, TypeOK
<1>7. StepOf(pr)
  BY <1>1, <1>4 DEF StepOf
<1>8. \A q \in Paths : Safe(q)' => rows[q].file \notin F
  <2>1. ASSUME NEW q \in Paths, Safe(q)' PROVE rows[q].file # rows[p].file
    <3>1. Safe(q) /\ Exists(q) /\ q # p
      BY <1>2, <2>1, SafeExists DEF RowsStay
    <3> QED BY <1>1, <3>1 DEF DataInv, RowsKnown, RowsApart
  <2> QED BY <2>1
<1>9. \A o \in Procs \ {pr} : Fresh(job[o]) => job[o].file \notin F
  BY <1>1 DEF DataInv, JobInv, FreshApart
<1> HIDE DEF F
<1> QED BY <1>2, <1>3, <1>4, <1>6, <1>7, <1>8, <1>9, IdleKnows, LossKeeps

\* The orphans of a source are deleted.
LEMMA GcSourceKeeps ==
    ASSUME DataInv, NEW pr \in Procs, NEW s \in Sources, GcSource(pr, s)
    PROVE  DataInv'
<1>1. TypeOK /\ nops \in Nat /\ JobInv(pr) /\ job[pr].kind = "gc" /\ rows' = rows
  BY Counted DEF DataInv, GcSource
<1>2. job[pr] \in GcJobs
  BY <1>1, JobThere, JobByKind
<1> DEFINE left == job[pr].todo \ {s}
           k == [job[pr] EXCEPT !.todo = left]
           j == IF left = {} THEN Idle ELSE k
<1>3. PICK gone \in SUBSET (PhysicalFiles(s) \ job[pr].live) :
        /\ disk' = disk \ gone
        /\ torn' = torn \ gone
        /\ IF gone = PhysicalFiles(s) \ job[pr].live THEN NoFault /\ session' = session
           ELSE Fault /\ Deactivate(pr, {s})
        /\ job' = [Hit(gone) EXCEPT ![pr] = IF left = {} THEN Idle
                                         ELSE [@ EXCEPT !.todo = left]]
  BY DEF GcSource
<1>4. \A f \in gone : f.dir = Root /\ f \notin job[pr].live
  BY <1>3 DEF PhysicalFiles, Under
<1>5. k \in Job /\ k.kind = "gc" /\ k.live = job[pr].live
  BY <1>2, JobShape DEF GcJobs
<1>6. job' = [Hit(gone) EXCEPT ![pr] = j]
  <2>1. Hit(gone)[pr] = job[pr]
    BY <1>1 DEF Hit
  <2> HIDE DEF left
  <2> QED BY <1>3, <2>1
<1> HIDE DEF k
<1>7. j \in Job /\ (j = Idle \/ j = k)
  BY <1>5, JobShape
<1> HIDE DEF j
<1>8. /\ job' \in [Procs -> Job] /\ job'[pr] = j /\ OthersKept(pr)
      /\ \A o \in Procs \ {pr} : Fresh(job[o]) /\ job[o].file \in gone => job'[o].hit
  BY <1>1, <1>6, <1>7, HitSet
<1>9. /\ session' \in [Procs -> Sessions]
      /\ \A o \in Procs \ {pr} : session'[o] = session[o]
      /\ session'[pr] # Closed
  <2>1. session[pr] # Closed
    BY <1>1 DEF JobInv, JobKnown
  <2>2. CASE session' = session
    BY <1>1, <2>1, <2>2, SessionSame
  <2>3. CASE Deactivate(pr, {s})
    BY <1>1, <2>1, <2>3, DeactivateType
  <2> QED BY <1>3, <2>2, <2>3
<1>10. /\ disk' \subseteq File /\ torn' \subseteq disk'
       /\ (disk \ torn) \ gone \subseteq disk' \ torn'
  BY <1>1, <1>3 DEF TypeOK
<1>11. nfaults' \in 0..MaxFaults
  BY <1>1, <1>3, Counted
<1>12. TypeOK'
  BY <1>1, <1>8, <1>9, <1>10, <1>11 DEF GcSource, TypeOK, Sessions
<1>13. StepOf(pr)
  BY <1>1, <1>8, <1>9 DEF StepOf, GcSource
<1>14. RowsStay /\ \A p \in Paths : Safe(p)' <=> Safe(p)
  BY <1>1, RowsSame DEF Safe, Found, Exists
<1>15. \A p \in Paths : Safe(p)' => rows[p].file \notin gone
  BY <1>1, <1>4, <1>14 DEF JobInv, CollectorKnows
<1>16. JobInv(pr)' /\ ApartFrom(pr)
  <2>1. CASE j = Idle
    BY <1>8, <2>1, IdleKnows
  <2>2. CASE j = k
    <3>1. CollectorKnows(pr)'
      BY <1>1, <1>5, <1>8, <1>14, <2>2 DEF JobInv, CollectorKnows
    <3> QED BY <1>5, <1>8, <1>9, <2>2, <3>1
            DEF JobInv, JobKnown, FreshApart, FreshData, RemoverKnows, MoverKnows, ApartFrom,
                Fresh, HasFile
  <2> QED BY <1>7, <2>1, <2>2
<1> QED BY <1>8, <1>10, <1>12, <1>13, <1>14, <1>15, <1>16, LossKeeps

-----------------------------------------------------------------------------
(* The invariant.                                                          *)

\* The files stored from the beginning are each one's own, and there.
LEMMA DataInit == Init => DataInv
<1> SUFFICES ASSUME Init PROVE DataInv
  OBVIOUS
<1>1. PICK s \in Sources :
        LET File0(p) == FileAt(s, p, MaxOps + 1) IN
        /\ rows = [p \in Paths |->
                     IF p \in Stored
                     THEN [live |-> TRUE, owner |-> "me", file |-> File0(p), risky |-> FALSE]
                     ELSE NoRow]
        /\ disk = {File0(p) : p \in Stored}
        /\ dirRows = {p[1] : p \in Stored} \ {Root}
        /\ tree = [t \in Sources |-> IF t = s THEN dirRows ELSE {}]
  BY DEF Init
<1> DEFINE File0(p) == FileAt(s, p, MaxOps + 1)
<1>2. /\ Stored \subseteq Paths /\ MaxOps \in Nat /\ MaxFaults \in Nat /\ MaxMerges \in Nat
      /\ MaxSessions \in Nat
  BY JBODConstants DEF Paths, AllDirs
<1>3. \A p \in Paths : File0(p) \in File /\ File0(p).id = MaxOps + 1 /\ File0(p).dir = p[1]
  BY <1>2, FileShape
<1>4. \A p \in Paths : /\ p \in Stored => /\ Exists(p) /\ rows[p] \in Row
                                          /\ rows[p].file = File0(p) /\ File0(p) \in disk
                       /\ p \notin Stored => rows[p] = NoRow /\ ~Exists(p)
  <2>1. ASSUME NEW p \in Paths, p \in Stored
        PROVE  /\ Exists(p) /\ rows[p] \in Row
               /\ rows[p].file = File0(p) /\ File0(p) \in disk
    <3>1. rows[p] = [live |-> TRUE, owner |-> "me", file |-> File0(p), risky |-> FALSE]
      BY <1>1, <2>1
    <3>2. rows[p] \in Row /\ rows[p].file = File0(p)
      BY <1>3, <3>1 DEF Row
    <3>3. rows[p] # NoRow
      BY <3>2 DEF Row, NoRow
    <3> QED BY <1>1, <2>1, <3>2, <3>3 DEF Exists
  <2> QED BY <1>1, <2>1 DEF Exists
<1>5. torn = {} /\ lock = NoLock /\ nops = 0 /\ nfaults = 0 /\ nmerges = 0 /\ nsessions = 0
  BY DEF Init
<1>6. \A pr \in Procs : job[pr] = Idle /\ session[pr] = Closed
  BY DEF Init
<1>7. TypeOK
  <2>1. rows \in [Paths -> Row \cup {NoRow}]
    <3>1. \A p \in Paths : rows[p] \in Row \cup {NoRow}
      BY <1>4
    <3> QED BY <1>1, <3>1
  <2>2. disk \subseteq File
    BY <1>1, <1>2, <1>3
  <2>3. dirRows \subseteq Dirs /\ tree \in [Sources -> SUBSET Dirs]
    <3>1. \A p \in Paths : p[1] \in Dirs \cup {Root}
      BY DEF Paths, AllDirs
    <3> QED BY <1>1, <1>2, <3>1
  <2>4. Idle \in Job
    BY JobShape
  <2>5. job \in [Procs -> Job]
    BY <2>4 DEF Init
  <2>6. session \in [Procs -> {Closed} \cup [id : Ids, active : SUBSET Sources,
                                             gc : BOOLEAN]]
    BY DEF Init
  <2>7. /\ nops \in 0..MaxOps /\ nfaults \in 0..MaxFaults
        /\ nmerges \in 0..MaxMerges /\ nsessions \in 0..MaxSessions
    BY <1>2, <1>5
  <2> QED BY <1>5, <2>1, <2>2, <2>3, <2>5, <2>6, <2>7 DEF TypeOK
<1>8. CommittedDataSurvives
  BY <1>4, <1>5 DEF CommittedDataSurvives, Found
<1>9. RowsKnown
  <2>1. \A p \in Paths : Exists(p) => /\ Known(rows[p].file, nops)
                                      /\ rows[p].file.id # 0 /\ rows[p].file.dir = p[1]
    <3> SUFFICES ASSUME NEW p \in Paths, Exists(p)
                 PROVE  /\ Known(rows[p].file, nops)
                        /\ rows[p].file.id # 0 /\ rows[p].file.dir = p[1]
      OBVIOUS
    <3>1. rows[p].file.id = MaxOps + 1 /\ rows[p].file.dir = p[1]
      BY <1>3, <1>4
    <3> QED BY <1>2, <3>1 DEF Known
  <2> QED BY <2>1, SafeExists DEF RowsKnown
<1>10. RowsApart
  <2> SUFFICES ASSUME NEW p \in Paths, NEW q \in Paths, p # q, Exists(p), Exists(q),
                      rows[p].file = rows[q].file
               PROVE  FALSE
    BY DEF RowsApart
  <2>1. File0(p) = File0(q)
    BY <1>4
  <2>2. p[1] = q[1] /\ p[2] = q[2]
    BY <2>1 DEF FileAt
  <2> QED BY <2>2 DEF Paths
<1>11. \A pr \in Procs : JobInv(pr)
  BY <1>6 DEF JobInv, JobKnown, FreshApart, FreshData, CollectorKnows, RemoverKnows,
     MoverKnows, Idle, HasFile, Fresh
<1> QED BY <1>7, <1>8, <1>9, <1>10, <1>11 DEF DataInv

\* Nothing happens.
LEMMA StutterKeeps == DataInv /\ UNCHANGED vars => DataInv'
<1> SUFFICES ASSUME DataInv, UNCHANGED vars PROVE DataInv'
  OBVIOUS
<1> USE DEF vars
<1>1. TypeOK' /\ CommittedDataSurvives'
  BY DEF DataInv, TypeOK, CommittedDataSurvives, Found, Exists
<1>2. \A p \in Paths : (Exists(p)' <=> Exists(p)) /\ (Safe(p)' <=> Safe(p))
  BY DEF Safe, Found, Exists
<1>3. RowsKnown' /\ RowsApart'
  BY <1>2 DEF DataInv, RowsKnown, RowsApart
<1>4. \A pr \in Procs : JobInv(pr)'
  <2> SUFFICES ASSUME NEW pr \in Procs PROVE JobInv(pr)'
    OBVIOUS
  <2>1. JobInv(pr)
    BY DEF DataInv
  <2>2. JobKnown(pr)' /\ FreshApart(pr)' /\ FreshData(pr)'
    BY <1>2, <2>1 DEF JobInv, JobKnown, FreshApart, FreshData
  <2>3. CollectorKnows(pr)' /\ RemoverKnows(pr)' /\ MoverKnows(pr)'
    BY <1>2, <2>1 DEF JobInv, CollectorKnows, RemoverKnows, MoverKnows
  <2> QED BY <2>2, <2>3 DEF JobInv
<1> QED BY <1>1, <1>3, <1>4 DEF DataInv

\* Every step keeps the invariant.
LEMMA DataStep == DataInv /\ [Next]_vars => DataInv'
<1> SUFFICES ASSUME DataInv, [Next]_vars PROVE DataInv'
  OBVIOUS
<1>1. ASSUME NEW pr \in Procs,
             \/ \E id \in Ids : Open(pr, id)
             \/ Kill(pr) \/ LockTimeout(pr)
             \/ \E p \in Paths : ReadFails(pr, p)
             \/ MoveRefused(pr) \/ RenameDirRow(pr) \/ GcStart(pr)
             \/ \E d \in Dirs : CreateDirectory(pr, d)
      PROVE  DataInv'
  BY <1>1, OpenKeeps, KillKeeps, LockTimeoutKeeps, ReadFailsKeeps, MoveRefusedKeeps,
     RenameDirRowKeeps, GcStartKeeps, CreateDirectoryKeeps
<1>2. ASSUME NEW pr \in Procs,
             \/ \E p \in Paths : WriteFile(pr, p)
             \/ BeginTransaction(pr) \/ WriteData(pr) \/ WriteDataFails(pr)
             \/ WriteRow(pr) \/ WriteRowFails(pr)
      PROVE  DataInv'
  BY <1>2, WriteFileKeeps, BeginKeeps, WriteDataKeeps, WriteDataFailsKeeps, WriteRowKeeps,
     WriteRowFailsKeeps
<1>3. ASSUME NEW pr \in Procs,
             \/ \E p \in Paths : DeleteFile(pr, p)
             \/ \E d \in Dirs : DeleteDirectory(pr, d)
             \/ \E p \in Paths : RmNext(pr, p)
             \/ RmData(pr) \/ RmRow(pr) \/ RmTree(pr)
      PROVE  DataInv'
  BY <1>3, DeleteFileKeeps, DeleteDirectoryKeeps, RmNextKeeps, RmDataKeeps, RmRowKeeps,
     RmTreeKeeps
<1>4. ASSUME NEW pr \in Procs,
             \/ \E p, q \in Paths : MoveFile(pr, p, q)
             \/ \E d, e \in Dirs : MoveDirectory(pr, d, e)
             \/ MoveTree(pr)
             \/ \E p \in Paths : \E o \in {"other", "null"} : Merge(pr, p, o)
             \/ \E p \in Paths : MergeTombstone(pr, p)
             \/ \E s \in Sources : GcSource(pr, s)
      PROVE  DataInv'
  BY <1>4, MoveFileKeeps, MoveDirectoryKeeps, MoveTreeKeeps, MergeKeeps,
     MergeTombstoneKeeps, GcSourceKeeps
<1>5. CASE UNCHANGED vars
  BY <1>5, StutterKeeps
<1> QED BY <1>1, <1>2, <1>3, <1>4, <1>5 DEF Next

\* Rows, files, sessions and jobs keep their shape, in every process and
\* whatever fails (jbod_manager.py: every operation).
THEOREM TypeCorrect == Spec => []TypeOK
<1>1. DataInv => TypeOK
  BY DEF DataInv
<1> QED BY <1>1, DataInit, DataStep, PTL DEF Spec

\* However processes interleave, fail or are killed, a committed file of this
\* device that is in none of the excepted situations has its data, whole: what
\* write_file commits, a delete, a move, another device's record and the
\* collection of orphans leave alone (write_file, gc_orphan_files).
THEOREM CommittedDataIsThere == Spec => []CommittedDataSurvives
<1>1. DataInv => CommittedDataSurvives
  BY DEF DataInv
<1> QED BY <1>1, DataInit, DataStep, PTL DEF Spec

-----------------------------------------------------------------------------
(* The write lock.                                                         *)

InTransaction(j) == j.kind \in {"over", "new", "takeover"} /\ j.step \in {"data", "row"}

\* Who holds the lock is in a transaction, and the other way round.
LEMMA LockHeld ==
    NoLeakedTransaction <=> \A pr \in Procs : lock = pr <=> InTransaction(job[pr])
  BY DEF NoLeakedTransaction, Writing, InTransaction

\* Files gone, a job set: the others stay or are told.
LEMMA HitOthers ==
    ASSUME TypeOK, NEW pr \in Procs, NEW F, NEW j, job' = [Hit(F) EXCEPT ![pr] = j]
    PROVE  OthersKept(pr) /\ job'[pr] = j
<1>1. \A o \in Procs \ {pr} : job'[o] = Hit(F)[o]
  BY DEF Hit
<1>2. job'[pr] = j
  BY DEF Hit
<1> QED BY <1>1, <1>2 DEF Hit, OthersKept, Fresh

\* A job set: the others stay.
LEMMA SetOthers ==
    ASSUME TypeOK, NEW pr \in Procs, NEW j, job' = [job EXCEPT ![pr] = j]
    PROVE  OthersKept(pr) /\ job'[pr] = j
  BY DEF TypeOK, OthersKept

\* The lock follows the transaction of the one process that takes a step.
LEMMA LockFollows ==
    ASSUME TypeOK, NoLeakedTransaction, NEW pr \in Procs, OthersKept(pr),
           lock' = lock \/ {lock, lock'} \subseteq {pr, NoLock},
           lock' = pr <=> InTransaction(job'[pr])
    PROVE  NoLeakedTransaction'
<1>1. \A o \in Procs \ {pr} : InTransaction(job'[o]) <=> InTransaction(job[o])
  BY OtherJob DEF InTransaction, Fresh
<1>2. \A o \in Procs \ {pr} : lock' = o <=> lock = o
  BY JBODConstants
<1>3. \A o \in Procs : lock' = o <=> InTransaction(job'[o])
  BY <1>1, <1>2, LockHeld
<1> QED BY <1>3 DEF NoLeakedTransaction, Writing, InTransaction

\* A step outside a transaction leaves the lock alone.
LEMMA LockStays ==
    ASSUME TypeOK, NoLeakedTransaction, NEW pr \in Procs, OthersKept(pr), lock' = lock,
           InTransaction(job'[pr]) <=> InTransaction(job[pr])
    PROVE  NoLeakedTransaction'
  BY LockHeld, LockFollows

\* What a process does when it is idle leaves the lock alone.
LEMMA IdleLock ==
    ASSUME TypeOK, NoLeakedTransaction, NEW pr \in Procs, job[pr] = Idle, lock' = lock,
           \/ job' = job
           \/ \E j : job' = [job EXCEPT ![pr] = j] /\ ~InTransaction(j)
    PROVE  NoLeakedTransaction'
<1>1. ~InTransaction(job[pr])
  BY DEF InTransaction, Idle
<1>2. CASE job' = job
  BY <1>1, <1>2, LockStays DEF OthersKept
<1>3. ASSUME NEW j, job' = [job EXCEPT ![pr] = j], ~InTransaction(j)
      PROVE  NoLeakedTransaction'
  BY <1>1, <1>3, SetOthers, LockStays
<1> QED BY <1>2, <1>3

\* A transaction that ends, one way or the other, gives the lock back.
LEMMA EndsUnlocked ==
    ASSUME TypeOK, NoLeakedTransaction, NEW pr \in Procs, OthersKept(pr), job'[pr] = Idle,
           (lock' = NoLock /\ lock = pr) \/ (lock' = lock /\ lock # pr)
    PROVE  NoLeakedTransaction'
<1>1. ~InTransaction(job'[pr]) /\ lock' # pr
  BY JBODConstants DEF InTransaction, Idle
<1> QED BY <1>1, LockFollows

\* Writes take the lock, keep it to the commit and give it back on every path.
LEMMA WriteLock ==
    ASSUME TypeOK, NoLeakedTransaction, NEW pr \in Procs,
           \/ \E p \in Paths : WriteFile(pr, p)
           \/ BeginTransaction(pr) \/ WriteData(pr) \/ WriteDataFails(pr)
           \/ WriteRow(pr) \/ WriteRowFails(pr)
    PROVE  NoLeakedTransaction'
<1>1. ASSUME NEW p \in Paths, WriteFile(pr, p) PROVE NoLeakedTransaction'
  <2>1. \A k, f : ~InTransaction(WriteJob(k, p, f))
    BY DEF InTransaction, WriteJob
  <2>2. \E j : job' = [job EXCEPT ![pr] = j] /\ ~InTransaction(j)
    BY <1>1, <2>1 DEF WriteFile
  <2> QED BY <1>1, <2>2, IdleLock DEF WriteFile, Idling
<1>2. CASE BeginTransaction(pr)
  <2> DEFINE j == [job[pr] EXCEPT !.step = "data"]
  <2>1. job[pr] \in WriteJobs
    BY <1>2, JobThere, JobByKind DEF BeginTransaction
  <2>2. InTransaction(j)
    BY <2>1 DEF WriteJobs, InTransaction
  <2>3. job' = [job EXCEPT ![pr] = j]
    BY <1>2 DEF BeginTransaction
  <2> HIDE DEF j
  <2>4. OthersKept(pr) /\ job'[pr] = j
    BY <2>3, SetOthers
  <2> QED BY <1>2, <2>2, <2>4, LockFollows DEF BeginTransaction, LockFree
<1>3. CASE WriteData(pr)
  <2> DEFINE j == [job[pr] EXCEPT !.step = "row"]
  <2>1. job[pr] \in WriteJobs /\ InTransaction(job[pr])
    BY <1>3, JobThere, JobByKind DEF WriteData, Writing, InTransaction
  <2>2. InTransaction(j)
    BY <2>1 DEF WriteJobs, InTransaction
  <2>3. job' = [job EXCEPT ![pr] = j]
    BY <1>3 DEF WriteData
  <2> HIDE DEF j
  <2>4. OthersKept(pr) /\ job'[pr] = j
    BY <2>3, SetOthers
  <2> QED BY <1>3, <2>1, <2>2, <2>4, LockStays DEF WriteData
<1>4. CASE WriteDataFails(pr) \/ WriteRow(pr) \/ WriteRowFails(pr)
  <2>1. InTransaction(job[pr]) /\ lock' = NoLock /\ job' = [job EXCEPT ![pr] = Idle]
    BY <1>4 DEF WriteDataFails, WriteRow, WriteRowFails, Writing, InTransaction, End
  <2>2. lock = pr
    BY <2>1, LockHeld
  <2>3. OthersKept(pr) /\ job'[pr] = Idle
    BY <2>1, SetOthers
  <2> QED BY <2>1, <2>2, <2>3, EndsUnlocked
<1> QED BY <1>1, <1>2, <1>3, <1>4

\* Removals, moves and collections hold no transaction between their steps.
LEMMA OtherLock ==
    ASSUME TypeOK, NoLeakedTransaction, NEW pr \in Procs,
           \/ \E p \in Paths : RmNext(pr, p)
           \/ RmData(pr) \/ RmRow(pr) \/ RmTree(pr) \/ RenameDirRow(pr) \/ MoveTree(pr)
           \/ \E s \in Sources : GcSource(pr, s)
    PROVE  NoLeakedTransaction'
<1>1. job[pr].kind \in {"rm", "mvdir", "gc"} /\ lock' = lock
  BY DEF RmNext, RmData, RmRow, RmTree, RenameDirRow, MoveTree, GcSource, Removing
<1>2. job[pr] \in RmJobs \cup MvJobs \cup GcJobs
  BY <1>1, JobThere, JobByKind
<1>3. OthersKept(pr) /\ job'[pr].kind \in {"rm", "mvdir", "gc", "idle"}
  <2>1. ASSUME NEW p \in Paths, RmNext(pr, p)
        PROVE  OthersKept(pr) /\ job'[pr].kind \in {"rm", "mvdir", "gc", "idle"}
    <3>1. job[pr] \in RmJobs
      BY <2>1, JobThere, JobByKind DEF RmNext, Removing
    <3>2. Looked(pr, job[pr], p).kind = "rm"
      BY <3>1, LookedShape
    <3>3. job' = [job EXCEPT ![pr] = Looked(pr, job[pr], p)]
      BY <2>1 DEF RmNext
    <3> QED BY <3>2, <3>3, SetOthers
  <2>2. CASE RmData(pr)
    <3> DEFINE k == [job[pr] EXCEPT !.step = "row"]
    <3>1. job[pr] \in RmJobs
      BY <2>2, JobThere, JobByKind DEF RmData, Removing
    <3>2. k.kind = "rm"
      BY <3>1, RmStep
    <3>3. PICK j \in {Idle, k} : job' = [job EXCEPT ![pr] = j]
      BY <2>2 DEF RmData, End
    <3> HIDE DEF k
    <3>4. OthersKept(pr) /\ job'[pr] = j
      BY <3>3, SetOthers
    <3> QED BY <3>2, <3>3, <3>4 DEF Idle
  <2>3. CASE RmRow(pr)
    <3> DEFINE k == [job[pr] EXCEPT !.step = "next"]
    <3>1. job[pr] \in RmJobs
      BY <2>3, JobThere, JobByKind DEF RmRow, Removing
    <3>2. k.kind = "rm"
      BY <3>1, RmStep
    <3>3. PICK j \in {Idle, k} : job' = [job EXCEPT ![pr] = j]
      BY <2>3 DEF RmRow
    <3> HIDE DEF k
    <3>4. OthersKept(pr) /\ job'[pr] = j
      BY <3>3, SetOthers
    <3> QED BY <3>2, <3>3, <3>4 DEF Idle
  <2>4. CASE RmTree(pr) \/ MoveTree(pr)
    <3>1. PICK F : job' = [Hit(F) EXCEPT ![pr] = Idle]
      BY <2>4 DEF RmTree, MoveTree
    <3>2. OthersKept(pr) /\ job'[pr] = Idle
      BY <3>1, HitOthers
    <3> QED BY <3>2 DEF Idle
  <2>5. CASE RenameDirRow(pr)
    <3>1. \E j \in {Idle, [job[pr] EXCEPT !.step = "tree"]} : job' = [job EXCEPT ![pr] = j]
      BY <2>5 DEF RenameDirRow, End
    <3>2. \A j \in {Idle, [job[pr] EXCEPT !.step = "tree"]} :
            j.kind \in {"rm", "mvdir", "gc", "idle"}
      <4>1. job[pr] \in MvJobs
        BY <2>5, JobThere, JobByKind DEF RenameDirRow
      <4> QED BY <4>1 DEF Idle, MvJobs
    <3> QED BY <3>1, <3>2, SetOthers
  <2>6. ASSUME NEW s \in Sources, GcSource(pr, s)
        PROVE  OthersKept(pr) /\ job'[pr].kind \in {"rm", "mvdir", "gc", "idle"}
    <3> DEFINE left == job[pr].todo \ {s}
               k == [job[pr] EXCEPT !.todo = left]
    <3>1. job[pr].kind = "gc" /\ job[pr] \in GcJobs
      BY <2>6, JobThere, JobByKind DEF GcSource
    <3>2. k.kind = "gc"
      BY <3>1 DEF GcJobs
    <3>3. PICK F : job' = [Hit(F) EXCEPT ![pr] = IF left = {} THEN Idle
                                                 ELSE [@ EXCEPT !.todo = left]]
      BY <2>6 DEF GcSource
    <3>4. Hit(F)[pr] = job[pr]
      BY <3>1 DEF Hit
    <3>5. PICK j \in {Idle, k} : job' = [Hit(F) EXCEPT ![pr] = j]
      <4> HIDE DEF left
      <4> QED BY <3>3, <3>4
    <3> HIDE DEF k
    <3>6. OthersKept(pr) /\ job'[pr] = j
      BY <3>5, HitOthers
    <3> QED BY <3>2, <3>5, <3>6 DEF Idle
  <2> QED BY <2>1, <2>2, <2>3, <2>4, <2>5, <2>6
<1>4. ~InTransaction(job[pr]) /\ ~InTransaction(job'[pr])
  BY <1>1, <1>3 DEF InTransaction
<1> QED BY <1>1, <1>3, <1>4, LockStays

\* What a process begins when it has nothing else to do takes no lock.
LEMMA BeginsUnlocked ==
    ASSUME TypeOK, NoLeakedTransaction, NEW pr \in Procs,
           \/ \E id \in Ids : Open(pr, id)
           \/ \E p \in Paths : ReadFails(pr, p) \/ DeleteFile(pr, p) \/ MergeTombstone(pr, p)
           \/ \E p \in Paths : \E o \in {"other", "null"} : Merge(pr, p, o)
           \/ \E d \in Dirs : DeleteDirectory(pr, d) \/ CreateDirectory(pr, d)
           \/ \E p, q \in Paths : MoveFile(pr, p, q)
           \/ \E d, e \in Dirs : MoveDirectory(pr, d, e)
           \/ MoveRefused(pr) \/ GcStart(pr)
    PROVE  NoLeakedTransaction'
<1>1. job[pr] = Idle /\ lock' = lock
  BY DEF Open, ReadFails, DeleteFile, MergeTombstone, Merge, DeleteDirectory, CreateDirectory,
     MoveFile, MoveDirectory, MoveRefused, GcStart, Idling
<1>2. \/ job' = job
      \/ \E j : job' = [job EXCEPT ![pr] = j] /\ ~InTransaction(j)
  <2>1. ASSUME NEW p \in Paths, DeleteFile(pr, p)
        PROVE  \E j : job' = [job EXCEPT ![pr] = j] /\ ~InTransaction(j)
    <3> DEFINE j == Looked(pr, RmJob({p}, NoLock), p)
    <3>1. RmJob({p}, NoLock) \in RmJobs
      BY RmJobShape
    <3>2. j.kind = "rm"
      BY <3>1, LookedShape
    <3>3. job' = [job EXCEPT ![pr] = j] /\ ~InTransaction(j)
      BY <2>1, <3>2 DEF DeleteFile, InTransaction
    <3> QED BY <3>3
  <2>2. ASSUME NEW d \in Dirs, DeleteDirectory(pr, d)
        PROVE  \E j : job' = [job EXCEPT ![pr] = j] /\ ~InTransaction(j)
    <3>1. \A T : ~InTransaction(RmJob(T, d))
      BY DEF InTransaction, RmJob
    <3> QED BY <2>2, <3>1 DEF DeleteDirectory
  <2>3. ASSUME NEW d \in Dirs, NEW e \in Dirs, MoveDirectory(pr, d, e)
        PROVE  \E j : job' = [job EXCEPT ![pr] = j] /\ ~InTransaction(j)
    <3> DEFINE j == [kind |-> "mvdir", dir |-> d, to |-> e, step |-> "dirs"]
    <3>1. job' = [job EXCEPT ![pr] = j] /\ ~InTransaction(j)
      BY <2>3 DEF MoveDirectory, InTransaction
    <3> QED BY <3>1
  <2>4. CASE GcStart(pr)
    <3> DEFINE j == [kind |-> "gc", live |-> LivePhysicalPaths("me"), todo |-> Active(pr)]
    <3>1. job' = [job EXCEPT ![pr] = j] /\ ~InTransaction(j)
      BY <2>4 DEF GcStart, InTransaction
    <3> QED BY <3>1
  <2>5. \/ job' = job
        \/ \E p \in Paths : DeleteFile(pr, p)
        \/ \E d \in Dirs : DeleteDirectory(pr, d)
        \/ \E d, e \in Dirs : MoveDirectory(pr, d, e)
        \/ GcStart(pr)
    BY DEF Open, ReadFails, MergeTombstone, Merge, CreateDirectory, MoveFile, MoveRefused
  <2> QED BY <2>1, <2>2, <2>3, <2>4, <2>5
<1> QED BY <1>1, <1>2, IdleLock

\* Every step keeps lock and transactions together.
LEMMA LockStep == TypeOK /\ NoLeakedTransaction /\ [Next]_vars => NoLeakedTransaction'
<1> SUFFICES ASSUME TypeOK, NoLeakedTransaction, [Next]_vars PROVE NoLeakedTransaction'
  OBVIOUS
<1>1. ASSUME NEW pr \in Procs, Kill(pr) PROVE NoLeakedTransaction'
  <2>1. job' = [job EXCEPT ![pr] = Idle] /\ lock' = IF lock = pr THEN NoLock ELSE lock
    BY <1>1 DEF Kill, End
  <2>2. OthersKept(pr) /\ job'[pr] = Idle
    BY <2>1, SetOthers
  <2> QED BY <2>1, <2>2, EndsUnlocked
<1>2. ASSUME NEW pr \in Procs, LockTimeout(pr) PROVE NoLeakedTransaction'
  <2>1. job' = [job EXCEPT ![pr] = Idle] /\ lock' = lock /\ lock # pr
    BY <1>2 DEF LockTimeout, End
  <2>2. OthersKept(pr) /\ job'[pr] = Idle
    BY <2>1, SetOthers
  <2> QED BY <2>1, <2>2, EndsUnlocked
<1>3. CASE UNCHANGED vars
  BY <1>3 DEF vars, NoLeakedTransaction, Writing
<1> QED BY <1>1, <1>2, <1>3, WriteLock, OtherLock, BeginsUnlocked DEF Next

\* Whatever fails in write_file, BEGIN IMMEDIATE is followed by a commit or a
\* rollback before the process does anything else: the lock is held exactly
\* while data or row are being written, so that others get it (write_file).
THEOREM TransactionsEnd == Spec => []NoLeakedTransaction
<1>1. Init => NoLeakedTransaction
  <2>1. ASSUME Init PROVE \A pr \in Procs : lock # pr /\ job[pr].kind = "idle"
    BY <2>1, JBODConstants DEF Init, Idle
  <2> QED BY <2>1 DEF NoLeakedTransaction, Writing
<1> QED BY <1>1, LockStep, TypeCorrect, PTL DEF Spec
=============================================================================
