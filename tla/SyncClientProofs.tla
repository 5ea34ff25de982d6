-------------------------- MODULE SyncClientProofs --------------------------
(***************************************************************************)
(* Proofs about SyncClient, for any devices, files, workers and bounds:    *)
(* type correctness; ServerNeverRegresses and that SyncClient implements   *)
(* the abstract MetadataLog; PendingNeverDropped; and, for a user who      *)
(* waits for his uploads, SyncedIsUploaded and NoLostUpdate.               *)
(***************************************************************************)
EXTENDS SyncClient, TLAPS

(***************************************************************************)
(* The state predicates of the invariant with the variables they speak     *)
(* about as parameters, so that a step can be described by values.         *)
(***************************************************************************)

Dom(b, a, g) ==
    \A p \in Paths \ g :
        a[p] # NoRec /\ ~a[p].del => b[p] # NoRec /\ b[p].ver >= a[p].ver

Cov(t, v, h, g) == v = Len(h) => Dom(t, h[Len(h)], g)

\* Table u keeps every row of t, at the same version or a later one, except
\* for the paths of g.
Grows(u, t, g) ==
    \A p \in Paths \ g : t[p] # NoRec => u[p] # NoRec /\ u[p].ver >= t[p].ver

Clean(h, g) == \A k \in 1..(Len(h) - 1) : Dom(h[k + 1], h[k], g)

ClientsCov(D, h, L, g) ==
    \A c \in Clients : L[c] <= Len(h) /\ Cov(D[c[1]], L[c], h, g)

LateCov(h, N, g) ==
    \A m \in N : m.base \in 0..Len(h) /\ Cov(m.blob, m.base, h, g)

PutCov(w, D, h, q, P, g) ==
    q[w] = "put" =>
        /\ P[w] \in Puts
        /\ P[w].base \in 0..Len(h)
        /\ Cov(P[w].blob, P[w].base, h, g)
        /\ Dom(D[Dev(w)], P[w].blob, g)

AnswerCov(w, D, h, q, S, F, g) ==
    /\ q[w] \in {"gotInit", "gotBlob"} => F[w] \in 1..Len(h)
    /\ q[w] \in {"gotStatus", "fetch"} => S[w] \in 1..Len(h)
    /\ q[w] = "gotBlob" => S[w] <= F[w]
    /\ q[w] = "accepted" => S[w] \in 1..Len(h) /\ Cov(D[Dev(w)], S[w], h, g)
    /\ q[w] # "force"

-----------------------------------------------------------------------------
(***************************************************************************)
(* Workers and their clients                                               *)
(***************************************************************************)

\* A worker belongs to a device and to a SyncClient of that device.
LEMMA WorkerTypes ==
    ASSUME NEW w \in Workers
    PROVE  /\ Dev(w) \in Devices
           /\ Kind(w) \in Kinds
           /\ Client(w) \in Clients
           /\ Client(w)[1] = Dev(w)
BY WorkersAssumption DEF Dev, Kind, Client, Clients, Kinds

-----------------------------------------------------------------------------
(***************************************************************************)
(* The operators on tables                                                 *)
(***************************************************************************)

\* Deleting rows from a table leaves a table (purge_expired_tombstones).
LEMMA WithoutType ==
    ASSUME NEW t \in DB, NEW X
    PROVE  Without(t, X) \in DB /\ Grows(Without(t, X), t, X)
<1>1. Without(t, X) \in DB
  BY DEF Without, DB
<1>2. Grows(Without(t, X), t, X)
  <2>1. \A p \in Paths : t[p] \in Rec \cup {NoRec}
    BY DEF DB
  <2>. QED BY <2>1 DEF Without, Grows, Rec
<1>. QED BY <1>1, <1>2

\* Marking rows synced leaves a table with the same versions.
LEMMA MarkSyncedType ==
    ASSUME NEW t \in DB, NEW S
    PROVE  MarkSynced(t, S) \in DB /\ Grows(MarkSynced(t, S), t, {})
<1>1. \A p \in Paths : t[p] \in Rec \cup {NoRec}
  BY DEF DB
<1>2. ASSUME NEW r \in Rec
      PROVE  [r EXCEPT !.st = "synced"] \in Rec
             /\ [r EXCEPT !.st = "synced"].ver = r.ver
  BY DEF Rec, Statuses
<1>3. MarkSynced(t, S) \in DB
  BY <1>1, <1>2 DEF MarkSynced, DB, Exists
<1>4. Grows(MarkSynced(t, S), t, {})
  <2>1. SUFFICES ASSUME NEW p \in Paths, t[p] # NoRec
        PROVE  MarkSynced(t, S)[p] # NoRec /\ MarkSynced(t, S)[p].ver >= t[p].ver
    BY DEF Grows
  <2>2. t[p] \in Rec /\ t[p].ver \in Nat
    BY <2>1, <1>1 DEF Rec
  <2>3. CASE p \in S
    <3>1. /\ [t[p] EXCEPT !.st = "synced"] \in Rec
          /\ [t[p] EXCEPT !.st = "synced"].ver = t[p].ver
      BY <2>2, <1>2
    <3>2. MarkSynced(t, S)[p] = [t[p] EXCEPT !.st = "synced"]
      BY <2>1, <2>3 DEF MarkSynced, Exists
    <3>. QED BY <2>2, <3>1, <3>2, NoRecAssumption
  <2>4. CASE p \notin S
    BY <2>1, <2>2, <2>4 DEF MarkSynced, Exists
  <2>. QED BY <2>3, <2>4
<1>. QED BY <1>3, <1>4

\* An edit leaves a row, one version later than the row that was there.
LEMMA WrittenType ==
    ASSUME NEW r \in Rec \cup {NoRec}, NEW e \in EditIds, NEW b \in BOOLEAN,
           now \in Nat
    PROVE  /\ Written(r, e, b) \in Rec
           /\ Written(r, e, b) # NoRec
           /\ r # NoRec => Written(r, e, b).ver >= r.ver
<1>1. CASE r = NoRec
  BY <1>1, NoRecAssumption DEF Written, Exists, Rec, Statuses
<1>2. CASE r \in Rec
  <2>1. r # NoRec
    BY <1>2, NoRecAssumption
  <2>2. Written(r, e, b) \in Rec
    BY <1>2, <2>1 DEF Written, Exists, Rec, Statuses
  <2>3. Written(r, e, b).ver = r.ver + 1 /\ r.ver \in Nat
    BY <1>2, <2>1 DEF Written, Exists, Rec
  <2>. QED BY <2>2, <2>3, NoRecAssumption
<1>. QED BY <1>1, <1>2

-----------------------------------------------------------------------------
(***************************************************************************)
(* The merge                                                               *)
(***************************************************************************)

\* A row taken from the server is a row, at the server's version.
LEMMA FromServerType ==
    ASSUME NEW s \in Rec
    PROVE  FromServer(s) \in Rec /\ FromServer(s).ver = s.ver
BY DEF FromServer, Rec, Statuses

\* _merge_record never takes a row away, never lowers its version, and
\* leaves a row at least as new as the server's where the server's is live.
LEMMA MergeRecordFacts ==
    ASSUME NEW l \in Rec \cup {NoRec}, NEW s \in Rec \cup {NoRec}
    PROVE  /\ MergeRecord(l, s) \in Rec \cup {NoRec}
           /\ l # NoRec => /\ MergeRecord(l, s) # NoRec
                           /\ MergeRecord(l, s).ver >= l.ver
           /\ s # NoRec /\ ~s.del => /\ MergeRecord(l, s) # NoRec
                                     /\ MergeRecord(l, s).ver >= s.ver
<1>1. CASE s = NoRec
  <2>1. MergeRecord(l, s) = l
    BY <1>1 DEF MergeRecord, Exists
  <2>2. l # NoRec => l.ver \in Nat
    BY DEF Rec
  <2>. QED BY <1>1, <2>1, <2>2
<1>2. CASE s # NoRec /\ l = NoRec
  <2>1. s \in Rec /\ s.ver \in Nat
    BY <1>2 DEF Rec
  <2>2. MergeRecord(l, s) = IF s.del THEN NoRec ELSE FromServer(s)
    BY <1>2 DEF MergeRecord, Exists
  <2>. QED BY <1>2, <2>1, <2>2, FromServerType, NoRecAssumption
<1>3. CASE s # NoRec /\ l # NoRec
  <2>1. /\ s \in Rec /\ s.ver \in Nat
        /\ l \in Rec /\ l.ver \in Nat
    BY <1>3 DEF Rec
  <2>2. FromServer(s) \in Rec /\ FromServer(s).ver = s.ver /\ FromServer(s) # NoRec
    BY <2>1, FromServerType, NoRecAssumption
  <2>3. CASE IsConflict(l, s)
    <3>1. MergeRecord(l, s) = FromServer(s)
      BY <1>3, <2>3 DEF MergeRecord, Exists
    <3>2. s.ver >= l.ver
      BY <2>1, <2>3 DEF IsConflict, BaseVersion
    <3>. QED BY <2>1, <2>2, <3>1, <3>2
  <2>4. CASE ~IsConflict(l, s)
    <3>1. MergeRecord(l, s) = IF s.ver > l.ver THEN FromServer(s) ELSE l
      BY <1>3, <2>4 DEF MergeRecord, Exists
    <3>. QED BY <1>3, <2>1, <2>2, <3>1
  <2>. QED BY <2>3, <2>4
<1>. QED BY <1>1, <1>2, <1>3

\* Merging leaves a table; it keeps every local row and takes every live row
\* of the server, conflict copies included.
LEMMA MergeFacts ==
    ASSUME NEW t \in DB, NEW s \in DB
    PROVE  /\ Merge(t, s) \in DB
           /\ Grows(Merge(t, s), t, {})
           /\ Dom(Merge(t, s), s, {})
<1>1. \A p \in Paths : t[p] \in Rec \cup {NoRec} /\ s[p] \in Rec \cup {NoRec}
  BY DEF DB
<1> DEFINE A(p) == \E f \in Conflicts(t, s) :
                      p = Copy(f, t[f].edit) /\ FreshName(t, s, p)
<1>2. ASSUME NEW p \in Paths, A(p)
      PROVE  Merge(t, s)[p] \in Rec /\ t[p] = NoRec /\ s[p] = NoRec
  <2> DEFINE f == CHOOSE f \in Conflicts(t, s) : p = Copy(f, t[f].edit)
  <2>1. f \in Conflicts(t, s)
    BY <1>2
  <2>2. t[f] \in Rec
    BY <2>1, <1>1 DEF Conflicts, Exists, Paths
  <2>3. Merge(t, s)[p] = [t[f] EXCEPT !.st = "conflict"]
    BY <1>2 DEF Merge
  <2>4. [t[f] EXCEPT !.st = "conflict"] \in Rec
    BY <2>2 DEF Rec, Statuses
  <2>. QED BY <1>2, <2>3, <2>4 DEF FreshName, Exists
<1>3. ASSUME NEW p \in Paths, ~A(p)
      PROVE  Merge(t, s)[p] = MergeRecord(t[p], s[p])
  BY <1>3 DEF Merge
<1>4. ASSUME NEW p \in Paths
      PROVE  Merge(t, s)[p] \in Rec \cup {NoRec}
  BY <1>1, <1>2, <1>3, MergeRecordFacts
<1>5. Merge(t, s) \in DB
  <2>1. Merge(t, s) = [p \in Paths |-> Merge(t, s)[p]]
    BY DEF Merge
  <2>. QED BY <2>1, <1>4 DEF DB
<1>6. Grows(Merge(t, s), t, {})
  <2>1. SUFFICES ASSUME NEW p \in Paths, t[p] # NoRec
        PROVE  Merge(t, s)[p] # NoRec /\ Merge(t, s)[p].ver >= t[p].ver
    BY DEF Grows
  <2>2. ~A(p)
    BY <2>1, <1>2
  <2>3. Merge(t, s)[p] = MergeRecord(t[p], s[p])
    BY <2>2, <1>3
  <2>. QED BY <1>1, <2>1, <2>3, MergeRecordFacts
<1>7. Dom(Merge(t, s), s, {})
  BY <1>1, <1>2, <1>3, MergeRecordFacts DEF Dom
<1>. QED BY <1>5, <1>6, <1>7

-----------------------------------------------------------------------------
(***************************************************************************)
(* The invariant as a predicate of values, and what keeps it               *)
(***************************************************************************)

Inv(D, h, L, N, q, P, S, F, g) ==
    /\ Len(h) >= 1
    /\ Clean(h, g)
    /\ ClientsCov(D, h, L, g)
    /\ LateCov(h, N, g)
    /\ \A w \in Workers : PutCov(w, D, h, q, P, g) /\ AnswerCov(w, D, h, q, S, F, g)

\* SyncInv is Inv of the variables.
LEMMA InvNow == SyncInv <=> Inv(db, hist, lastSynced, late, pc, put, sv, fv, gone)
<1>1. ASSUME NEW a, NEW b PROVE Dominates(b, a) <=> Dom(b, a, gone)
  BY DEF Dominates, Log!Dominates, Dom
<1>2. ASSUME NEW t, NEW v PROVE Covered(t, v) <=> Cov(t, v, hist, gone)
  BY <1>1 DEF Covered, Cov
<1>3. ServerNeverRegresses <=> Clean(hist, gone)
  BY <1>1 DEF ServerNeverRegresses, Clean
<1>4. ClientsCovered <=> ClientsCov(db, hist, lastSynced, gone)
  BY <1>2 DEF ClientsCovered, ClientsCov
<1>5. PutsCovered <=> /\ LateCov(hist, late, gone)
                      /\ \A w \in Workers : PutCov(w, db, hist, pc, put, gone)
  BY <1>1, <1>2 DEF PutsCovered, LateCov, PutCov
<1>6. AnswersCovered <=>
        \A w \in Workers : AnswerCov(w, db, hist, pc, sv, fv, gone)
  BY <1>2 DEF AnswersCovered, AnswerCov
<1>. QED BY <1>3, <1>4, <1>5, <1>6 DEF SyncInv, Inv

\* The same in the next state.
LEMMA InvNext ==
    SyncInv' <=> Inv(db', hist', lastSynced', late', pc', put', sv', fv', gone')
<1>1. (SyncInv <=> Inv(db, hist, lastSynced, late, pc, put, sv, fv, gone))'
  BY InvNow, PTL
<1>. QED BY <1>1

\* A table that grows still has what it had.
LEMMA DomGrows ==
    ASSUME NEW a \in DB, NEW b \in DB, NEW c \in DB, NEW g, NEW k,
           Dom(b, a, g), Grows(c, b, k), g \subseteq k
    PROVE  Dom(c, a, k)
<1>1. SUFFICES ASSUME NEW p \in Paths \ k, a[p] # NoRec, ~a[p].del
      PROVE  c[p] # NoRec /\ c[p].ver >= a[p].ver
  BY DEF Dom
<1>2. b[p] # NoRec /\ b[p].ver >= a[p].ver
  BY <1>1 DEF Dom
<1>3. c[p] # NoRec /\ c[p].ver >= b[p].ver
  BY <1>1, <1>2 DEF Grows
<1>4. a[p].ver \in Nat /\ b[p].ver \in Nat /\ c[p].ver \in Nat
  BY <1>1, <1>2, <1>3 DEF DB, Rec
<1>. QED BY <1>2, <1>3, <1>4

\* Forgetting more paths asks for less.
LEMMA DomMono ==
    ASSUME NEW a, NEW b, NEW g, NEW k, Dom(b, a, g), g \subseteq k
    PROVE  Dom(b, a, k)
BY DEF Dom

\* A step that only lets the databases grow keeps the invariant, whatever
\* the paths it gives up.
LEMMA FrameGrow ==
    ASSUME NEW D \in [Devices -> DB], NEW E \in [Devices -> DB],
           NEW h \in Seq(DB), NEW L, NEW N, NEW q, NEW P, NEW S, NEW F,
           N \subseteq Puts,
           NEW g, NEW k, g \subseteq k,
           \A d \in Devices : Grows(E[d], D[d], k),
           Inv(D, h, L, N, q, P, S, F, g)
    PROVE  Inv(E, h, L, N, q, P, S, F, k)
<1>0. Len(h) \in Nat /\ Len(h) >= 1 /\ \A i \in 1..Len(h) : h[i] \in DB
  BY DEF Inv
<1>1. h[Len(h)] \in DB
  BY <1>0
<1>2. ASSUME NEW d \in Devices, NEW v, Cov(D[d], v, h, g)
      PROVE  Cov(E[d], v, h, k)
  BY <1>1, <1>2, DomGrows DEF Cov
<1>3. Clean(h, k)
  BY <1>0, DomMono DEF Inv, Clean
<1>4. ClientsCov(E, h, L, k)
  BY <1>2 DEF Inv, ClientsCov, Clients
<1>5. LateCov(h, N, k)
  BY DomMono DEF Inv, LateCov, Cov
<1>6. ASSUME NEW w \in Workers
      PROVE  PutCov(w, E, h, q, P, k)
  <2>1. PutCov(w, D, h, q, P, g) /\ Dev(w) \in Devices
    BY WorkerTypes DEF Inv
  <2>2. SUFFICES ASSUME q[w] = "put"
        PROVE  /\ Cov(P[w].blob, P[w].base, h, k)
               /\ Dom(E[Dev(w)], P[w].blob, k)
    BY <2>1 DEF PutCov
  <2>3. P[w].blob \in DB
    BY <2>1, <2>2 DEF PutCov, Puts
  <2>4. Cov(P[w].blob, P[w].base, h, k)
    BY <2>1, <2>2, DomMono DEF PutCov, Cov
  <2>5. Dom(E[Dev(w)], P[w].blob, k)
    BY <2>1, <2>2, <2>3, DomGrows DEF PutCov
  <2>. QED BY <2>4, <2>5
<1>7. ASSUME NEW w \in Workers
      PROVE  AnswerCov(w, E, h, q, S, F, k)
  <2>1. AnswerCov(w, D, h, q, S, F, g) /\ Dev(w) \in Devices
    BY WorkerTypes DEF Inv
  <2>. QED BY <2>1, <1>2 DEF AnswerCov
<1>. QED BY <1>0, <1>3, <1>4, <1>5, <1>6, <1>7 DEF Inv

\* A blob that dominates the server's keeps the invariant when it is
\* accepted: every base known to anyone is then out of date.
LEMMA FrameAppend ==
    ASSUME NEW D \in [Devices -> DB], NEW h \in Seq(DB),
           NEW L \in [Clients -> Nat], NEW N, NEW q, NEW P,
           NEW S \in [Workers -> Nat], NEW F \in [Workers -> Nat], NEW g,
           NEW b \in DB, Dom(b, h[Len(h)], g),
           Inv(D, h, L, N, q, P, S, F, g)
    PROVE  Inv(D, Append(h, b), L, N, q, P, S, F, g)
<1> DEFINE i == Append(h, b)
<1>1. /\ Len(h) \in Nat /\ Len(h) >= 1 /\ Len(i) = Len(h) + 1
      /\ i[Len(h) + 1] = b
      /\ \A k \in 1..Len(h) : i[k] = h[k]
  BY DEF Inv
<1> HIDE DEF i
<1>2. Clean(i, g)
  <2>1. SUFFICES ASSUME NEW k \in 1..(Len(i) - 1)
        PROVE  Dom(i[k + 1], i[k], g)
    BY DEF Clean
  <2>2. CASE k = Len(h)
    BY <1>1, <2>2
  <2>3. CASE k # Len(h)
    <3>1. k \in 1..(Len(h) - 1) /\ k + 1 \in 1..Len(h) /\ k \in 1..Len(h)
      BY <1>1, <2>1, <2>3
    <3>2. Dom(h[k + 1], h[k], g)
      BY <3>1 DEF Inv, Clean
    <3>. QED BY <1>1, <3>1, <3>2
  <2>. QED BY <2>2, <2>3
<1>3. ASSUME NEW v \in Int, v <= Len(h), NEW t
      PROVE  Cov(t, v, i, g)
  BY <1>1, <1>3 DEF Cov
<1>4. ClientsCov(D, i, L, g)
  BY <1>1, <1>3 DEF Inv, ClientsCov
<1>5. LateCov(i, N, g)
  BY <1>1, <1>3 DEF Inv, LateCov
<1>6. ASSUME NEW w \in Workers
      PROVE  PutCov(w, D, i, q, P, g)
  BY <1>1, <1>3 DEF Inv, PutCov
<1>7. ASSUME NEW w \in Workers
      PROVE  AnswerCov(w, D, i, q, S, F, g)
  BY <1>1, <1>3 DEF Inv, AnswerCov
<1>. QED BY <1>1, <1>2, <1>4, <1>5, <1>6, <1>7 DEF Inv, i

\* A step of some workers keeps the invariant when it holds for them.
LEMMA FrameWorkers ==
    ASSUME NEW D, NEW h, NEW L, NEW N, NEW q, NEW P, NEW S, NEW F, NEW g,
           NEW qq, NEW PP, NEW SS, NEW FF,
           Inv(D, h, L, N, q, P, S, F, g),
           \A w \in Workers :
              \/ qq[w] = q[w] /\ PP[w] = P[w] /\ SS[w] = S[w] /\ FF[w] = F[w]
              \/ PutCov(w, D, h, qq, PP, g) /\ AnswerCov(w, D, h, qq, SS, FF, g)
    PROVE  Inv(D, h, L, N, qq, PP, SS, FF, g)
BY DEF Inv, PutCov, AnswerCov

\* A SyncClient may remember any version its database covers.
LEMMA FrameClient ==
    ASSUME NEW D, NEW h, NEW L \in [Clients -> Nat], NEW N, NEW q, NEW P, NEW S,
           NEW F, NEW g, NEW c \in Clients, NEW v,
           Inv(D, h, L, N, q, P, S, F, g),
           v <= Len(h), Cov(D[c[1]], v, h, g)
    PROVE  Inv(D, h, [L EXCEPT ![c] = v], N, q, P, S, F, g)
<1>1. ClientsCov(D, h, [L EXCEPT ![c] = v], g)
  BY DEF Inv, ClientsCov
<1>. QED BY <1>1 DEF Inv

\* Version 0 is no version of the server.
LEMMA CovZero ==
    ASSUME NEW t, NEW h \in Seq(DB), NEW g, Len(h) >= 1
    PROVE  0 <= Len(h) /\ Cov(t, 0, h, g)
BY DEF Cov

-----------------------------------------------------------------------------
(***************************************************************************)
(* Steps that only concern one worker                                      *)
(***************************************************************************)

\* The places of a worker that SyncInv says something about.
Owing == {"gotInit", "put", "accepted", "gotStatus", "fetch", "gotBlob", "force"}

\* Where a worker is when its process starts, and where calls return to, it
\* awaits no answer.
LEMMA Places ==
    /\ \A w \in Workers : Fresh(w) \in {"boot", "off", "idle"}
    /\ Returns \subseteq PCs \ Owing
    /\ {"boot", "off", "idle"} \subseteq PCs \ Owing
<1>1. ASSUME NEW w \in Workers PROVE Fresh(w) \in {"boot", "off", "idle"}
  <2>1. Kind(w) \in Kinds
    BY WorkerTypes
  <2>. QED BY <2>1 DEF Fresh, Kinds
<1>. QED BY <1>1 DEF Returns, PCs, Owing

\* Nothing has to hold for a worker that awaits no answer.
LEMMA NotOwing ==
    ASSUME NEW w, NEW q, q[w] \notin Owing,
           NEW D, NEW h, NEW P, NEW S, NEW F, NEW g
    PROVE  PutCov(w, D, h, q, P, g) /\ AnswerCov(w, D, h, q, S, F, g)
BY DEF PutCov, AnswerCov, Owing

OthersSame(w) ==
    \A v \in Workers \ {w} :
        pc'[v] = pc[v] /\ put'[v] = put[v] /\ sv'[v] = sv[v] /\ fv'[v] = fv[v]

\* A step of w that changes no table and no SyncClient has to be checked
\* for w alone.
LEMMA OneWorker ==
    ASSUME SyncInv, NEW w \in Workers, OthersSame(w),
           UNCHANGED <<db, hist, late, lastSynced, gone>>,
           PutCov(w, db, hist, pc', put', gone),
           AnswerCov(w, db, hist, pc', sv', fv', gone)
    PROVE  SyncInv'
<1>1. Inv(db, hist, lastSynced, late, pc, put, sv, fv, gone)
  BY InvNow
<1>2. Inv(db, hist, lastSynced, late, pc', put', sv', fv', gone)
  BY <1>1, FrameWorkers DEF OthersSame
<1>. QED BY <1>2, InvNext

\* The daemon's start-up asks for the server's blob.
LEMMA BootSyncKeeps ==
    ASSUME TypeOK, SyncInv, NEW w \in Workers, BootSync(w)
    PROVE  TypeOK' /\ SyncInv'
<1>1. Inv(db, hist, lastSynced, late, pc, put, sv, fv, gone)
  BY InvNow
<1>2. TypeOK'
  <2>1. ret' \in [Workers -> Returns]
    BY DEF TypeOK, BootSync, Returns
  <2>2. pc' \in [Workers -> PCs] /\ fv' \in [Workers -> Nat]
    BY DEF TypeOK, BootSync, PCs
  <2>. QED BY <2>1, <2>2 DEF TypeOK, BootSync, netVars, obsVars, timeVars
<1>3. OthersSame(w)
  BY DEF TypeOK, BootSync, callVars, OthersSame
<1>4. /\ PutCov(w, db, hist, pc', put', gone)
      /\ AnswerCov(w, db, hist, pc', sv', fv', gone)
  BY <1>1 DEF TypeOK, BootSync, Inv, PutCov, AnswerCov
<1>. QED
  BY <1>2, <1>3, <1>4, OneWorker DEF BootSync, netVars, obsVars, timeVars

\* Ending a session changes no table.
LEMMA CloseSessionKeeps ==
    ASSUME TypeOK, SyncInv, NEW w \in Workers, CloseSession(w)
    PROVE  TypeOK' /\ SyncInv'
<1>1. Inv(db, hist, lastSynced, late, pc, put, sv, fv, gone)
  BY InvNow
<1>2. TypeOK'
  BY DEF TypeOK, CloseSession, callVars, netVars, obsVars, timeVars, PCs
<1>3. OthersSame(w)
  BY DEF TypeOK, CloseSession, callVars, OthersSame
<1>4. /\ PutCov(w, db, hist, pc', put', gone)
      /\ AnswerCov(w, db, hist, pc', sv', fv', gone)
  BY NotOwing DEF TypeOK, CloseSession, Owing
<1>. QED
  BY <1>2, <1>3, <1>4, OneWorker DEF CloseSession, netVars, obsVars, timeVars

\* A new turn of the retry loop changes no table.
LEMMA UploadRetryKeeps ==
    ASSUME TypeOK, SyncInv, NEW w \in Workers, UploadRetry(w)
    PROVE  TypeOK' /\ SyncInv'
<1>1. Inv(db, hist, lastSynced, late, pc, put, sv, fv, gone)
  BY InvNow
<1>2. TypeOK'
  <2> DEFINE C == IF att[w] < MaxCasRetries THEN Pending(db[Dev(w)]) ELSE {}
  <2>1. C \subseteq Paths
    BY DEF Pending
  <2>2. C # {} => att[w] + 1 \in 0..MaxCasRetries
    BY BoundsAssumption DEF TypeOK
  <2> HIDE DEF C
  <2>3. /\ cap' = [cap EXCEPT ![w] = C]
        /\ att' = [att EXCEPT ![w] = IF C = {} THEN 0 ELSE @ + 1]
        /\ pc' = [pc EXCEPT ![w] = IF C = {} THEN Caller(w) ELSE "token"]
    BY DEF UploadRetry, C
  <2>4. att' \in [Workers -> 0..MaxCasRetries]
    BY <2>2, <2>3, BoundsAssumption DEF TypeOK
  <2>. QED
    BY <2>1, <2>3, <2>4 DEF TypeOK, UploadRetry, netVars, obsVars, timeVars, PCs,
          Returns, Caller
<1>3. OthersSame(w)
  BY DEF TypeOK, UploadRetry, callVars, OthersSame
<1>4. /\ PutCov(w, db, hist, pc', put', gone)
      /\ AnswerCov(w, db, hist, pc', sv', fv', gone)
  BY DEF TypeOK, UploadRetry, PutCov, AnswerCov, Caller
<1>. QED
  BY <1>2, <1>3, <1>4, OneWorker DEF UploadRetry, netVars, obsVars, timeVars

\* What is sent is covered by its base, the version last synced.
LEMMA UploadSendKeeps ==
    ASSUME TypeOK, SyncInv, NEW w \in Workers, UploadSend(w)
    PROVE  TypeOK' /\ SyncInv'
<1>1. Inv(db, hist, lastSynced, late, pc, put, sv, fv, gone)
  BY InvNow
<1>2. TypeOK'
  <2>1. lastSynced[Client(w)] \in Nat /\ db[Dev(w)] \in DB
    BY WorkerTypes DEF TypeOK
  <2>. QED BY <2>1 DEF TypeOK, UploadSend, netVars, obsVars, timeVars, PCs, Puts
<1>3. OthersSame(w)
  BY DEF TypeOK, UploadSend, callVars, OthersSame
<1>4. /\ PutCov(w, db, hist, pc', put', gone)
      /\ AnswerCov(w, db, hist, pc', sv', fv', gone)
  <2>1. /\ Dev(w) \in Devices /\ Client(w) \in Clients
        /\ Client(w)[1] = Dev(w)
    BY WorkerTypes
  <2> DEFINE L == lastSynced[Client(w)]
  <2>2. /\ pc'[w] = "put"
        /\ put'[w] = [blob |-> db[Dev(w)], base |-> L]
    BY DEF TypeOK, UploadSend
  <2>3. L \in 0..Len(hist) /\ Cov(db[Dev(w)], L, hist, gone)
    BY <1>1, <2>1 DEF Inv, ClientsCov, TypeOK
  <2>4. db[Dev(w)] \in DB
    BY <2>1 DEF TypeOK
  <2>5. Dom(db[Dev(w)], db[Dev(w)], gone)
    BY <2>4 DEF Dom, DB, Rec
  <2> HIDE DEF L
  <2>6. put'[w] \in Puts
    BY <2>2, <2>3, <2>4 DEF Puts
  <2>. QED BY <2>2, <2>3, <2>5, <2>6 DEF PutCov, AnswerCov
<1>. QED
  BY <1>2, <1>3, <1>4, OneWorker DEF UploadSend, netVars, obsVars, timeVars

\* Nobody is in _force_upload once the account has metadata.
LEMMA ForceSendKeeps ==
    ASSUME TypeOK, SyncInv, NEW w \in Workers, ForceSend(w)
    PROVE  TypeOK' /\ SyncInv'
<1>1. Inv(db, hist, lastSynced, late, pc, put, sv, fv, gone)
  BY InvNow
<1>2. TypeOK'
  BY <1>1 DEF Inv, AnswerCov, ForceSend
<1>3. OthersSame(w)
  BY DEF TypeOK, ForceSend, callVars, OthersSame
<1>4. /\ PutCov(w, db, hist, pc', put', gone)
      /\ AnswerCov(w, db, hist, pc', sv', fv', gone)
  BY <1>1 DEF Inv, AnswerCov, ForceSend
<1>. QED
  BY <1>2, <1>3, <1>4, OneWorker DEF ForceSend, netVars, obsVars, timeVars

\* A 409 changes nothing on the server.
LEMMA ServerRejectKeeps ==
    ASSUME TypeOK, SyncInv, NEW w \in Workers, ServerReject(w)
    PROVE  TypeOK' /\ SyncInv'
<1>1. Inv(db, hist, lastSynced, late, pc, put, sv, fv, gone)
  BY InvNow
<1>2. TypeOK'
  BY DEF TypeOK, ServerReject, netVars, obsVars, timeVars, PCs, Returns
<1>3. OthersSame(w)
  BY DEF TypeOK, ServerReject, callVars, OthersSame
<1>4. /\ PutCov(w, db, hist, pc', put', gone)
      /\ AnswerCov(w, db, hist, pc', sv', fv', gone)
  BY DEF TypeOK, ServerReject, PutCov, AnswerCov
<1>. QED
  BY <1>2, <1>3, <1>4, OneWorker DEF ServerReject, netVars, obsVars, timeVars

\* The status answer names a version of the server.
LEMMA DownloadStatusKeeps ==
    ASSUME TypeOK, SyncInv, NEW w \in Workers, DownloadStatus(w)
    PROVE  TypeOK' /\ SyncInv'
<1>1. Inv(db, hist, lastSynced, late, pc, put, sv, fv, gone)
  BY InvNow
<1>2. TypeOK'
  <2>1. sv' \in [Workers -> Nat] /\ pc' \in [Workers -> PCs]
    BY DEF TypeOK, DownloadStatus, PCs
  <2>2. ret' \in [Workers -> Returns]
    BY DEF TypeOK, DownloadStatus, Returns
  <2>. QED BY <2>1, <2>2 DEF TypeOK, DownloadStatus, netVars, obsVars, timeVars
<1>3. OthersSame(w)
  BY DEF TypeOK, DownloadStatus, callVars, OthersSame
<1>4. /\ PutCov(w, db, hist, pc', put', gone)
      /\ AnswerCov(w, db, hist, pc', sv', fv', gone)
  BY <1>1 DEF TypeOK, DownloadStatus, Inv, PutCov, AnswerCov
<1>. QED
  BY <1>2, <1>3, <1>4, OneWorker DEF DownloadStatus, netVars, obsVars, timeVars

\* The answer is compared with what was merged.
LEMMA HandleStatusKeeps ==
    ASSUME TypeOK, SyncInv, NEW w \in Workers, HandleStatus(w)
    PROVE  TypeOK' /\ SyncInv'
<1>1. Inv(db, hist, lastSynced, late, pc, put, sv, fv, gone)
  BY InvNow
<1>2. TypeOK'
  <2>1. ret[w] \in PCs /\ "force" \in PCs /\ "fetch" \in PCs
    BY Places DEF TypeOK, PCs
  <2>2. \E x \in PCs : pc' = [pc EXCEPT ![w] = x]
    BY <2>1 DEF HandleStatus
  <2>3. pc' \in [Workers -> PCs]
    BY <2>2 DEF TypeOK
  <2>4. sv' = sv \/ sv' = [sv EXCEPT ![w] = 0]
    BY DEF HandleStatus
  <2>5. sv' \in [Workers -> Nat]
    <3>1. CASE sv' = sv
      BY <3>1 DEF TypeOK
    <3>2. CASE sv' = [sv EXCEPT ![w] = 0]
      BY <3>2 DEF TypeOK
    <3>. QED BY <2>4, <3>1, <3>2
  <2>. QED BY <2>3, <2>5 DEF TypeOK, HandleStatus, netVars, obsVars, timeVars
<1>3. OthersSame(w)
  BY DEF TypeOK, HandleStatus, callVars, OthersSame
<1>4. /\ PutCov(w, db, hist, pc', put', gone)
      /\ AnswerCov(w, db, hist, pc', sv', fv', gone)
  <2>1. ret[w] \in Returns /\ pc[w] = "gotStatus" /\ sv[w] \in 1..Len(hist)
    BY <1>1 DEF TypeOK, HandleStatus, Inv, AnswerCov
  <2>2. \/ pc'[w] = ret[w]
        \/ pc'[w] = "fetch" /\ sv'[w] = sv[w]
    BY <2>1 DEF TypeOK, HandleStatus
  <2>3. CASE pc'[w] = ret[w]
    BY <2>1, <2>3, Places, NotOwing
  <2>4. CASE pc'[w] = "fetch" /\ sv'[w] = sv[w]
    BY <2>1, <2>4 DEF PutCov, AnswerCov
  <2>. QED BY <2>2, <2>3, <2>4
<1>. QED
  BY <1>2, <1>3, <1>4, OneWorker DEF HandleStatus, netVars, obsVars, timeVars

\* The blob is at least as new as the status answer.
LEMMA ServerGetKeeps ==
    ASSUME TypeOK, SyncInv, NEW w \in Workers, ServerGet(w)
    PROVE  TypeOK' /\ SyncInv'
<1>1. Inv(db, hist, lastSynced, late, pc, put, sv, fv, gone)
  BY InvNow
<1>2. TypeOK'
  BY DEF TypeOK, ServerGet, netVars, obsVars, timeVars, PCs
<1>3. OthersSame(w)
  BY DEF TypeOK, ServerGet, callVars, OthersSame
<1>4. /\ PutCov(w, db, hist, pc', put', gone)
      /\ AnswerCov(w, db, hist, pc', sv', fv', gone)
  BY <1>1 DEF TypeOK, ServerGet, Inv, PutCov, AnswerCov
<1>. QED
  BY <1>2, <1>3, <1>4, OneWorker DEF ServerGet, netVars, obsVars, timeVars

-----------------------------------------------------------------------------
(***************************************************************************)
(* Steps that change a device's database                                   *)
(***************************************************************************)

\* Grows is a preorder, and asks for less when more paths are given up.
LEMMA GrowsFacts ==
    ASSUME NEW a \in DB, NEW b \in DB, NEW c \in DB, NEW g, NEW k, g \subseteq k
    PROVE  /\ Grows(a, a, g)
           /\ Grows(b, a, g) => Grows(b, a, k)
           /\ Grows(b, a, g) /\ Grows(c, b, k) => Grows(c, a, k)
<1>1. \A p \in Paths : /\ a[p] # NoRec => a[p].ver \in Nat
                       /\ b[p] # NoRec => b[p].ver \in Nat
                       /\ c[p] # NoRec => c[p].ver \in Nat
  BY DEF DB, Rec
<1>2. Grows(a, a, g)
  BY <1>1 DEF Grows
<1>3. Grows(b, a, g) => Grows(b, a, k)
  BY DEF Grows
<1>4. ASSUME Grows(b, a, g), Grows(c, b, k) PROVE Grows(c, a, k)
  <2>1. SUFFICES ASSUME NEW p \in Paths \ k, a[p] # NoRec
        PROVE  c[p] # NoRec /\ c[p].ver >= a[p].ver
    BY DEF Grows
  <2>2. b[p] # NoRec /\ b[p].ver >= a[p].ver
    BY <1>4, <2>1 DEF Grows
  <2>3. c[p] # NoRec /\ c[p].ver >= b[p].ver
    BY <1>4, <2>1, <2>2 DEF Grows
  <2>. QED BY <1>1, <2>1, <2>2, <2>3
<1>. QED BY <1>2, <1>3, <1>4

\* A step that replaces the table of one device by a grown one.
LEMMA TableGrows ==
    ASSUME TypeOK, SyncInv, NEW d \in Devices, NEW u \in DB,
           db' = [db EXCEPT ![d] = u], gone \subseteq gone',
           Grows(u, db[d], gone')
    PROVE  /\ db' \in [Devices -> DB]
           /\ Inv(db', hist, lastSynced, late, pc, put, sv, fv, gone')
<1>1. Inv(db, hist, lastSynced, late, pc, put, sv, fv, gone)
  BY InvNow
<1>2. /\ db \in [Devices -> DB] /\ hist \in Seq(DB) /\ late \subseteq Puts
      /\ db' \in [Devices -> DB]
  BY DEF TypeOK
<1>3. ASSUME NEW e \in Devices PROVE Grows(db'[e], db[e], gone')
  <2>1. CASE e = d
    BY <1>2, <2>1
  <2>2. CASE e # d
    <3>1. db'[e] = db[e] /\ db[e] \in DB
      BY <1>2, <2>2
    <3>. QED BY <3>1, GrowsFacts
  <2>. QED BY <2>1, <2>2
<1>4. Inv(db', hist, lastSynced, late, pc, put, sv, fv, gone')
  BY <1>1, <1>2, <1>3, FrameGrow
<1>. QED BY <1>2, <1>4

\* Such a step of worker w keeps the invariant if w awaits no answer then.
LEMMA TableStep ==
    ASSUME TypeOK, SyncInv, NEW w \in Workers, NEW u \in DB,
           db' = [db EXCEPT ![Dev(w)] = u], gone \subseteq gone',
           Grows(u, db[Dev(w)], gone'),
           UNCHANGED <<hist, late, lastSynced>>,
           OthersSame(w), pc'[w] \notin Owing
    PROVE  db' \in [Devices -> DB] /\ SyncInv'
<1>1. Dev(w) \in Devices
  BY WorkerTypes
<1>2. /\ db' \in [Devices -> DB]
      /\ Inv(db', hist, lastSynced, late, pc, put, sv, fv, gone')
  BY <1>1, TableGrows
<1>3. /\ PutCov(w, db', hist, pc', put', gone')
      /\ AnswerCov(w, db', hist, pc', sv', fv', gone')
  BY NotOwing
<1>4. Inv(db', hist, lastSynced, late, pc', put', sv', fv', gone')
  BY <1>2, <1>3, FrameWorkers DEF OthersSame
<1>. QED BY <1>2, <1>4, InvNext

\* initial_sync's merge.
LEMMA InitialMergeKeeps ==
    ASSUME TypeOK, SyncInv, NEW w \in Workers, InitialMerge(w)
    PROVE  TypeOK' /\ SyncInv'
<1>1. Inv(db, hist, lastSynced, late, pc, put, sv, fv, gone)
  BY InvNow
<1> DEFINE t == db[Dev(w)]
           u == Merge(t, hist[fv[w]])
<1>2. Dev(w) \in Devices /\ t \in DB
  BY WorkerTypes DEF TypeOK
<1>3. fv[w] \in 1..Len(hist)
  BY <1>1 DEF Inv, AnswerCov, InitialMerge
<1>4. hist[fv[w]] \in DB
  BY <1>3 DEF TypeOK
<1>5. u \in DB /\ Grows(u, t, {})
  BY <1>2, <1>4, MergeFacts
<1>6. db' = [db EXCEPT ![Dev(w)] = u] /\ gone' = gone
  BY DEF InitialMerge, obsVars, timeVars
<1> HIDE DEF u
<1>7. Grows(u, t, gone')
  BY <1>2, <1>5, <1>6, GrowsFacts
<1>8. ret[w] \in PCs \ Owing
  BY Places DEF TypeOK
<1>9. OthersSame(w) /\ pc'[w] \notin Owing
  BY <1>8 DEF TypeOK, InitialMerge, OthersSame
<1>10. db' \in [Devices -> DB] /\ SyncInv'
  BY <1>5, <1>6, <1>7, <1>9, TableStep DEF InitialMerge, netVars
<1>11. TypeOK'
  BY <1>8, <1>10 DEF TypeOK, InitialMerge, netVars, obsVars, timeVars
<1>. QED BY <1>10, <1>11

\* An edit only moves versions up.
LEMMA EditKeeps ==
    ASSUME TypeOK, SyncInv, NEW w \in Workers, NEW p \in Files, NEW b \in BOOLEAN,
           nedits < MaxEdits,
           db' = [db EXCEPT ![Dev(w)][p] = Written(@, nedits + 1, b)],
           nedits' = nedits + 1,
           pc' = [pc EXCEPT ![w] = "upload"],
           UNCHANGED <<netVars, lastSynced, callVars, timeVars, nloss, gone, moved>>
    PROVE  TypeOK' /\ SyncInv'
<1> DEFINE t == db[Dev(w)]
           r == Written(t[p], nedits + 1, b)
           u == [t EXCEPT ![p] = r]
<1>1. Dev(w) \in Devices /\ t \in DB
  BY WorkerTypes DEF TypeOK
<1>2. p \in Paths /\ t[p] \in Rec \cup {NoRec}
  BY <1>1 DEF Paths, DB
<1>3. nedits + 1 \in EditIds /\ nedits + 1 \in 0..MaxEdits /\ now \in Nat
  BY BoundsAssumption DEF TypeOK, EditIds
<1>4. r \in Rec /\ r # NoRec /\ (t[p] # NoRec => r.ver >= t[p].ver)
  BY <1>2, <1>3, WrittenType
<1>5. db' = [db EXCEPT ![Dev(w)] = u]
  BY <1>1 DEF TypeOK
<1> HIDE DEF r
<1>6. u \in DB
  BY <1>1, <1>2, <1>4 DEF DB
<1>7. Grows(u, t, gone')
  <2>1. \A x \in Paths : t[x] # NoRec => t[x].ver \in Nat
    BY <1>1 DEF DB, Rec
  <2>2. \A x \in Paths : u[x] = IF x = p THEN r ELSE t[x]
    BY <1>1 DEF DB
  <2> HIDE DEF u
  <2>. QED BY <1>4, <2>1, <2>2 DEF Grows
<1> HIDE DEF u
<1>8. OthersSame(w) /\ pc'[w] \notin Owing
  BY DEF TypeOK, OthersSame, callVars, Owing
<1>9. db' \in [Devices -> DB] /\ SyncInv'
  BY <1>5, <1>6, <1>7, <1>8, TableStep DEF netVars
<1>10. TypeOK'
  BY <1>3, <1>9 DEF TypeOK, netVars, callVars, timeVars, PCs
<1>. QED BY <1>9, <1>10

\* put is an edit.
LEMMA WriteFileKeeps ==
    ASSUME TypeOK, SyncInv, NEW w \in Workers, NEW p \in Files, WriteFile(w, p)
    PROVE  TypeOK' /\ SyncInv'
BY EditKeeps DEF WriteFile

\* rm is an edit.
LEMMA DeleteFileKeeps ==
    ASSUME TypeOK, SyncInv, NEW w \in Workers, NEW p \in Files, DeleteFile(w, p)
    PROVE  TypeOK' /\ SyncInv'
BY EditKeeps DEF DeleteFile

\* mv takes a row away from its path, and says so in gone.
LEMMA MoveFileKeeps ==
    ASSUME TypeOK, SyncInv, NEW w \in Workers, NEW p \in Files, NEW q \in Files,
           MoveFile(w, p, q)
    PROVE  TypeOK' /\ SyncInv'
<1> DEFINE t == db[Dev(w)]
           u == [t EXCEPT ![q] = t[p], ![p] = NoRec]
<1>1. Dev(w) \in Devices /\ t \in DB /\ p \in Paths /\ q \in Paths
  BY WorkerTypes DEF TypeOK, Paths
<1>2. db' = [db EXCEPT ![Dev(w)] = u] /\ t[q] = NoRec
  BY DEF MoveFile, Exists
<1>3. u \in DB
  BY <1>1 DEF DB
<1>4. Grows(u, t, gone')
  <2>1. \A x \in Paths : t[x] # NoRec => t[x].ver \in Nat
    BY <1>1 DEF DB, Rec
  <2>2. \A x \in Paths \ {p, q} : u[x] = t[x]
    BY <1>1 DEF DB
  <2>3. p \in gone'
    BY DEF MoveFile
  <2> HIDE DEF u
  <2>. QED BY <1>2, <2>1, <2>2, <2>3 DEF Grows
<1> HIDE DEF u
<1>5. OthersSame(w) /\ pc'[w] \notin Owing
  BY DEF MoveFile, TypeOK, OthersSame, callVars, Owing
<1>6. db' \in [Devices -> DB] /\ SyncInv'
  BY <1>2, <1>3, <1>4, <1>5, TableStep DEF MoveFile, netVars
<1>7. TypeOK'
  BY <1>1, <1>6 DEF MoveFile, TypeOK, netVars, callVars, timeVars, PCs
<1>. QED BY <1>6, <1>7

\* upload_metadata's purge takes rows away, and says so in gone.
LEMMA UploadStartKeeps ==
    ASSUME TypeOK, SyncInv, NEW w \in Workers, UploadStart(w)
    PROVE  TypeOK' /\ SyncInv'
<1> DEFINE t == db[Dev(w)]
           X == IF Pending(t) = {} THEN {} ELSE Expired(t)
           C == Pending(t) \ X
           u == Without(t, X)
<1>1. Dev(w) \in Devices /\ t \in DB
  BY WorkerTypes DEF TypeOK
<1>2. X \subseteq Paths /\ C \subseteq Paths
  BY DEF Expired, Pending
<1>3. /\ db' = [db EXCEPT ![Dev(w)] = u]
      /\ gone' = gone \cup X
      /\ cap' = [cap EXCEPT ![w] = C]
      /\ att' = [att EXCEPT ![w] = IF C = {} THEN 0 ELSE 1]
      /\ pc' = [pc EXCEPT ![w] = IF C = {} THEN Caller(w) ELSE "token"]
  BY DEF UploadStart
<1>4. u \in DB /\ Grows(u, t, X)
  BY <1>1, WithoutType
<1> HIDE DEF X, C, u
<1>5. Grows(u, t, gone')
  BY <1>1, <1>3, <1>4, GrowsFacts
<1>6. OthersSame(w) /\ pc'[w] \notin Owing
  BY <1>3 DEF UploadStart, TypeOK, OthersSame, Owing, Caller
<1>7. db' \in [Devices -> DB] /\ SyncInv'
  BY <1>3, <1>4, <1>5, <1>6, TableStep DEF UploadStart, netVars
<1>8. att' \in [Workers -> 0..MaxCasRetries]
  BY <1>3, BoundsAssumption DEF TypeOK
<1>9. /\ cap' \in [Workers -> SUBSET Paths] /\ pc' \in [Workers -> PCs]
      /\ gone' \subseteq Paths
  BY <1>2, <1>3 DEF TypeOK, PCs, Caller
<1>10. TypeOK'
  BY <1>7, <1>8, <1>9 DEF TypeOK, UploadStart, netVars, timeVars, Returns, Caller
<1>. QED BY <1>7, <1>10

\* Putting rows aside only takes them away from their own paths.
LEMMA IsolatedFacts ==
    ASSUME NEW t \in DB
    PROVE  /\ Isolated(t) \in DB
           /\ PutAside(t) \subseteq Paths
           /\ Grows(Isolated(t), t, PutAside(t))
<1> DEFINE A(p) == \E f \in PutAside(t) : p = Copy(f, t[f].edit)
<1>1. PutAside(t) \subseteq Paths
  BY DEF PutAside, Paths
<1>2. ASSUME NEW p \in Paths \ PutAside(t), A(p)
      PROVE  Isolated(t)[p] \in Rec /\ t[p] = NoRec
  <2> DEFINE g == CHOOSE f \in PutAside(t) : p = Copy(f, t[f].edit)
  <2>1. g \in PutAside(t) /\ p = Copy(g, t[g].edit)
    BY <1>2
  <2>2. Isolated(t)[p] = [t[g] EXCEPT !.st = "pending"]
    BY <1>2 DEF Isolated
  <2> HIDE DEF g
  <2>3. t[g] \in Rec /\ t[p] = NoRec
    BY <2>1, <1>1 DEF PutAside, Live, Exists, DB
  <2>. QED BY <2>2, <2>3 DEF Rec, Statuses
<1>3. ASSUME NEW p \in Paths \ PutAside(t), ~A(p)
      PROVE  Isolated(t)[p] = t[p]
  BY <1>3 DEF Isolated
<1>4. ASSUME NEW p \in PutAside(t) PROVE Isolated(t)[p] = NoRec
  BY <1>1 DEF Isolated
<1>5. \A p \in Paths : t[p] \in Rec \cup {NoRec}
  BY DEF DB
<1>6. \A p \in Paths : Isolated(t)[p] \in Rec \cup {NoRec}
  BY <1>2, <1>3, <1>4, <1>5
<1>7. Isolated(t) \in DB
  <2>1. Isolated(t) = [p \in Paths |-> Isolated(t)[p]]
    BY DEF Isolated
  <2>. QED BY <2>1, <1>6 DEF DB
<1>8. Grows(Isolated(t), t, PutAside(t))
  <2>1. \A x \in Paths : t[x] # NoRec => t[x].ver \in Nat
    BY DEF DB, Rec
  <2>. QED BY <1>2, <1>3, <2>1 DEF Grows
<1>. QED BY <1>1, <1>7, <1>8

\* A table step that ends in a SyncClient remembering a version the new
\* table covers.
LEMMA MergeStep ==
    ASSUME TypeOK, SyncInv, NEW w \in Workers, NEW u \in DB, NEW v \in Nat,
           db' = [db EXCEPT ![Dev(w)] = u], gone \subseteq gone',
           Grows(u, db[Dev(w)], gone'),
           lastSynced' = [lastSynced EXCEPT ![Client(w)] = v],
           v <= Len(hist), Cov(u, v, hist, gone'),
           UNCHANGED <<hist, late>>,
           OthersSame(w), pc'[w] \notin Owing
    PROVE  /\ db' \in [Devices -> DB]
           /\ lastSynced' \in [Clients -> Nat]
           /\ SyncInv'
<1>1. Dev(w) \in Devices /\ Client(w) \in Clients /\ Client(w)[1] = Dev(w)
  BY WorkerTypes
<1>2. lastSynced \in [Clients -> Nat] /\ lastSynced' \in [Clients -> Nat]
  BY <1>1 DEF TypeOK
<1>3. /\ db' \in [Devices -> DB]
      /\ Inv(db', hist, lastSynced, late, pc, put, sv, fv, gone')
  BY <1>1, TableGrows
<1>4. Cov(db'[Client(w)[1]], v, hist, gone')
  BY <1>1 DEF TypeOK
<1>5. Inv(db', hist, lastSynced', late, pc, put, sv, fv, gone')
  BY <1>1, <1>2, <1>3, <1>4, FrameClient
<1>6. /\ PutCov(w, db', hist, pc', put', gone')
      /\ AnswerCov(w, db', hist, pc', sv', fv', gone')
  BY NotOwing
<1>7. Inv(db', hist, lastSynced', late, pc', put', sv', fv', gone')
  BY <1>5, <1>6, FrameWorkers DEF OthersSame
<1>. QED BY <1>2, <1>3, <1>7, InvNext

\* reconcile_if_stale gives up the paths it puts aside and the version it
\* had synced.
LEMMA IsolateKeeps ==
    ASSUME TypeOK, SyncInv, NEW w \in Workers, Isolate(w)
    PROVE  TypeOK' /\ SyncInv'
<1>1. Inv(db, hist, lastSynced, late, pc, put, sv, fv, gone)
  BY InvNow
<1> DEFINE t == db[Dev(w)]
           X == PutAside(t)
           u == Isolated(t)
<1>2. Dev(w) \in Devices /\ t \in DB
  BY WorkerTypes DEF TypeOK
<1>3. u \in DB /\ X \subseteq Paths /\ Grows(u, t, X)
  BY <1>2, IsolatedFacts
<1>4. /\ db' = [db EXCEPT ![Dev(w)] = u] /\ gone' = gone \cup X
      /\ lastSynced' = [lastSynced EXCEPT ![Client(w)] = 0]
  BY DEF Isolate
<1> HIDE DEF X, u
<1>5. Grows(u, t, gone')
  BY <1>2, <1>3, <1>4, GrowsFacts
<1>6. 0 \in Nat /\ 0 <= Len(hist) /\ Cov(u, 0, hist, gone')
  BY <1>1, CovZero DEF Inv, TypeOK
<1>7. OthersSame(w) /\ pc'[w] \notin Owing
  BY DEF Isolate, TypeOK, OthersSame, Owing
<1>8. /\ db' \in [Devices -> DB]
      /\ lastSynced' \in [Clients -> Nat]
      /\ SyncInv'
  BY <1>3, <1>4, <1>5, <1>6, <1>7, MergeStep DEF Isolate, netVars
<1>9. ret' \in [Workers -> Returns] /\ pc' \in [Workers -> PCs]
  BY DEF Isolate, TypeOK, Returns, PCs
<1>10. TypeOK'
  BY <1>3, <1>4, <1>8, <1>9 DEF TypeOK, Isolate, netVars, timeVars
<1>. QED BY <1>8, <1>10

\* After an accepted upload the database still covers the new version.
LEMMA UploadDoneKeeps ==
    ASSUME TypeOK, SyncInv, NEW w \in Workers, UploadDone(w)
    PROVE  TypeOK' /\ SyncInv'
<1>1. Inv(db, hist, lastSynced, late, pc, put, sv, fv, gone)
  BY InvNow
<1> DEFINE t == db[Dev(w)]
           Z == IF put[w].base = NoBase THEN Pending(t) ELSE cap[w]
           u == MarkSynced(t, Z)
<1>2. Dev(w) \in Devices /\ t \in DB
  BY WorkerTypes DEF TypeOK
<1>3. u \in DB /\ Grows(u, t, {})
  BY <1>2, MarkSyncedType
<1>4. /\ db' = [db EXCEPT ![Dev(w)] = u] /\ gone' = gone
      /\ lastSynced' = [lastSynced EXCEPT ![Client(w)] = sv[w]]
  BY DEF UploadDone, obsVars, timeVars
<1> HIDE DEF Z, u
<1>5. Grows(u, t, gone')
  BY <1>2, <1>3, <1>4, GrowsFacts
<1>6. sv[w] \in 1..Len(hist) /\ Cov(t, sv[w], hist, gone)
  BY <1>1 DEF Inv, AnswerCov, UploadDone
<1>7. hist[Len(hist)] \in DB
  BY <1>6 DEF TypeOK
<1>8. Cov(u, sv[w], hist, gone')
  BY <1>2, <1>3, <1>4, <1>5, <1>6, <1>7, DomGrows DEF Cov
<1>9. ret[w] \in PCs \ Owing
  BY Places DEF TypeOK
<1>10. OthersSame(w) /\ pc'[w] \notin Owing
  BY <1>9 DEF TypeOK, UploadDone, OthersSame
<1>11. sv[w] \in Nat /\ sv[w] <= Len(hist)
  BY <1>6
<1>12. /\ db' \in [Devices -> DB]
       /\ lastSynced' \in [Clients -> Nat]
       /\ SyncInv'
  BY <1>3, <1>4, <1>5, <1>8, <1>10, <1>11, MergeStep DEF UploadDone, netVars
<1>13. att' \in [Workers -> 0..MaxCasRetries]
  BY BoundsAssumption DEF TypeOK, UploadDone
<1>14. TypeOK'
  BY <1>9, <1>12, <1>13 DEF TypeOK, UploadDone, netVars, obsVars, timeVars
<1>. QED BY <1>12, <1>14

\* The merged table covers the version the status answer named, because
\* the blob is not older than that.
LEMMA DownloadMergeKeeps ==
    ASSUME TypeOK, SyncInv, NEW w \in Workers, DownloadMerge(w)
    PROVE  TypeOK' /\ SyncInv'
<1>1. Inv(db, hist, lastSynced, late, pc, put, sv, fv, gone)
  BY InvNow
<1> DEFINE t == db[Dev(w)]
           m == Merge(t, hist[fv[w]])
           X == Expired(m)
           u == Without(m, X)
<1>2. Dev(w) \in Devices /\ t \in DB
  BY WorkerTypes DEF TypeOK
<1>3. fv[w] \in 1..Len(hist) /\ sv[w] <= fv[w] /\ sv[w] \in Nat
  BY <1>1 DEF Inv, AnswerCov, DownloadMerge, TypeOK
<1>4. hist[fv[w]] \in DB
  BY <1>3 DEF TypeOK
<1>5. m \in DB /\ Grows(m, t, {}) /\ Dom(m, hist[fv[w]], {})
  BY <1>2, <1>4, MergeFacts
<1>6. X \subseteq Paths
  BY DEF Expired
<1>7. /\ db' = [db EXCEPT ![Dev(w)] = u] /\ gone' = gone \cup X
      /\ lastSynced' = [lastSynced EXCEPT ![Client(w)] = sv[w]]
  BY DEF DownloadMerge
<1> HIDE DEF m, X
<1>8. u \in DB /\ Grows(u, m, X)
  BY <1>5, WithoutType
<1> HIDE DEF u
<1>9. Grows(u, m, gone')
  BY <1>5, <1>7, <1>8, GrowsFacts
<1>10. Grows(u, t, gone')
  BY <1>2, <1>5, <1>8, <1>9, GrowsFacts
<1>11. Dom(u, hist[fv[w]], gone')
  BY <1>4, <1>5, <1>8, <1>9, DomGrows
<1>12. sv[w] <= Len(hist) /\ Cov(u, sv[w], hist, gone')
  <2>1. Len(hist) \in Nat
    BY DEF TypeOK
  <2>2. sv[w] = Len(hist) => fv[w] = Len(hist)
    BY <1>3, <2>1
  <2>. QED BY <1>3, <1>11, <2>1, <2>2 DEF Cov
<1>13. ret[w] \in PCs \ Owing
  BY Places DEF TypeOK
<1>14. OthersSame(w) /\ pc'[w] \notin Owing
  BY <1>13 DEF TypeOK, DownloadMerge, OthersSame
<1>15. /\ db' \in [Devices -> DB]
       /\ lastSynced' \in [Clients -> Nat]
       /\ SyncInv'
  BY <1>3, <1>7, <1>8, <1>10, <1>12, <1>14, MergeStep DEF DownloadMerge, netVars
<1>16. TypeOK'
  BY <1>6, <1>7, <1>13, <1>15 DEF TypeOK, DownloadMerge, netVars
<1>. QED BY <1>15, <1>16

-----------------------------------------------------------------------------
(***************************************************************************)
(* Sessions, the server, failures                                          *)
(***************************************************************************)

\* A new SyncClient has merged nothing yet.
LEMMA OpenSessionKeeps ==
    ASSUME TypeOK, SyncInv, NEW w \in Workers, OpenSession(w)
    PROVE  TypeOK' /\ SyncInv'
<1>1. Inv(db, hist, lastSynced, late, pc, put, sv, fv, gone)
  BY InvNow
<1>2. TypeOK'
  BY WorkerTypes DEF TypeOK, OpenSession, netVars, obsVars, timeVars, PCs, Returns
<1>3. /\ 0 <= Len(hist)
      /\ Cov(db[Client(w)[1]], 0, hist, gone)
  BY <1>1, CovZero DEF TypeOK, Inv
<1>4. Inv(db, hist, lastSynced', late, pc, put, sv, fv, gone)
  BY <1>1, <1>3, FrameClient, WorkerTypes DEF TypeOK, OpenSession
<1>5. OthersSame(w)
  BY DEF TypeOK, OpenSession, OthersSame
<1>6. /\ PutCov(w, db, hist, pc', put', gone)
      /\ AnswerCov(w, db, hist, pc', sv', fv', gone)
  BY <1>1 DEF TypeOK, OpenSession, Inv, PutCov, AnswerCov
<1>7. Inv(db, hist, lastSynced', late, pc', put', sv', fv', gone)
  BY <1>4, <1>5, <1>6, FrameWorkers DEF OthersSame
<1>. QED BY <1>2, <1>7, InvNext DEF OpenSession, netVars, obsVars, timeVars

\* The daemon's coroutines start at the top of their loops.
LEMMA StartPeriodicSyncKeeps ==
    ASSUME TypeOK, SyncInv, NEW w \in Workers, StartPeriodicSync(w)
    PROVE  TypeOK' /\ SyncInv'
<1>1. Inv(db, hist, lastSynced, late, pc, put, sv, fv, gone)
  BY InvNow
<1>2. TypeOK'
  BY DEF TypeOK, StartPeriodicSync, callVars, netVars, obsVars, timeVars, PCs
<1>3. ASSUME NEW v \in Workers
      PROVE  \/ pc'[v] = pc[v]
             \/ /\ PutCov(v, db, hist, pc', put', gone)
                /\ AnswerCov(v, db, hist, pc', sv', fv', gone)
  BY NotOwing DEF TypeOK, StartPeriodicSync, Owing
<1>4. Inv(db, hist, lastSynced, late, pc', put', sv', fv', gone)
  BY <1>1, <1>3, FrameWorkers DEF StartPeriodicSync, callVars
<1>. QED BY <1>2, <1>4, InvNext DEF StartPeriodicSync, netVars, obsVars, timeVars

\* An accepted PUT had the server's version as its base, so its body has
\* everything the server had.
LEMMA ServerAcceptKeeps ==
    ASSUME TypeOK, SyncInv, NEW w \in Workers, ServerAccept(w)
    PROVE  TypeOK' /\ SyncInv'
<1>1. Inv(db, hist, lastSynced, late, pc, put, sv, fv, gone)
  BY InvNow
<1> DEFINE b == put[w].blob
<1>2. PutCov(w, db, hist, pc, put, gone) /\ pc[w] = "put"
  BY <1>1 DEF Inv, ServerAccept
<1>3. /\ b \in DB /\ put[w].base \in 0..Len(hist)
      /\ Cov(b, put[w].base, hist, gone)
      /\ Dom(db[Dev(w)], b, gone)
  BY <1>2 DEF PutCov, Puts
<1>4. put[w].base = Len(hist)
  BY <1>3 DEF ServerAccept, Accepts, NoBase
<1>5. Dom(b, hist[Len(hist)], gone)
  BY <1>3, <1>4 DEF Cov
<1> HIDE DEF b
<1>6. hist' = Append(hist, b)
  BY DEF ServerAccept, b
<1>7. /\ Len(hist) \in Nat /\ hist' \in Seq(DB)
      /\ Len(hist') = Len(hist) + 1 /\ hist'[Len(hist')] = b
  BY <1>3, <1>6 DEF TypeOK
<1>8. TypeOK'
  BY <1>7 DEF TypeOK, ServerAccept, obsVars, timeVars, PCs
<1>9. Inv(db, hist', lastSynced, late, pc, put, sv, fv, gone)
  BY <1>1, <1>3, <1>5, <1>6, FrameAppend DEF TypeOK
<1>10. OthersSame(w)
  BY DEF TypeOK, ServerAccept, OthersSame
<1>11. pc'[w] = "accepted" /\ sv'[w] = Len(hist')
  BY <1>7 DEF TypeOK, ServerAccept
<1>12. /\ PutCov(w, db, hist', pc', put', gone)
       /\ AnswerCov(w, db, hist', pc', sv', fv', gone)
  BY <1>3, <1>7, <1>11 DEF PutCov, AnswerCov, Cov
<1>13. Inv(db, hist', lastSynced, late, pc', put', sv', fv', gone)
  BY <1>9, <1>10, <1>12, FrameWorkers DEF OthersSame
<1>. QED BY <1>8, <1>13, InvNext DEF ServerAccept, obsVars, timeVars

\* Whatever PUTs are added to the network must be covered by their bases.
LEMMA FrameLate ==
    ASSUME NEW D, NEW h, NEW L, NEW N, NEW q, NEW P, NEW S, NEW F, NEW g, NEW M,
           Inv(D, h, L, N, q, P, S, F, g),
           \A m \in M : m \in N \/ (m.base \in 0..Len(h) /\ Cov(m.blob, m.base, h, g))
    PROVE  Inv(D, h, L, M, q, P, S, F, g)
BY DEF Inv, LateCov

\* A PUT that comes late is accepted on the same grounds.
LEMMA LateAcceptKeeps ==
    ASSUME TypeOK, SyncInv, LateAccept
    PROVE  TypeOK' /\ SyncInv'
<1>1. Inv(db, hist, lastSynced, late, pc, put, sv, fv, gone)
  BY InvNow
<1>2. PICK m \in late : /\ Accepts(m)
                        /\ hist' = Append(hist, m.blob)
                        /\ late' = late \ {m}
  BY DEF LateAccept
<1>3. m.blob \in DB
  BY DEF TypeOK, Puts
<1>4. m.base \in 0..Len(hist) /\ Cov(m.blob, m.base, hist, gone)
  BY <1>1 DEF Inv, LateCov
<1>5. m.base = Len(hist)
  BY <1>2, <1>4 DEF Accepts, NoBase
<1>6. Dom(m.blob, hist[Len(hist)], gone)
  BY <1>4, <1>5 DEF Cov
<1>7. Inv(db, hist', lastSynced, late, pc, put, sv, fv, gone)
  BY <1>1, <1>2, <1>3, <1>6, FrameAppend DEF TypeOK
<1>8. Inv(db, hist', lastSynced, late', pc, put, sv, fv, gone)
  BY <1>2, <1>7, FrameLate
<1>9. hist' \in Seq(DB)
  BY <1>2, <1>3 DEF TypeOK
<1>10. TypeOK'
  BY <1>2, <1>9 DEF TypeOK, LateAccept, callVars, obsVars, timeVars
<1>. QED BY <1>8, <1>10, InvNext DEF LateAccept, callVars, obsVars, timeVars

\* A lost answer leaves the worker where its caller goes on.
LEMMA FailKeeps ==
    ASSUME TypeOK, SyncInv, NEW w \in Workers, Fail(w)
    PROVE  TypeOK' /\ SyncInv'
<1>1. Inv(db, hist, lastSynced, late, pc, put, sv, fv, gone)
  BY InvNow
<1>2. PutCov(w, db, hist, pc, put, gone)
  BY <1>1 DEF Inv
<1>3. ret[w] \in PCs \ Owing
  BY Places DEF TypeOK
<1>4. late' \subseteq Puts
  BY <1>2 DEF TypeOK, Fail, PutCov
<1>5. att' \in [Workers -> 0..MaxCasRetries] /\ nloss' \in 0..MaxLoss
  BY BoundsAssumption DEF TypeOK, Fail
<1>6. TypeOK'
  BY <1>3, <1>4, <1>5 DEF TypeOK, Fail, obsVars, timeVars
<1>7. Inv(db, hist, lastSynced, late', pc, put, sv, fv, gone)
  <2>1. \A m \in late' : \/ m \in late
                         \/ m.base \in 0..Len(hist) /\ Cov(m.blob, m.base, hist, gone)
    BY <1>2 DEF Fail, PutCov
  <2>. QED BY <1>1, <2>1, FrameLate
<1>8. OthersSame(w) /\ pc'[w] \notin Owing
  BY <1>3 DEF TypeOK, Fail, OthersSame
<1>9. /\ PutCov(w, db, hist, pc', put', gone)
      /\ AnswerCov(w, db, hist, pc', sv', fv', gone)
  BY <1>8, NotOwing
<1>10. Inv(db, hist, lastSynced, late', pc', put', sv', fv', gone)
  BY <1>7, <1>8, <1>9, FrameWorkers DEF OthersSame
<1>. QED BY <1>6, <1>10, InvNext DEF Fail, obsVars, timeVars

\* A new daemon has merged nothing yet; its predecessor's PUTs are still
\* covered by their bases.
LEMMA RestartDaemonKeeps ==
    ASSUME TypeOK, SyncInv, NEW d \in Devices, RestartDaemon(d)
    PROVE  TypeOK' /\ SyncInv'
<1>1. Inv(db, hist, lastSynced, late, pc, put, sv, fv, gone)
  BY InvNow
<1> DEFINE W == {w \in Workers : Client(w) = <<d, "daemon">>}
<1>2. \A w \in Workers : PutCov(w, db, hist, pc, put, gone)
  BY <1>1 DEF Inv
<1>3. late' = late \cup {put[w] : w \in {v \in W : pc[v] = "put"}}
  BY DEF RestartDaemon
<1>4. \A m \in late' : \/ m \in late
                       \/ /\ m \in Puts /\ m.base \in 0..Len(hist)
                          /\ Cov(m.blob, m.base, hist, gone)
  BY <1>2, <1>3 DEF PutCov
<1>5. TypeOK'
  <2>1. late' \subseteq Puts
    BY <1>4 DEF TypeOK
  <2>2. pc' \in [Workers -> PCs] /\ ret' \in [Workers -> Returns]
    BY Places DEF TypeOK, RestartDaemon, Returns
  <2>3. /\ cap' \in [Workers -> SUBSET Paths]
        /\ put' \in [Workers -> Puts \cup {NoPut}]
    BY DEF TypeOK, RestartDaemon
  <2>4. /\ sv' \in [Workers -> Nat] /\ fv' \in [Workers -> Nat]
        /\ att' \in [Workers -> 0..MaxCasRetries]
    BY BoundsAssumption DEF TypeOK, RestartDaemon
  <2>5. lastSynced' \in [Clients -> Nat]
    BY DEF TypeOK, RestartDaemon
  <2>6. nloss' \in 0..MaxLoss
    BY BoundsAssumption DEF TypeOK, RestartDaemon
  <2>. QED BY <2>1, <2>2, <2>3, <2>4, <2>5, <2>6 DEF TypeOK, RestartDaemon, obsVars, timeVars
<1>6. Inv(db, hist, lastSynced, late', pc, put, sv, fv, gone)
  BY <1>1, <1>4, FrameLate
<1>7. <<d, "daemon">> \in Clients
  BY DEF Clients
<1>8. Inv(db, hist, lastSynced', late', pc, put, sv, fv, gone)
  <2>1. Len(hist) >= 1
    BY <1>1 DEF Inv
  <2>2. 0 <= Len(hist) /\ Cov(db[<<d, "daemon">>[1]], 0, hist, gone)
    BY <2>1, CovZero DEF TypeOK
  <2>. QED BY <1>6, <1>7, <2>2, FrameClient DEF TypeOK, RestartDaemon
<1>9. ASSUME NEW w \in Workers
      PROVE  \/ pc'[w] = pc[w] /\ put'[w] = put[w] /\ sv'[w] = sv[w] /\ fv'[w] = fv[w]
             \/ /\ PutCov(w, db, hist, pc', put', gone)
                /\ AnswerCov(w, db, hist, pc', sv', fv', gone)
  <2>1. CASE w \in W
    <3>1. pc'[w] \notin Owing
      BY <2>1, Places DEF RestartDaemon
    <3>. QED BY <3>1, NotOwing
  <2>2. CASE w \notin W
    BY <2>2 DEF RestartDaemon
  <2>. QED BY <2>1, <2>2
<1>10. Inv(db, hist, lastSynced', late', pc', put', sv', fv', gone)
  BY <1>8, <1>9, FrameWorkers
<1>. QED BY <1>5, <1>10, InvNext DEF RestartDaemon, obsVars, timeVars

\* Time passes.
LEMMA ElapseKeeps ==
    ASSUME TypeOK, SyncInv, Elapse
    PROVE  TypeOK' /\ SyncInv'
<1>1. TypeOK'
  BY BoundsAssumption DEF TypeOK, Elapse, callVars, netVars, obsVars, timeVars
<1>. QED BY <1>1, InvNow, InvNext DEF Elapse, callVars, netVars, obsVars, timeVars

-----------------------------------------------------------------------------
(***************************************************************************)
(* The theorems                                                            *)
(***************************************************************************)

\* The seeded table is a table that dominates itself.
LEMMA InvInit == Init => TypeOK /\ SyncInv
<1>1. SUFFICES ASSUME Init PROVE TypeOK /\ SyncInv
  OBVIOUS
<1>2. Seed \in DB
  BY BoundsAssumption DEF Seed, SeedRec, DB, Rec, Statuses, EditIds
<1>3. hist = <<Seed>> /\ hist \in Seq(DB) /\ Len(hist) = 1
  BY <1>1, <1>2 DEF Init
<1>4. \A w \in Workers : Fresh(w) \in PCs \ Owing
  BY Places
<1>5. TypeOK
  BY <1>1, <1>2, <1>3, <1>4, BoundsAssumption DEF Init, InitClients, TypeOK, Returns
<1>6. Inv(db, hist, lastSynced, late, pc, put, sv, fv, gone)
  <2>1. Clean(hist, gone)
    BY <1>3 DEF Clean
  <2>2. ClientsCov(db, hist, lastSynced, gone)
    BY <1>1, <1>3 DEF Init, InitClients, ClientsCov, Cov
  <2>3. LateCov(hist, late, gone)
    BY <1>1 DEF Init, InitClients, LateCov
  <2>4. \A w \in Workers : pc[w] \notin Owing
    BY <1>1, <1>4 DEF Init, InitClients
  <2>. QED BY <1>3, <2>1, <2>2, <2>3, <2>4, NotOwing DEF Inv
<1>. QED BY <1>5, <1>6, InvNow

\* TypeOK and SyncInv together are inductive (types need SyncInv: a merge
\* reads hist[fv[w]], which exists only because the answer names a version).
LEMMA InvStep == TypeOK /\ SyncInv /\ [Next]_vars => TypeOK' /\ SyncInv'
<1>1. SUFFICES ASSUME TypeOK, SyncInv, [Next]_vars PROVE TypeOK' /\ SyncInv'
  OBVIOUS
<1>2. ASSUME NEW w \in Workers, WorkerStep(w) PROVE TypeOK' /\ SyncInv'
  BY <1>1, <1>2, IsolateKeeps, BootSyncKeeps, InitialMergeKeeps, StartPeriodicSyncKeeps,
     UploadStartKeeps, UploadRetryKeeps, UploadSendKeeps, ForceSendKeeps,
     ServerAcceptKeeps, ServerRejectKeeps, UploadDoneKeeps, DownloadStatusKeeps,
     HandleStatusKeeps, ServerGetKeeps, DownloadMergeKeeps DEF WorkerStep
<1>3. ASSUME NEW w \in Workers, UserCommand(w) PROVE TypeOK' /\ SyncInv'
  BY <1>1, <1>3, WriteFileKeeps, DeleteFileKeeps, MoveFileKeeps DEF UserCommand
<1>4. ASSUME NEW w \in Workers, OpenSession(w) \/ CloseSession(w) \/ Fail(w)
      PROVE  TypeOK' /\ SyncInv'
  BY <1>1, <1>4, OpenSessionKeeps, CloseSessionKeeps, FailKeeps
<1>5. CASE (\E d \in Devices : RestartDaemon(d)) \/ LateAccept \/ Elapse
  BY <1>1, <1>5, RestartDaemonKeeps, LateAcceptKeeps, ElapseKeeps
<1>6. CASE UNCHANGED vars
  <2>1. TypeOK'
    BY <1>1, <1>6 DEF TypeOK, vars
  <2>. QED BY <1>1, <1>6, <2>1, InvNow, InvNext DEF vars
<1>. QED BY <1>1, <1>2, <1>3, <1>4, <1>5, <1>6 DEF Next

\* Types: every database is a table of rows, and every answer that is taken
\* over, by initial_sync, _download_and_merge or upload_metadata, is one the
\* server really gave.
THEOREM TypeCorrect == Spec => []TypeOK
<1>1. Init => TypeOK /\ SyncInv
  BY InvInit
<1>2. TypeOK /\ SyncInv /\ [Next]_vars => (TypeOK /\ SyncInv)'
  BY InvStep
<1>. QED BY <1>1, <1>2, PTL DEF Spec

\* The inductive invariant: whatever version a SyncClient has recorded, a
\* PUT under way or an answer still to be handled is covered.
THEOREM SyncInvHolds == Spec => []SyncInv
<1>1. Init => TypeOK /\ SyncInv
  BY InvInit
<1>2. TypeOK /\ SyncInv /\ [Next]_vars => (TypeOK /\ SyncInv)'
  BY InvStep
<1>. QED BY <1>1, <1>2, PTL DEF Spec

\* No upload of upload_metadata takes a live row, or a newer version of one,
\* away from the server.
THEOREM UploadsNeverRegress == Spec => []ServerNeverRegresses
<1>1. SyncInv => ServerNeverRegresses
  BY DEF SyncInv
<1>. QED BY <1>1, SyncInvHolds, PTL

\* Only an accepted PUT changes what the server has, and no step puts back a
\* path that was given up.
LEMMA HistStep ==
    ASSUME TypeOK, SyncInv, [Next]_vars
    PROVE  \/ hist' = hist /\ gone \subseteq gone'
           \/ \E b \in DB : hist' = Append(hist, b) /\ gone' = gone
<1> DEFINE Goal == \/ hist' = hist /\ gone \subseteq gone'
                   \/ \E b \in DB : hist' = Append(hist, b) /\ gone' = gone
<1>1. Inv(db, hist, lastSynced, late, pc, put, sv, fv, gone)
  BY InvNow
<1>2. ASSUME NEW w \in Workers, ServerAccept(w) PROVE Goal
  <2>1. put[w].blob \in DB
    BY <1>1, <1>2 DEF Inv, PutCov, ServerAccept, Puts
  <2>. QED BY <1>2, <2>1 DEF ServerAccept, obsVars, timeVars
<1>3. ASSUME NEW w \in Workers, WorkerStep(w), ~ServerAccept(w) PROVE Goal
  BY <1>3 DEF WorkerStep, Isolate, BootSync, InitialMerge, StartPeriodicSync, UploadStart,
     UploadRetry, UploadSend, ForceSend, ServerReject, UploadDone, DownloadStatus,
     HandleStatus, ServerGet, DownloadMerge, netVars, obsVars, timeVars
<1>4. ASSUME NEW w \in Workers, UserCommand(w) PROVE Goal
  BY <1>4 DEF UserCommand, WriteFile, DeleteFile, MoveFile, netVars
<1>5. ASSUME NEW w \in Workers, OpenSession(w) \/ CloseSession(w) \/ Fail(w)
      PROVE  Goal
  BY <1>5 DEF OpenSession, CloseSession, Fail, netVars, obsVars, timeVars
<1>6. ASSUME NEW d \in Devices, RestartDaemon(d) PROVE Goal
  BY <1>6 DEF RestartDaemon, obsVars, timeVars
<1>7. CASE LateAccept
  <2>1. PICK m \in late : hist' = Append(hist, m.blob)
    BY <1>7 DEF LateAccept
  <2>2. m.blob \in DB
    BY DEF TypeOK, Puts
  <2>. QED BY <1>7, <2>1, <2>2 DEF LateAccept, obsVars, timeVars
<1>8. CASE Elapse
  BY <1>8 DEF Elapse, netVars, obsVars, timeVars
<1>9. CASE UNCHANGED vars
  BY <1>9 DEF vars
<1>. QED BY <1>2, <1>3, <1>4, <1>5, <1>6, <1>7, <1>8, <1>9 DEF Next

\* Refinement: with hist and gone as they are, every step of SyncClient is an
\* upload to the log, a removal by a device, or leaves the log alone.
THEOREM RefinesLog == Spec => ImplementsLog
<1>1. Init => Log!Start
  BY DEF Init, InitClients, Log!Start
<1>2. ASSUME TypeOK, SyncInv, SyncInv', [Next]_vars
      PROVE  [Log!Upload \/ Log!Remove]_<<hist, gone>>
  <2>1. CASE hist' = hist /\ gone \subseteq gone'
    BY <2>1 DEF Log!Remove
  <2>2. CASE \E b \in DB : hist' = Append(hist, b) /\ gone' = gone
    <3>1. PICK b \in DB : hist' = Append(hist, b)
      BY <2>2
    <3>2. /\ Len(hist) \in Nat /\ Len(hist) >= 1
          /\ Len(hist') = Len(hist) + 1 /\ hist'[Len(hist) + 1] = b
          /\ hist'[Len(hist)] = hist[Len(hist)]
      BY <1>2, <3>1 DEF TypeOK, SyncInv
    <3>3. Clean(hist', gone')
      BY <1>2, InvNext DEF Inv
    <3>4. Dom(b, hist[Len(hist)], gone)
      BY <2>2, <3>2, <3>3 DEF Clean
    <3>5. Log!Dominates(b, hist[Len(hist)])
      BY <3>4 DEF Log!Dominates, Dom
    <3>. QED BY <2>2, <3>1, <3>2, <3>5 DEF Log!Upload
  <2>. QED BY <1>2, <2>1, <2>2, HistStep
<1>3. Spec => [](TypeOK /\ SyncInv)
  BY TypeCorrect, SyncInvHolds, PTL
<1>. QED BY <1>1, <1>2, <1>3, PTL DEF Spec, ImplementsLog, Log!LogSpec

-----------------------------------------------------------------------------
(***************************************************************************)
(* What an edit leaves behind.  The result of edit e is a row K[e], once   *)
(* and for all: no merge, upload or renaming changes anything but its      *)
(* status, and a conflict copy is the result of the edit in its name.      *)
(* This is what makes an existing conflict copy of an edit as good as a    *)
(* new one.  An edit comes after those it superseded, and superseded what  *)
(* they did.                                                               *)
(***************************************************************************)

\* Row r is the row k, whatever its status.
AsMade(r, k) == r.del = k.del /\ r.ver = k.ver /\ r.past = k.past

\* Table t only has results of the first n edits, and tells of them what K does.
Honest(t, K, n) ==
    \A p \in Paths : t[p] # NoRec =>
        /\ t[p].edit <= n
        /\ AsMade(t[p], K[t[p].edit])
        /\ p \in Copies => t[p].edit = p[2]

Ordered(K, n) ==
    \A e \in 0..n : \A x \in K[e].past :
        x \in 0..n /\ K[x].past \subseteq K[e].past /\ K[x].ver < K[e].ver

World(D, h, N, q, P, K, n) ==
    /\ Ordered(K, n)
    /\ \A d \in Devices : Honest(D[d], K, n)
    /\ \A k \in 1..Len(h) : Honest(h[k], K, n)
    /\ \A m \in N : Honest(m.blob, K, n)
    /\ \A w \in Workers : q[w] = "put" => Honest(P[w].blob, K, n)

EditsTell == \E K \in [EditIds -> Rec] :
                World(db, hist, late, pc, put, K, nedits)

\* What PendingNeverDropped asks of a device's old table t and new one u.
Keeps(u, t) ==
    \A p \in Files :
        Live(t[p]) /\ t[p].st = "pending" =>
           \/ Exists(u[p]) /\ (u[p].edit = t[p].edit \/ t[p].edit \in u[p].past)
           \/ \E q \in Paths : Live(u[q]) /\ u[q].edit = t[p].edit

\* All but an edit of the row itself do more: the edit lives on.
Lives(u, t) ==
    \A p \in Files : Live(t[p]) /\ t[p].st = "pending" =>
        \E q \in Paths : Live(u[q]) /\ u[q].edit = t[p].edit

\* The path of a conflict copy is a path, and tells the file and the edit.
LEMMA CopyFacts ==
    /\ \A f \in Files, e \in EditIds :
          Copy(f, e) \in Copies /\ Copy(f, e)[1] = f /\ Copy(f, e)[2] = e
    /\ \A f, g, e, i : Copy(f, e) = Copy(g, i) => f = g /\ e = i
    /\ \A p \in Files : p \notin Copies
    /\ Paths = Files \cup Copies
BY PathsAssumption DEF Copy, Copies, Paths

\* A merge: rows come from the two tables, and a row in conflict is kept
\* under the name of its copy, unless a row has that name.
LEMMA MergeRows ==
    ASSUME NEW t \in DB, NEW s \in DB
    PROVE  /\ \A p \in Files : Merge(t, s)[p] = MergeRecord(t[p], s[p])
           /\ \A f \in Files, e \in EditIds :
                 IF f \in Conflicts(t, s) /\ t[f].edit = e /\ FreshName(t, s, Copy(f, e))
                 THEN Merge(t, s)[Copy(f, e)] = [t[f] EXCEPT !.st = "conflict"]
                 ELSE Merge(t, s)[Copy(f, e)]
                         = MergeRecord(t[Copy(f, e)], s[Copy(f, e)])
<1>1. ASSUME NEW p \in Files PROVE Merge(t, s)[p] = MergeRecord(t[p], s[p])
  <2>1. p \in Paths
    BY CopyFacts
  <2>2. ~\E f \in Conflicts(t, s) : p = Copy(f, t[f].edit) /\ FreshName(t, s, p)
    <3>1. SUFFICES ASSUME NEW f \in Conflicts(t, s), p = Copy(f, t[f].edit)
          PROVE  FALSE
      OBVIOUS
    <3>2. f \in Files /\ t[f].edit \in EditIds
      BY CopyFacts DEF Conflicts, Exists, DB, Rec
    <3>. QED BY <3>1, <3>2, CopyFacts
  <2>. QED BY <2>1, <2>2 DEF Merge
<1>2. ASSUME NEW f \in Files, NEW e \in EditIds
      PROVE  IF f \in Conflicts(t, s) /\ t[f].edit = e /\ FreshName(t, s, Copy(f, e))
             THEN Merge(t, s)[Copy(f, e)] = [t[f] EXCEPT !.st = "conflict"]
             ELSE Merge(t, s)[Copy(f, e)]
                     = MergeRecord(t[Copy(f, e)], s[Copy(f, e)])
  <2> DEFINE p == Copy(f, e)
  <2>1. p \in Paths
    BY CopyFacts
  <2>2. \A g \in Conflicts(t, s) : p = Copy(g, t[g].edit) <=> g = f /\ t[f].edit = e
    BY CopyFacts
  <2>3. CASE f \in Conflicts(t, s) /\ t[f].edit = e /\ FreshName(t, s, p)
    <3>1. (CHOOSE g \in Conflicts(t, s) : p = Copy(g, t[g].edit)) = f
      BY <2>2, <2>3
    <3> HIDE DEF p
    <3>2. \E g \in Conflicts(t, s) : p = Copy(g, t[g].edit) /\ FreshName(t, s, p)
      BY <2>2, <2>3
    <3>3. Merge(t, s)[p] = [t[f] EXCEPT !.st = "conflict"]
      BY <2>1, <3>1, <3>2 DEF Merge
    <3>. QED BY <2>3, <3>3 DEF p
  <2>4. CASE ~(f \in Conflicts(t, s) /\ t[f].edit = e /\ FreshName(t, s, p))
    <3> HIDE DEF p
    <3>1. ~\E g \in Conflicts(t, s) : p = Copy(g, t[g].edit) /\ FreshName(t, s, p)
      BY <2>2, <2>4
    <3>2. Merge(t, s)[p] = MergeRecord(t[p], s[p])
      BY <2>1, <3>1 DEF Merge
    <3>. QED BY <2>4, <3>2 DEF p
  <2>. QED BY <2>3, <2>4
<1>. QED BY <1>1, <1>2

\* _merge_record takes one of the two rows, but for its status.
LEMMA MergeRecordTells ==
    ASSUME NEW l \in Rec \cup {NoRec}, NEW s \in Rec \cup {NoRec},
           MergeRecord(l, s) # NoRec
    PROVE  \/ /\ s # NoRec
              /\ MergeRecord(l, s).edit = s.edit
              /\ AsMade(MergeRecord(l, s), s)
           \/ l # NoRec /\ MergeRecord(l, s) = l
<1>1. s \in Rec => FromServer(s).edit = s.edit /\ AsMade(FromServer(s), s)
  BY DEF FromServer, Rec, AsMade
<1>. QED BY <1>1, NoRecAssumption DEF MergeRecord, Exists

\* A merge makes no row that neither side had.
LEMMA HonestMerge ==
    ASSUME NEW t \in DB, NEW s \in DB, NEW K, NEW n, Honest(t, K, n), Honest(s, K, n)
    PROVE  Honest(Merge(t, s), K, n)
<1> DEFINE m == Merge(t, s)
<1>1. SUFFICES ASSUME NEW p \in Paths, m[p] # NoRec
      PROVE  /\ m[p].edit <= n
             /\ AsMade(m[p], K[m[p].edit])
             /\ p \in Copies => m[p].edit = p[2]
  BY DEF Honest
<1>2. t[p] \in Rec \cup {NoRec} /\ s[p] \in Rec \cup {NoRec}
  BY DEF DB
<1>3. CASE m[p] = MergeRecord(t[p], s[p])
  BY <1>1, <1>2, <1>3, MergeRecordTells DEF Honest, AsMade
<1>4. CASE m[p] # MergeRecord(t[p], s[p])
  <2>1. PICK f \in Files, e \in EditIds : p = Copy(f, e)
    BY <1>4, MergeRows DEF Paths, Copies, Copy
  <2>2. /\ f \in Conflicts(t, s) /\ t[f].edit = e
        /\ m[p] = [t[f] EXCEPT !.st = "conflict"]
    BY <1>4, <2>1, MergeRows
  <2>3. f \in Paths /\ t[f] \in Rec /\ t[f] # NoRec
    BY <2>2, NoRecAssumption DEF Conflicts, Exists, DB, Paths
  <2>4. m[p].edit = e /\ AsMade(m[p], t[f])
    BY <2>2, <2>3 DEF Rec, AsMade
  <2>5. p[2] = e
    BY <2>1, CopyFacts
  <2>6. t[f].edit <= n /\ AsMade(t[f], K[e])
    BY <2>2, <2>3 DEF Honest
  <2>. QED BY <2>2, <2>4, <2>5, <2>6 DEF AsMade
<1>. QED BY <1>3, <1>4

\* A pending row is overwritten by a merge only in a conflict, and then it
\* lives on in its copy: the new one, or the one that was there.
LEMMA KeepsMerge ==
    ASSUME NEW t \in DB, NEW s \in DB, NEW K, NEW n, Honest(t, K, n), Honest(s, K, n)
    PROVE  Lives(Merge(t, s), t)
<1> DEFINE m == Merge(t, s)
<1>1. SUFFICES ASSUME NEW p \in Files, Live(t[p]), t[p].st = "pending"
      PROVE  \E q \in Paths : Live(m[q]) /\ m[q].edit = t[p].edit
  BY DEF Lives
<1>2. /\ p \in Paths /\ t[p] \in Rec /\ t[p] # NoRec /\ t[p].del = FALSE
      /\ s[p] \in Rec \cup {NoRec}
      /\ t[p].edit \in EditIds /\ t[p].ver \in Nat
  BY <1>1, NoRecAssumption DEF DB, Paths, Live, Rec
<1>3. m[p] = MergeRecord(t[p], s[p])
  BY MergeRows
<1>4. CASE ~Exists(s[p])
  BY <1>1, <1>2, <1>3, <1>4 DEF MergeRecord, Exists
<1>5. CASE Exists(s[p]) /\ ~IsConflict(t[p], s[p])
  <2>1. s[p] \in Rec /\ s[p].ver \in Nat
    BY <1>2, <1>5 DEF Exists, Rec
  <2>2. ~(s[p].ver > t[p].ver)
    BY <1>1, <1>2, <1>5, <2>1 DEF IsConflict, BaseVersion
  <2>3. m[p] = t[p]
    BY <1>2, <1>3, <1>5, <2>2 DEF MergeRecord, Exists
  <2>. QED BY <1>1, <1>2, <2>3
<1>6. CASE Exists(s[p]) /\ IsConflict(t[p], s[p])
  <2>1. p \in Conflicts(t, s)
    BY <1>2, <1>6 DEF Conflicts, Exists
  <2> DEFINE e == t[p].edit
             q == Copy(p, e)
  <2>2. q \in Copies /\ q \in Paths /\ q[2] = e
    BY <1>2, CopyFacts
  <2>3. K[e].del = FALSE
    BY <1>2 DEF Honest, AsMade
  <2>4. Honest(m, K, n)
    BY HonestMerge
  <2>5. m[q] # NoRec
    <3>1. CASE FreshName(t, s, q)
      <4>1. m[q] = [t[p] EXCEPT !.st = "conflict"]
        BY <1>2, <2>1, <3>1, MergeRows
      <4>2. m[q] \in Rec
        BY <1>2, <4>1 DEF Rec, Statuses
      <4>. QED BY <4>2, NoRecAssumption
    <3>2. CASE ~FreshName(t, s, q)
      <4>1. m[q] = MergeRecord(t[q], s[q])
        BY <1>2, <3>2, MergeRows
      <4>2. t[q] \in Rec \cup {NoRec} /\ s[q] \in Rec \cup {NoRec}
        BY <2>2 DEF DB
      <4>3. t[q] # NoRec \/ s[q] # NoRec
        BY <3>2 DEF FreshName, Exists
      <4>4. s[q] # NoRec => s[q].edit = e /\ s[q].del = FALSE
        BY <2>2, <2>3 DEF Honest, AsMade
      <4>. QED BY <4>1, <4>2, <4>3, <4>4, MergeRecordFacts
    <3>. QED BY <3>1, <3>2
  <2>6. m[q].edit = e /\ m[q].del = FALSE
    <3> HIDE DEF q, m
    <3>. QED BY <2>2, <2>3, <2>4, <2>5 DEF Honest, AsMade
  <2>. QED BY <2>2, <2>5, <2>6 DEF Live
<1>. QED BY <1>4, <1>5, <1>6

\* A purge makes no row.
LEMMA HonestWithout ==
    ASSUME NEW t \in DB, NEW X, NEW K, NEW n, Honest(t, K, n)
    PROVE  Honest(Without(t, X), K, n)
BY DEF Honest, Without

\* purge_expired_tombstones deletes no live row.
LEMMA LivesPurge ==
    ASSUME NEW t \in DB, NEW u \in DB, NEW X, X \subseteq Expired(u), Lives(u, t)
    PROVE  Lives(Without(u, X), t)
<1> DEFINE v == Without(u, X)
<1>1. SUFFICES ASSUME NEW p \in Files, Live(t[p]), t[p].st = "pending"
      PROVE  \E q \in Paths : Live(v[q]) /\ v[q].edit = t[p].edit
  BY DEF Lives
<1>2. PICK q \in Paths : Live(u[q]) /\ u[q].edit = t[p].edit
  BY <1>1 DEF Lives
<1>3. q \notin X
  BY <1>2 DEF Expired, Live
<1>4. v[q] = u[q]
  BY <1>3 DEF Without
<1>. QED BY <1>2, <1>4

\* A table keeps what it has.
LEMMA LivesSame ==
    ASSUME NEW t \in DB
    PROVE  Lives(t, t)
BY DEF Lives, Paths

\* An edit that lives on is kept.
LEMMA LivesKeeps ==
    ASSUME NEW t \in DB, NEW u \in DB, Lives(u, t)
    PROVE  Keeps(u, t)
BY DEF Lives, Keeps

\* Marking a row synced changes its status alone.
LEMMA MarkRows ==
    ASSUME NEW t \in DB, NEW S, NEW p \in Paths
    PROVE  /\ t[p] = NoRec => MarkSynced(t, S)[p] = NoRec
           /\ t[p] # NoRec => /\ MarkSynced(t, S)[p] # NoRec
                              /\ MarkSynced(t, S)[p].edit = t[p].edit
                              /\ AsMade(MarkSynced(t, S)[p], t[p])
<1>1. t[p] \in Rec \cup {NoRec}
  BY DEF DB
<1>2. t[p] \in Rec => /\ [t[p] EXCEPT !.st = "synced"] \in Rec
                      /\ [t[p] EXCEPT !.st = "synced"].edit = t[p].edit
                      /\ AsMade([t[p] EXCEPT !.st = "synced"], t[p])
  BY DEF Rec, Statuses, AsMade
<1>3. AsMade(t[p], t[p])
  BY DEF AsMade
<1>. QED BY <1>1, <1>2, <1>3, NoRecAssumption DEF MarkSynced, Exists

\* So an upload that is done drops no edit.
LEMMA MarkKeeps ==
    ASSUME NEW t \in DB, NEW S, NEW K, NEW n, Honest(t, K, n)
    PROVE  Honest(MarkSynced(t, S), K, n) /\ Lives(MarkSynced(t, S), t)
<1>1. Honest(MarkSynced(t, S), K, n)
  BY MarkRows DEF Honest, AsMade
<1>2. Lives(MarkSynced(t, S), t)
  BY MarkRows DEF Lives, Live, Paths, AsMade
<1>. QED BY <1>1, <1>2

\* The rows of the table after reconcile_if_stale has renamed some.
LEMMA IsolatedRows ==
    ASSUME NEW t \in DB
    PROVE  \A p \in Paths :
              \/ Isolated(t)[p] = t[p] /\ p \notin PutAside(t)
              \/ Isolated(t)[p] = NoRec /\ p \in PutAside(t)
              \/ \E f \in PutAside(t) :
                    /\ p = Copy(f, t[f].edit)
                    /\ Isolated(t)[p] = [t[f] EXCEPT !.st = "pending"]
<1>1. SUFFICES ASSUME NEW p \in Paths, p \notin PutAside(t),
                      NEW f \in PutAside(t), p = Copy(f, t[f].edit)
      PROVE  Isolated(t)[p] = [t[f] EXCEPT !.st = "pending"]
  BY DEF Isolated
<1>2. ASSUME NEW g \in PutAside(t), p = Copy(g, t[g].edit) PROVE g = f
  BY <1>1, <1>2 DEF Copy
<1>3. (CHOOSE g \in PutAside(t) : p = Copy(g, t[g].edit)) = f
  BY <1>1, <1>2
<1>. QED BY <1>1, <1>3 DEF Isolated

\* reconcile_if_stale keeps every live pending edit, under one name or
\* another.
LEMMA IsolatedKeeps ==
    ASSUME NEW t \in DB, NEW K, NEW n, Honest(t, K, n)
    PROVE  Honest(Isolated(t), K, n) /\ Lives(Isolated(t), t)
<1> DEFINE u == Isolated(t)
<1>1. ASSUME NEW f \in PutAside(t)
      PROVE  /\ f \in Files /\ f \in Paths /\ t[f] \in Rec /\ Live(t[f])
             /\ t[f].edit \in EditIds
             /\ [t[f] EXCEPT !.st = "pending"] \in Rec
             /\ [t[f] EXCEPT !.st = "pending"].edit = t[f].edit
             /\ AsMade([t[f] EXCEPT !.st = "pending"], t[f])
  BY <1>1 DEF PutAside, Paths, DB, Live, Rec, Statuses, AsMade
<1>2. Honest(u, K, n)
  <2>1. SUFFICES ASSUME NEW p \in Paths, u[p] # NoRec
        PROVE  /\ u[p].edit <= n
               /\ AsMade(u[p], K[u[p].edit])
               /\ p \in Copies => u[p].edit = p[2]
    BY DEF Honest
  <2>2. CASE u[p] = t[p]
    BY <2>1, <2>2 DEF Honest
  <2>3. CASE \E f \in PutAside(t) : /\ p = Copy(f, t[f].edit)
                                     /\ u[p] = [t[f] EXCEPT !.st = "pending"]
    <3>1. PICK f \in PutAside(t) : /\ p = Copy(f, t[f].edit)
                                   /\ u[p] = [t[f] EXCEPT !.st = "pending"]
      BY <2>3
    <3>2. p[2] = t[f].edit
      BY <1>1, <3>1, CopyFacts
    <3> HIDE DEF u
    <3>3. t[f].edit <= n /\ AsMade(t[f], K[t[f].edit])
      BY <1>1 DEF Honest, Live
    <3>. QED BY <1>1, <3>1, <3>2, <3>3 DEF AsMade
  <2>. QED BY <2>1, <2>2, <2>3, IsolatedRows
<1>3. ASSUME NEW p \in Files, Live(t[p]), t[p].st = "pending"
      PROVE  \E q \in Paths : Live(u[q]) /\ u[q].edit = t[p].edit
  <2>1. p \in Paths /\ t[p] \in Rec /\ t[p].edit \in EditIds
    BY <1>3 DEF Paths, DB, Live, Rec
  <2>2. CASE p \in PutAside(t)
    <3> DEFINE q == Copy(p, t[p].edit)
    <3>1. q \in Paths /\ q \in Copies
      BY <2>1, CopyFacts
    <3>2. q \notin PutAside(t)
      BY <3>1, CopyFacts DEF PutAside
    <3>3. \A g \in PutAside(t) : q = Copy(g, t[g].edit) => g = p
      BY CopyFacts
    <3>4. t[q] = NoRec
      BY <2>2 DEF PutAside, Exists
    <3> HIDE DEF q
    <3>5. (CHOOSE g \in PutAside(t) : q = Copy(g, t[g].edit)) = p
      BY <2>2, <3>3 DEF q
    <3>6. u[q] = [t[p] EXCEPT !.st = "pending"]
      BY <2>2, <3>1, <3>2, <3>5 DEF Isolated, q
    <3>. QED BY ZenonT(40), <1>1, <2>2, <3>1, <3>6, NoRecAssumption DEF Live, AsMade
  <2>3. CASE p \notin PutAside(t)
    <3>1. p \in Pending(t)
      BY <1>3, <2>1 DEF Pending, Live, Exists
    <3> DEFINE q == Copy(p, t[p].edit)
    <3>2. q \in Paths /\ q \in Copies /\ q[2] = t[p].edit
      BY <2>1, CopyFacts
    <3>3. t[q] # NoRec
      BY <1>3, <2>3, <3>1 DEF PutAside, Exists
    <3> HIDE DEF q
    <3>4. t[q].edit = t[p].edit /\ t[q].del = t[p].del
      BY <2>1, <1>3, <3>2, <3>3 DEF Honest, Live, AsMade
    <3>5. q \notin PutAside(t) /\ ~\E f \in PutAside(t) : q = Copy(f, t[f].edit)
      BY <3>2, <3>3, CopyFacts DEF PutAside, Exists
    <3>6. u[q] = t[q]
      BY <3>2, <3>5 DEF Isolated
    <3>. QED BY <1>3, <3>2, <3>3, <3>4, <3>6 DEF Live
  <2>. QED BY <2>2, <2>3
<1>. QED BY <1>2, <1>3 DEF Lives

\* What is known of n edits stays so when the next one is made.
LEMMA HonestLater ==
    ASSUME NEW t \in DB, NEW K \in [EditIds -> Rec], NEW n \in Nat,
           NEW r \in Rec, Honest(t, K, n)
    PROVE  Honest(t, [K EXCEPT ![n + 1] = r], n + 1)
<1>1. \A p \in Paths : t[p] # NoRec => t[p].edit \in EditIds /\ t[p].edit \in Nat
  BY DEF DB, Rec, EditIds
<1>. QED BY <1>1 DEF Honest

\* The next edit comes after the one it was made on.
LEMMA OrderedLater ==
    ASSUME NEW K \in [EditIds -> Rec], NEW n \in Nat, n + 1 \in EditIds,
           NEW r \in Rec, Ordered(K, n),
           \/ r.past = {}
           \/ \E e \in 0..n : r.past = K[e].past \cup {e} /\ r.ver = K[e].ver + 1
    PROVE  Ordered([K EXCEPT ![n + 1] = r], n + 1)
<1> DEFINE J == [K EXCEPT ![n + 1] = r]
<1>1. ASSUME NEW e \in 0..n
      PROVE  e \in EditIds /\ J[e] = K[e] /\ e # n + 1 /\ K[e].ver \in Nat
  <2>1. e \in EditIds /\ e # n + 1
    BY BoundsAssumption DEF EditIds
  <2>. QED BY <2>1 DEF Rec
<1>2. J[n + 1] = r /\ r.ver \in Nat
  BY DEF Rec
<1> HIDE DEF J
<1>3. ASSUME NEW e \in 0..(n + 1), NEW x \in J[e].past
      PROVE  x \in 0..(n + 1) /\ J[x].past \subseteq J[e].past /\ J[x].ver < J[e].ver
  <2>1. CASE e \in 0..n
    <3>1. x \in 0..n /\ K[x].past \subseteq K[e].past /\ K[x].ver < K[e].ver
      BY <1>1, <1>3, <2>1 DEF Ordered
    <3>. QED BY <1>1, <2>1, <3>1
  <2>2. CASE e = n + 1
    <3>1. PICK y \in 0..n : r.past = K[y].past \cup {y} /\ r.ver = K[y].ver + 1
      BY <1>2, <1>3, <2>2
    <3>2. CASE x = y
      BY <1>1, <1>2, <2>2, <3>1, <3>2
    <3>3. CASE x \in K[y].past
      <4>1. x \in 0..n /\ K[x].past \subseteq K[y].past /\ K[x].ver < K[y].ver
        BY <3>3 DEF Ordered
      <4>. QED BY <1>1, <1>2, <2>2, <3>1, <4>1
    <3>. QED BY <1>2, <1>3, <2>2, <3>1, <3>2, <3>3
  <2>. QED BY <2>1, <2>2
<1>. QED BY <1>3 DEF Ordered, J

\* The result of the next edit comes after what it superseded.
LEMMA WrittenKeeps ==
    ASSUME NEW t \in DB, NEW K \in [EditIds -> Rec], NEW n \in Nat, Ordered(K, n),
           NEW b \in BOOLEAN, Honest(t, K, n), n + 1 \in EditIds, NEW p \in Files,
           now \in Nat
    PROVE  LET r == Written(t[p], n + 1, b)
           IN  /\ r \in Rec
               /\ Honest([t EXCEPT ![p] = r], [K EXCEPT ![n + 1] = r], n + 1)
               /\ Ordered([K EXCEPT ![n + 1] = r], n + 1)
               /\ Keeps([t EXCEPT ![p] = r], t)
<1> DEFINE r == Written(t[p], n + 1, b)
           u == [t EXCEPT ![p] = r]
           J == [K EXCEPT ![n + 1] = r]
<1>1. p \in Paths /\ p \notin Copies /\ t[p] \in Rec \cup {NoRec} /\ t \in [Paths -> Rec \cup {NoRec}]
  BY CopyFacts DEF DB
<1>2. /\ r.edit = n + 1 /\ r \in Rec /\ r # NoRec
      /\ t[p] # NoRec => t[p].edit \in r.past
      /\ \/ r.past = {}
         \/ \E e \in 0..n : r.past = K[e].past \cup {e} /\ r.ver = K[e].ver + 1
  <2>1. r \in Rec /\ r # NoRec
    BY <1>1, WrittenType
  <2>2. CASE t[p] = NoRec
    BY <2>1, <2>2 DEF Written, Exists
  <2>3. CASE t[p] # NoRec
    <3>1. /\ r.edit = n + 1 /\ r.past = t[p].past \cup {t[p].edit}
          /\ r.ver = t[p].ver + 1
      BY <2>3 DEF Written, Exists
    <3>2. t[p].edit \in 0..n /\ AsMade(t[p], K[t[p].edit])
      BY <1>1, <2>3 DEF Honest, Rec, EditIds
    <3> HIDE DEF r
    <3>. QED BY <2>1, <3>1, <3>2 DEF AsMade
  <2>. QED BY <2>2, <2>3
<1> HIDE DEF r
<1>3. J[n + 1] = r /\ AsMade(r, r)
  BY DEF AsMade
<1>4. Honest(t, J, n + 1)
  BY <1>2, HonestLater
<1>5. Ordered(J, n + 1)
  BY <1>2, OrderedLater
<1> HIDE DEF J
<1>6. u[p] = r /\ \A q \in Paths \ {p} : u[q] = t[q]
  BY <1>1
<1> HIDE DEF u
<1>7. Honest(u, J, n + 1)
  BY <1>1, <1>2, <1>3, <1>4, <1>6 DEF Honest
<1>8. Keeps(u, t)
  <2>1. SUFFICES ASSUME NEW q \in Files, Live(t[q]), t[q].st = "pending"
        PROVE  Exists(u[q]) /\ (u[q].edit = t[q].edit \/ t[q].edit \in u[q].past)
    BY DEF Keeps
  <2>2. q \in Paths /\ t[q] # NoRec
    BY <2>1 DEF Paths, Live
  <2>. QED BY <1>2, <1>6, <2>2 DEF Exists
<1>. QED BY <1>2, <1>5, <1>7, <1>8 DEF u, r, J

\* A mv keeps every edit, one of them at another path.
LEMMA MovedKeeps ==
    ASSUME NEW t \in DB, NEW K, NEW n, Honest(t, K, n), NEW p \in Files,
           NEW q \in Files, Live(t[p]), ~Exists(t[q])
    PROVE  /\ Honest([t EXCEPT ![q] = t[p], ![p] = NoRec], K, n)
           /\ Lives([t EXCEPT ![q] = t[p], ![p] = NoRec], t)
<1> DEFINE u == [t EXCEPT ![q] = t[p], ![p] = NoRec]
<1>1. /\ p \in Paths /\ q \in Paths /\ p # q /\ q \notin Copies
      /\ t \in [Paths -> Rec \cup {NoRec}]
  BY CopyFacts DEF DB, Live, Exists
<1>2. u[p] = NoRec /\ u[q] = t[p] /\ \A o \in Paths \ {p, q} : u[o] = t[o]
  BY <1>1
<1> HIDE DEF u
<1>3. Honest(u, K, n)
  BY <1>1, <1>2 DEF Honest
<1>4. Lives(u, t)
  BY <1>1, <1>2 DEF Lives, Live, Exists, Paths
<1>. QED BY <1>3, <1>4 DEF u

-----------------------------------------------------------------------------
(***************************************************************************)
(* Every step, as what it does to one database and to the blobs            *)
(***************************************************************************)

\* How a step replaces the table t of a device by u.
Change(t, u) ==
    \/ u = Isolated(t)
    \/ \E X \in SUBSET Expired(t) : u = Without(t, X)
    \/ \E k \in 1..Len(hist) : u = Merge(t, hist[k])
    \/ \E k \in 1..Len(hist) :
          u = Without(Merge(t, hist[k]), Expired(Merge(t, hist[k])))
    \/ \E S \in SUBSET Paths : u = MarkSynced(t, S)
    \/ \E p, q \in Files :
          /\ Live(t[p])
          /\ ~Exists(t[q])
          /\ u = [t EXCEPT ![q] = t[p], ![p] = NoRec]

\* A user edit of the table t of a device.
Edit(t, u) ==
    \E p \in Files, b \in BOOLEAN :
        /\ nedits < MaxEdits
        /\ nedits' = nedits + 1
        /\ u = [t EXCEPT ![p] = Written(t[p], nedits + 1, b)]

\* A step that changes at most the table of device d.
Touches(d) ==
    /\ \A e \in Devices \ {d} : db'[e] = db[e]
    /\ \/ Change(db[d], db'[d]) /\ nedits' = nedits
       \/ Edit(db[d], db'[d])

\* Only these operators ever change a database.
LEMMA DbStep ==
    ASSUME TypeOK, SyncInv, [Next]_vars
    PROVE  \/ db' = db /\ nedits' = nedits
           \/ \E d \in Devices : Touches(d)
<1> DEFINE Goal == \/ db' = db /\ nedits' = nedits
                   \/ \E d \in Devices : Touches(d)
<1>1. Inv(db, hist, lastSynced, late, pc, put, sv, fv, gone)
  BY InvNow
<1>2. db \in [Devices -> DB] /\ \A w \in Workers : Dev(w) \in Devices
  BY WorkerTypes DEF TypeOK
<1>3. ASSUME NEW w \in Workers, Isolate(w) PROVE Goal
  <2>1. db' = [db EXCEPT ![Dev(w)] = Isolated(db[Dev(w)])] /\ nedits' = nedits
    BY <1>3 DEF Isolate
  <2>. QED BY <1>2, <2>1 DEF Touches, Change
<1>4. ASSUME NEW w \in Workers, InitialMerge(w) PROVE Goal
  <2>1. db' = [db EXCEPT ![Dev(w)] = Merge(db[Dev(w)], hist[fv[w]])]
        /\ nedits' = nedits /\ fv[w] \in 1..Len(hist)
    BY <1>1, <1>4 DEF InitialMerge, obsVars, Inv, AnswerCov
  <2>. QED BY <1>2, <2>1 DEF Touches, Change
<1>5. ASSUME NEW w \in Workers, UploadStart(w) PROVE Goal
  <2> DEFINE t == db[Dev(w)]
             X == IF Pending(t) = {} THEN {} ELSE Expired(t)
  <2>1. db' = [db EXCEPT ![Dev(w)] = Without(t, X)] /\ nedits' = nedits
    BY <1>5 DEF UploadStart
  <2>2. X \in SUBSET Expired(t)
    OBVIOUS
  <2> HIDE DEF X
  <2>. QED BY <1>2, <2>1, <2>2 DEF Touches, Change
<1>6. ASSUME NEW w \in Workers, UploadDone(w) PROVE Goal
  <2> DEFINE S == IF put[w].base = NoBase THEN Pending(db[Dev(w)]) ELSE cap[w]
  <2>1. db' = [db EXCEPT ![Dev(w)] = MarkSynced(db[Dev(w)], S)] /\ nedits' = nedits
    BY <1>6 DEF UploadDone, obsVars
  <2>2. S \in SUBSET Paths
    BY DEF Pending, TypeOK
  <2> HIDE DEF S
  <2>. QED BY <1>2, <2>1, <2>2 DEF Touches, Change
<1>7. ASSUME NEW w \in Workers, DownloadMerge(w) PROVE Goal
  <2> DEFINE m == Merge(db[Dev(w)], hist[fv[w]])
  <2>1. db' = [db EXCEPT ![Dev(w)] = Without(m, Expired(m))]
        /\ nedits' = nedits /\ fv[w] \in 1..Len(hist)
    BY <1>1, <1>7 DEF DownloadMerge, Inv, AnswerCov
  <2>. QED BY <1>2, <2>1 DEF Touches, Change
<1>8. ASSUME NEW w \in Workers, WorkerStep(w),
             ~Isolate(w), ~InitialMerge(w), ~UploadStart(w), ~UploadDone(w),
             ~DownloadMerge(w)
      PROVE  Goal
  BY <1>8 DEF WorkerStep, BootSync, StartPeriodicSync, UploadRetry, UploadSend,
     ForceSend, ServerAccept, ServerReject, DownloadStatus, HandleStatus, ServerGet,
     obsVars
<1>9. ASSUME NEW w \in Workers, NEW p \in Files, NEW b \in BOOLEAN,
             nedits < MaxEdits, nedits' = nedits + 1,
             db' = [db EXCEPT ![Dev(w)][p] = Written(@, nedits + 1, b)]
      PROVE  Goal
  <2>1. db' = [db EXCEPT ![Dev(w)] =
                 [db[Dev(w)] EXCEPT ![p] = Written(db[Dev(w)][p], nedits + 1, b)]]
    BY <1>9
  <2>2. Edit(db[Dev(w)], db'[Dev(w)])
    BY <1>2, <1>9, <2>1 DEF Edit
  <2>. QED BY <1>2, <2>1, <2>2 DEF Touches
<1>10. ASSUME NEW w \in Workers, NEW p \in Files, NEW q \in Files, MoveFile(w, p, q)
       PROVE  Goal
  <2>1. db' = [db EXCEPT ![Dev(w)] = [db[Dev(w)] EXCEPT ![q] = db[Dev(w)][p],
                                                        ![p] = NoRec]]
        /\ nedits' = nedits /\ Live(db[Dev(w)][p]) /\ ~Exists(db[Dev(w)][q])
    BY <1>10 DEF MoveFile
  <2>2. Change(db[Dev(w)], db'[Dev(w)])
    BY <1>2, <2>1 DEF Change
  <2>. QED BY <1>2, <2>1, <2>2 DEF Touches
<1>11. ASSUME NEW w \in Workers, UserCommand(w) PROVE Goal
  BY <1>9, <1>10, <1>11 DEF UserCommand, WriteFile, DeleteFile
<1>12. ASSUME NEW w \in Workers, OpenSession(w) \/ CloseSession(w) \/ Fail(w)
       PROVE  Goal
  BY <1>12 DEF OpenSession, CloseSession, Fail, obsVars
<1>13. CASE (\E d \in Devices : RestartDaemon(d)) \/ LateAccept \/ Elapse
  BY <1>13 DEF RestartDaemon, LateAccept, Elapse, obsVars
<1>14. CASE UNCHANGED vars
  BY <1>14 DEF vars
<1>. QED BY <1>3, <1>4, <1>5, <1>6, <1>7, <1>8, <1>11, <1>12, <1>13, <1>14 DEF Next

\* What a change of a table does to the edits in it.
LEMMA ChangeKeeps ==
    ASSUME NEW t \in DB, NEW u, Change(t, u), hist \in Seq(DB), NEW K, NEW n,
           Honest(t, K, n), \A k \in 1..Len(hist) : Honest(hist[k], K, n)
    PROVE  Honest(u, K, n) /\ Keeps(u, t)
<1>1. \A k \in 1..Len(hist) : hist[k] \in DB
  OBVIOUS
<1>2. SUFFICES Honest(u, K, n) /\ u \in DB /\ Lives(u, t)
  BY LivesKeeps
<1>3. CASE u = Isolated(t)
  BY <1>3, IsolatedKeeps, IsolatedFacts
<1>4. CASE \E X \in SUBSET Expired(t) : u = Without(t, X)
  BY <1>4, HonestWithout, WithoutType, LivesSame, LivesPurge
<1>5. ASSUME NEW k \in 1..Len(hist)
      PROVE  LET m == Merge(t, hist[k])
             IN  m \in DB /\ Honest(m, K, n) /\ Lives(m, t)
  BY <1>1, HonestMerge, KeepsMerge, MergeFacts
<1>6. CASE \E k \in 1..Len(hist) : u = Merge(t, hist[k])
  BY <1>5, <1>6
<1>7. CASE \E k \in 1..Len(hist) :
             u = Without(Merge(t, hist[k]), Expired(Merge(t, hist[k])))
  <2>1. PICK k \in 1..Len(hist) :
               u = Without(Merge(t, hist[k]), Expired(Merge(t, hist[k])))
    BY <1>7
  <2> DEFINE m == Merge(t, hist[k])
  <2>2. m \in DB /\ Honest(m, K, n) /\ Lives(m, t) /\ u = Without(m, Expired(m))
    BY <1>5, <2>1
  <2> HIDE DEF m
  <2>. QED BY <2>2, HonestWithout, WithoutType, LivesPurge
<1>8. CASE \E S \in SUBSET Paths : u = MarkSynced(t, S)
  BY <1>8, MarkKeeps, MarkSyncedType
<1>9. CASE \E p, q \in Files : /\ Live(t[p])
                              /\ ~Exists(t[q])
                              /\ u = [t EXCEPT ![q] = t[p], ![p] = NoRec]
  <2>1. PICK p \in Files, q \in Files :
               /\ Live(t[p])
               /\ ~Exists(t[q])
               /\ u = [t EXCEPT ![q] = t[p], ![p] = NoRec]
    BY <1>9
  <2>2. u \in DB
    BY <2>1, CopyFacts DEF DB
  <2>. QED BY <2>1, <2>2, MovedKeeps
<1>. QED BY <1>3, <1>4, <1>6, <1>7, <1>8, <1>9 DEF Change

\* Where the blobs of the next state come from: uploads send a database as
\* it is, the server keeps what it accepts.
LEMMA BlobStep ==
    ASSUME TypeOK, SyncInv, [Next]_vars
    PROVE  /\ \A k \in 1..Len(hist') :
                 \/ k \in 1..Len(hist) /\ hist'[k] = hist[k]
                 \/ \E w \in Workers : pc[w] = "put" /\ hist'[k] = put[w].blob
                 \/ \E m \in late : hist'[k] = m.blob
           /\ \A m \in late' : \/ m \in late
                               \/ \E w \in Workers : pc[w] = "put" /\ m = put[w]
           /\ \A w \in Workers : pc'[w] = "put" =>
                 \/ pc[w] = "put" /\ put'[w] = put[w]
                 \/ put'[w].blob = db[Dev(w)]
<1> DEFINE H == \A k \in 1..Len(hist') :
                 \/ k \in 1..Len(hist) /\ hist'[k] = hist[k]
                 \/ \E w \in Workers : pc[w] = "put" /\ hist'[k] = put[w].blob
                 \/ \E m \in late : hist'[k] = m.blob
           N == \A m \in late' : \/ m \in late
                                \/ \E w \in Workers : pc[w] = "put" /\ m = put[w]
           P == \A w \in Workers : pc'[w] = "put" =>
                   \/ pc[w] = "put" /\ put'[w] = put[w]
                   \/ put'[w].blob = db[Dev(w)]
<1>1. hist' = hist => H
  OBVIOUS
<1>2. late' = late => N
  OBVIOUS
<1>3. /\ \A w \in Workers : Fresh(w) # "put" /\ ret[w] # "put"
      /\ pc \in [Workers -> PCs] /\ hist \in Seq(DB)
      /\ put \in [Workers -> Puts \cup {NoPut}]
  BY Places DEF TypeOK, Owing
<1>4. ASSUME NEW b, hist' = Append(hist, b), b \in DB,
             \/ \E w \in Workers : pc[w] = "put" /\ b = put[w].blob
             \/ \E m \in late : b = m.blob
      PROVE  H
  <2>1. Len(hist') = Len(hist) + 1 /\ hist'[Len(hist) + 1] = b
        /\ \A k \in 1..Len(hist) : hist'[k] = hist[k]
    BY <1>3, <1>4
  <2>2. \A k \in 1..Len(hist') : k \in 1..Len(hist) \/ k = Len(hist) + 1
    BY <1>3, <2>1
  <2>. QED BY <1>4, <2>1, <2>2
<1>5. ASSUME NEW w \in Workers, WorkerStep(w) PROVE H /\ N /\ P
  <2>1. CASE ServerAccept(w)
    <3>1. put[w].blob \in DB
      BY <2>1, InvNow DEF Inv, PutCov, ServerAccept, Puts
    <3>2. H
      BY <1>4, <2>1, <3>1 DEF ServerAccept
    <3>. QED BY <1>2, <1>3, <2>1, <3>2 DEF ServerAccept
  <2>2. CASE UploadSend(w) \/ ForceSend(w)
    BY <1>1, <1>2, <1>3, <2>2 DEF UploadSend, ForceSend, netVars
  <2>3. CASE Isolate(w) \/ BootSync(w) \/ InitialMerge(w) \/ StartPeriodicSync(w)
    BY <1>1, <1>2, <1>3, <2>3 DEF Isolate, BootSync, InitialMerge, StartPeriodicSync, netVars, callVars
  <2>4. CASE UploadStart(w) \/ UploadRetry(w) \/ ServerReject(w) \/ UploadDone(w)
    BY <1>1, <1>2, <1>3, <2>4 DEF UploadStart, UploadRetry, ServerReject, UploadDone, netVars, Caller
  <2>5. CASE DownloadStatus(w) \/ HandleStatus(w) \/ ServerGet(w) \/ DownloadMerge(w)
    BY <1>1, <1>2, <1>3, <2>5 DEF DownloadStatus, HandleStatus, ServerGet, DownloadMerge, netVars
  <2>. QED BY <1>5, <2>1, <2>2, <2>3, <2>4, <2>5 DEF WorkerStep
<1>6. ASSUME NEW w \in Workers, UserCommand(w) \/ OpenSession(w) \/ CloseSession(w)
      PROVE  H /\ N /\ P
  BY <1>1, <1>2, <1>3, <1>6 DEF UserCommand, WriteFile, DeleteFile, MoveFile,
     OpenSession, CloseSession, netVars, callVars
<1>7. ASSUME NEW w \in Workers, Fail(w) PROVE H /\ N /\ P
  BY <1>1, <1>3, <1>7 DEF Fail
<1>8. ASSUME NEW d \in Devices, RestartDaemon(d) PROVE H /\ N /\ P
  <2>1. N
    BY <1>8 DEF RestartDaemon
  <2>2. P
    BY <1>3, <1>8 DEF RestartDaemon
  <2>. QED BY <1>1, <1>8, <2>1, <2>2 DEF RestartDaemon
<1>9. CASE LateAccept
  <2>1. PICK m \in late : hist' = Append(hist, m.blob) /\ late' = late \ {m}
    BY <1>9 DEF LateAccept
  <2>2. m.blob \in DB
    BY DEF TypeOK, Puts
  <2>3. H
    BY <1>4, <2>1, <2>2
  <2>. QED BY <1>9, <2>1, <2>3 DEF LateAccept, callVars
<1>10. CASE Elapse
  BY <1>1, <1>2, <1>10 DEF Elapse, netVars, callVars
<1>11. CASE UNCHANGED vars
  BY <1>1, <1>2, <1>11 DEF vars
<1>. QED BY <1>5, <1>6, <1>7, <1>8, <1>9, <1>10, <1>11 DEF Next

\* The results of the first n edits are told by some K in every table and
\* every blob, and the next step keeps them so.
LEMMA EditsStep ==
    ASSUME TypeOK, SyncInv, [Next]_vars, EditsTell
    PROVE  /\ EditsTell'
           /\ \A d \in Devices : Keeps(db'[d], db[d])
<1>1. PICK K \in [EditIds -> Rec] : World(db, hist, late, pc, put, K, nedits)
  BY DEF EditsTell
<1>2. TypeOK'
  BY InvStep
<1>3. \A d \in Devices : db[d] \in DB /\ Honest(db[d], K, nedits)
  BY <1>1 DEF World, TypeOK
<1>4. hist \in Seq(DB) /\ \A k \in 1..Len(hist) : Honest(hist[k], K, nedits)
  BY <1>1 DEF World, TypeOK
<1>5. ASSUME NEW J \in [EditIds -> Rec], Ordered(J, nedits'),
             \A d \in Devices : Honest(db[d], J, nedits') /\ Honest(db'[d], J, nedits'),
             \A k \in 1..Len(hist) : Honest(hist[k], J, nedits'),
             \A m \in late : Honest(m.blob, J, nedits'),
             \A w \in Workers : pc[w] = "put" => Honest(put[w].blob, J, nedits')
      PROVE  EditsTell'
  <2>1. \A k \in 1..Len(hist') : Honest(hist'[k], J, nedits')
    BY <1>5, BlobStep
  <2>2. \A m \in late' : Honest(m.blob, J, nedits')
    BY <1>5, BlobStep
  <2>3. \A w \in Workers : pc'[w] = "put" => Honest(put'[w].blob, J, nedits')
    BY <1>5, BlobStep, WorkerTypes
  <2>. QED BY <1>5, <2>1, <2>2, <2>3 DEF EditsTell, World
<1>6. CASE db' = db /\ nedits' = nedits
  <2>1. EditsTell'
    BY <1>1, <1>5, <1>6 DEF World
  <2>2. \A d \in Devices : Keeps(db'[d], db[d])
    BY <1>3, <1>6, LivesSame, LivesKeeps
  <2>. QED BY <2>1, <2>2
<1>7. ASSUME NEW d \in Devices, Touches(d), Change(db[d], db'[d]), nedits' = nedits
      PROVE  EditsTell' /\ \A e \in Devices : Keeps(db'[e], db[e])
  <2>1. Honest(db'[d], K, nedits) /\ Keeps(db'[d], db[d])
    BY <1>3, <1>4, <1>7, ChangeKeeps
  <2>2. \A e \in Devices : Honest(db'[e], K, nedits) /\ Keeps(db'[e], db[e])
    BY <1>3, <1>7, <2>1, LivesSame, LivesKeeps DEF Touches
  <2>3. EditsTell'
    BY <1>1, <1>5, <1>7, <2>2 DEF World
  <2>. QED BY <2>2, <2>3
<1>8. ASSUME NEW d \in Devices, Touches(d), Edit(db[d], db'[d])
      PROVE  EditsTell' /\ \A e \in Devices : Keeps(db'[e], db[e])
  <2>1. PICK p \in Files, b \in BOOLEAN :
               /\ nedits < MaxEdits
               /\ nedits' = nedits + 1
               /\ db'[d] = [db[d] EXCEPT ![p] = Written(db[d][p], nedits + 1, b)]
    BY <1>8 DEF Edit
  <2>2. nedits \in Nat /\ nedits + 1 \in EditIds /\ now \in Nat
    BY <2>1, BoundsAssumption DEF TypeOK, EditIds
  <2> DEFINE r == Written(db[d][p], nedits + 1, b)
             u == [db[d] EXCEPT ![p] = r]
             J == [K EXCEPT ![nedits + 1] = r]
  <2>3. /\ r \in Rec /\ J \in [EditIds -> Rec]
        /\ Honest(u, J, nedits + 1) /\ Ordered(J, nedits + 1) /\ Keeps(u, db[d])
    <3>1. Ordered(K, nedits)
      BY <1>1 DEF World
    <3>2. /\ r \in Rec
          /\ Honest(u, J, nedits + 1) /\ Ordered(J, nedits + 1) /\ Keeps(u, db[d])
      BY <1>3, <2>2, <3>1, WrittenKeeps
    <3> HIDE DEF r
    <3>. QED BY <3>2
  <2> HIDE DEF r
  <2>4. ASSUME NEW t \in DB, Honest(t, K, nedits) PROVE Honest(t, J, nedits')
    BY <2>1, <2>2, <2>3, <2>4, HonestLater
  <2>5. Honest(db'[d], J, nedits') /\ Keeps(db'[d], db[d])
    <3>1. db'[d] = u
      BY <2>1 DEF r
    <3>. QED BY <2>1, <2>3, <3>1
  <2> HIDE DEF J, u
  <2>6. \A e \in Devices : Honest(db'[e], J, nedits') /\ Keeps(db'[e], db[e])
    BY <1>3, <1>8, <2>4, <2>5, LivesSame, LivesKeeps DEF Touches
  <2>7. \A k \in 1..Len(hist) : Honest(hist[k], J, nedits')
    BY <1>4, <2>4
  <2>8. \A m \in late : Honest(m.blob, J, nedits')
    BY <1>1, <2>4 DEF World, TypeOK, Puts
  <2>9. \A w \in Workers : pc[w] = "put" => put[w] \in Puts
    BY InvNow DEF Inv, PutCov
  <2>10. \A w \in Workers : pc[w] = "put" => Honest(put[w].blob, J, nedits')
    BY <1>1, <2>4, <2>9 DEF World, Puts
  <2>11. EditsTell'
    BY <1>3, <1>5, <2>1, <2>3, <2>4, <2>6, <2>7, <2>8, <2>10
  <2>. QED BY <2>6, <2>11
<1>. QED BY <1>6, <1>7, <1>8, DbStep DEF Touches

\* The seeded rows are the result of edit 0, and nothing else is there.
LEMMA EditsInit == Init => EditsTell
<1>1. SUFFICES ASSUME Init PROVE EditsTell
  OBVIOUS
<1> DEFINE K == [e \in EditIds |-> SeedRec]
<1>2. /\ 0 \in EditIds /\ SeedRec \in Rec /\ K \in [EditIds -> Rec]
      /\ K[0] = SeedRec /\ SeedRec.past = {}
  BY BoundsAssumption DEF EditIds, SeedRec, Rec, Statuses
<1>3. Honest(Seed, K, 0)
  <2>1. \A p \in Paths : Seed[p] # NoRec => Seed[p] = SeedRec /\ p \notin Copies
    BY PathsAssumption DEF Seed
  <2>2. SeedRec.edit = 0 /\ AsMade(SeedRec, K[0])
    BY <1>2 DEF SeedRec, AsMade
  <2> HIDE DEF K
  <2>3. \A p \in Paths : Seed[p] # NoRec =>
          Seed[p].edit = 0 /\ AsMade(Seed[p], K[0]) /\ p \notin Copies
    BY <2>1, <2>2
  <2>. QED BY <2>3 DEF Honest
<1>4. hist = <<Seed>> /\ nedits = 0 /\ late = {} /\ \A d \in Devices : db[d] = Seed
  BY <1>1 DEF Init, InitClients
<1>5. \A w \in Workers : pc[w] # "put"
  BY <1>1, Places DEF Init, InitClients
<1>6. \A k \in 1..Len(hist) : hist[k] = Seed
  BY <1>4
<1>7. World(db, hist, late, pc, put, K, nedits)
  <2>1. Ordered(K, 0)
    BY <1>2 DEF Ordered
  <2> HIDE DEF K
  <2>. QED BY <1>3, <1>4, <1>5, <1>6, <2>1 DEF World
<1>. QED BY <1>2, <1>7 DEF EditsTell

\* An edit that waits for its upload is never thrown away, whatever
\* _merge_server_metadata, reconcile_if_stale, the purge of tombstones, the
\* uploads and the user's other commands do: it stays at its path, is
\* superseded by an edit that knew it, or lives on under another name.
THEOREM PendingEditsKept == Spec => PendingNeverDropped
<1>1. TypeOK /\ SyncInv /\ EditsTell /\ [Next]_vars
        => /\ EditsTell'
           /\ [\A d \in Devices : \A p \in Files :
                 LET r == db[d][p]
                     n == db'[d][p]
                 IN  Live(r) /\ r.st = "pending" =>
                        \/ Exists(n) /\ (n.edit = r.edit \/ r.edit \in n.past)
                        \/ \E q \in Paths :
                              Live(db'[d][q]) /\ db'[d][q].edit = r.edit]_vars
  BY EditsStep DEF Keeps
<1>. QED BY <1>1, EditsInit, TypeCorrect, SyncInvHolds, PTL DEF Spec, PendingNeverDropped

-----------------------------------------------------------------------------
(***************************************************************************)
(* What is marked synced was uploaded, when the user edits a device only   *)
(* while it has nothing pending and no upload under way.  An upload marks  *)
(* paths, not versions, so the invariant follows the captured paths from   *)
(* the PUT to its answer: the row at such a path is the one in the body of *)
(* the PUT, or one the server has had.                                     *)
(***************************************************************************)

\* The server has had the result of edit e at path p.
Had(h, p, e) == \E k \in 1..Len(h) : Exists(h[k][p]) /\ h[k][p].edit = e

\* The files no mv has put a row at.
Settled == {p \in Files : ~\E m \in moved : m[2] = p}

UploadsTell ==
    /\ \A d \in Devices : \A p \in Settled :
          Exists(db[d][p]) /\ db[d][p].st = "synced" => Had(hist, p, db[d][p].edit)
    /\ \A w \in Workers : pc[w] = "put" =>
          \A p \in cap[w] \cap Settled : Exists(db[Dev(w)][p]) =>
             \/ Had(hist, p, db[Dev(w)][p].edit)
             \/ /\ Exists(put[w].blob[p])
                /\ put[w].blob[p].edit = db[Dev(w)][p].edit
    /\ \A w \in Workers : pc[w] = "accepted" =>
          /\ put[w].base # NoBase
          /\ \A p \in cap[w] \cap Settled :
                Exists(db[Dev(w)][p]) => Had(hist, p, db[Dev(w)][p].edit)

\* A row of u is the row of t, or one the server has had.
Tame(u, t) ==
    \A p \in Files :
        \/ u[p] = NoRec
        \/ u[p] = t[p]
        \/ Had(hist, p, u[p].edit)

\* A merge takes rows that were there or rows of the server's.
LEMMA TameMerge ==
    ASSUME NEW t \in DB, NEW k \in 1..Len(hist), hist \in Seq(DB)
    PROVE  Tame(Merge(t, hist[k]), t)
<1>1. hist[k] \in DB
  OBVIOUS
<1>2. SUFFICES ASSUME NEW p \in Files, Merge(t, hist[k])[p] # NoRec
      PROVE  \/ Merge(t, hist[k])[p] = t[p]
             \/ Had(hist, p, Merge(t, hist[k])[p].edit)
  BY DEF Tame
<1>3. t[p] \in Rec \cup {NoRec} /\ hist[k][p] \in Rec \cup {NoRec}
  BY <1>1 DEF DB, Paths
<1>4. Merge(t, hist[k])[p] = MergeRecord(t[p], hist[k][p])
  BY <1>1, MergeRows
<1>. QED BY <1>2, <1>3, <1>4, MergeRecordTells DEF Had, Exists

\* Purging and putting aside only take rows away from the files.
LEMMA TameRest ==
    ASSUME NEW t \in DB
    PROVE  /\ Tame(t, t)
           /\ Tame(Isolated(t), t)
           /\ \A X : Tame(Without(t, X), t)
<1>1. Tame(Isolated(t), t)
  <2>1. SUFFICES ASSUME NEW p \in Files
        PROVE  Isolated(t)[p] = NoRec \/ Isolated(t)[p] = t[p]
    BY DEF Tame
  <2>2. ASSUME NEW f \in PutAside(t) PROVE p # Copy(f, t[f].edit)
    <3>1. f \in Files /\ t[f].edit \in EditIds
      BY DEF PutAside, Paths, DB, Live, Rec
    <3>. QED BY <3>1, CopyFacts
  <2>3. p \in Paths
    BY DEF Paths
  <2>4. \/ Isolated(t)[p] = t[p] /\ p \notin PutAside(t)
        \/ Isolated(t)[p] = NoRec /\ p \in PutAside(t)
        \/ \E f \in PutAside(t) :
              /\ p = Copy(f, t[f].edit)
              /\ Isolated(t)[p] = [t[f] EXCEPT !.st = "pending"]
    BY <2>3, IsolatedRows
  <2>. QED BY <2>2, <2>4
<1>2. \A X : Tame(Without(t, X), t)
  BY DEF Tame, Without, Paths
<1>. QED BY <1>1, <1>2 DEF Tame

\* A purge leaves what a merge left.
LEMMA TamePurge ==
    ASSUME NEW t \in DB, NEW u \in DB, NEW X, Tame(u, t)
    PROVE  Tame(Without(u, X), t)
BY DEF Tame, Without, Paths

\* A user's command: the device has no upload under way, and the row it
\* leaves is pending or at the destination of a mv.
QuietEdit(d) ==
    /\ \A e \in Devices \ {d} : db'[e] = db[e]
    /\ \A w \in Workers : Dev(w) = d => cap[w] = {}
    /\ \A p \in Files :
          \/ db'[d][p] = db[d][p]
          \/ db'[d][p].st = "pending"
          \/ db'[d][p] = NoRec
          \/ \E m \in moved' : m[2] = p

\* What a step does to the databases, with a user who waits.
LEMMA QuietStep ==
    ASSUME TypeOK, SyncInv, [Next]_vars, QuietUser
    PROVE  \/ \A d \in Devices : Tame(db'[d], db[d])
           \/ \E w \in Workers : UploadDone(w)
           \/ \E d \in Devices : QuietEdit(d)
<1> DEFINE Goal == \/ \A d \in Devices : Tame(db'[d], db[d])
                   \/ \E w \in Workers : UploadDone(w)
                   \/ \E d \in Devices : QuietEdit(d)
<1>1. Inv(db, hist, lastSynced, late, pc, put, sv, fv, gone)
  BY InvNow
<1>2. /\ db \in [Devices -> DB] /\ \A w \in Workers : Dev(w) \in Devices
      /\ \A d \in Devices : db[d] \in DB
      /\ hist \in Seq(DB) /\ \A k \in 1..Len(hist) : hist[k] \in DB
  BY WorkerTypes DEF TypeOK
<1>3. ASSUME NEW d \in Devices, NEW u, db' = [db EXCEPT ![d] = u], Tame(u, db[d])
      PROVE  Goal
  <2>1. \A e \in Devices : Tame(db'[e], db[e])
    BY <1>2, <1>3, TameRest
  <2>. QED BY <2>1
<1>4. db' = db => Goal
  BY <1>2, TameRest
<1>5. ASSUME NEW w \in Workers, Isolate(w) PROVE Goal
  <2>1. db' = [db EXCEPT ![Dev(w)] = Isolated(db[Dev(w)])]
    BY <1>5 DEF Isolate
  <2>. QED BY <1>2, <1>3, <2>1, TameRest
<1>6. ASSUME NEW w \in Workers, InitialMerge(w) PROVE Goal
  <2>1. db' = [db EXCEPT ![Dev(w)] = Merge(db[Dev(w)], hist[fv[w]])]
        /\ fv[w] \in 1..Len(hist)
    BY <1>1, <1>6 DEF InitialMerge, Inv, AnswerCov
  <2>. QED BY <1>2, <1>3, <2>1, TameMerge
<1>7. ASSUME NEW w \in Workers, UploadStart(w) PROVE Goal
  <2> DEFINE t == db[Dev(w)]
             X == IF Pending(t) = {} THEN {} ELSE Expired(t)
  <2>1. db' = [db EXCEPT ![Dev(w)] = Without(t, X)]
    BY <1>7 DEF UploadStart
  <2> HIDE DEF X
  <2>. QED BY <1>2, <1>3, <2>1, TameRest
<1>8. ASSUME NEW w \in Workers, DownloadMerge(w) PROVE Goal
  <2> DEFINE m == Merge(db[Dev(w)], hist[fv[w]])
  <2>1. db' = [db EXCEPT ![Dev(w)] = Without(m, Expired(m))] /\ fv[w] \in 1..Len(hist)
    BY <1>1, <1>8 DEF DownloadMerge, Inv, AnswerCov
  <2>2. m \in DB /\ Tame(m, db[Dev(w)])
    BY <1>2, <2>1, MergeFacts, TameMerge
  <2> HIDE DEF m
  <2>3. Tame(Without(m, Expired(m)), db[Dev(w)])
    BY <1>2, <2>2, TamePurge
  <2>. QED BY <1>2, <1>3, <2>1, <2>3
<1>9. ASSUME NEW w \in Workers, WorkerStep(w),
             ~Isolate(w), ~InitialMerge(w), ~UploadStart(w), ~UploadDone(w),
             ~DownloadMerge(w)
      PROVE  Goal
  BY <1>4, <1>9 DEF WorkerStep, BootSync, StartPeriodicSync, UploadRetry, UploadSend,
     ForceSend, ServerAccept, ServerReject, DownloadStatus, HandleStatus, ServerGet
<1>10. ASSUME NEW w \in Workers, CanEdit(Dev(w))
       PROVE  \A v \in Workers : Dev(v) = Dev(w) => cap[v] = {}
  BY <1>10 DEF CanEdit, Uploading
<1>11. ASSUME NEW w \in Workers, NEW p \in Files, NEW b \in BOOLEAN, CanEdit(Dev(w)),
              db' = [db EXCEPT ![Dev(w)][p] = Written(@, nedits + 1, b)]
       PROVE  Goal
  <2> DEFINE r == Written(db[Dev(w)][p], nedits + 1, b)
  <2>1. r.st = "pending"
    BY DEF Written
  <2> HIDE DEF r
  <2>2. db' = [db EXCEPT ![Dev(w)] = [db[Dev(w)] EXCEPT ![p] = r]]
    BY <1>11 DEF r
  <2>3. db[Dev(w)] \in [Paths -> Rec \cup {NoRec}] /\ p \in Paths
    BY <1>2 DEF DB, Paths
  <2>4. \A q \in Files : db'[Dev(w)][q] = db[Dev(w)][q] \/ db'[Dev(w)][q].st = "pending"
    BY <1>2, <2>1, <2>2, <2>3
  <2>5. \A e \in Devices \ {Dev(w)} : db'[e] = db[e]
    BY <1>2, <2>2
  <2>6. QuietEdit(Dev(w))
    BY <1>10, <1>11, <2>4, <2>5 DEF QuietEdit
  <2>. QED BY <1>2, <2>6
<1>12. ASSUME NEW w \in Workers, NEW p \in Files, NEW q \in Files, MoveFile(w, p, q)
       PROVE  Goal
  <2>1. /\ db' = [db EXCEPT ![Dev(w)] = [db[Dev(w)] EXCEPT ![q] = db[Dev(w)][p],
                                                          ![p] = NoRec]]
        /\ CanEdit(Dev(w)) /\ <<p, q>> \in moved'
    BY <1>12 DEF MoveFile
  <2>2. db[Dev(w)] \in [Paths -> Rec \cup {NoRec}] /\ p \in Paths /\ q \in Paths
    BY <1>2 DEF DB, Paths
  <2>3. \A o \in Files : \/ db'[Dev(w)][o] = db[Dev(w)][o]
                         \/ db'[Dev(w)][o] = NoRec
                         \/ \E m \in moved' : m[2] = o
    <3>1. <<p, q>>[2] = q
      OBVIOUS
    <3>2. \A o \in Files \ {p, q} : db'[Dev(w)][o] = db[Dev(w)][o]
      BY <1>2, <2>1, <2>2 DEF Paths
    <3>3. db'[Dev(w)][p] = NoRec
      BY <1>2, <2>1, <2>2
    <3>. QED BY <2>1, <3>1, <3>2, <3>3
  <2>4. \A e \in Devices \ {Dev(w)} : db'[e] = db[e]
    BY <1>2, <2>1
  <2>5. QuietEdit(Dev(w))
    BY <1>10, <2>1, <2>3, <2>4 DEF QuietEdit
  <2>. QED BY <1>2, <2>5
<1>13. ASSUME NEW w \in Workers, UserCommand(w) PROVE Goal
  BY <1>11, <1>12, <1>13 DEF UserCommand, WriteFile, DeleteFile
<1>14. ASSUME NEW w \in Workers, OpenSession(w) \/ CloseSession(w) \/ Fail(w)
       PROVE  Goal
  BY <1>4, <1>14 DEF OpenSession, CloseSession, Fail
<1>15. CASE (\E d \in Devices : RestartDaemon(d)) \/ LateAccept \/ Elapse
  BY <1>4, <1>15 DEF RestartDaemon, LateAccept, Elapse
<1>16. CASE UNCHANGED vars
  BY <1>4, <1>16 DEF vars
<1>. QED
  BY <1>5, <1>6, <1>7, <1>8, <1>9, <1>13, <1>14, <1>15, <1>16 DEF Next

\* What a worker that has a PUT or its answer under way has done.
LEMMA PutStep ==
    ASSUME TypeOK, SyncInv, [Next]_vars, NEW v \in Workers,
           pc'[v] \in {"put", "accepted"}
    PROVE  \/ /\ pc'[v] = pc[v] /\ cap'[v] = cap[v] /\ put'[v] = put[v]
              /\ sv'[v] = sv[v]
           \/ /\ pc'[v] = "put" /\ put'[v].blob = db[Dev(v)] /\ db' = db
              /\ cap'[v] = cap[v] /\ put'[v].base = lastSynced[Client(v)]
              /\ hist' = hist
           \/ /\ pc'[v] = "accepted" /\ pc[v] = "put" /\ db' = db
              /\ cap'[v] = cap[v] /\ put'[v] = put[v] /\ put[v].base = Len(hist)
              /\ sv'[v] = Len(hist) + 1
              /\ hist' = Append(hist, put[v].blob)
<1> DEFINE Goal == \/ /\ pc'[v] = pc[v] /\ cap'[v] = cap[v] /\ put'[v] = put[v]
                      /\ sv'[v] = sv[v]
                   \/ /\ pc'[v] = "put" /\ put'[v].blob = db[Dev(v)] /\ db' = db
                      /\ cap'[v] = cap[v] /\ put'[v].base = lastSynced[Client(v)]
                      /\ hist' = hist
                   \/ /\ pc'[v] = "accepted" /\ pc[v] = "put" /\ db' = db
                      /\ cap'[v] = cap[v] /\ put'[v] = put[v] /\ put[v].base = Len(hist)
                      /\ sv'[v] = Len(hist) + 1
                      /\ hist' = Append(hist, put[v].blob)
<1>1. Inv(db, hist, lastSynced, late, pc, put, sv, fv, gone)
  BY InvNow
<1>2. /\ \A w \in Workers : Fresh(w) \notin {"put", "accepted"}
      /\ \A w \in Workers : ret[w] \notin {"put", "accepted"}
      /\ pc \in [Workers -> PCs] /\ put \in [Workers -> Puts \cup {NoPut}]
      /\ cap \in [Workers -> SUBSET Paths] /\ sv \in [Workers -> Nat]
  BY Places DEF TypeOK, Owing
<1>3. ASSUME NEW w \in Workers, WorkerStep(w) PROVE Goal
  <2>1. CASE ServerAccept(w)
    <3>1. put[w].base = Len(hist)
      <4>1. put[w].base \in 0..Len(hist)
        BY <1>1, <2>1 DEF Inv, PutCov, ServerAccept
      <4>. QED BY <2>1, <4>1 DEF ServerAccept, Accepts, NoBase
    <3>. QED BY <1>2, <2>1, <3>1 DEF ServerAccept
  <2>2. CASE UploadSend(w) \/ ForceSend(w)
    <3>1. ~ForceSend(w)
      BY <1>1 DEF Inv, AnswerCov, ForceSend
    <3>. QED BY <1>2, <2>2, <3>1 DEF UploadSend, netVars
  <2>3. CASE Isolate(w) \/ BootSync(w) \/ InitialMerge(w) \/ StartPeriodicSync(w)
    BY <1>2, <2>3 DEF Isolate, BootSync, InitialMerge, StartPeriodicSync, callVars
  <2>4. CASE UploadStart(w) \/ UploadRetry(w) \/ ServerReject(w) \/ UploadDone(w)
    BY <1>2, <2>4 DEF UploadStart, UploadRetry, ServerReject, UploadDone, Caller
  <2>5. CASE DownloadStatus(w) \/ HandleStatus(w) \/ ServerGet(w) \/ DownloadMerge(w)
    BY <1>2, <2>5 DEF DownloadStatus, HandleStatus, ServerGet, DownloadMerge
  <2>. QED BY <1>3, <2>1, <2>2, <2>3, <2>4, <2>5 DEF WorkerStep
<1>4. ASSUME NEW w \in Workers, UserCommand(w) \/ OpenSession(w) \/ CloseSession(w)
      PROVE  Goal
  BY <1>2, <1>4 DEF UserCommand, WriteFile, DeleteFile, MoveFile, OpenSession,
     CloseSession, callVars
<1>5. ASSUME NEW w \in Workers, Fail(w) PROVE Goal
  BY <1>2, <1>5 DEF Fail
<1>6. ASSUME NEW d \in Devices, RestartDaemon(d) PROVE Goal
  BY <1>2, <1>6 DEF RestartDaemon
<1>7. CASE LateAccept \/ Elapse \/ UNCHANGED vars
  BY <1>7 DEF LateAccept, Elapse, vars, callVars
<1>. QED BY <1>3, <1>4, <1>5, <1>6, <1>7 DEF Next

\* The server forgets nothing it has had, and a mv is remembered.
LEMMA HadStep ==
    ASSUME TypeOK, SyncInv, [Next]_vars
    PROVE  /\ \A p, e : Had(hist, p, e) => Had(hist', p, e)
           /\ Settled' \subseteq Settled
<1>1. /\ Len(hist) \in Nat /\ Len(hist') \in Nat /\ Len(hist') >= Len(hist)
      /\ \A k \in 1..Len(hist) : hist'[k] = hist[k]
  <2>1. CASE hist' = hist
    BY <2>1 DEF TypeOK
  <2>2. CASE \E b \in DB : hist' = Append(hist, b)
    BY <2>2 DEF TypeOK
  <2>. QED BY <2>1, <2>2, HistStep
<1>2. ASSUME NEW p, NEW e, Had(hist, p, e) PROVE Had(hist', p, e)
  <2>1. PICK k \in 1..Len(hist) : Exists(hist[k][p]) /\ hist[k][p].edit = e
    BY <1>2 DEF Had
  <2>2. k \in 1..Len(hist') /\ hist'[k] = hist[k]
    BY <1>1
  <2>. QED BY <2>1, <2>2 DEF Had
<1>3. moved \subseteq moved'
  <2>1. ASSUME NEW w \in Workers, WorkerStep(w) PROVE moved' = moved
    BY <2>1 DEF WorkerStep, Isolate, BootSync, InitialMerge, StartPeriodicSync, UploadStart,
       UploadRetry, UploadSend, ForceSend, ServerAccept, ServerReject, UploadDone, DownloadStatus,
       HandleStatus, ServerGet, DownloadMerge, obsVars
  <2>2. ASSUME NEW w \in Workers, UserCommand(w) PROVE moved \subseteq moved'
    BY <2>2 DEF UserCommand, WriteFile, DeleteFile, MoveFile
  <2>3. ASSUME NEW w \in Workers, OpenSession(w) \/ CloseSession(w) \/ Fail(w)
        PROVE  moved' = moved
    BY <2>3 DEF OpenSession, CloseSession, Fail, obsVars
  <2>4. CASE (\E d \in Devices : RestartDaemon(d)) \/ LateAccept \/ Elapse \/ UNCHANGED vars
    BY <2>4 DEF RestartDaemon, LateAccept, Elapse, vars, obsVars
  <2>. QED BY <2>1, <2>2, <2>3, <2>4 DEF Next
<1>4. Settled' \subseteq Settled
  BY <1>3 DEF Settled
<1>. QED BY <1>2, <1>4

\* Every step keeps this.
LEMMA UploadsStep ==
    ASSUME TypeOK, SyncInv, [Next]_vars, QuietUser, UploadsTell
    PROVE  UploadsTell'
<1>1. TypeOK' /\ \A w \in Workers : Dev(w) \in Devices
  BY InvStep, WorkerTypes
<1>2. /\ \A p, e : Had(hist, p, e) => Had(hist', p, e)
      /\ Settled' \subseteq Settled /\ Settled \subseteq Files
      /\ Settled' \subseteq Files
  BY HadStep DEF Settled
<1>3. \A d \in Devices : db[d] \in DB
  BY DEF TypeOK
\* What any step has to respect at each device.
<1> DEFINE Row(d) == \A p \in Settled' :
              Exists(db'[d][p]) =>
                 /\ db'[d][p].st = "synced" => Had(hist', p, db'[d][p].edit)
                 /\ \A w \in Workers : Dev(w) = d /\ p \in cap[w] =>
                       \/ Had(hist', p, db'[d][p].edit)
                       \/ Exists(db[d][p]) /\ db'[d][p].edit = db[d][p].edit
<1>4. SUFFICES \A d \in Devices : Row(d)
  <2>1. ASSUME NEW d \in Devices, NEW p \in Settled', Exists(db'[d][p]),
               db'[d][p].st = "synced"
        PROVE  Had(hist', p, db'[d][p].edit)
    BY <1>4, <2>1
  <2>2. ASSUME NEW w \in Workers, pc'[w] = "put", NEW p \in cap'[w] \cap Settled',
               Exists(db'[Dev(w)][p])
        PROVE  \/ Had(hist', p, db'[Dev(w)][p].edit)
               \/ /\ Exists(put'[w].blob[p])
                  /\ put'[w].blob[p].edit = db'[Dev(w)][p].edit
    <3>1. CASE pc[w] = "put" /\ cap'[w] = cap[w] /\ put'[w] = put[w]
      <4>1. \/ Had(hist', p, db'[Dev(w)][p].edit)
            \/ Exists(db[Dev(w)][p]) /\ db'[Dev(w)][p].edit = db[Dev(w)][p].edit
        BY <1>1, <1>4, <2>2, <3>1
      <4>2. Exists(db[Dev(w)][p]) =>
               \/ Had(hist, p, db[Dev(w)][p].edit)
               \/ /\ Exists(put[w].blob[p])
                  /\ put[w].blob[p].edit = db[Dev(w)][p].edit
        BY <1>2, <2>2, <3>1 DEF UploadsTell
      <4>. QED BY <1>2, <3>1, <4>1, <4>2
    <3>2. CASE put'[w].blob = db[Dev(w)] /\ db' = db
      BY <2>2, <3>2
    <3>. QED BY <2>2, <3>1, <3>2, PutStep
  <2>3. ASSUME NEW w \in Workers, pc'[w] = "accepted"
        PROVE  put'[w].base # NoBase
    <3>1. Len(hist) # NoBase
      BY DEF TypeOK, NoBase
    <3>. QED BY <2>3, <3>1, PutStep DEF UploadsTell
  <2>4. ASSUME NEW w \in Workers, pc'[w] = "accepted", NEW p \in cap'[w] \cap Settled',
               Exists(db'[Dev(w)][p])
        PROVE  Had(hist', p, db'[Dev(w)][p].edit)
    <3>1. CASE pc[w] = "accepted" /\ cap'[w] = cap[w]
      <4>1. \/ Had(hist', p, db'[Dev(w)][p].edit)
            \/ Exists(db[Dev(w)][p]) /\ db'[Dev(w)][p].edit = db[Dev(w)][p].edit
        BY <1>1, <1>4, <2>4, <3>1
      <4>2. Exists(db[Dev(w)][p]) => Had(hist, p, db[Dev(w)][p].edit)
        BY <1>2, <2>4, <3>1 DEF UploadsTell
      <4>. QED BY <1>2, <4>1, <4>2
    <3>2. CASE /\ pc[w] = "put" /\ db' = db /\ cap'[w] = cap[w]
               /\ hist' = Append(hist, put[w].blob)
      <4>1. \/ Had(hist, p, db[Dev(w)][p].edit)
            \/ /\ Exists(put[w].blob[p])
               /\ put[w].blob[p].edit = db[Dev(w)][p].edit
        BY <1>2, <2>4, <3>2 DEF UploadsTell
      <4>2. /\ Len(hist) + 1 \in 1..Len(hist')
            /\ hist'[Len(hist) + 1] = put[w].blob
        <5>1. hist \in Seq(DB)
          BY DEF TypeOK
        <5>. QED BY <3>2, <5>1
      <4>. QED BY <1>2, <3>2, <4>1, <4>2 DEF Had
    <3>. QED BY <2>4, <3>1, <3>2, PutStep
  <2>. QED BY <2>1, <2>2, <2>3, <2>4 DEF UploadsTell
<1>5. CASE \A d \in Devices : Tame(db'[d], db[d])
  <2>1. SUFFICES ASSUME NEW d \in Devices, NEW p \in Settled', Exists(db'[d][p])
        PROVE  /\ db'[d][p].st = "synced" => Had(hist', p, db'[d][p].edit)
               /\ \/ Had(hist', p, db'[d][p].edit)
                  \/ Exists(db[d][p]) /\ db'[d][p].edit = db[d][p].edit
    OBVIOUS
  <2>2. db'[d][p] = db[d][p] \/ Had(hist, p, db'[d][p].edit)
    BY <1>2, <1>5, <2>1 DEF Tame, Exists
  <2>3. CASE db'[d][p] = db[d][p]
    BY <1>2, <2>1, <2>3 DEF UploadsTell
  <2>4. CASE Had(hist, p, db'[d][p].edit)
    BY <1>2, <2>4
  <2>. QED BY <2>2, <2>3, <2>4
<1>6. ASSUME NEW v \in Workers, UploadDone(v)
      PROVE  \A d \in Devices : Row(d)
  <2>1. SUFFICES ASSUME NEW d \in Devices, NEW p \in Settled', Exists(db'[d][p])
        PROVE  /\ db'[d][p].st = "synced" => Had(hist', p, db'[d][p].edit)
               /\ Exists(db[d][p]) /\ db'[d][p].edit = db[d][p].edit
    OBVIOUS
  <2>2. pc[v] = "accepted" /\ put[v].base # NoBase
    BY <1>6 DEF UploadDone, UploadsTell
  <2>3. db' = [db EXCEPT ![Dev(v)] = MarkSynced(db[Dev(v)], cap[v])]
    BY <1>6, <2>2 DEF UploadDone
  <2>4. p \in Paths /\ p \in Settled
    BY <1>2 DEF Paths
  <2>5. CASE d # Dev(v)
    <3>1. db'[d] = db[d]
      BY <2>3, <2>5 DEF TypeOK
    <3>. QED BY <1>2, <2>1, <2>4, <3>1 DEF UploadsTell
  <2>6. CASE d = Dev(v)
    <3>1. db'[d] = MarkSynced(db[d], cap[v])
      BY <2>3, <2>6 DEF TypeOK
    <3>2. Exists(db[d][p]) /\ db'[d][p].edit = db[d][p].edit
      BY <1>3, <2>1, <2>4, <3>1, MarkRows DEF Exists
    <3>3. CASE p \in cap[v]
      <4>1. Had(hist, p, db[d][p].edit)
        BY <2>2, <2>4, <2>6, <3>2, <3>3 DEF UploadsTell
      <4>. QED BY <1>2, <3>2, <4>1
    <3>4. CASE p \notin cap[v]
      <4>1. db'[d][p] = db[d][p]
        BY <2>4, <3>1, <3>4 DEF MarkSynced
      <4>. QED BY <1>2, <2>4, <3>2, <4>1 DEF UploadsTell
    <3>. QED BY <3>3, <3>4
  <2>. QED BY <2>5, <2>6
<1>7. ASSUME NEW c \in Devices, QuietEdit(c)
      PROVE  \A d \in Devices : Row(d)
  <2>1. SUFFICES ASSUME NEW d \in Devices, NEW p \in Settled', Exists(db'[d][p])
        PROVE  /\ db'[d][p].st = "synced" => Had(hist', p, db'[d][p].edit)
               /\ \A w \in Workers : Dev(w) = d /\ p \in cap[w] =>
                     Exists(db[d][p]) /\ db'[d][p].edit = db[d][p].edit
    OBVIOUS
  <2>2. p \in Files /\ p \in Settled /\ ~\E m \in moved' : m[2] = p
    BY <1>2 DEF Settled
  <2>3. CASE d # c
    <3>1. db'[d] = db[d]
      BY <1>7, <2>3 DEF QuietEdit
    <3>. QED BY <1>2, <2>1, <2>2, <3>1 DEF UploadsTell
  <2>4. CASE d = c
    <3>1. \A w \in Workers : Dev(w) = d => cap[w] = {}
      BY <1>7, <2>4 DEF QuietEdit
    <3>2. db'[d][p] = db[d][p] \/ db'[d][p].st = "pending"
      BY <1>7, <2>1, <2>2, <2>4 DEF QuietEdit, Exists
    <3>. QED BY <1>2, <2>1, <2>2, <3>1, <3>2 DEF UploadsTell
  <2>. QED BY <2>3, <2>4
<1>. QED BY <1>5, <1>6, <1>7, QuietStep

\* At first every row is one the server has.
LEMMA UploadsInit == Init => UploadsTell
<1>1. SUFFICES ASSUME Init PROVE UploadsTell
  OBVIOUS
<1>2. hist = <<Seed>> /\ \A d \in Devices : db[d] = Seed
  BY <1>1 DEF Init
<1>3. \A w \in Workers : pc[w] \notin {"put", "accepted"}
  BY <1>1, Places DEF Init, InitClients
<1>4. 1 \in 1..Len(hist) /\ hist[1] = Seed
  BY <1>2
<1>. QED BY <1>2, <1>3, <1>4 DEF UploadsTell, Had

\* For a user who waits for his uploads: a row marked synced is a row the
\* server has had, so the set_sync_status calls at the end of
\* upload_metadata, which go by path, mark nothing that was not uploaded.
THEOREM SyncedRowsUploaded ==
    ASSUME QuietUser
    PROVE  Spec => []SyncedIsUploaded
<1>1. Init => UploadsTell
  BY UploadsInit
<1>2. TypeOK /\ SyncInv /\ UploadsTell /\ [Next]_vars => UploadsTell'
  BY UploadsStep
<1>3. UploadsTell => SyncedIsUploaded
  BY DEF UploadsTell, SyncedIsUploaded, Settled, Had
<1>. QED BY <1>1, <1>2, <1>3, TypeCorrect, SyncInvHolds, PTL DEF Spec

-----------------------------------------------------------------------------
(***************************************************************************)
(* Why a user who waits for his uploads loses no update.  Row r knows row  *)
(* a when it is the result of the same edit or of one that superseded it.  *)
(* The versions of a file on the server know each other in their order; a  *)
(* device's row is one the server has had or the user's edit of one, so    *)
(* that comparing versions tells whether it knows the server's.            *)
(***************************************************************************)

Knows(r, a) == r.edit = a.edit \/ a.edit \in r.past

\* Table b knows what table a has.
KDom(b, a, g) ==
    \A p \in Seeded \ g : Exists(a[p]) /\ Exists(b[p]) /\ Knows(b[p], a[p])

KCov(t, v, h, g) == v = Len(h) => KDom(t, h[Len(h)], g)

\* Row l at path p is one the server has had, or waits as an edit of one.
Built(h, p, l) ==
    /\ l # NoRec
    /\ l.st # "conflict"
    /\ \/ Had(h, p, l.edit)
       \/ /\ l.st = "pending"
          /\ \E k \in 1..Len(h) :
                /\ Exists(h[k][p])
                /\ l.past = h[k][p].past \cup {h[k][p].edit}
                /\ l.ver = h[k][p].ver + 1

\* The versions on the server know each other in their order.
Chain(h, g) == \A j, k \in 1..Len(h) : j <= k => KDom(h[k], h[j], g)

KPut(w, D, h, q, P, g) ==
    q[w] = "put" =>
        /\ KCov(P[w].blob, P[w].base, h, g)
        /\ P[w].base = Len(h) => KDom(D[Dev(w)], P[w].blob, g)

KInv ==
    /\ Chain(hist, gone)
    /\ \A d \in Devices : \A p \in Seeded \ gone : Built(hist, p, db[d][p])
    /\ \A c \in Clients : KCov(db[c[1]], lastSynced[c], hist, gone)
    /\ \A m \in late : KCov(m.blob, m.base, hist, gone)
    /\ \A w \in Workers : KPut(w, db, hist, pc, put, gone)
    /\ \A w \in Workers : pc[w] = "accepted" => KCov(db[Dev(w)], sv[w], hist, gone)
    /\ \A m \in moved : m[2] \in Seeded => m[2] \in gone

\* Row r is the result of one of the first n edits.
Made(r, K, n) == r \in Rec /\ r.edit \in 0..n /\ r.ver \in Nat /\ AsMade(r, K[r.edit])

\* A row of an honest table is the result of its edit.
LEMMA MadeRow ==
    ASSUME NEW t \in DB, NEW K, NEW n \in Nat, Honest(t, K, n), NEW p \in Paths,
           Exists(t[p])
    PROVE  Made(t[p], K, n)
<1>1. t[p] \in Rec
  BY DEF DB, Exists
<1>2. t[p].edit \in Nat /\ t[p].ver \in Nat
  BY <1>1 DEF Rec, EditIds
<1>. QED BY <1>1, <1>2 DEF Made, Honest, Exists

\* Knowing is transitive, and a row that knows another edit is later.
LEMMA KnowsTrans ==
    ASSUME NEW K, NEW n \in Nat, Ordered(K, n), NEW a, NEW b, NEW c,
           Made(a, K, n), Made(b, K, n), Made(c, K, n), Knows(b, a), Knows(c, b)
    PROVE  Knows(c, a)
<1>1. CASE c.edit = b.edit
  BY <1>1 DEF Knows, Made, AsMade
<1>2. CASE b.edit \in c.past
  <2>1. K[b.edit].past \subseteq K[c.edit].past
    BY <1>2 DEF Ordered, Made, AsMade
  <2>. QED BY <1>2, <2>1 DEF Knows, Made, AsMade
<1>. QED BY <1>1, <1>2 DEF Knows

\* A row that knows another is the result of the same edit or has a later
\* version.
LEMMA KnowsVer ==
    ASSUME NEW K, NEW n \in Nat, Ordered(K, n), NEW a, NEW b,
           Made(a, K, n), Made(b, K, n), Knows(b, a)
    PROVE  \/ b.edit = a.edit /\ b.ver = a.ver /\ b.past = a.past
           \/ a.ver < b.ver
BY DEF Knows, Made, AsMade, Ordered

\* What _merge_record leaves at p when the server answered version k: a row
\* that knows the server's, whatever it is, and that knows every row in
\* between the server's and the one that was there.
LEMMA MergeKnows ==
    ASSUME NEW h \in Seq(DB), NEW g, NEW K, NEW n \in Nat, Ordered(K, n), Chain(h, g),
           \A j \in 1..Len(h) : Honest(h[j], K, n),
           NEW p \in Seeded \ g, NEW l, Made(l, K, n), Built(h, p, l),
           NEW k \in 1..Len(h)
    PROVE  LET m == MergeRecord(l, h[k][p])
           IN  /\ Built(h, p, m)
               /\ Knows(m, h[k][p])
               /\ \A x : Made(x, K, n) /\ Knows(x, h[k][p]) /\ Knows(l, x) => Knows(m, x)
<1> DEFINE s == h[k][p]
           m == MergeRecord(l, s)
<1>1. p \in Files /\ p \in Paths
  BY PathsAssumption DEF Paths
<1>2. \A j \in 1..Len(h) : h[j] \in DB /\ Exists(h[j][p])
  BY DEF Chain, KDom
<1>3. \A j \in 1..Len(h) : Made(h[j][p], K, n)
  BY <1>1, <1>2, MadeRow
<1>4. \A i, j \in 1..Len(h) : i <= j => Knows(h[j][p], h[i][p])
  BY DEF Chain, KDom
<1>5. Made(s, K, n) /\ Exists(s) /\ Exists(l) /\ l \in Rec /\ s \in Rec
  BY <1>2, <1>3, NoRecAssumption DEF Made, Exists
<1>6. s.ver \in Nat /\ l.ver \in Nat
  BY <1>5 DEF Rec
<1>7. CASE m = FromServer(s) /\ s.ver >= l.ver
  <2>1. /\ m \in Rec /\ m # NoRec /\ m.st = "synced" /\ m.edit = s.edit
        /\ m.past = s.past
    BY SMTT(30), <1>5, <1>7, FromServerType, NoRecAssumption DEF FromServer, Rec
  <2>2. Had(h, p, m.edit)
    BY <1>2, <2>1 DEF Had
  <2>3. Built(h, p, m) /\ Knows(m, s)
    BY <2>1, <2>2 DEF Built, Knows
  <2>4. ASSUME NEW x, Made(x, K, n), Knows(x, s), Knows(l, x) PROVE Knows(m, x)
    <3>1. x.ver \in Nat
      BY <2>4 DEF Made
    <3>2. x.ver <= l.ver
      BY <2>4, <1>6, <3>1, KnowsVer
    <3>3. x.edit = s.edit
      BY <1>5, <1>6, <1>7, <2>4, <3>1, <3>2, KnowsVer
    <3>. QED BY <2>1, <3>3 DEF Knows
  <2>. QED BY <2>3, <2>4
<1>8. CASE m = l /\ s.ver <= l.ver /\ (l.st = "pending" => s.ver < l.ver)
  <2>1. Knows(l, s)
    <3>1. CASE Had(h, p, l.edit)
      <4>1. PICK j \in 1..Len(h) : h[j][p].edit = l.edit
        BY <3>1 DEF Had
      <4> DEFINE r == h[j][p]
      <4>2. Made(r, K, n) /\ r.edit = l.edit
        BY <1>3, <4>1
      <4>3. l.past = r.past /\ l.ver = r.ver
        BY <4>2 DEF Made, AsMade
      <4>4. CASE k <= j
        BY <1>4, <4>2, <4>3, <4>4 DEF Knows
      <4>5. CASE j <= k
        <5>1. Knows(s, r)
          BY <1>4, <4>5
        <5> HIDE DEF r, s
        <5>2. s.edit = r.edit
          BY <1>5, <1>6, <1>8, <4>2, <4>3, <5>1, KnowsVer
        <5>. QED BY <4>2, <5>2 DEF Knows
      <4>. QED BY <4>4, <4>5
    <3>2. CASE l.st = "pending" /\ ~Had(h, p, l.edit)
      <4>1. PICK j \in 1..Len(h) : /\ l.past = h[j][p].past \cup {h[j][p].edit}
                                   /\ l.ver = h[j][p].ver + 1
        BY <3>2 DEF Built
      <4> DEFINE r == h[j][p]
      <4>2. Made(r, K, n) /\ l.past = r.past \cup {r.edit} /\ l.ver = r.ver + 1
        BY <1>3, <4>1
      <4>3. r.ver \in Nat /\ s.ver <= r.ver
        BY <1>6, <1>8, <3>2, <4>2 DEF Made
      <4>4. CASE k <= j
        <5>1. Knows(r, s)
          BY <1>4, <4>4
        <5>. QED BY <4>2, <5>1 DEF Knows
      <4>5. CASE j <= k
        <5>1. Knows(s, r)
          BY <1>4, <4>5
        <5> HIDE DEF r, s
        <5>2. s.edit = r.edit
          BY <1>5, <1>6, <4>2, <4>3, <5>1, KnowsVer
        <5>. QED BY <4>2, <5>2 DEF Knows
      <4>. QED BY <4>4, <4>5
    <3>. QED BY <3>1, <3>2 DEF Built
  <2>. QED BY <1>8, <2>1
<1>9. \/ m = FromServer(s) /\ s.ver >= l.ver
      \/ m = l /\ s.ver <= l.ver /\ (l.st = "pending" => s.ver < l.ver)
  <2> HIDE DEF s
  <2>1. CASE IsConflict(l, s)
    BY <1>5, <1>6, <2>1 DEF IsConflict, BaseVersion, MergeRecord
  <2>2. CASE ~IsConflict(l, s)
    BY <1>5, <1>6, <2>2 DEF IsConflict, BaseVersion, MergeRecord
  <2>. QED BY <2>1, <2>2
<1>. QED BY <1>7, <1>8, <1>9

\* What a step does to the row of a file that no device has given up.
LEMMA FileStep ==
    ASSUME TypeOK, SyncInv, KInv, UploadsTell, [Next]_vars, QuietUser,
           NEW d \in Devices, NEW p \in Seeded \ gone'
    PROVE  /\ p \in Seeded \ gone
           /\ \/ db'[d][p] = db[d][p]
              \/ \E k \in 1..Len(hist) :
                    db'[d][p] = MergeRecord(db[d][p], hist[k][p])
              \/ \E w \in Workers :
                    /\ pc[w] = "accepted" /\ Dev(w) = d /\ p \in cap[w]
                    /\ db'[d][p] = [db[d][p] EXCEPT !.st = "synced"]
              \/ /\ Pending(db[d]) = {}
                 /\ \E e \in EditIds, b \in BOOLEAN :
                       db'[d][p] = Written(db[d][p], e, b)
<1> DEFINE Goal == \/ db'[d][p] = db[d][p]
                   \/ \E k \in 1..Len(hist) :
                         db'[d][p] = MergeRecord(db[d][p], hist[k][p])
                   \/ \E w \in Workers :
                         /\ pc[w] = "accepted" /\ Dev(w) = d /\ p \in cap[w]
                         /\ db'[d][p] = [db[d][p] EXCEPT !.st = "synced"]
                   \/ /\ Pending(db[d]) = {}
                      /\ \E e \in EditIds, b \in BOOLEAN :
                            db'[d][p] = Written(db[d][p], e, b)
<1>1. Inv(db, hist, lastSynced, late, pc, put, sv, fv, gone)
  BY InvNow
<1>2. /\ db \in [Devices -> DB] /\ \A w \in Workers : Dev(w) \in Devices
      /\ \A e \in Devices : db[e] \in DB
      /\ hist \in Seq(DB) /\ \A k \in 1..Len(hist) : hist[k] \in DB
  BY WorkerTypes DEF TypeOK
<1>3. /\ p \in Files /\ p \in Paths /\ p \in Seeded \ gone /\ p \notin gone'
      /\ Exists(db[d][p])
  <2>1. gone \subseteq gone'
    BY HistStep
  <2>2. p \in Seeded \ gone
    BY <2>1
  <2>3. Built(hist, p, db[d][p])
    BY <2>2 DEF KInv
  <2>. QED BY <2>2, <2>3, PathsAssumption DEF Paths, Built, Exists
<1>4. db' = db => Goal
  OBVIOUS
<1>5. ASSUME NEW c \in Devices, NEW u, db' = [db EXCEPT ![c] = u], c # d PROVE Goal
  BY <1>2, <1>5
<1>6. ASSUME NEW u, db' = [db EXCEPT ![d] = u] PROVE db'[d] = u
  BY <1>2, <1>6
<1>7. ASSUME NEW w \in Workers, Isolate(w) PROVE Goal
  <2>1. /\ db' = [db EXCEPT ![Dev(w)] = Isolated(db[Dev(w)])]
        /\ gone' = gone \cup PutAside(db[Dev(w)])
    BY <1>7 DEF Isolate
  <2>2. CASE Dev(w) = d
    <3>1. db'[d] = Isolated(db[d]) /\ p \notin PutAside(db[d])
      BY <1>3, <1>6, <2>1, <2>2
    <3>2. ASSUME NEW f \in PutAside(db[d]) PROVE p # Copy(f, db[d][f].edit)
      <4>1. f \in Files /\ db[d][f].edit \in EditIds
        BY <1>2 DEF PutAside, Paths, DB, Live, Rec
      <4>. QED BY <1>3, <4>1, CopyFacts
    <3>3. Isolated(db[d])[p] = db[d][p]
      BY <1>3, <3>1, <3>2 DEF Isolated
    <3>. QED BY <3>1, <3>3
  <2>. QED BY <1>2, <1>5, <2>1, <2>2
<1>8. ASSUME NEW w \in Workers, InitialMerge(w) PROVE Goal
  <2>1. db' = [db EXCEPT ![Dev(w)] = Merge(db[Dev(w)], hist[fv[w]])]
        /\ fv[w] \in 1..Len(hist)
    BY <1>1, <1>8 DEF InitialMerge, Inv, AnswerCov
  <2>2. CASE Dev(w) = d
    <3>1. db'[d][p] = MergeRecord(db[d][p], hist[fv[w]][p])
      BY <1>2, <1>3, <1>6, <2>1, <2>2, MergeRows
    <3>. QED BY <2>1, <3>1
  <2>. QED BY <1>2, <1>5, <2>1, <2>2
<1>9. ASSUME NEW w \in Workers, DownloadMerge(w) PROVE Goal
  <2> DEFINE m == Merge(db[Dev(w)], hist[fv[w]])
  <2>1. /\ db' = [db EXCEPT ![Dev(w)] = Without(m, Expired(m))]
        /\ gone' = gone \cup Expired(m) /\ fv[w] \in 1..Len(hist)
    BY <1>1, <1>9 DEF DownloadMerge, Inv, AnswerCov
  <2>2. CASE Dev(w) = d
    <3>1. m[p] = MergeRecord(db[d][p], hist[fv[w]][p])
      BY <1>2, <1>3, <2>1, <2>2, MergeRows
    <3> HIDE DEF m
    <3>2. db'[d] = Without(m, Expired(m)) /\ p \notin Expired(m)
      BY <1>3, <1>6, <2>1, <2>2
    <3>3. db'[d][p] = m[p]
      BY <1>3, <3>2 DEF Without
    <3>. QED BY <2>1, <3>1, <3>3
  <2>. QED BY <1>2, <1>5, <2>1, <2>2
<1>10. ASSUME NEW w \in Workers, UploadStart(w) PROVE Goal
  <2> DEFINE t == db[Dev(w)]
             X == IF Pending(t) = {} THEN {} ELSE Expired(t)
  <2>1. db' = [db EXCEPT ![Dev(w)] = Without(t, X)] /\ gone' = gone \cup X
    BY <1>10 DEF UploadStart
  <2> HIDE DEF X
  <2>2. CASE Dev(w) = d
    <3>1. db'[d] = Without(db[d], X) /\ p \notin X
      BY <1>3, <1>6, <2>1, <2>2
    <3>. QED BY <1>3, <3>1 DEF Without
  <2>. QED BY <1>2, <1>5, <2>1, <2>2
<1>11. ASSUME NEW w \in Workers, UploadDone(w) PROVE Goal
  <2>1. pc[w] = "accepted" /\ put[w].base # NoBase
    BY <1>11 DEF UploadDone, UploadsTell
  <2>2. db' = [db EXCEPT ![Dev(w)] = MarkSynced(db[Dev(w)], cap[w])]
    BY <1>11, <2>1 DEF UploadDone
  <2>3. CASE Dev(w) = d
    <3>1. db'[d] = MarkSynced(db[d], cap[w])
      BY <1>6, <2>2, <2>3
    <3>2. CASE p \in cap[w]
      BY <1>3, <2>1, <2>3, <3>1, <3>2 DEF MarkSynced
    <3>3. CASE p \notin cap[w]
      BY <1>3, <3>1, <3>3 DEF MarkSynced
    <3>. QED BY <3>2, <3>3
  <2>. QED BY <1>2, <1>5, <2>2, <2>3
<1>12. ASSUME NEW w \in Workers, WorkerStep(w),
             ~Isolate(w), ~InitialMerge(w), ~UploadStart(w), ~UploadDone(w),
             ~DownloadMerge(w)
      PROVE  Goal
  BY <1>4, <1>12 DEF WorkerStep, BootSync, StartPeriodicSync, UploadRetry, UploadSend,
     ForceSend, ServerAccept, ServerReject, DownloadStatus, HandleStatus, ServerGet
<1>13. ASSUME NEW w \in Workers, NEW q \in Files, NEW b \in BOOLEAN, CanEdit(Dev(w)),
              nedits < MaxEdits,
              db' = [db EXCEPT ![Dev(w)][q] = Written(@, nedits + 1, b)]
       PROVE  Goal
  <2> DEFINE r == Written(db[Dev(w)][q], nedits + 1, b)
  <2>1. db' = [db EXCEPT ![Dev(w)] = [db[Dev(w)] EXCEPT ![q] = r]]
    BY <1>13
  <2>2. nedits + 1 \in EditIds
    BY <1>13, BoundsAssumption DEF TypeOK, EditIds
  <2>3. CASE Dev(w) = d
    <3>1. db[d] \in [Paths -> Rec \cup {NoRec}] /\ Pending(db[d]) = {}
      BY <1>2, <1>13, <2>3 DEF DB, CanEdit
    <3> HIDE DEF r
    <3>2. db'[d] = [db[d] EXCEPT ![q] = r]
      BY <1>6, <2>1, <2>3
    <3>3. CASE p = q
      <4>1. db'[d][p] = r
        BY <1>3, <3>1, <3>2, <3>3
      <4>2. r = Written(db[d][p], nedits + 1, b)
        BY <2>3, <3>3 DEF r
      <4>. QED BY <2>2, <3>1, <4>1, <4>2
    <3>4. CASE p # q
      BY <1>3, <3>1, <3>2, <3>4
    <3>. QED BY <3>3, <3>4
  <2> HIDE DEF r
  <2>. QED BY <1>2, <1>5, <2>1, <2>3
<1>14. ASSUME NEW w \in Workers, NEW o \in Files, NEW q \in Files, MoveFile(w, o, q)
       PROVE  Goal
  <2>1. /\ db' = [db EXCEPT ![Dev(w)] = [db[Dev(w)] EXCEPT ![q] = db[Dev(w)][o],
                                                          ![o] = NoRec]]
        /\ gone' = gone \cup {o} /\ ~Exists(db[Dev(w)][q])
    BY <1>14 DEF MoveFile
  <2>2. CASE Dev(w) = d
    <3>1. db'[d] = [db[d] EXCEPT ![q] = db[d][o], ![o] = NoRec]
      BY <1>6, <2>1, <2>2
    <3>2. p # o /\ p # q
      BY <1>3, <2>1, <2>2
    <3>. QED BY <1>2, <1>3, <3>1, <3>2 DEF DB
  <2>. QED BY <1>2, <1>5, <2>1, <2>2
<1>15. ASSUME NEW w \in Workers, UserCommand(w) PROVE Goal
  BY <1>13, <1>14, <1>15 DEF UserCommand, WriteFile, DeleteFile
<1>16. ASSUME NEW w \in Workers, OpenSession(w) \/ CloseSession(w) \/ Fail(w)
       PROVE  Goal
  BY <1>4, <1>16 DEF OpenSession, CloseSession, Fail
<1>17. CASE (\E c \in Devices : RestartDaemon(c)) \/ LateAccept \/ Elapse
  BY <1>3, <1>4, <1>17 DEF RestartDaemon, LateAccept, Elapse
<1>18. CASE UNCHANGED vars
  BY <1>3, <1>4, <1>18 DEF vars
<1>19. Goal
  BY <1>7, <1>8, <1>9, <1>10, <1>11, <1>12, <1>15, <1>16, <1>17, <1>18 DEF Next
<1>. QED BY <1>3, <1>19

\* Such a row stays one that the server has had or an edit of one, and
\* forgets nothing it knew that is newer than the server's blob.
LEMMA Advance ==
    ASSUME TypeOK, SyncInv, KInv, UploadsTell, [Next]_vars, QuietUser,
           NEW K, World(db, hist, late, pc, put, K, nedits),
           NEW d \in Devices, NEW p \in Seeded \ gone'
    PROVE  /\ Built(hist, p, db'[d][p])
           /\ \A x : /\ Made(x, K, nedits)
                     /\ Knows(x, hist[Len(hist)][p])
                     /\ Knows(db[d][p], x)
                     => Knows(db'[d][p], x)
<1> DEFINE l == db[d][p]
           m == db'[d][p]
           last == hist[Len(hist)][p]
           Goal == /\ Built(hist, p, m)
                   /\ \A x : /\ Made(x, K, nedits) /\ Knows(x, last) /\ Knows(l, x)
                             => Knows(m, x)
<1>1. /\ hist \in Seq(DB) /\ Len(hist) \in 1..Len(hist) /\ nedits \in Nat
      /\ \A k \in 1..Len(hist) : hist[k] \in DB
  BY InvNow DEF Inv, TypeOK
<1>2. /\ Ordered(K, nedits) /\ Honest(db[d], K, nedits) /\ db[d] \in DB
      /\ \A k \in 1..Len(hist) : Honest(hist[k], K, nedits)
  BY DEF World, TypeOK
<1>3. p \in Seeded \ gone /\ p \in Paths /\ p \in Files
  BY FileStep, PathsAssumption DEF Paths
<1>4. Built(hist, p, l) /\ Chain(hist, gone) /\ Exists(l)
  BY <1>3 DEF KInv, Built, Exists
<1>5. Made(l, K, nedits) /\ l \in Rec
  BY <1>1, <1>2, <1>3, <1>4, MadeRow DEF Made
<1>6. \A k \in 1..Len(hist) : Exists(hist[k][p]) /\ Made(hist[k][p], K, nedits)
                               /\ Knows(last, hist[k][p])
  <2>1. \A k \in 1..Len(hist) : Exists(hist[k][p]) /\ Knows(last, hist[k][p])
    BY <1>1, <1>3, <1>4 DEF Chain, KDom
  <2>. QED BY <1>1, <1>2, <1>3, <2>1, MadeRow
<1>7. CASE m = l
  BY <1>4, <1>7
<1>8. CASE \E k \in 1..Len(hist) : m = MergeRecord(l, hist[k][p])
  <2>1. PICK k \in 1..Len(hist) : m = MergeRecord(l, hist[k][p])
    BY <1>8
  <2> HIDE DEF l, m
  <2>2. /\ Built(hist, p, m)
        /\ \A x : Made(x, K, nedits) /\ Knows(x, hist[k][p]) /\ Knows(l, x) => Knows(m, x)
    BY <1>1, <1>2, <1>3, <1>4, <1>5, <2>1, MergeKnows
  <2>3. ASSUME NEW x, Made(x, K, nedits), Knows(x, last) PROVE Knows(x, hist[k][p])
    BY <1>1, <1>2, <1>6, <2>3, KnowsTrans
  <2>7. Goal
    BY <2>2, <2>3
  <2>. QED BY <2>7 DEF l, m
<1>9. CASE \E w \in Workers : /\ pc[w] = "accepted" /\ Dev(w) = d /\ p \in cap[w]
                              /\ m = [l EXCEPT !.st = "synced"]
  <2>1. PICK w \in Workers : /\ pc[w] = "accepted" /\ Dev(w) = d /\ p \in cap[w]
                             /\ m = [l EXCEPT !.st = "synced"]
    BY <1>9
  <2>2. p \in Settled
    BY <1>3 DEF Settled, KInv
  <2>3. Had(hist, p, l.edit)
    BY <1>4, <2>1, <2>2 DEF UploadsTell
  <2> HIDE DEF l, m
  <2>4. m \in Rec /\ m # NoRec /\ m.st = "synced" /\ m.edit = l.edit /\ m.past = l.past
    BY <1>5, <2>1, NoRecAssumption DEF Rec, Statuses
  <2>7. Goal
    BY <2>3, <2>4 DEF Built, Knows
  <2>. QED BY <2>7 DEF l, m
<1>10. CASE /\ Pending(db[d]) = {}
            /\ \E e \in EditIds, b \in BOOLEAN : m = Written(l, e, b)
  <2>1. l.st # "pending"
    BY <1>3, <1>4, <1>10 DEF Pending
  <2>2. PICK k \in 1..Len(hist) : hist[k][p].edit = l.edit
    BY <1>4, <2>1 DEF Built, Had
  <2>3. hist[k][p].past = l.past /\ hist[k][p].ver = l.ver
    BY <1>5, <1>6, <2>2 DEF Made, AsMade
  <2>4. PICK e \in EditIds, b \in BOOLEAN : m = Written(l, e, b)
    BY <1>10
  <2> HIDE DEF l, m
  <2>5. /\ m # NoRec /\ m.st = "pending" /\ m.past = l.past \cup {l.edit}
        /\ m.ver = l.ver + 1
    <3>1. now \in Nat
      BY BoundsAssumption DEF TypeOK
    <3>2. m # NoRec
      BY <1>5, <2>4, <3>1, WrittenType
    <3>. QED BY <1>4, <2>4, <3>2 DEF Written
  <2>6. Built(hist, p, m)
    BY <1>6, <2>2, <2>3, <2>5 DEF Built
  <2>7. Goal
    BY <2>5, <2>6 DEF Knows
  <2>. QED BY <2>7 DEF l, m
<1>11. \/ m = l
       \/ \E k \in 1..Len(hist) : m = MergeRecord(l, hist[k][p])
       \/ \E w \in Workers : /\ pc[w] = "accepted" /\ Dev(w) = d /\ p \in cap[w]
                              /\ m = [l EXCEPT !.st = "synced"]
       \/ /\ Pending(db[d]) = {}
          /\ \E e \in EditIds, b \in BOOLEAN : m = Written(l, e, b)
  BY FileStep
<1>. QED BY <1>7, <1>8, <1>9, <1>10, <1>11
\* What a SyncClient believes it has merged changes with an accepted upload
\* and with a merge of a blob at least as new as the version remembered.
LEMMA ClientStep ==
    ASSUME TypeOK, SyncInv, [Next]_vars, NEW c \in Clients
    PROVE  \/ lastSynced'[c] \in {lastSynced[c], 0}
           \/ \E w \in Workers :
                 /\ c[1] = Dev(w)
                 /\ pc[w] = "accepted"
                 /\ lastSynced'[c] = sv[w]
           \/ \E w \in Workers :
                 /\ fv[w] \in 1..Len(hist)
                 /\ lastSynced'[c] <= fv[w]
                 /\ \A p \in Files \ gone' :
                       db'[c[1]][p] = MergeRecord(db[c[1]][p], hist[fv[w]][p])
<1> DEFINE Goal == \/ lastSynced'[c] \in {lastSynced[c], 0}
                   \/ \E w \in Workers :
                         /\ c[1] = Dev(w)
                         /\ pc[w] = "accepted"
                         /\ lastSynced'[c] = sv[w]
                   \/ \E w \in Workers :
                         /\ fv[w] \in 1..Len(hist)
                         /\ lastSynced'[c] <= fv[w]
                         /\ \A p \in Files \ gone' :
                               db'[c[1]][p] = MergeRecord(db[c[1]][p], hist[fv[w]][p])
<1>1. Inv(db, hist, lastSynced, late, pc, put, sv, fv, gone)
  BY InvNow
<1>2. /\ lastSynced \in [Clients -> Nat] /\ db \in [Devices -> DB]
      /\ \A w \in Workers : Dev(w) \in Devices /\ Client(w)[1] = Dev(w)
      /\ \A d \in Devices : db[d] \in DB
      /\ \A k \in 1..Len(hist) : hist[k] \in DB
  BY WorkerTypes DEF TypeOK
<1>3. lastSynced' = lastSynced => Goal
  OBVIOUS
<1>4. ASSUME NEW w \in Workers, OpenSession(w) \/ Isolate(w) PROVE Goal
  BY <1>2, <1>4 DEF OpenSession, Isolate
<1>5. ASSUME NEW w \in Workers, UploadDone(w) PROVE Goal
  BY <1>2, <1>5 DEF UploadDone
<1>6. ASSUME NEW w \in Workers, DownloadMerge(w) PROVE Goal
  <2> DEFINE m == Merge(db[Dev(w)], hist[fv[w]])
  <2>1. /\ lastSynced' = [lastSynced EXCEPT ![Client(w)] = sv[w]]
        /\ db' = [db EXCEPT ![Dev(w)] = Without(m, Expired(m))]
        /\ gone' = gone \cup Expired(m)
        /\ fv[w] \in 1..Len(hist) /\ sv[w] <= fv[w]
    BY <1>1, <1>6 DEF DownloadMerge, Inv, AnswerCov
  <2>2. CASE c = Client(w)
    <3>1. lastSynced'[c] = sv[w] /\ c[1] = Dev(w)
      BY <1>2, <2>1, <2>2
    <3>2. ASSUME NEW p \in Files \ gone'
          PROVE  db'[c[1]][p] = MergeRecord(db[c[1]][p], hist[fv[w]][p])
      <4>1. m[p] = MergeRecord(db[c[1]][p], hist[fv[w]][p])
        BY <1>2, <2>1, <3>1, MergeRows
      <4> HIDE DEF m
      <4>2. db'[c[1]] = Without(m, Expired(m)) /\ p \notin Expired(m) /\ p \in Paths
        BY <1>2, <2>1, <3>1 DEF Paths
      <4>. QED BY <4>1, <4>2 DEF Without
    <3>. QED BY <2>1, <3>1, <3>2
  <2>3. CASE c # Client(w)
    BY <1>2, <2>1, <2>3
  <2>. QED BY <2>2, <2>3
<1>7. ASSUME NEW w \in Workers, WorkerStep(w), ~Isolate(w), ~UploadDone(w),
             ~DownloadMerge(w)
      PROVE  Goal
  BY <1>3, <1>7 DEF WorkerStep, BootSync, InitialMerge, StartPeriodicSync, UploadStart,
     UploadRetry, UploadSend, ForceSend, ServerAccept, ServerReject, DownloadStatus,
     HandleStatus, ServerGet
<1>8. ASSUME NEW w \in Workers, UserCommand(w) PROVE Goal
  BY <1>3, <1>8 DEF UserCommand, WriteFile, DeleteFile, MoveFile
<1>9. ASSUME NEW w \in Workers, CloseSession(w) \/ Fail(w) PROVE Goal
  BY <1>3, <1>9 DEF CloseSession, Fail
<1>10. ASSUME NEW d \in Devices, RestartDaemon(d) PROVE Goal
  BY <1>2, <1>10 DEF RestartDaemon
<1>11. CASE LateAccept \/ Elapse \/ UNCHANGED vars
  BY <1>3, <1>11 DEF LateAccept, Elapse, vars
<1>. QED
  BY <1>4, <1>5, <1>6, <1>7, <1>8, <1>9, <1>10, <1>11 DEF Next

\* What the server accepts knows its last version, and an abandoned PUT was
\* one under way.
LEMMA AcceptStep ==
    ASSUME TypeOK, SyncInv, KInv, [Next]_vars,
           NEW K, World(db, hist, late, pc, put, K, nedits)
    PROVE  /\ \/ hist' = hist
              \/ \E b \in DB :
                    /\ hist' = Append(hist, b) /\ gone' = gone /\ db' = db
                    /\ lastSynced' = lastSynced
                    /\ KDom(b, hist[Len(hist)], gone) /\ Honest(b, K, nedits)
           /\ \A m \in late' : \/ m \in late
                               \/ \E w \in Workers : pc[w] = "put" /\ m = put[w]
<1> DEFINE Server == \/ hist' = hist
                     \/ \E b \in DB :
                           /\ hist' = Append(hist, b) /\ gone' = gone /\ db' = db
                           /\ lastSynced' = lastSynced
                           /\ KDom(b, hist[Len(hist)], gone) /\ Honest(b, K, nedits)
           Net == \A m \in late' : \/ m \in late
                                   \/ \E w \in Workers : pc[w] = "put" /\ m = put[w]
           Goal == Server /\ Net
<1>1. Inv(db, hist, lastSynced, late, pc, put, sv, fv, gone)
  BY InvNow
<1>2. hist' = hist /\ late' = late => Goal
  OBVIOUS
<1>3. ASSUME NEW w \in Workers, ServerAccept(w) PROVE Goal
  <2>1. /\ pc[w] = "put" /\ hist' = Append(hist, put[w].blob) /\ db' = db
        /\ gone' = gone /\ lastSynced' = lastSynced /\ late' = late
    BY <1>3 DEF ServerAccept, obsVars
  <2>2. put[w].blob \in DB /\ put[w].base = Len(hist)
    <3>1. put[w].blob \in DB /\ put[w].base \in 0..Len(hist)
      BY <1>1, <2>1 DEF Inv, PutCov, Puts
    <3>. QED BY <1>3, <3>1 DEF ServerAccept, Accepts, NoBase
  <2>3. KDom(put[w].blob, hist[Len(hist)], gone) /\ Honest(put[w].blob, K, nedits)
    BY <2>1, <2>2 DEF KInv, KPut, KCov, World
  <2>. QED BY <2>1, <2>2, <2>3
<1>4. CASE LateAccept
  <2>1. PICK m \in late : Accepts(m) /\ hist' = Append(hist, m.blob) /\ late' = late \ {m}
    BY <1>4 DEF LateAccept
  <2>2. m.blob \in DB /\ m.base = Len(hist)
    <3>1. m.blob \in DB
      BY DEF TypeOK, Puts
    <3>2. m.base \in 0..Len(hist)
      BY <1>1 DEF Inv, LateCov
    <3>. QED BY <2>1, <3>1, <3>2 DEF Accepts, NoBase
  <2>3. KDom(m.blob, hist[Len(hist)], gone) /\ Honest(m.blob, K, nedits)
    BY <2>2 DEF KInv, KCov, World
  <2>4. db' = db /\ gone' = gone /\ lastSynced' = lastSynced
    BY <1>4 DEF LateAccept, obsVars
  <2>. QED BY <2>1, <2>2, <2>3, <2>4
<1>5. ASSUME NEW w \in Workers, WorkerStep(w), ~ServerAccept(w) PROVE Goal
  BY <1>2, <1>5 DEF WorkerStep, Isolate, BootSync, InitialMerge, StartPeriodicSync,
     UploadStart, UploadRetry, UploadSend, ForceSend, ServerReject, UploadDone,
     DownloadStatus, HandleStatus, ServerGet, DownloadMerge, netVars
<1>6. ASSUME NEW w \in Workers, UserCommand(w) PROVE Goal
  BY <1>2, <1>6 DEF UserCommand, WriteFile, DeleteFile, MoveFile, netVars
<1>7. ASSUME NEW w \in Workers, OpenSession(w) \/ CloseSession(w) PROVE Goal
  BY <1>2, <1>7 DEF OpenSession, CloseSession, netVars
<1>8. ASSUME NEW w \in Workers, Fail(w) PROVE Goal
  BY <1>8 DEF Fail
<1>9. ASSUME NEW d \in Devices, RestartDaemon(d) PROVE Goal
  BY <1>9 DEF RestartDaemon
<1>10. CASE Elapse \/ UNCHANGED vars
  BY <1>2, <1>10 DEF Elapse, vars, netVars
<1>. QED
  BY <1>3, <1>4, <1>5, <1>6, <1>7, <1>8, <1>9, <1>10 DEF Next

\* A mv out of a file every device has from the start gives it up; none
\* goes into one, for a row is there.
LEMMA MovesStep ==
    ASSUME TypeOK, SyncInv, KInv, [Next]_vars, NEW m \in moved', m[2] \in Seeded
    PROVE  m[2] \in gone'
<1>1. CASE m \in moved
  <2>1. m[2] \in gone
    BY <1>1 DEF KInv
  <2>. QED BY <2>1, HistStep
<1>2. CASE m \notin moved
  <2>1. ASSUME NEW w \in Workers, NEW p \in Files, NEW q \in Files, MoveFile(w, p, q)
        PROVE  m[2] \in gone'
    <3>1. m = <<p, q>> /\ ~Exists(db[Dev(w)][q]) /\ gone \subseteq gone'
      BY <1>2, <2>1 DEF MoveFile
    <3>2. Dev(w) \in Devices
      BY WorkerTypes
    <3>3. q \in gone
      BY <3>1, <3>2 DEF KInv, Built, Exists
    <3>. QED BY <3>1, <3>3
  <2>2. ASSUME NEW w \in Workers, WorkerStep(w) PROVE moved' = moved
    BY <2>2 DEF WorkerStep, Isolate, BootSync, InitialMerge, StartPeriodicSync, UploadStart,
       UploadRetry, UploadSend, ForceSend, ServerAccept, ServerReject, UploadDone, DownloadStatus,
       HandleStatus, ServerGet, DownloadMerge, obsVars
  <2>3. ASSUME NEW w \in Workers,
               (\E p \in Files : WriteFile(w, p) \/ DeleteFile(w, p))
                  \/ OpenSession(w) \/ CloseSession(w) \/ Fail(w)
        PROVE  moved' = moved
    BY <2>3 DEF WriteFile, DeleteFile, OpenSession, CloseSession, Fail, obsVars
  <2>4. CASE (\E d \in Devices : RestartDaemon(d)) \/ LateAccept \/ Elapse \/ UNCHANGED vars
    BY <1>2, <2>4 DEF RestartDaemon, LateAccept, Elapse, vars, obsVars
  <2>5. ASSUME NEW w \in Workers, UserCommand(w) PROVE m[2] \in gone'
    BY <1>2, <2>1, <2>3, <2>5 DEF UserCommand
  <2>. QED BY <1>2, <2>2, <2>3, <2>4, <2>5 DEF Next
<1>. QED BY <1>1, <1>2
\* The whole of it is kept by every step.
LEMMA KStep ==
    ASSUME TypeOK, SyncInv, KInv, UploadsTell, EditsTell, [Next]_vars, QuietUser
    PROVE  KInv'
<1>1. PICK K : World(db, hist, late, pc, put, K, nedits)
  BY DEF EditsTell
<1> DEFINE last == hist[Len(hist)]
<1>2. Inv(db, hist, lastSynced, late, pc, put, sv, fv, gone)
  BY InvNow
<1>3. /\ hist \in Seq(DB) /\ Len(hist) \in Nat /\ Len(hist) \in 1..Len(hist)
      /\ nedits \in Nat /\ lastSynced \in [Clients -> Nat]
      /\ \A k \in 1..Len(hist) : hist[k] \in DB
      /\ gone \subseteq gone'
  BY SMTT(30), <1>2, HistStep DEF Inv, TypeOK
<1>4. /\ Ordered(K, nedits)
      /\ \A k \in 1..Len(hist) : Honest(hist[k], K, nedits)
      /\ \A w \in Workers : Dev(w) \in Devices
      /\ \A c \in Clients : c[1] \in Devices
  BY <1>1, WorkerTypes DEF World, Clients
<1>5. \A p \in Seeded : p \in Paths /\ p \in Files
  BY PathsAssumption DEF Paths
<1>6. Chain(hist, gone) /\ KDom(last, last, gone)
  BY <1>3 DEF KInv, Chain
<1>7. \A p \in Seeded \ gone' : \A k \in 1..Len(hist) :
         Made(hist[k][p], K, nedits) /\ Knows(last[p], hist[k][p])
  BY <1>3, <1>4, <1>5, <1>6, MadeRow DEF Chain, KDom
<1>8. \A d \in Devices : \A p \in Seeded \ gone' : Built(hist, p, db'[d][p])
  BY <1>1, Advance
<1>9. ASSUME NEW d \in Devices, NEW t \in DB, Honest(t, K, nedits),
             KDom(t, last, gone), KDom(db[d], t, gone)
      PROVE  KDom(db'[d], t, gone')
  <2> SUFFICES ASSUME NEW p \in Seeded \ gone'
               PROVE  Exists(t[p]) /\ Exists(db'[d][p]) /\ Knows(db'[d][p], t[p])
    BY DEF KDom
  <2>1. Exists(t[p]) /\ Knows(t[p], last[p]) /\ Knows(db[d][p], t[p])
    BY <1>3, <1>9 DEF KDom
  <2>2. Made(t[p], K, nedits)
    BY <1>3, <1>5, <1>9, <2>1, MadeRow
  <2>3. Knows(db'[d][p], t[p])
    BY <1>1, <2>1, <2>2, Advance
  <2>4. Exists(db'[d][p])
    BY <1>8 DEF Built, Exists
  <2>. QED BY <2>1, <2>3, <2>4
<1>10. ASSUME NEW d \in Devices, KDom(db[d], last, gone) PROVE KDom(db'[d], last, gone')
  <2>1. last \in DB /\ Honest(last, K, nedits)
    BY <1>3, <1>4
  <2>. QED BY <1>6, <1>9, <1>10, <2>1
<1>11. \A m \in moved' : m[2] \in Seeded => m[2] \in gone'
  BY MovesStep
<1>12. \A t, v : KCov(t, v, hist, gone) => KCov(t, v, hist, gone')
  BY <1>3 DEF KCov, KDom
<1>13. \A m \in late' : \/ m \in late
                        \/ \E w \in Workers : pc[w] = "put" /\ m = put[w]
  BY <1>1, AcceptStep
<1>14. CASE hist' = hist
  <2>1. Chain(hist, gone')
    BY <1>3, <1>6 DEF Chain, KDom
  <2>2. ASSUME NEW c \in Clients PROVE KCov(db'[c[1]], lastSynced'[c], hist, gone')
    <3> SUFFICES ASSUME lastSynced'[c] = Len(hist) PROVE KDom(db'[c[1]], last, gone')
      BY DEF KCov
    <3>1. CASE lastSynced'[c] \in {lastSynced[c], 0}
      <4>1. lastSynced[c] = Len(hist)
        BY <1>3, <3>1
      <4>. QED BY <1>4, <1>10, <4>1 DEF KInv, KCov
    <3>2. CASE \E w \in Workers : /\ c[1] = Dev(w) /\ pc[w] = "accepted"
                                  /\ lastSynced'[c] = sv[w]
      BY <1>4, <1>10, <3>2 DEF KInv, KCov
    <3>3. CASE \E w \in Workers :
                 /\ fv[w] \in 1..Len(hist)
                 /\ lastSynced'[c] <= fv[w]
                 /\ \A p \in Files \ gone' :
                       db'[c[1]][p] = MergeRecord(db[c[1]][p], hist[fv[w]][p])
      <4>1. \A p \in Files \ gone' : db'[c[1]][p] = MergeRecord(db[c[1]][p], last[p])
        BY <1>3, <3>3
      <4>2. ASSUME NEW p \in Seeded \ gone'
            PROVE  Exists(db'[c[1]][p]) /\ Knows(db'[c[1]][p], last[p])
        <5> DEFINE l == db[c[1]][p]
        <5>1. p \in Seeded \ gone /\ Built(hist, p, l)
          BY <1>3, <1>4 DEF KInv
        <5>2. Made(l, K, nedits)
          BY <1>1, <1>3, <1>4, <1>5, <5>1, MadeRow DEF World, TypeOK, Built, Exists
        <5> HIDE DEF l
        <5>3. Knows(MergeRecord(l, last[p]), last[p])
          BY <1>3, <1>4, <1>6, <5>1, <5>2, MergeKnows
        <5>4. db'[c[1]][p] = MergeRecord(l, last[p])
          BY <1>5, <4>1 DEF l
        <5>5. Exists(db'[c[1]][p])
          BY <1>4, <1>8 DEF Built, Exists
        <5>. QED BY <5>3, <5>4, <5>5
      <4>. QED BY <1>6, <1>3, <4>2 DEF KDom
    <3>. QED BY <3>1, <3>2, <3>3, ClientStep
  <2>3. ASSUME NEW m \in late' PROVE KCov(m.blob, m.base, hist, gone')
    BY <1>12, <1>13 DEF KInv, KPut
  <2>4. ASSUME NEW w \in Workers, pc'[w] = "put" PROVE KPut(w, db', hist, pc', put', gone')
    <3>1. CASE pc[w] = "put" /\ put'[w] = put[w]
      <4>1. KCov(put[w].blob, put[w].base, hist, gone')
        BY <1>12, <3>1 DEF KInv, KPut
      <4>2. ASSUME put[w].base = Len(hist) PROVE KDom(db'[Dev(w)], put[w].blob, gone')
        <5>1. put[w].blob \in DB /\ Honest(put[w].blob, K, nedits)
          BY <1>1, <1>2, <3>1 DEF World, Inv, PutCov, Puts
        <5>2. KDom(put[w].blob, last, gone) /\ KDom(db[Dev(w)], put[w].blob, gone)
          BY <3>1, <4>2 DEF KInv, KPut, KCov
        <5>. QED BY <1>4, <1>9, <5>1, <5>2
      <4>. QED BY <3>1, <4>1, <4>2 DEF KPut
    <3>2. CASE put'[w].blob = db[Dev(w)] /\ db' = db /\ put'[w].base = lastSynced[Client(w)]
      <4>1. KCov(db[Dev(w)], lastSynced[Client(w)], hist, gone)
        BY WorkerTypes DEF KInv
      <4>2. KDom(db[Dev(w)], db[Dev(w)], gone')
        BY <1>4, <1>8, <3>2 DEF KDom, Knows, Built, Exists
      <4>. QED BY <1>12, <3>2, <4>1, <4>2 DEF KPut
    <3>. QED BY <2>4, <3>1, <3>2, PutStep
  <2>5. ASSUME NEW w \in Workers, pc'[w] = "accepted"
        PROVE  KCov(db'[Dev(w)], sv'[w], hist, gone')
    <3>1. pc[w] = "accepted" /\ sv'[w] = sv[w]
      <4>1. \A b : Len(Append(hist, b)) = Len(hist) + 1
        BY <1>3
      <4>2. \A b : hist' # Append(hist, b)
        BY <1>3, <1>14, <4>1
      <4>. QED BY <2>5, <4>2, PutStep
    <3>. QED BY <1>4, <1>10, <3>1 DEF KInv, KCov
  <2>6. \A w \in Workers : KPut(w, db', hist, pc', put', gone')
    BY <2>4 DEF KPut
  <2>. QED BY <1>8, <1>11, <1>14, <2>1, <2>2, <2>3, <2>5, <2>6 DEF KInv
<1>15. CASE \E b \in DB :
              /\ hist' = Append(hist, b) /\ gone' = gone /\ db' = db
              /\ lastSynced' = lastSynced
              /\ KDom(b, last, gone) /\ Honest(b, K, nedits)
  <2>1. PICK b \in DB :
              /\ hist' = Append(hist, b) /\ gone' = gone /\ db' = db
              /\ lastSynced' = lastSynced
              /\ KDom(b, last, gone) /\ Honest(b, K, nedits)
    BY <1>15
  <2>2. /\ Len(hist') = Len(hist) + 1 /\ hist'[Len(hist) + 1] = b
        /\ \A k \in 1..Len(hist) : hist'[k] = hist[k]
    BY <1>3, <2>1
  <2>3. ASSUME NEW k \in 1..Len(hist) PROVE KDom(b, hist[k], gone)
    <3> SUFFICES ASSUME NEW p \in Seeded \ gone
                 PROVE  Exists(hist[k][p]) /\ Exists(b[p]) /\ Knows(b[p], hist[k][p])
      BY DEF KDom
    <3>1. Exists(b[p]) /\ Knows(b[p], last[p]) /\ Exists(hist[k][p])
      BY <1>3, <1>6, <2>1 DEF KDom, Chain
    <3>2. Made(b[p], K, nedits)
      BY <1>3, <1>5, <2>1, <3>1, MadeRow
    <3>3. Knows(b[p], hist[k][p])
      BY <1>3, <1>4, <1>7, <2>1, <3>1, <3>2, KnowsTrans
    <3>. QED BY <3>1, <3>3
  <2>4. KDom(b, b, gone)
    BY <2>1 DEF KDom, Knows
  <2>5. Chain(hist', gone')
    <3> SUFFICES ASSUME NEW j \in 1..Len(hist'), NEW k \in 1..Len(hist'), j <= k
                 PROVE  KDom(hist'[k], hist'[j], gone)
      BY <2>1 DEF Chain
    <3>1. CASE k \in 1..Len(hist)
      BY <1>3, <1>6, <2>2, <3>1 DEF Chain
    <3>2. CASE k = Len(hist) + 1
      BY <1>3, <2>2, <2>3, <2>4, <3>2
    <3>. QED BY <1>3, <2>2, <3>1, <3>2
  <2>6. ASSUME NEW d \in Devices, NEW p \in Seeded \ gone' PROVE Built(hist', p, db'[d][p])
    <3>1. Built(hist, p, db'[d][p])
      BY <1>8
    <3>2. 1..Len(hist) \subseteq 1..Len(hist')
      BY <1>3, <2>2
    <3>. QED BY <2>2, <3>1, <3>2 DEF Built, Had
  <2>7. \A t, v : v \in 0..Len(hist) => KCov(t, v, hist', gone')
    BY <1>3, <2>2 DEF KCov
  <2>8. ASSUME NEW c \in Clients PROVE KCov(db'[c[1]], lastSynced'[c], hist', gone')
    BY <1>2, <1>3, <2>1, <2>7 DEF Inv, ClientsCov
  <2>9. ASSUME NEW m \in late' PROVE KCov(m.blob, m.base, hist', gone')
    <3>1. m.base \in 0..Len(hist)
      BY <1>2, <1>13 DEF Inv, LateCov, PutCov
    <3>. QED BY <2>7, <3>1
  <2>10. ASSUME NEW w \in Workers, pc'[w] = "put" PROVE KPut(w, db', hist', pc', put', gone')
    <3>1. pc[w] = "put" /\ put'[w] = put[w]
      <4>1. hist' # hist
        BY <1>3, <2>2
      <4>. QED BY <2>10, <4>1, PutStep
    <3>2. put[w].base \in 0..Len(hist)
      BY <1>2, <3>1 DEF Inv, PutCov
    <3>. QED BY <1>3, <2>2, <2>7, <3>1, <3>2 DEF KPut
  <2>11. ASSUME NEW w \in Workers, pc'[w] = "accepted"
         PROVE  KCov(db'[Dev(w)], sv'[w], hist', gone')
    <3>1. CASE pc[w] = "accepted" /\ sv'[w] = sv[w]
      <4>1. sv[w] \in 0..Len(hist)
        BY <1>2, <1>3, <3>1 DEF Inv, AnswerCov
      <4>. QED BY <2>7, <3>1, <4>1
    <3>2. CASE pc[w] = "put" /\ put[w].base = Len(hist) /\ hist' = Append(hist, put[w].blob)
      <4>1. KDom(db[Dev(w)], put[w].blob, gone)
        BY <3>2 DEF KInv, KPut
      <4>2. b = put[w].blob
        <5>1. Append(hist, put[w].blob)[Len(hist) + 1] = put[w].blob
          BY <1>3
        <5>. QED BY <2>2, <3>2, <5>1
      <4>. QED BY <2>1, <2>2, <4>1, <4>2 DEF KCov
    <3>3. hist' # hist
      BY <1>3, <2>2
    <3>. QED BY <2>11, <3>1, <3>2, <3>3, PutStep
  <2>12. \A w \in Workers : KPut(w, db', hist', pc', put', gone')
    BY <2>10 DEF KPut
  <2>. QED BY <1>11, <2>5, <2>6, <2>8, <2>9, <2>11, <2>12 DEF KInv
<1>. QED BY <1>1, <1>14, <1>15, AcceptStep

\* At first every device has what the server has.
LEMMA KInit == Init => KInv
<1>1. SUFFICES ASSUME Init PROVE KInv
  OBVIOUS
<1>2. /\ hist = <<Seed>> /\ late = {} /\ moved = {}
      /\ \A d \in Devices : db[d] = Seed
      /\ \A c \in Clients : lastSynced[c] = 0
  BY <1>1 DEF Init, InitClients
<1>3. \A w \in Workers : pc[w] \notin {"put", "accepted"}
  BY <1>1, Places DEF Init, InitClients
<1>4. Len(hist) = 1 /\ hist[1] = Seed
  BY <1>2
<1>5. \A p \in Seeded : Seed[p] = SeedRec /\ Exists(Seed[p])
  <2>1. SeedRec # NoRec
    <3>1. 0 \in EditIds
      BY BoundsAssumption DEF EditIds
    <3>2. SeedRec \in Rec
      BY <3>1 DEF SeedRec, Rec, Statuses
    <3>. QED BY <3>2, NoRecAssumption
  <2>. QED BY <2>1, PathsAssumption DEF Seed, Paths, Exists
<1>6. KDom(Seed, Seed, gone)
  BY <1>5 DEF KDom, Knows
<1>7. ASSUME NEW p \in Seeded PROVE Built(hist, p, Seed[p])
  BY <1>4, <1>5 DEF Built, Had, Exists, SeedRec
<1>. QED BY <1>2, <1>3, <1>4, <1>6, <1>7 DEF KInv, Chain, KCov, KPut

\* For a user who waits for his uploads: no upload takes the result of an
\* edit away from the server, in a file every device has from the start,
\* unless its author had seen it.
THEOREM QuietUpdatesKept ==
    ASSUME QuietUser
    PROVE  Spec => []NoLostUpdate
<1>1. Init => UploadsTell
  BY UploadsInit
<1>2. TypeOK /\ SyncInv /\ UploadsTell /\ [Next]_vars => UploadsTell'
  BY UploadsStep
<1>3. TypeOK /\ SyncInv /\ EditsTell /\ [Next]_vars => EditsTell'
  BY EditsStep
<1>4. TypeOK /\ SyncInv /\ UploadsTell /\ EditsTell /\ KInv /\ [Next]_vars => KInv'
  BY KStep
<1>5. TypeOK /\ KInv => NoLostUpdate
  <2>1. SUFFICES ASSUME TypeOK, KInv, NEW k \in 1..(Len(hist) - 1), NEW p \in Seeded \ gone
                 PROVE  LET a == hist[k][p]
                            b == hist[k + 1][p]
                        IN  Exists(a) /\ Exists(b) => b.edit = a.edit \/ a.edit \in b.past
    BY DEF NoLostUpdate
  <2>2. k \in 1..Len(hist) /\ k + 1 \in 1..Len(hist) /\ k <= k + 1
    BY <2>1 DEF TypeOK
  <2>3. KDom(hist[k + 1], hist[k], gone)
    BY <2>1, <2>2 DEF KInv, Chain
  <2>. QED BY <2>3 DEF KDom, Knows
<1>. QED
  BY <1>1, <1>2, <1>3, <1>4, <1>5, KInit, EditsInit, TypeCorrect, SyncInvHolds, PTL DEF Spec
=============================================================================
