------------------------- MODULE RemoteRequestProofs -------------------------
(***************************************************************************)
(* What a call to another device may rely on, for any number of callers,   *)
(* files, request ids and failures.                                        *)
(***************************************************************************)
EXTENDS RemoteRequest, TLAPS

\* A request of c that it waits for no more can still be executed.
Left(c) == \E s \in stray : s.c = c

\* Executions of the call's operation that were, and that the stray request adds.
Spent(c) == call[c].execs + IF Left(c) THEN 1 ELSE 0

\* Executed, and what a read returns is among what the call has seen.
Backed(c, a) ==
    a.st = "ok" =>
        /\ call[c].execs > 0
        /\ call[c].req.op \notin Changes => a.data \in call[c].seen

\* While it asks for the route, the operation has not been executed; while the
\* direct request is under way, just if the peer has answered.
DirectInv(c) ==
    /\ call[c].stage = "route" => call[c].execs = 0
    /\ call[c].stage = "direct" =>
        /\ call[c].execs = IF direct[c].st \in {"ok", "missing"} THEN 1 ELSE 0
        /\ Backed(c, direct[c])
    /\ call[c].stage # "direct" => direct[c] = NoAnswer("none")
    /\ call[c].stage \in {"idle", "route", "direct"} => ~Left(c)

\* Until the relay worker has taken the request it has not added to that.
RelayInv(c) ==
    /\ call[c].stage = "post" => Spent(c) <= 1
    /\ call[c].stage = "await" =>
        LET i == call[c].id IN
        /\ i \in Ids
        /\ Spent(c) <= IF box[i].st = "queued" THEN 1 ELSE 2
        /\ box[i].st = "queued" => box[i].req = call[c].req
        /\ box[i].st = "done" => Backed(c, box[i].res)
        /\ work # Idle /\ work.id = i => Backed(c, work.res)

CallInv == \A c \in Callers : DirectInv(c) /\ RelayInv(c)

\* A call leaves one request behind at most, and waits for a response that
\* nobody else waits for.
Alone ==
    /\ \A s, t \in stray : s.c = t.c /\ s.c # Nobody => s = t
    /\ \A c, d \in Callers, i \in Ids : Awaits(c, i) /\ Awaits(d, i) => c = d
    /\ work # Idle => box[work.id] = Taken

RemoteInv == TypeOK /\ Alone /\ CallInv

-----------------------------------------------------------------------------
\* A call is idle or has the fields of a call.
LEMMA CallShape ==
    ASSUME TypeOK, NEW c \in Callers
    PROVE  /\ call[c] = Idle \/ call[c] \in Call
           /\ call[c] = Idle <=> call[c].stage = "idle"
           /\ call[c] \in Call <=> call[c].stage \in {"route", "direct", "post", "await"}
<1>1. call[c] = Idle \/ call[c] \in Call
  BY DEF TypeOK
<1>2. call[c] \in Call => call[c].stage \in {"route", "direct", "post", "await"}
  BY DEF Call
<1>3. Idle.stage = "idle"
  BY DEF Idle
<1> QED BY <1>1, <1>2, <1>3

\* What a call has spent counts its executions and the request still on
\* its way.
LEMMA SpentType ==
    ASSUME TypeOK, NEW c \in Callers, call[c] # Idle
    PROVE  Spent(c) \in Nat /\ call[c].execs \in Nat /\ call[c].execs <= Spent(c)
           /\ (~Left(c) => Spent(c) = call[c].execs)
           /\ (Left(c) => Spent(c) = call[c].execs + 1)
<1>1. call[c].execs \in 0..3
  BY CallShape DEF Call
<1> QED BY <1>1 DEF Spent

\* What an operation answers and makes of the peer's directory.
LEMMA ExecutedType ==
    ASSUME TypeOK, NEW r \in Req
    PROVE  /\ Executed(r).store \in Store
           /\ Executed(r).ans \in Answer
           /\ Executed(r).ans.st \in {"ok", "missing"}
           /\ r.op \notin Changes => /\ Executed(r).store = store
                                     /\ Executed(r).ans.data \in Shown(r, store)
<1>1. /\ r.op \in AllOps /\ r.file \in Files /\ r.val \in Contents
      /\ r.op = "write" => r.val \in Values
  BY DEF Req, AllOps, Contents
<1>2. store \in Store /\ store.disk \in [Files -> Contents] /\ store.dir \in BOOLEAN
      /\ Absent \in Contents
  BY DEF TypeOK, Store, Contents
<1> USE DEF Result, Answer, Status, Store, Shown, Changes
<1>3. CASE r.op = "read"
  BY <1>1, <1>2, <1>3 DEF Executed, OpRead
<1>4. CASE r.op = "exists"
  BY <1>1, <1>2, <1>4 DEF Executed, OpExists
<1>5. CASE r.op = "list"
  BY <1>1, <1>2, <1>5 DEF Executed, OpList
<1>6. CASE r.op = "write"
  BY <1>1, <1>2, <1>6 DEF Executed, OpWrite, Contents
<1>7. CASE r.op = "delete"
  <2>1. Executed(r) = OpDelete(r.file)
    BY <1>7 DEF Executed
  <2>2. [store EXCEPT !.disk[r.file] = Absent] \in Store
    BY <1>1, <1>2
  <2> QED BY <1>1, <1>2, <1>7, <2>1, <2>2 DEF OpDelete
<1>8. CASE r.op = "mkdir"
  <2>1. Executed(r) = OpMkdir
    BY <1>8 DEF Executed
  <2>2. [store EXCEPT !.dir = TRUE] \in Store
    BY <1>2
  <2> QED BY <1>1, <1>2, <1>8, <2>1, <2>2 DEF OpMkdir
<1>9. CASE r.op = "rmdir"
  <2>1. Executed(r) = OpRmdir
    BY <1>9 DEF Executed
  <2> QED BY <1>1, <1>2, <1>9, <2>1 DEF OpRmdir
<1> QED BY <1>1, <1>3, <1>4, <1>5, <1>6, <1>7, <1>8, <1>9 DEF AllOps

\* When a directory is seen, the calls under way are as they were but for that.
LEMMA ObservedFields ==
    ASSUME TypeOK, NEW c, NEW s, NEW d \in Callers
    PROVE  /\ call[d] = Idle => Observed(c, s)[d] = Idle
           /\ call[d] # Idle =>
                /\ Observed(c, s)[d].stage = call[d].stage
                /\ Observed(c, s)[d].req = call[d].req
                /\ Observed(c, s)[d].id = call[d].id
                /\ Observed(c, s)[d].seen = call[d].seen \cup Shown(call[d].req, s)
                /\ Observed(c, s)[d].execs = IF d = c THEN call[d].execs + 1 ELSE call[d].execs
<1>1. call[d] = Idle => Observed(c, s)[d] = Idle
  BY DEF Observed
<1>2. ASSUME call[d] # Idle
      PROVE  LET r == Observed(c, s)[d] IN
             /\ r.stage = call[d].stage /\ r.req = call[d].req /\ r.id = call[d].id
             /\ r.seen = call[d].seen \cup Shown(call[d].req, s)
             /\ r.execs = IF d = c THEN call[d].execs + 1 ELSE call[d].execs
  <2>1. call[d] \in Call
    BY <1>2, CallShape
  <2>2. Observed(c, s)[d] =
          [call[d] EXCEPT !.seen = @ \cup Shown(call[d].req, s),
                          !.execs = IF d = c THEN @ + 1 ELSE @]
    BY <1>2 DEF Observed
  <2> QED BY <2>1, <2>2 DEF Call
<1> QED BY <1>1, <1>2

\* What an answer tells a caller keeps the shape of its call.
LEMMA ObservedType ==
    ASSUME TypeOK, NEW c, NEW s \in Store,
           c \in Callers /\ call[c] # Idle => call[c].execs <= 2
    PROVE  Observed(c, s) \in [Callers -> {Idle} \cup Call]
<1> SUFFICES ASSUME NEW d \in Callers
             PROVE  Observed(c, s)[d] \in {Idle} \cup Call
  BY DEF Observed
<1>1. CASE call[d] = Idle
  BY <1>1 DEF Observed
<1>2. CASE call[d] # Idle
  <2>1. call[d] \in Call /\ call[d].req.file \in Files /\ call[d].execs \in 0..3
    BY <1>2, CallShape DEF Call, Req
  <2> DEFINE S == Shown(call[d].req, s)
             e == IF d = c THEN call[d].execs + 1 ELSE call[d].execs
  <2>2. S \subseteq Contents
    BY <2>1 DEF Shown, Store
  <2>3. e \in 0..3
    BY <1>2, <2>1
  <2>4. Observed(c, s)[d] = [call[d] EXCEPT !.seen = @ \cup S, !.execs = e]
    BY <1>2 DEF Observed
  <2> HIDE DEF S, e
  <2>5. [call[d] EXCEPT !.seen = @ \cup S, !.execs = e] \in Call
    BY <2>1, <2>2, <2>3 DEF Call
  <2> QED BY <2>4, <2>5
<1> QED BY <1>1, <1>2

\* A caller's part of the invariant holds on when its call goes on as it was, has
\* seen more, and its relayed request is taken or forgotten.
LEMMA CallerKeeps ==
    ASSUME TypeOK, NEW c \in Callers, DirectInv(c), RelayInv(c),
           call'[c].stage = call[c].stage, call'[c].id = call[c].id,
           call'[c].req = call[c].req, call'[c].execs = call[c].execs,
           call[c] # Idle => call[c].seen \subseteq call'[c].seen,
           direct'[c] = direct[c], Left(c)' => Left(c),
           call[c].stage = "await" =>
             \/ box'[call[c].id] = box[call[c].id]
             \/ box'[call[c].id].st \in {"free", "taken"},
           call[c].stage = "await" =>
             work' = work \/ work' = Idle \/ work'.id # call[c].id
    PROVE  DirectInv(c)' /\ RelayInv(c)'
<1>1. ASSUME NEW a, Backed(c, a), call[c] # Idle PROVE Backed(c, a)'
  BY <1>1 DEF Backed
<1>2. DirectInv(c)'
  <2>1. call[c].stage = "direct" => Backed(c, direct[c])'
    BY <1>1, CallShape DEF DirectInv
  <2>2. call'[c].stage = "direct" => Backed(c, direct[c])'
    BY <2>1
  <2> QED BY <2>1 DEF DirectInv, Backed
<1>3. CASE call[c].stage = "post"
  <2>1. Spent(c) \in Nat /\ Spent(c)' \in Nat /\ Spent(c)' <= Spent(c)
    BY <1>3, CallShape, SpentType DEF Spent
  <2>2. Spent(c) <= 1
    BY <1>3 DEF RelayInv
  <2>3. Spent(c)' <= 1
    BY <2>1, <2>2
  <2> QED BY <1>2, <1>3, <2>3 DEF RelayInv
<1>4. CASE call[c].stage = "await"
  <2> DEFINE i == call[c].id
  <2>1. Spent(c) \in Nat /\ Spent(c)' <= Spent(c) /\ Spent(c)' \in Nat
    BY <1>4, CallShape, SpentType DEF Spent
  <2>2. call[c] # Idle
    BY <1>4, CallShape
  <2>3. /\ i \in Ids
        /\ Spent(c) <= IF box[i].st = "queued" THEN 1 ELSE 2
        /\ box[i].st = "queued" => box[i].req = call[c].req
        /\ box[i].st = "done" => Backed(c, box[i].res)
        /\ work # Idle /\ work.id = i => Backed(c, work.res)
    BY <1>4 DEF RelayInv
  <2>4. Spent(c)' <= IF box'[i].st = "queued" THEN 1 ELSE 2
    BY <1>4, <2>1, <2>3
  <2>5. box'[i].st = "queued" => box'[i].req = call[c].req
    BY <1>4, <2>3
  <2>6. box'[i].st = "done" => box'[i] = box[i] /\ Backed(c, box[i].res)'
    BY <1>1, <1>4, <2>2, <2>3
  <2>7. work' # Idle /\ work'.id = i => work' = work /\ Backed(c, work.res)'
    BY <1>1, <1>4, <2>2, <2>3
  <2> QED
    <3>1. call'[c].id = call[c].id /\ call'[c].stage = "await" /\ call'[c].req = call[c].req
      BY <1>4
    <3>2. box'[call'[c].id].st = "done" => Backed(c, box[call[c].id].res)'
      BY <2>6, <3>1
    <3>3. work' # Idle /\ work'.id = call'[c].id => Backed(c, work.res)'
      BY <2>7, <3>1
    <3>4. RelayInv(c)'
      BY <2>3, <2>4, <2>5, <3>1, <3>2, <3>3 DEF RelayInv
    <3> QED BY <1>2, <3>4
<1>5. CASE call[c].stage \notin {"post", "await"}
  BY <1>2, <1>5 DEF RelayInv
<1> QED BY <1>2, <1>3, <1>4, <1>5

\* A step that needs a fault still has one left.
LEMMA FaultType ==
    ASSUME TypeOK, Fault \/ NoFault
    PROVE  nfaults' \in 0..MaxFaults
  BY RemoteConstants DEF TypeOK, Fault, NoFault

\* Nothing comes to what callers wait for.
LEMMA AloneKeeps ==
    ASSUME Alone, \A d \in Callers, i \in Ids : Awaits(d, i)' => Awaits(d, i),
           stray' \subseteq stray, work' # Idle => box'[work'.id] = Taken
    PROVE  Alone'
  BY DEF Alone

\* Fields of the calls when one of them ends or goes to another stage.
LEMMA OneCall ==
    ASSUME TypeOK, NEW c \in Callers, NEW q, call' = [call EXCEPT ![c] = q]
    PROVE  call'[c] = q /\ \A d \in Callers \ {c} : call'[d] = call[d]
  BY DEF TypeOK

\* A call that returns leaves what is still under way to nobody.
LEMMA ReleasedStrays ==
    ASSUME TypeOK, Alone, NEW c \in Callers, NEW S, stray' = Released(S, c),
           \A s \in S : \/ s \in stray
                        \/ s.c = c /\ s \in [n : 0..MaxFaults, req : Req, c : Callers]
    PROVE  /\ stray' \subseteq [n : 0..MaxFaults, req : Req, c : Callers \cup {Nobody}]
           /\ \A s, t \in stray' : s.c = t.c /\ s.c # Nobody => s = t
           /\ ~Left(c)' /\ \A d \in Callers : Left(d)' => Left(d)
<1>1. stray \subseteq [n : 0..MaxFaults, req : Req, c : Callers \cup {Nobody}]
  BY DEF TypeOK
<1>2. \A t \in stray' : \E s \in S : t = [s EXCEPT !.c = IF @ = c THEN Nobody ELSE @]
  BY DEF Released
<1>3. ASSUME NEW t \in stray'
      PROVE  /\ t \in [n : 0..MaxFaults, req : Req, c : Callers \cup {Nobody}]
             /\ t.c # c
             /\ t.c # Nobody => t \in stray
  <2>1. PICK s \in S : t = [s EXCEPT !.c = IF @ = c THEN Nobody ELSE @]
    BY <1>2, <1>3
  <2>2. Nobody # c
    BY RemoteConstants
  <2>3. s \in [n : 0..MaxFaults, req : Req, c : Callers \cup {Nobody}]
    BY <1>1
  <2>4. CASE s.c = c
    BY <2>1, <2>2, <2>3, <2>4
  <2>5. CASE s.c # c
    <3>1. t = s
      BY <2>1, <2>3, <2>5
    <3> QED BY <2>3, <2>5, <3>1
  <2> QED BY <2>4, <2>5
<1>4. \A s, t \in stray' : s.c = t.c /\ s.c # Nobody => s = t
  BY <1>3 DEF Alone
<1>5. \A d \in Callers : Left(d)' => Left(d)
  BY <1>3, RemoteConstants DEF Left
<1>6. ~Left(c)'
  BY <1>3 DEF Left
<1> QED BY <1>3, <1>4, <1>5, <1>6

\* A call returns; others do not notice.
LEMMA ReturnKeeps ==
    ASSUME RemoteInv, NEW c \in Callers, NEW o, NEW S,
           call' = [call EXCEPT ![c] = Idle], out' = [out EXCEPT ![c] = o],
           direct' = [direct EXCEPT ![c] = NoAnswer("none")], stray' = Released(S, c),
           \A s \in S : \/ s \in stray
                        \/ s.c = c /\ s \in [n : 0..MaxFaults, req : Req, c : Callers],
           o \in [st : {"none", "ok", "answered", "fail"}, data : Contents],
           UNCHANGED <<mix, peerVars, relay>>, nfaults' \in 0..MaxFaults,
           proxy' \in [Callers -> [active : BOOLEAN, fresh : BOOLEAN, recent : BOOLEAN]],
           box' \in [Ids -> {Free} \cup {Taken} \cup [st : {"queued"}, req : Req]
                                   \cup [st : {"done"}, res : Answer]],
           \A i \in Ids : \/ box'[i] = box[i]
                          \/ box[i].st # "taken"
                             /\ \A d \in Callers \ {c} : ~Awaits(d, i)
    PROVE  RemoteInv'
<1>1. TypeOK /\ Alone /\ CallInv
  BY DEF RemoteInv
<1>2. UNCHANGED <<store, up, reach, routed, work>>
  BY DEF peerVars
<1>3. call'[c] = Idle /\ \A d \in Callers \ {c} : call'[d] = call[d]
  BY <1>1, <1>2, OneCall
<1>4. direct'[c] = NoAnswer("none") /\ \A d \in Callers \ {c} : direct'[d] = direct[d]
  BY <1>1, <1>2 DEF TypeOK
<1>5. Idle.stage = "idle"
  BY DEF Idle
<1>6. TypeOK'
  <2>1. call' \in [Callers -> {Idle} \cup Call]
    BY <1>1, <1>2 DEF TypeOK
  <2>2. direct' \in [Callers -> Answer \cup {NoAnswer(s) : s \in {"none", "sent", "lost"}}]
    BY <1>1, <1>2 DEF TypeOK
  <2>3. out' \in [Callers -> [st : {"none", "ok", "answered", "fail"}, data : Contents]]
    BY <1>1, <1>2 DEF TypeOK
  <2> QED BY <1>1, <1>2, <2>1, <2>2, <2>3, ReleasedStrays DEF TypeOK
<1>7. \A d \in Callers, i \in Ids : Awaits(d, i)' => Awaits(d, i)
  BY <1>3, <1>5 DEF Awaits
<1>8. Alone'
  <2>1. \A s, t \in stray' : s.c = t.c /\ s.c # Nobody => s = t
    BY <1>1, <1>2, ReleasedStrays
  <2>2. work' # Idle => box'[work'.id] = Taken
    <3>1. work # Idle => work.id \in Ids /\ box[work.id] = Taken
      BY <1>1 DEF TypeOK, Alone
    <3>2. Taken.st = "taken"
      BY DEF Taken
    <3> QED BY <1>2, <3>1, <3>2
  <2> QED BY <1>1, <1>7, <2>1, <2>2 DEF Alone
<1>9. ASSUME NEW d \in Callers PROVE DirectInv(d)' /\ RelayInv(d)'
  <2>1. CASE d = c
    <3>1. ~Left(c)'
      BY <1>1, <1>2, ReleasedStrays
    <3> QED BY <1>3, <1>4, <1>5, <2>1, <3>1 DEF DirectInv, RelayInv
  <2>2. CASE d # c
    <3>1. DirectInv(d) /\ RelayInv(d)
      BY <1>1 DEF CallInv
    <3>2. call'[d] = call[d] /\ direct'[d] = direct[d] /\ (Left(d)' => Left(d))
      BY <1>1, <1>2, <1>3, <1>4, <2>2, ReleasedStrays
    <3>3. call[d].stage = "await" => box'[call[d].id] = box[call[d].id]
      BY <2>2, <3>1 DEF RelayInv, Awaits
    <3> QED BY <1>1, <1>2, <3>1, <3>2, <3>3, CallerKeeps
  <2> QED BY <2>1, <2>2
<1> QED BY <1>6, <1>8, <1>9 DEF RemoteInv, CallInv

\* A step in which no call makes progress: what they wait for may be lost, and
\* they see the directory.
LEMMA OthersKeep ==
    ASSUME RemoteInv, TypeOK',
           \A d \in Callers :
             /\ call'[d].stage = call[d].stage /\ call'[d].id = call[d].id
             /\ call'[d].req = call[d].req /\ call'[d].execs = call[d].execs
             /\ call[d] # Idle => call[d].seen \subseteq call'[d].seen,
           UNCHANGED direct, stray' \subseteq stray,
           \A i \in Ids : box'[i] = box[i] \/ box'[i].st \in {"free", "taken"},
           work' = Idle \/ (work' = work /\ box'[work.id] = box[work.id])
    PROVE  RemoteInv'
<1>1. TypeOK /\ Alone /\ CallInv
  BY DEF RemoteInv
<1>2. \A d \in Callers, i \in Ids : Awaits(d, i)' => Awaits(d, i)
  BY DEF Awaits
<1>3. work' # Idle => box'[work'.id] = Taken
  BY <1>1 DEF Alone
<1>4. Alone'
  BY <1>1, <1>2, <1>3, AloneKeeps
<1>5. ASSUME NEW d \in Callers PROVE DirectInv(d)' /\ RelayInv(d)'
  <2>1. DirectInv(d) /\ RelayInv(d)
    BY <1>1 DEF CallInv
  <2>2. call[d].stage = "await" => call[d].id \in Ids
    BY <2>1 DEF RelayInv
  <2>3. Left(d)' => Left(d)
    BY DEF Left
  <2> QED BY <1>1, <2>1, <2>2, <2>3, CallerKeeps
<1> QED BY <1>4, <1>5 DEF RemoteInv, CallInv

\* A step of one call: the others do not notice.
LEMMA MoverKeeps ==
    ASSUME RemoteInv, TypeOK', NEW c \in Callers,
           \A d \in Callers \ {c} : /\ call'[d] = call[d] /\ direct'[d] = direct[d]
                                    /\ Left(d)' => Left(d),
           \A s, t \in stray' : s.c = t.c /\ s.c # Nobody => s = t,
           UNCHANGED work,
           \A i \in Ids : \/ box'[i] = box[i]
                          \/ box[i].st # "taken"
                             /\ \A d \in Callers \ {c} : ~Awaits(d, i),
           \A i \in Ids : Awaits(c, i)' => \A d \in Callers \ {c} : ~Awaits(d, i),
           DirectInv(c)', RelayInv(c)'
    PROVE  RemoteInv'
<1>1. TypeOK /\ Alone /\ CallInv
  BY DEF RemoteInv
<1>2. \A d \in Callers \ {c}, i \in Ids : Awaits(d, i)' <=> Awaits(d, i)
  BY DEF Awaits
<1>3. \A d, e \in Callers, i \in Ids : Awaits(d, i)' /\ Awaits(e, i)' => d = e
  BY <1>1, <1>2 DEF Alone
<1>4. work' # Idle => box'[work'.id] = Taken
  <2>1. work # Idle => work.id \in Ids /\ box[work.id] = Taken
    BY <1>1 DEF TypeOK, Alone
  <2>2. Taken.st = "taken"
    BY DEF Taken
  <2> QED BY <2>1, <2>2
<1>5. ASSUME NEW d \in Callers \ {c} PROVE DirectInv(d)' /\ RelayInv(d)'
  <2>1. DirectInv(d) /\ RelayInv(d)
    BY <1>1 DEF CallInv
  <2>2. call[d].stage = "await" => box'[call[d].id] = box[call[d].id]
    BY <2>1 DEF RelayInv, Awaits
  <2> QED BY <1>1, <2>1, <2>2, CallerKeeps
<1> QED BY <1>3, <1>4, <1>5 DEF RemoteInv, CallInv, Alone

-----------------------------------------------------------------------------
\* A new call has run nowhere yet.
LEMMA NewCallType ==
    ASSUME TypeOK, NEW r \in Req, NEW s \in {"route", "direct"}
    PROVE  /\ NewCall(s, r) \in Call /\ NewCall(s, r).stage = s
           /\ NewCall(s, r).execs = 0 /\ NewCall(s, r).req = r
<1>1. Shown(r, store) \subseteq Contents
  BY DEF TypeOK, Store, Shown, Req
<1> QED BY <1>1 DEF NewCall, Call

\* An answer without content.
LEMMA NoAnswerShape ==
    \A s : NoAnswer(s).st = s /\ NoAnswer(s).data = Absent
  BY DEF NoAnswer

\* What a caller knows of the route keeps its shape.
Proxies == [active : BOOLEAN, fresh : BOOLEAN, recent : BOOLEAN]

\* What a caller learns of the route keeps that shape.
LEMMA ProxyType ==
    ASSUME TypeOK, NEW c \in Callers, NEW q,
           \/ q = [proxy[c] EXCEPT !.recent = TRUE] \/ q = [proxy[c] EXCEPT !.recent = FALSE]
           \/ q = [proxy[c] EXCEPT !.fresh = TRUE]
           \/ q = [proxy[c] EXCEPT !.active = TRUE, !.fresh = TRUE]
    PROVE  [proxy EXCEPT ![c] = q] \in [Callers -> Proxies]
<1>1. proxy[c] \in Proxies /\ proxy \in [Callers -> Proxies]
  BY DEF TypeOK, Proxies
<1>2. q \in Proxies
  BY <1>1 DEF Proxies
<1> QED BY <1>1, <1>2

\* A caller begins a call of its own.
LEMMA StartStep ==
    ASSUME RemoteInv, NEW c \in Callers, NEW r \in Req, Start(c, r)
    PROVE  RemoteInv'
<1>1. TypeOK /\ Alone /\ CallInv
  BY DEF RemoteInv
<1>2. call[c] = Idle /\ call[c].stage = "idle"
  BY <1>1, CallShape DEF Start
<1>3. UNCHANGED <<mix, store, up, reach, routed, work, relay, stray, box, nfaults>>
  BY DEF Start, peerVars
<1>4. \A d \in Callers : Left(d)' <=> Left(d)
  BY <1>3 DEF Left
<1>5. ~Left(c)
  BY <1>1, <1>2 DEF CallInv, DirectInv
<1>6. Failure \in [st : {"none", "ok", "answered", "fail"}, data : Contents]
      /\ NoAnswer("none") \in [st : {"none", "ok", "answered", "fail"}, data : Contents]
  BY DEF Failure, NoAnswer, Contents
<1>7. proxy' \in [Callers -> [active : BOOLEAN, fresh : BOOLEAN, recent : BOOLEAN]]
  <2>1. proxy' = proxy \/ proxy' = [proxy EXCEPT ![c].recent = TRUE]
    BY DEF Start
  <2> DEFINE q == [proxy[c] EXCEPT !.recent = TRUE]
  <2>2. [proxy EXCEPT ![c] = q] \in [Callers -> Proxies]
    BY <1>1, ProxyType
  <2>3. proxy' = proxy \/ proxy' = [proxy EXCEPT ![c] = q]
    BY <2>1
  <2> HIDE DEF q
  <2> QED BY <1>1, <2>2, <2>3 DEF TypeOK, Proxies
<1>8. ASSUME NEW s \in {"route", "direct"}, call' = [call EXCEPT ![c] = NewCall(s, r)],
             out' = [out EXCEPT ![c] = NoAnswer("none")],
             direct' = IF s = "route" THEN direct
                       ELSE [direct EXCEPT ![c] = NoAnswer("sent")]
      PROVE  RemoteInv'
  <2>1. /\ call'[c] = NewCall(s, r)
        /\ \A d \in Callers \ {c} : call'[d] = call[d] /\ direct'[d] = direct[d]
    BY <1>1, <1>8 DEF TypeOK
  <2>2. direct'[c] = NoAnswer(IF s = "route" THEN "none" ELSE "sent")
    BY <1>1, <1>2, <1>8 DEF TypeOK, CallInv, DirectInv
  <2>3. TypeOK'
    <3>1. call' \in [Callers -> {Idle} \cup Call]
      BY <1>1, <1>8, NewCallType DEF TypeOK
    <3>2. direct' \in [Callers -> Answer \cup {NoAnswer(t) : t \in {"none", "sent", "lost"}}]
      BY <1>1, <1>8 DEF TypeOK
    <3>3. out' \in [Callers -> [st : {"none", "ok", "answered", "fail"}, data : Contents]]
      BY <1>1, <1>6, <1>8 DEF TypeOK
    <3> QED BY <1>1, <1>3, <1>7, <3>1, <3>2, <3>3 DEF TypeOK
  <2>4. DirectInv(c)' /\ RelayInv(c)'
    BY <1>1, <1>4, <1>5, <2>1, <2>2, NewCallType, NoAnswerShape
       DEF DirectInv, RelayInv, Backed
  <2>5. \A i \in Ids : ~Awaits(c, i)'
    BY <1>1, <2>1, NewCallType DEF Awaits
  <2> QED BY <1>1, <1>3, <1>4, <2>1, <2>3, <2>4, <2>5, MoverKeeps DEF Alone
<1>9. CASE UNCHANGED <<proxy, call, direct>> /\ out' = [out EXCEPT ![c] = Failure]
  <2>1. out' \in [Callers -> [st : {"none", "ok", "answered", "fail"}, data : Contents]]
    BY <1>1, <1>6, <1>9 DEF TypeOK
  <2>2. TypeOK'
    BY <1>1, <1>3, <1>9, <2>1 DEF TypeOK
  <2> QED BY <1>3, <1>9, <2>2, OthersKeep
<1> QED BY <1>8, <1>9 DEF Start

\* A caller learns the route from the server.
LEMMA RouteStep ==
    ASSUME RemoteInv, NEW c \in Callers, Route(c)
    PROVE  RemoteInv'
<1>1. TypeOK /\ Alone /\ CallInv
  BY DEF RemoteInv
<1>2. call[c].stage = "route" /\ call[c] \in Call
  BY <1>1, CallShape DEF Route
<1>3. UNCHANGED <<mix, store, up, reach, routed, work, relay, box>>
  BY DEF Route, peerVars
<1>4. proxy' \in [Callers -> [active : BOOLEAN, fresh : BOOLEAN, recent : BOOLEAN]]
      /\ nfaults' \in 0..MaxFaults
  <2>1. \/ proxy' = proxy
        \/ proxy' = [proxy EXCEPT ![c].active = TRUE, ![c].fresh = TRUE]
        \/ proxy' = [proxy EXCEPT ![c].fresh = TRUE]
    BY DEF Route
  <2> DEFINE q == [proxy[c] EXCEPT !.active = TRUE, !.fresh = TRUE]
             r == [proxy[c] EXCEPT !.fresh = TRUE]
  <2>2. /\ [proxy EXCEPT ![c] = q] \in [Callers -> Proxies]
        /\ [proxy EXCEPT ![c] = r] \in [Callers -> Proxies]
    BY <1>1, ProxyType
  <2>5. [proxy EXCEPT ![c].active = TRUE, ![c].fresh = TRUE] = [proxy EXCEPT ![c] = q]
    BY <1>1 DEF TypeOK
  <2>6. proxy' = proxy \/ proxy' = [proxy EXCEPT ![c] = q] \/ proxy' = [proxy EXCEPT ![c] = r]
    BY <2>1, <2>5
  <2> HIDE DEF q, r
  <2>3. proxy' \in [Callers -> [active : BOOLEAN, fresh : BOOLEAN, recent : BOOLEAN]]
    BY <1>1, <2>2, <2>6 DEF TypeOK, Proxies
  <2>4. Fault \/ NoFault
    BY DEF Route
  <2> QED BY <1>1, <2>3, <2>4, FaultType
<1>5. CASE /\ call' = [call EXCEPT ![c].stage = "direct"]
           /\ direct' = [direct EXCEPT ![c] = NoAnswer("sent")]
           /\ UNCHANGED <<stray, out>>
  <2>1. /\ call'[c] = [call[c] EXCEPT !.stage = "direct"]
        /\ direct'[c] = NoAnswer("sent")
        /\ \A d \in Callers \ {c} : call'[d] = call[d] /\ direct'[d] = direct[d]
    BY <1>1, <1>5 DEF TypeOK
  <2>2. call'[c] \in Call /\ call'[c].stage = "direct" /\ call'[c].execs = call[c].execs
    BY <1>2, <2>1 DEF Call
  <2>3. TypeOK'
    <3>1. call' \in [Callers -> {Idle} \cup Call]
      BY <1>1, <1>5, <2>1, <2>2 DEF TypeOK
    <3>2. direct' \in [Callers -> Answer \cup {NoAnswer(t) : t \in {"none", "sent", "lost"}}]
      BY <1>1, <1>5 DEF TypeOK
    <3> QED BY <1>1, <1>3, <1>4, <1>5, <3>1, <3>2 DEF TypeOK
  <2>4. \A d \in Callers : Left(d)' <=> Left(d)
    BY <1>5 DEF Left
  <2>5. call[c].execs = 0 /\ ~Left(c)
    BY <1>1, <1>2 DEF CallInv, DirectInv
  <2>6. DirectInv(c)' /\ RelayInv(c)'
    BY <2>1, <2>2, <2>4, <2>5, NoAnswerShape DEF DirectInv, RelayInv, Backed
  <2>7. \A i \in Ids : ~Awaits(c, i)'
    BY <2>2 DEF Awaits
  <2> QED BY <1>1, <1>3, <1>5, <2>1, <2>3, <2>4, <2>6, <2>7, MoverKeeps DEF Alone
<1>6. CASE Return(c, Failure)
  <2>1. Failure \in [st : {"none", "ok", "answered", "fail"}, data : Contents]
    BY DEF Failure, NoAnswer, Contents
  <2> QED BY <1>1, <1>3, <1>4, <1>6, <2>1, ReturnKeeps DEF Return, TypeOK, peerVars
<1> QED BY <1>5, <1>6 DEF Route

\* Nor do a refresh interval that passes, a device that comes up and its
\* heartbeat.
LEMMA QuietStep ==
    ASSUME RemoteInv,
           \/ \E c \in Callers : IntervalPasses(c)
           \/ GoUp \/ Heartbeat \/ UNCHANGED vars
    PROVE  RemoteInv'
<1>1. TypeOK
  BY DEF RemoteInv
<1>2. UNCHANGED <<mix, store, work, relay, call, direct, stray, box, out, nfaults>>
  BY DEF IntervalPasses, GoUp, Heartbeat, vars, peerVars
<1>3. up' \in BOOLEAN /\ reach' \in BOOLEAN /\ routed' \in BOOLEAN
  BY <1>1 DEF IntervalPasses, GoUp, Heartbeat, vars, peerVars, TypeOK
<1>4. proxy' \in [Callers -> [active : BOOLEAN, fresh : BOOLEAN, recent : BOOLEAN]]
  <2>1. CASE GoUp
    <3>1. PICK moved \in BOOLEAN :
            proxy' = [c \in Callers |-> [proxy[c] EXCEPT !.fresh = @ /\ ~moved]]
      BY <2>1 DEF GoUp
    <3>2. ASSUME NEW q \in Proxies PROVE [q EXCEPT !.fresh = @ /\ ~moved] \in Proxies
      BY DEF Proxies
    <3>3. \A c \in Callers : proxy[c] \in Proxies
      BY <1>1 DEF TypeOK, Proxies
    <3>4. proxy' \in [Callers -> Proxies]
      BY <3>1, <3>2, <3>3
    <3> QED BY <3>4 DEF Proxies
  <2>2. ASSUME NEW c \in Callers, IntervalPasses(c)
        PROVE  proxy' \in [Callers -> [active : BOOLEAN, fresh : BOOLEAN, recent : BOOLEAN]]
    BY ZenonT(40), <1>1, <2>2 DEF IntervalPasses, TypeOK
  <2>3. CASE Heartbeat \/ UNCHANGED vars
    BY <1>1, <2>3 DEF Heartbeat, vars, TypeOK
  <2> QED BY <2>1, <2>2, <2>3
<1>5. TypeOK'
  BY <1>1, <1>2, <1>3, <1>4 DEF TypeOK
<1> QED BY <1>2, <1>5, OthersKeep

\* A step in which c returns with a failure and nothing else happens.
LEMMA FailureKeeps ==
    ASSUME RemoteInv, NEW c \in Callers, Return(c, Failure), nfaults' \in 0..MaxFaults,
           UNCHANGED <<mix, peerVars, relay, proxy, box>>
    PROVE  RemoteInv'
<1>1. TypeOK
  BY DEF RemoteInv
<1>2. Failure \in [st : {"none", "ok", "answered", "fail"}, data : Contents]
  BY DEF Failure, NoAnswer, Contents
<1> QED BY <1>1, <1>2, ReturnKeeps DEF Return, TypeOK

\* A relay that refuses the token ends the call.
LEMMA AuthFailsStep ==
    ASSUME RemoteInv, NEW c \in Callers, AuthFails(c)
    PROVE  RemoteInv'
  BY FailureKeeps, FaultType DEF AuthFails, RemoteInv

\* So does a relayed answer that does not come in time.
LEMMA RelayTimeoutStep ==
    ASSUME RemoteInv, NEW c \in Callers, RelayTimeout(c)
    PROVE  RemoteInv'
  BY FailureKeeps, FaultType DEF RelayTimeout, RemoteInv

\* The reply of an answer keeps its shape.
LEMMA ReplyType ==
    ASSUME NEW a \in Answer
    PROVE  Reply(a) \in [st : {"none", "ok", "answered", "fail"}, data : Contents]
  BY DEF Reply, Answer, Status, Failure, NoAnswer, Contents

\* The direct request of a call, whatever it was, counts at most once more.
LEMMA DirectFailsStep ==
    ASSUME RemoteInv, NEW c \in Callers, DirectFails(c)
    PROVE  RemoteInv'
<1>1. TypeOK /\ Alone /\ CallInv
  BY DEF RemoteInv
<1>2. call[c].stage = "direct" /\ call[c] \in Call /\ call[c] # Idle
  BY <1>1, CallShape DEF DirectFails
<1>3. UNCHANGED <<mix, store, up, reach, routed, work, relay, proxy, box>>
  BY DEF DirectFails, peerVars
<1>4. nfaults' \in 0..MaxFaults
  BY <1>1, FaultType DEF DirectFails
<1>5. /\ ~Left(c) /\ call[c].execs \in 0..1
      /\ call[c].execs = IF direct[c].st \in {"ok", "missing"} THEN 1 ELSE 0
  BY <1>1, <1>2 DEF CallInv, DirectInv
<1> DEFINE e == [n |-> nfaults, req |-> call[c].req, c |-> c]
           left == stray \cup {e}
<1>6. e \in [n : 0..MaxFaults, req : Req, c : Callers] /\ e.c = c
  BY <1>1, <1>2 DEF TypeOK, Call
<1>7. PICK S \in {stray, left} :
        /\ S = left => direct[c].st = "sent"
        /\ \/ /\ stray' = S
              /\ direct' = [direct EXCEPT ![c] = NoAnswer("none")]
              /\ call' = [call EXCEPT ![c].stage = "post"]
              /\ out' = out
           \/ /\ call' = [call EXCEPT ![c] = Idle]
              /\ out' = [out EXCEPT ![c] = Failure]
              /\ direct' = [direct EXCEPT ![c] = NoAnswer("none")]
              /\ stray' = Released(S, c)
  <2>1. stray # left
    BY <1>5, <1>6 DEF Left
  <2> QED BY <2>1 DEF DirectFails
<1> HIDE DEF e
<1>8. CASE /\ call' = [call EXCEPT ![c] = Idle]
           /\ out' = [out EXCEPT ![c] = Failure]
           /\ direct' = [direct EXCEPT ![c] = NoAnswer("none")]
           /\ stray' = Released(S, c)
  <2>1. Failure \in [st : {"none", "ok", "answered", "fail"}, data : Contents]
    BY DEF Failure, NoAnswer, Contents
  <2>2. \A s \in S : \/ s \in stray
                     \/ s.c = c /\ s \in [n : 0..MaxFaults, req : Req, c : Callers]
    <3>1. \A s \in S : s \in stray \/ s = e
      BY <1>7
    <3> QED BY <1>6, <3>1
  <2> QED BY <1>1, <1>3, <1>4, <1>8, <2>1, <2>2, ReturnKeeps DEF TypeOK, peerVars
<1>9. CASE /\ stray' = S
           /\ direct' = [direct EXCEPT ![c] = NoAnswer("none")]
           /\ call' = [call EXCEPT ![c].stage = "post"]
           /\ out' = out
  <2>1. /\ call'[c] = [call[c] EXCEPT !.stage = "post"]
        /\ direct'[c] = NoAnswer("none")
        /\ \A d \in Callers \ {c} : call'[d] = call[d] /\ direct'[d] = direct[d]
    BY <1>1, <1>9 DEF TypeOK
  <2>2. call'[c] \in Call /\ call'[c].stage = "post" /\ call'[c].execs = call[c].execs
    BY <1>2, <2>1 DEF Call
  <2>3. TypeOK'
    <3>1. call' \in [Callers -> {Idle} \cup Call]
      BY <1>1, <1>9, <2>1, <2>2 DEF TypeOK
    <3>2. direct' \in [Callers -> Answer \cup {NoAnswer(t) : t \in {"none", "sent", "lost"}}]
      BY <1>1, <1>9 DEF TypeOK
    <3>3. stray' \subseteq [n : 0..MaxFaults, req : Req, c : Callers \cup {Nobody}]
      BY <1>1, <1>6, <1>9 DEF TypeOK
    <3> QED BY <1>1, <1>3, <1>4, <1>9, <3>1, <3>2, <3>3 DEF TypeOK
  <2>4. \A d \in Callers \ {c} : Left(d)' => Left(d)
    BY <1>6, <1>9 DEF Left
  <2>5. \A s, t \in stray' : s.c = t.c /\ s.c # Nobody => s = t
    BY <1>1, <1>5, <1>6, <1>9 DEF Alone, Left
  <2>6. Spent(c)' <= 1
    <3>1. CASE S = stray
      <4>1. ~Left(c)'
        BY <1>5, <1>9, <3>1 DEF Left
      <4> QED BY <1>5, <2>2, <4>1 DEF Spent
    <3>2. CASE S = left
      <4>1. call'[c].execs = 0
        BY <1>5, <1>7, <2>2, <3>2
      <4> QED BY <4>1 DEF Spent
    <3> QED BY <3>1, <3>2
  <2>7. DirectInv(c)' /\ RelayInv(c)'
    BY <2>1, <2>2, <2>6 DEF DirectInv, RelayInv
  <2>8. \A i \in Ids : ~Awaits(c, i)'
    BY <2>2 DEF Awaits
  <2> QED BY <1>1, <1>3, <2>1, <2>3, <2>4, <2>5, <2>7, <2>8, MoverKeeps
<1> QED BY <1>7, <1>8, <1>9

\* A direct answer is taken by the call that waits for it.
LEMMA DirectAnswerStep ==
    ASSUME RemoteInv, NEW c \in Callers, DirectAnswer(c)
    PROVE  RemoteInv'
<1>1. TypeOK /\ Alone /\ CallInv
  BY DEF RemoteInv
<1>2. call[c].stage = "direct" /\ call[c] \in Call /\ call[c] # Idle
  BY <1>1, CallShape DEF DirectAnswer
<1>3. UNCHANGED <<mix, store, up, reach, routed, work, relay, proxy, box, nfaults>>
  BY DEF DirectAnswer, peerVars
<1>4. ~Left(c) /\ call[c].execs = IF direct[c].st \in {"ok", "missing"} THEN 1 ELSE 0
  BY <1>1, <1>2 DEF CallInv, DirectInv
<1>5. CASE /\ direct[c].st = "401"
           /\ call' = [call EXCEPT ![c].retry = FALSE]
           /\ direct' = [direct EXCEPT ![c] = NoAnswer("sent")]
           /\ UNCHANGED <<stray, out>>
  <2>1. /\ call'[c] = [call[c] EXCEPT !.retry = FALSE]
        /\ direct'[c] = NoAnswer("sent")
        /\ \A d \in Callers \ {c} : call'[d] = call[d] /\ direct'[d] = direct[d]
    BY <1>1, <1>5 DEF TypeOK
  <2>2. call'[c] \in Call /\ call'[c].stage = "direct" /\ call'[c].execs = call[c].execs
    BY <1>2, <2>1 DEF Call
  <2>3. TypeOK'
    <3>1. call' \in [Callers -> {Idle} \cup Call]
      BY <1>1, <1>5, <2>1, <2>2 DEF TypeOK
    <3>2. direct' \in [Callers -> Answer \cup {NoAnswer(t) : t \in {"none", "sent", "lost"}}]
      BY <1>1, <1>5 DEF TypeOK
    <3> QED BY <1>1, <1>3, <1>5, <3>1, <3>2 DEF TypeOK
  <2>4. \A d \in Callers : Left(d)' <=> Left(d)
    BY <1>5 DEF Left
  <2>5. DirectInv(c)' /\ RelayInv(c)'
    BY <1>4, <1>5, <2>1, <2>2, <2>4, NoAnswerShape DEF DirectInv, RelayInv, Backed
  <2>6. \A i \in Ids : ~Awaits(c, i)'
    BY <2>2 DEF Awaits
  <2> QED BY <1>1, <1>3, <1>5, <2>1, <2>3, <2>4, <2>5, <2>6, MoverKeeps DEF Alone
<1>6. CASE Return(c, Reply(direct[c]))
  <2>1. direct[c] \in Answer
    <3>1. direct[c] \in Answer \/ direct[c] \in {NoAnswer(t) : t \in {"none", "sent", "lost"}}
      BY <1>1 DEF TypeOK
    <3> QED BY <3>1, NoAnswerShape DEF DirectAnswer, Status
  <2> QED BY <1>1, <1>3, <1>6, <2>1, ReplyType, ReturnKeeps DEF Return, TypeOK, peerVars
<1> QED BY <1>5, <1>6 DEF DirectAnswer

\* A request id that nobody waits for.
LEMMA AwaitedByNobody ==
    ASSUME NEW i, AwaitedBy(i) = Nobody
    PROVE  \A d \in Callers : ~Awaits(d, i)
  BY RemoteConstants DEF AwaitedBy

\* A relayed request gets an id nobody waits for.
LEMMA RelayPostStep ==
    ASSUME RemoteInv, NEW c \in Callers, RelayPost(c)
    PROVE  RemoteInv'
<1>1. TypeOK /\ Alone /\ CallInv
  BY DEF RemoteInv
<1>2. call[c].stage = "post" /\ call[c] \in Call /\ call[c] # Idle
  BY <1>1, CallShape DEF RelayPost
<1>3. UNCHANGED <<mix, store, up, reach, routed, work, relay, proxy>>
  BY DEF RelayPost, peerVars
<1>4. nfaults' \in 0..MaxFaults
  BY <1>1, FaultType DEF RelayPost
<1> DEFINE Boxes == [Ids -> {Free} \cup {Taken} \cup [st : {"queued"}, req : Req]
                                  \cup [st : {"done"}, res : Answer]]
           q == [st |-> "queued", req |-> call[c].req]
<1>5. q \in [st : {"queued"}, req : Req] /\ Free.st = "free" /\ Taken.st = "taken"
  BY <1>2 DEF Call, Free, Taken
<1>6. ASSUME NEW i \in Ids, box[i] = Free, AwaitedBy(i) = Nobody,
             box' = [box EXCEPT ![i] = q]
      PROVE  /\ box' \in Boxes /\ box'[i] = q
             /\ \A k \in Ids : \/ box'[k] = box[k]
                               \/ box[k].st # "taken" /\ k = i
                                  /\ \A d \in Callers : ~Awaits(d, k)
  BY <1>1, <1>5, <1>6, AwaitedByNobody DEF TypeOK
<1>7. ASSUME NEW i \in Ids, box[i] = Free, AwaitedBy(i) = Nobody,
             box' = [box EXCEPT ![i] = q],
             call' = [call EXCEPT ![c].stage = "await", ![c].id = i],
             UNCHANGED <<direct, stray, out>>
      PROVE  RemoteInv'
  <2>1. /\ call'[c] = [call[c] EXCEPT !.stage = "await", !.id = i]
        /\ \A d \in Callers \ {c} : call'[d] = call[d] /\ direct'[d] = direct[d]
    BY <1>1, <1>7 DEF TypeOK
  <2>2. /\ call'[c] \in Call /\ call'[c].stage = "await" /\ call'[c].id = i
        /\ call'[c].execs = call[c].execs /\ call'[c].req = call[c].req
    <3>1. ASSUME NEW r \in Call
          PROVE  LET t == [r EXCEPT !.stage = "await", !.id = i] IN
                 /\ t \in Call /\ t.stage = "await" /\ t.id = i
                 /\ t.execs = r.execs /\ t.req = r.req
      BY DEF Call
    <3> QED BY ZenonT(40), <1>2, <2>1, <3>1
  <2>3. TypeOK'
    <3>1. call' \in [Callers -> {Idle} \cup Call]
      <4>1. call' = [call EXCEPT ![c] = call'[c]]
        BY <1>1, <1>7, <2>1 DEF TypeOK
      <4> QED BY <1>1, <2>2, <4>1 DEF TypeOK
    <3> QED BY <1>1, <1>3, <1>4, <1>6, <1>7, <3>1 DEF TypeOK
  <2>4. \A d \in Callers : Left(d)' <=> Left(d)
    BY <1>7 DEF Left
  <2>5. Spent(c)' <= 1
    <3>1. Spent(c) <= 1
      BY <1>1, <1>2 DEF CallInv, RelayInv
    <3> QED BY <2>2, <2>4, <3>1 DEF Spent
  <2>6. box'[i].st = "queued" /\ box'[i].req = call[c].req
    BY <1>6, <1>7
  <2>7. ~(work' # Idle /\ work'.id = i)
    <3>1. work # Idle => box[work.id] = Taken
      BY <1>1 DEF Alone
    <3> QED BY <1>3, <1>5, <1>7, <3>1
  <2>8. direct'[c] = NoAnswer("none")
    BY <1>1, <1>2, <1>7 DEF CallInv, DirectInv
  <2>9. DirectInv(c)' /\ RelayInv(c)'
    BY <1>7, <2>2, <2>5, <2>6, <2>7, <2>8 DEF DirectInv, RelayInv
  <2>10. \A k \in Ids : Awaits(c, k)' => \A d \in Callers \ {c} : ~Awaits(d, k)
    BY <1>7, <2>2, AwaitedByNobody DEF Awaits
  <2> QED BY <1>1, <1>3, <1>6, <1>7, <2>1, <2>3, <2>4, <2>9, <2>10, MoverKeeps DEF Alone
<1>8. ASSUME Return(c, Failure), box' = box \/ (\E i \in Ids : /\ box[i] = Free
                                                           /\ AwaitedBy(i) = Nobody
                                                           /\ box' = [box EXCEPT ![i] = q])
      PROVE  RemoteInv'
  <2>1. Failure \in [st : {"none", "ok", "answered", "fail"}, data : Contents]
    BY DEF Failure, NoAnswer, Contents
  <2>2. box' \in Boxes /\ \A k \in Ids : \/ box'[k] = box[k]
                                         \/ box[k].st # "taken"
                                            /\ \A d \in Callers : ~Awaits(d, k)
    BY <1>1, <1>6, <1>8 DEF TypeOK
  <2>3. proxy' \in [Callers -> [active : BOOLEAN, fresh : BOOLEAN, recent : BOOLEAN]]
    BY <1>1, <1>3 DEF TypeOK
  <2> HIDE DEF q
  <2> QED BY <1>3, <1>4, <1>8, <2>1, <2>2, <2>3, ReturnKeeps DEF Return, peerVars
<1> QED BY <1>7, <1>8 DEF RelayPost

\* A relayed answer is taken by the call with its id.
LEMMA RelayAnswerStep ==
    ASSUME RemoteInv, NEW c \in Callers, RelayAnswer(c)
    PROVE  RemoteInv'
<1>1. TypeOK /\ Alone /\ CallInv
  BY DEF RemoteInv
<1>2. PICK i \in Ids : /\ box[i].st = "done" /\ i = call[c].id
                       /\ Return(c, Reply(box[i].res))
                       /\ box' = [box EXCEPT ![i] = Free]
  BY DEF RelayAnswer, ResponseFor
<1>3. box[i].res \in Answer
  BY <1>1, <1>2 DEF TypeOK, Free, Taken
<1>4. \A d \in Callers \ {c} : ~Awaits(d, i)
  BY <1>1, <1>2 DEF Alone, Awaits, RelayAnswer
<1>5. \A k \in Ids : \/ box'[k] = box[k]
                     \/ box[k].st # "taken" /\ \A d \in Callers \ {c} : ~Awaits(d, k)
  BY <1>1, <1>2, <1>4 DEF TypeOK
<1>6. /\ box' \in [Ids -> {Free} \cup {Taken} \cup [st : {"queued"}, req : Req]
                                   \cup [st : {"done"}, res : Answer]]
      /\ proxy' \in [Callers -> [active : BOOLEAN, fresh : BOOLEAN, recent : BOOLEAN]]
      /\ nfaults' \in 0..MaxFaults
  BY <1>1, <1>2 DEF TypeOK, RelayAnswer
<1>7. UNCHANGED <<mix, peerVars, relay>>
  BY DEF RelayAnswer
<1> QED BY <1>2, <1>3, <1>5, <1>6, <1>7, ReplyType, ReturnKeeps DEF Return

-----------------------------------------------------------------------------
\* An executed request shows what a read of it returns to whoever sees the
\* directory.
LEMMA ExecutedBacks ==
    ASSUME TypeOK, NEW c \in Callers, NEW r \in Req, call[c].req = r, call[c] # Idle,
           call' = Observed(c, Executed(r).store), call[c].execs \in Nat,
           NEW a, a = Executed(r).ans
    PROVE  Backed(c, a)' /\ call'[c].execs = call[c].execs + 1
<1>1. /\ call'[c].execs = call[c].execs + 1 /\ call'[c].req = r
      /\ call'[c].seen = call[c].seen \cup Shown(r, Executed(r).store)
  BY ObservedFields
<1>2. r.op \notin Changes => a.data \in Shown(r, Executed(r).store)
  BY ExecutedType
<1> QED BY <1>1, <1>2 DEF Backed

\* What others see when the directory changes.
LEMMA ObservedOthers ==
    ASSUME TypeOK, NEW c, NEW s, NEW d \in Callers, d # c, call' = Observed(c, s)
    PROVE  /\ call'[d].stage = call[d].stage /\ call'[d].id = call[d].id
           /\ call'[d].req = call[d].req /\ call'[d].execs = call[d].execs
           /\ call[d] # Idle => call[d].seen \subseteq call'[d].seen
  BY ObservedFields

\* Nobody changes stage or id when the directory is seen.
LEMMA ObservedAwaits ==
    ASSUME TypeOK, NEW c, NEW s, call' = Observed(c, s)
    PROVE  \A d \in Callers : /\ call'[d].stage = call[d].stage /\ call'[d].id = call[d].id
                              /\ \A i \in Ids : Awaits(d, i)' <=> Awaits(d, i)
  BY ObservedFields DEF Awaits

\* The owner runs a direct request once.
LEMMA HandleDirectStep ==
    ASSUME RemoteInv, NEW c \in Callers, HandleDirect(c)
    PROVE  RemoteInv'
<1>1. TypeOK /\ Alone /\ CallInv
  BY DEF RemoteInv
<1>2. /\ call[c].stage = "direct" /\ call[c] \in Call /\ call[c] # Idle
      /\ call[c].req \in Req /\ direct[c].st = "sent"
  BY <1>1, CallShape DEF HandleDirect, Call
<1>3. UNCHANGED <<mix, up, reach, routed, work, relay, proxy, stray, box, out>>
  BY DEF HandleDirect
<1>4. nfaults' \in 0..MaxFaults
  BY <1>1, FaultType DEF HandleDirect
<1>5. ~Left(c) /\ call[c].execs = 0
  BY <1>1, <1>2 DEF CallInv, DirectInv
<1>6. \A d \in Callers : Left(d)' <=> Left(d)
  BY <1>3 DEF Left
<1> DEFINE x == Executed(call[c].req)
<1>7. CASE /\ store' = x.store
           /\ direct' = [direct EXCEPT ![c] = x.ans]
           /\ call' = Observed(c, x.store)
  <2>1. x.store \in Store /\ x.ans \in Answer /\ x.ans.st \in {"ok", "missing"}
    BY <1>1, <1>2, ExecutedType
  <2>9. PICK a : a = x.ans
    OBVIOUS
  <2>2. Backed(c, a)' /\ call'[c].execs = 1
    BY <1>1, <1>2, <1>5, <1>7, <2>9, ExecutedBacks
  <2> HIDE DEF x
  <2>3. direct'[c] = a /\ \A d \in Callers \ {c} : direct'[d] = direct[d]
    BY <1>1, <1>7, <2>9 DEF TypeOK
  <2>4. TypeOK'
    <3>1. call' \in [Callers -> {Idle} \cup Call]
      BY <1>1, <1>5, <1>7, <2>1, ObservedType
    <3>2. direct' \in [Callers -> Answer \cup {NoAnswer(t) : t \in {"none", "sent", "lost"}}]
      BY <1>1, <1>7, <2>1 DEF TypeOK
    <3> QED BY <1>1, <1>3, <1>4, <1>7, <2>1, <3>1, <3>2 DEF TypeOK
  <2>5. /\ \A d \in Callers : call'[d].stage = call[d].stage
        /\ \A d \in Callers, i \in Ids : Awaits(d, i)' <=> Awaits(d, i)
    BY <1>1, <1>7, ObservedAwaits
  <2>6. Alone'
    BY <1>1, <1>3, <2>5, AloneKeeps DEF Alone
  <2>7. DirectInv(c)' /\ RelayInv(c)'
    BY <1>2, <1>5, <1>6, <2>1, <2>2, <2>3, <2>5, <2>9 DEF DirectInv, RelayInv, Backed
  <2>8. ASSUME NEW d \in Callers \ {c} PROVE DirectInv(d)' /\ RelayInv(d)'
    <3>1. DirectInv(d) /\ RelayInv(d)
      BY <1>1 DEF CallInv
    <3>2. /\ call'[d].stage = call[d].stage /\ call'[d].id = call[d].id
          /\ call'[d].req = call[d].req /\ call'[d].execs = call[d].execs
          /\ call[d] # Idle => call[d].seen \subseteq call'[d].seen
      BY <1>1, <1>7, ObservedOthers
    <3> QED BY <1>1, <1>3, <1>6, <2>3, <3>1, <3>2, CallerKeeps
  <2> QED BY <2>4, <2>6, <2>7, <2>8 DEF RemoteInv, CallInv
<1>8. CASE /\ \E s \in {"401", "503", "error"} : direct' = [direct EXCEPT ![c] = NoAnswer(s)]
           /\ UNCHANGED <<store, call>>
  <2>1. PICK s \in {"401", "503", "error"} : direct' = [direct EXCEPT ![c] = NoAnswer(s)]
    BY <1>8
  <2>2. direct'[c] = NoAnswer(s) /\ \A d \in Callers \ {c} : direct'[d] = direct[d]
    BY <1>1, <2>1 DEF TypeOK
  <2>3. TypeOK'
    <3>1. NoAnswer(s) \in Answer
      BY DEF NoAnswer, Answer, Status, Contents
    <3>2. direct' \in [Callers -> Answer \cup {NoAnswer(t) : t \in {"none", "sent", "lost"}}]
      BY <1>1, <2>1, <3>1 DEF TypeOK
    <3> QED BY <1>1, <1>3, <1>4, <1>8, <3>2 DEF TypeOK
  <2>4. DirectInv(c)' /\ RelayInv(c)'
    BY <1>2, <1>5, <1>6, <1>8, <2>2, NoAnswerShape DEF DirectInv, RelayInv, Backed
  <2>5. \A i \in Ids : ~Awaits(c, i)'
    BY <1>2, <1>8 DEF Awaits
  <2> QED BY <1>1, <1>3, <1>6, <1>8, <2>2, <2>3, <2>4, <2>5, MoverKeeps DEF Alone
<1> QED BY <1>7, <1>8 DEF HandleDirect

\* A direct request whose caller gave up is run at most once.
LEMMA HandleStrayStep ==
    ASSUME RemoteInv, NEW s \in stray, HandleStray(s)
    PROVE  RemoteInv'
<1>1. TypeOK /\ Alone /\ CallInv
  BY DEF RemoteInv
<1> DEFINE x == Executed(s.req)
<1>2. /\ s.req \in Req /\ s.c \in Callers \cup {Nobody}
      /\ stray' = stray \ {s} /\ store' = x.store /\ call' = Observed(s.c, x.store)
      /\ UNCHANGED <<mix, up, reach, routed, work, relay, proxy, direct, box, out, nfaults>>
  BY <1>1 DEF HandleStray, TypeOK
<1>3. x.store \in Store
  BY <1>1, <1>2, ExecutedType
<1> HIDE DEF x
<1>4. \A d \in Callers : s.c = d => Left(d) /\ ~Left(d)'
  BY <1>1, <1>2, RemoteConstants DEF Alone, Left
<1>5. \A d \in Callers : Left(d)' => Left(d)
  BY <1>2 DEF Left
<1>6. ASSUME NEW d \in Callers, s.c = d
      PROVE  /\ call[d] # Idle /\ call[d].stage \in {"post", "await"}
             /\ Spent(d) = call[d].execs + 1 /\ Spent(d) \in Nat /\ call[d].execs \in Nat
             /\ call[d].stage = "post" => Spent(d) <= 1
             /\ Spent(d) <= 2
  <2>1. Left(d)
    BY <1>4, <1>6
  <2>2. call[d].stage \notin {"idle", "route", "direct"}
    BY <1>1, <2>1 DEF CallInv, DirectInv
  <2>3. call[d] # Idle /\ call[d].stage \in {"post", "await"}
    BY <1>1, <2>2, CallShape
  <2>4. Spent(d) \in Nat /\ Spent(d) = call[d].execs + 1 /\ call[d].execs \in Nat
    BY <1>1, <2>1, <2>3, SpentType
  <2> QED BY <1>1, <2>3, <2>4 DEF CallInv, RelayInv
<1>7. TypeOK'
  <2>1. call' \in [Callers -> {Idle} \cup Call]
    <3>1. s.c \in Callers /\ call[s.c] # Idle => call[s.c].execs <= 2
      BY <1>6
    <3> QED BY <1>1, <1>2, <1>3, <3>1, ObservedType
  <2> QED BY <1>1, <1>2, <1>3, <2>1 DEF TypeOK
<1>8. /\ \A d \in Callers : call'[d].stage = call[d].stage /\ call'[d].id = call[d].id
      /\ \A d \in Callers, i \in Ids : Awaits(d, i)' <=> Awaits(d, i)
  BY <1>1, <1>2, ObservedAwaits
<1>9. Alone'
  BY <1>1, <1>2, <1>8, AloneKeeps DEF Alone
<1>10. ASSUME NEW d \in Callers PROVE DirectInv(d)' /\ RelayInv(d)'
  <2>1. DirectInv(d) /\ RelayInv(d)
    BY <1>1 DEF CallInv
  <2>2. CASE d # s.c
    <3>1. /\ call'[d].stage = call[d].stage /\ call'[d].id = call[d].id
          /\ call'[d].req = call[d].req /\ call'[d].execs = call[d].execs
          /\ call[d] # Idle => call[d].seen \subseteq call'[d].seen
      BY <1>1, <1>2, <2>2, ObservedOthers
    <3> QED BY <1>1, <1>2, <1>5, <2>1, <3>1, CallerKeeps
  <2>3. CASE d = s.c
    <3>1. /\ call'[d].stage = call[d].stage /\ call'[d].id = call[d].id
          /\ call'[d].req = call[d].req /\ call'[d].execs = call[d].execs + 1
          /\ call[d].seen \subseteq call'[d].seen
      BY <1>1, <1>2, <1>6, <2>3, ObservedFields
    <3>2. Spent(d)' = Spent(d) /\ Spent(d) \in Nat /\ call[d].execs \in Nat
          /\ call[d].stage \in {"post", "await"}
      BY <1>4, <1>6, <2>3, <3>1 DEF Spent
    <3>3. DirectInv(d)'
      BY <1>2, <2>1, <3>1, <3>2 DEF DirectInv
    <3>4. \A a : Backed(d, a) => Backed(d, a)'
      BY <3>1, <3>2 DEF Backed
    <3>5. RelayInv(d)'
      <4>1. CASE call[d].stage = "post"
        BY <2>1, <3>1, <3>2, <4>1 DEF RelayInv
      <4>2. CASE call[d].stage = "await"
        BY <1>2, <2>1, <3>1, <3>2, <3>4, <4>2 DEF RelayInv
      <4> QED BY <3>2, <4>1, <4>2
    <3> QED BY <3>3, <3>5
  <2> QED BY <2>2, <2>3
<1> QED BY <1>7, <1>9, <1>10 DEF RemoteInv, CallInv

\* The request that the relay worker takes is executed for the one call that
\* waits for it, which it has not been before by the relay.
LEMMA PollExecutes ==
    ASSUME RemoteInv, NEW i \in Ids, box[i].st = "queued", work = Idle,
           store' = Executed(box[i].req).store,
           call' = Observed(AwaitedBy(i), Executed(box[i].req).store),
           work' = [id |-> i, res |-> Executed(box[i].req).ans],
           box' = [box EXCEPT ![i] = Taken],
           UNCHANGED <<mix, up, reach, routed, relay, proxy, direct, stray, out, nfaults>>
    PROVE  RemoteInv'
<1>1. TypeOK /\ Alone /\ CallInv
  BY DEF RemoteInv
<1> DEFINE r == box[i].req
           x == Executed(r)
<1>0. PICK c : c = AwaitedBy(i)
  OBVIOUS
<1>2. r \in Req
  BY <1>1 DEF TypeOK, Free, Taken
<1>3. x.store \in Store /\ x.ans \in Answer
  BY <1>1, <1>2, ExecutedType
<1>4. \A d \in Callers : Awaits(d, i) => d = c
  <2> SUFFICES ASSUME NEW d \in Callers, Awaits(d, i) PROVE d = c
    OBVIOUS
  <2>1. c \in Callers /\ Awaits(c, i)
    BY <1>0 DEF AwaitedBy
  <2> QED BY <1>1, <2>1 DEF Alone
<1>5. c \in Callers => Awaits(c, i)
  BY <1>0, RemoteConstants DEF AwaitedBy
<1>6. call' = Observed(c, x.store) /\ store' = x.store /\ work' = [id |-> i, res |-> x.ans]
  BY <1>0
<1>7. ASSUME c \in Callers
      PROVE  /\ call[c].stage = "await" /\ call[c].id = i /\ call[c] # Idle
             /\ call[c].req = r /\ Spent(c) <= 1 /\ Spent(c) \in Nat /\ call[c].execs \in Nat
             /\ call[c].execs <= Spent(c)
  <2>1. call[c].stage = "await" /\ call[c].id = i
    BY <1>5, <1>7 DEF Awaits
  <2>2. call[c] # Idle
    BY <1>1, <1>7, <2>1, CallShape
  <2>3. RelayInv(c)
    BY <1>1, <1>7 DEF CallInv
  <2>4. call[c].req = r /\ Spent(c) <= 1
    BY <2>1, <2>3 DEF RelayInv
  <2> QED BY <1>1, <1>7, <2>1, <2>2, <2>4, SpentType
<1>7a. PICK a : a = x.ans
  OBVIOUS
<1>8. ASSUME c \in Callers
      PROVE  Backed(c, a)' /\ call'[c].execs = call[c].execs + 1
  <2>1. PICK q : q = r
    OBVIOUS
  <2> QED BY <1>1, <1>2, <1>6, <1>7, <1>8, <1>7a, <2>1, ExecutedBacks
<1> HIDE DEF x
<1>9. TypeOK'
  <2>1. call' \in [Callers -> {Idle} \cup Call]
    <3>1. c \in Callers /\ call[c] # Idle => call[c].execs <= 2
      BY <1>7
    <3> QED BY <1>1, <1>3, <1>6, <3>1, ObservedType
  <2>2. box' \in [Ids -> {Free} \cup {Taken} \cup [st : {"queued"}, req : Req]
                            \cup [st : {"done"}, res : Answer]]
    BY <1>1 DEF TypeOK
  <2>3. work' \in [id : Ids, res : Answer]
    BY <1>3, <1>6
  <2> QED BY <1>1, <1>3, <1>6, <2>1, <2>2, <2>3 DEF TypeOK
<1>10. /\ box'[i] = Taken /\ \A k \in Ids \ {i} : box'[k] = box[k]
       /\ Taken.st = "taken" /\ work'.id = i /\ work'.res = a
  BY <1>1, <1>6, <1>7a DEF TypeOK, Taken
<1>11. /\ \A d \in Callers : call'[d].stage = call[d].stage /\ call'[d].id = call[d].id
       /\ \A d \in Callers, k \in Ids : Awaits(d, k)' <=> Awaits(d, k)
  BY <1>1, <1>6, ObservedAwaits
<1>12. Alone'
  BY <1>1, <1>10, <1>11, AloneKeeps
<1>13. \A d \in Callers : Left(d)' <=> Left(d)
  BY DEF Left
<1>14. ASSUME NEW d \in Callers PROVE DirectInv(d)' /\ RelayInv(d)'
  <2>1. DirectInv(d) /\ RelayInv(d)
    BY <1>1 DEF CallInv
  <2>2. CASE d # c
    <3>1. /\ call'[d].stage = call[d].stage /\ call'[d].id = call[d].id
          /\ call'[d].req = call[d].req /\ call'[d].execs = call[d].execs
          /\ call[d] # Idle => call[d].seen \subseteq call'[d].seen
      BY <1>1, <1>6, <2>2, ObservedOthers
    <3>2. call[d].stage = "await" => call[d].id \in Ids /\ call[d].id # i
      BY <1>4, <2>1, <2>2 DEF RelayInv, Awaits
    <3> QED BY <1>1, <1>10, <1>13, <2>1, <3>1, <3>2, CallerKeeps
  <2>3. CASE d = c
    <3>1. call'[d].stage = "await" /\ call'[d].id = i
      BY <1>7, <1>11, <2>3
    <3>2. Spent(d)' <= 2
      <4>1. call[d].execs \in Nat /\ call'[d].execs = call[d].execs + 1 /\ Spent(d) <= 1
        BY <1>7, <1>8, <2>3
      <4>2. Spent(d)' = Spent(d) + 1
        BY <1>13, <4>1 DEF Spent
      <4> QED BY <1>7, <2>3, <4>1, <4>2
    <3>3. Backed(d, work.res)'
      BY <1>8, <1>10, <2>3 DEF Backed
    <3>4. RelayInv(d)'
      BY <1>10, <3>1, <3>2, <3>3 DEF RelayInv
    <3>5. DirectInv(d)'
      BY <1>7, <2>1, <2>3, <3>1 DEF DirectInv
    <3> QED BY <3>4, <3>5
  <2> QED BY <2>2, <2>3
<1> QED BY <1>9, <1>12, <1>14 DEF RemoteInv, CallInv

\* The owner takes a relayed request out of the box and runs it.
LEMMA PollStep ==
    ASSUME RemoteInv, NEW i \in Ids, Poll(i)
    PROVE  RemoteInv'
<1>1. TypeOK
  BY DEF RemoteInv
<1>2. /\ work = Idle /\ box[i].st = "queued"
      /\ UNCHANGED <<mix, up, reach, routed, relay, proxy, direct, stray, out>>
  BY DEF Poll
<1>3. nfaults' \in 0..MaxFaults
  BY <1>1, FaultType DEF Poll
<1>4. CASE /\ NoFault
           /\ LET x == Executed(box[i].req) IN
                /\ store' = x.store
                /\ call' = Observed(AwaitedBy(i), x.store)
                /\ work' = [id |-> i, res |-> x.ans]
           /\ box' = [box EXCEPT ![i] = Taken]
  BY <1>2, <1>4, PollExecutes DEF NoFault
<1>5. ASSUME NEW b \in {Free, Taken}, box' = [box EXCEPT ![i] = b], UNCHANGED <<store, call>>,
             \/ work' = work
             \/ b = Taken /\ work' = [id |-> i, res |-> NoAnswer("error")]
      PROVE  RemoteInv'
  <2>1. b.st \in {"free", "taken"}
    BY DEF Free, Taken
  <2>2. box'[i] = b /\ \A k \in Ids \ {i} : box'[k] = box[k]
    BY <1>1, <1>5 DEF TypeOK
  <2>3. NoAnswer("error") \in Answer /\ NoAnswer("error").st = "error"
    BY DEF NoAnswer, Answer, Status, Contents
  <2>4. TypeOK'
    <3>1. box' \in [Ids -> {Free} \cup {Taken} \cup [st : {"queued"}, req : Req]
                              \cup [st : {"done"}, res : Answer]]
      BY <1>1, <1>5 DEF TypeOK
    <3>2. work' = Idle \/ work' \in [id : Ids, res : Answer]
      BY <1>2, <1>5, <2>3
    <3> QED BY <1>1, <1>2, <1>3, <1>5, <3>1, <3>2 DEF TypeOK
  <2>5. CASE work' = work
    BY <1>2, <1>5, <2>1, <2>2, <2>4, <2>5, OthersKeep
  <2>6. CASE b = Taken /\ work' = [id |-> i, res |-> NoAnswer("error")]
    <3>1. TypeOK /\ Alone /\ CallInv
      BY DEF RemoteInv
    <3>2. work'.id = i /\ work'.res = NoAnswer("error")
      BY <2>6
    <3>3. Alone'
      BY <1>2, <1>5, <2>2, <2>6, <3>1, <3>2 DEF Alone, Awaits
    <3>4. ASSUME NEW d \in Callers PROVE DirectInv(d)' /\ RelayInv(d)'
      <4>1. DirectInv(d) /\ RelayInv(d)
        BY <3>1 DEF CallInv
      <4>2. Left(d)' <=> Left(d)
        BY <1>2 DEF Left
      <4>3. call[d].stage = "await" => call[d].id \in Ids
        BY <4>1 DEF RelayInv
      <4>4. CASE ~(call[d].stage = "await" /\ call[d].id = i)
        BY <1>2, <1>5, <2>1, <2>2, <3>1, <3>2, <4>1, <4>2, <4>3, <4>4, CallerKeeps
      <4>5. CASE call[d].stage = "await" /\ call[d].id = i
        <5>1. Spent(d) <= 1
          BY <1>2, <4>1, <4>5 DEF RelayInv
        <5>2. Spent(d)' = Spent(d) /\ Spent(d) \in Nat
          BY <1>5, <3>1, <4>2, <4>5, CallShape, SpentType DEF Spent
        <5>3. Spent(d)' <= 2
          BY <5>1, <5>2
        <5>4. Backed(d, work.res)'
          BY <2>3, <3>2 DEF Backed
        <5>5. box'[i].st = "taken"
          BY <2>2, <2>6 DEF Taken
        <5>6. RelayInv(d)'
          BY <1>5, <4>3, <4>5, <5>3, <5>4, <5>5 DEF RelayInv
        <5>7. DirectInv(d)'
          BY <1>2, <1>5, <4>1, <4>5 DEF DirectInv
        <5> QED BY <5>6, <5>7
      <4> QED BY <4>4, <4>5
    <3> QED BY <2>4, <3>3, <3>4 DEF RemoteInv, CallInv
  <2> QED BY <1>5, <2>5, <2>6
<1>6. \/ /\ NoFault
         /\ LET x == Executed(box[i].req) IN
              /\ store' = x.store
              /\ call' = Observed(AwaitedBy(i), x.store)
              /\ work' = [id |-> i, res |-> x.ans]
         /\ box' = [box EXCEPT ![i] = Taken]
      \/ /\ work' = [id |-> i, res |-> NoAnswer("error")]
         /\ box' = [box EXCEPT ![i] = Taken]
         /\ UNCHANGED <<store, call>>
      \/ /\ box' = [box EXCEPT ![i] = Free]
         /\ UNCHANGED <<store, call, work>>
  BY DEF Poll
<1> QED BY <1>4, <1>5, <1>6

\* The owner answers the request it runs.
LEMMA RespondStep ==
    ASSUME RemoteInv, Respond
    PROVE  RemoteInv'
<1>1. TypeOK /\ Alone /\ CallInv
  BY DEF RemoteInv
<1>2. /\ work # Idle /\ work' = Idle
      /\ UNCHANGED <<mix, store, up, reach, routed, relay, proxy, call, direct, stray, out>>
  BY DEF Respond
<1>3. PICK i \in Ids, a \in Answer : i = work.id /\ a = work.res
  BY <1>1, <1>2 DEF TypeOK
<1>4. nfaults' \in 0..MaxFaults
  BY <1>1, FaultType DEF Respond
<1> DEFINE done == [st |-> "done", res |-> a]
<1>5. box[i] = Taken /\ Taken # Free
  BY <1>1, <1>2, <1>3 DEF Alone, Taken, Free
<1>6. box' = [box EXCEPT ![i] = done] \/ box' = [box EXCEPT ![i] = Free]
  BY <1>1, <1>3, <1>5 DEF Respond, TypeOK
<1>7. done \in [st : {"done"}, res : Answer] /\ done.st = "done" /\ done.res = a
      /\ Free.st = "free" /\ Taken.st = "taken"
  BY DEF Free, Taken
<1> HIDE DEF done
<1>8. /\ box' \in [Ids -> {Free} \cup {Taken} \cup [st : {"queued"}, req : Req]
                            \cup [st : {"done"}, res : Answer]]
      /\ box'[i] = done \/ box'[i] = Free
      /\ \A k \in Ids \ {i} : box'[k] = box[k]
  <2>1. PICK q \in {done, Free} : box' = [box EXCEPT ![i] = q]
    BY <1>6
  <2>2. q \in {Free} \cup [st : {"done"}, res : Answer]
    BY <1>7, <2>1
  <2>3. box'[i] = q /\ \A k \in Ids \ {i} : box'[k] = box[k]
    BY <1>1, <2>1 DEF TypeOK
  <2>4. box' \in [Ids -> {Free} \cup {Taken} \cup [st : {"queued"}, req : Req]
                            \cup [st : {"done"}, res : Answer]]
    BY <1>1, <2>1, <2>2 DEF TypeOK
  <2> QED BY <2>1, <2>3, <2>4
<1>9. TypeOK'
  BY <1>1, <1>2, <1>4, <1>8 DEF TypeOK
<1>10. Alone'
  BY <1>1, <1>2 DEF Alone, Awaits
<1>11. ASSUME NEW d \in Callers PROVE DirectInv(d)' /\ RelayInv(d)'
  <2>1. DirectInv(d) /\ RelayInv(d)
    BY <1>1 DEF CallInv
  <2>2. Left(d)' <=> Left(d)
    BY <1>2 DEF Left
  <2>3. call[d].stage = "await" => call[d].id \in Ids
    BY <2>1 DEF RelayInv
  <2>4. CASE call[d].stage = "await" /\ call[d].id = i /\ box'[i] = done
    <3>1. Spent(d) <= 2 /\ Backed(d, a)
      BY <1>2, <1>3, <1>5, <1>7, <2>1, <2>4 DEF RelayInv
    <3>2. Spent(d)' <= 2
      BY <1>2, <2>2, <3>1 DEF Spent
    <3>3. Backed(d, a)'
      BY <1>2, <3>1 DEF Backed
    <3>4. call'[d].stage = "await" /\ call'[d].id = i /\ box'[i].st = "done" /\ box'[i].res = a
      BY <1>2, <1>7, <2>4
    <3>5. RelayInv(d)'
      BY <1>2, <3>2, <3>3, <3>4 DEF RelayInv, Backed
    <3>6. DirectInv(d)'
      BY <1>2, <2>1, <2>4 DEF DirectInv
    <3> QED BY <3>5, <3>6
  <2>5. CASE ~(call[d].stage = "await" /\ call[d].id = i /\ box'[i] = done)
    <3>1. call[d].stage = "await" =>
             \/ box'[call[d].id] = box[call[d].id]
             \/ box'[call[d].id].st \in {"free", "taken"}
      BY <1>7, <1>8, <2>3, <2>5
    <3> QED BY <1>1, <1>2, <2>1, <2>2, <3>1, CallerKeeps
  <2> QED BY <2>4, <2>5
<1> QED BY <1>9, <1>10, <1>11 DEF RemoteInv, CallInv

\* When the peer's daemon ends, what it had taken is lost.
LEMMA GoDownStep ==
    ASSUME RemoteInv, GoDown
    PROVE  RemoteInv'
<1>1. TypeOK /\ Alone /\ CallInv
  BY DEF RemoteInv
<1>2. /\ stray' = {} /\ work' = Idle /\ up' = FALSE
      /\ direct' = [c \in Callers |-> IF direct[c].st = "sent" THEN NoAnswer("lost")
                                      ELSE direct[c]]
      /\ box' = IF work = Idle THEN box ELSE [box EXCEPT ![work.id] = Free]
      /\ UNCHANGED <<mix, store, reach, routed, relay, proxy, call, out>>
  BY DEF GoDown
<1>3. nfaults' \in 0..MaxFaults
  BY <1>1, FaultType DEF GoDown
<1>4. TypeOK'
  <2>1. direct' \in [Callers -> Answer \cup {NoAnswer(t) : t \in {"none", "sent", "lost"}}]
    BY <1>1, <1>2 DEF TypeOK
  <2>2. box' \in [Ids -> {Free} \cup {Taken} \cup [st : {"queued"}, req : Req]
                            \cup [st : {"done"}, res : Answer]]
    BY <1>1, <1>2 DEF TypeOK
  <2> QED BY <1>1, <1>2, <1>3, <2>1, <2>2 DEF TypeOK
<1>5. \A k \in Ids : box'[k] = box[k] \/ box'[k].st = "free"
  BY <1>1, <1>2 DEF TypeOK, Free
<1>6. Alone'
  BY <1>1, <1>2 DEF Alone, Awaits
<1>7. ASSUME NEW d \in Callers PROVE DirectInv(d)' /\ RelayInv(d)'
  <2>1. DirectInv(d) /\ RelayInv(d)
    BY <1>1 DEF CallInv
  <2>2. ~Left(d)'
    BY <1>2 DEF Left
  <2>3. call[d].stage = "await" => call[d].id \in Ids
    BY <2>1 DEF RelayInv
  <2>4. CASE direct[d].st # "sent"
    <3>1. direct'[d] = direct[d]
      BY <1>2, <2>4
    <3> QED BY <1>1, <1>2, <1>5, <2>1, <2>2, <2>3, <3>1, CallerKeeps
  <2>5. CASE direct[d].st = "sent"
    <3>1. call[d].stage = "direct" /\ direct'[d] = NoAnswer("lost")
      BY <1>2, <2>1, <2>5, NoAnswerShape DEF DirectInv
    <3>2. call[d].execs = 0
      BY <2>1, <2>5, <3>1 DEF DirectInv
    <3> QED BY <1>2, <2>2, <3>1, <3>2, NoAnswerShape DEF DirectInv, RelayInv, Backed
  <2> QED BY <2>4, <2>5
<1> QED BY <1>4, <1>6, <1>7 DEF RemoteInv, CallInv

\* A write of the owner is no call.
LEMMA LocalWriteStep ==
    ASSUME RemoteInv, NEW f \in Files, NEW v \in Values, LocalWrite(f, v)
    PROVE  RemoteInv'
<1>1. TypeOK
  BY DEF RemoteInv
<1>2. /\ store' = OpWrite(f, v).store /\ call' = Observed(Nobody, store')
      /\ UNCHANGED <<mix, up, reach, routed, work, relay, proxy, direct, stray, box, out,
                     nfaults>>
  BY DEF LocalWrite
<1>3. store' \in Store
  BY <1>1, <1>2 DEF OpWrite, Result, TypeOK, Store, Contents
<1>4. PICK s \in Store : s = store'
  BY <1>3
<1>5. call' = Observed(Nobody, s)
  BY <1>2, <1>4
<1>6. call' \in [Callers -> {Idle} \cup Call]
  BY <1>1, <1>5, ObservedType, RemoteConstants
<1>7. TypeOK'
  BY <1>1, <1>2, <1>3, <1>6 DEF TypeOK
<1>8. \A d \in Callers :
        /\ call'[d].stage = call[d].stage /\ call'[d].id = call[d].id
        /\ call'[d].req = call[d].req /\ call'[d].execs = call[d].execs
        /\ call[d] # Idle => call[d].seen \subseteq call'[d].seen
  BY <1>1, <1>5, ObservedOthers, RemoteConstants
<1> QED BY <1>2, <1>7, <1>8, OthersKeep

\* The relay forgets a request or an answer.
LEMMA ExpireStep ==
    ASSUME RemoteInv, NEW i \in Ids, Expire(i)
    PROVE  RemoteInv'
<1>1. TypeOK /\ Alone
  BY DEF RemoteInv
<1>2. /\ box[i].st \in {"queued", "done"} /\ box' = [box EXCEPT ![i] = Free]
      /\ UNCHANGED <<mix, peerVars, relay, proxy, call, direct, stray, out, nfaults>>
  BY DEF Expire
<1>3. TypeOK'
  BY <1>1, <1>2 DEF TypeOK, peerVars
<1>4. \A k \in Ids : box'[k] = box[k] \/ box'[k].st \in {"free", "taken"}
  BY <1>1, <1>2 DEF TypeOK, Free
<1>5. work' = Idle \/ (work' = work /\ box'[work.id] = box[work.id])
  <2>1. work # Idle => box[work.id] = Taken /\ work.id \in Ids
    BY <1>1 DEF TypeOK, Alone
  <2> QED BY <1>1, <1>2, <2>1 DEF Taken, TypeOK, peerVars
<1> QED BY <1>2, <1>3, <1>4, <1>5, OthersKeep DEF peerVars

\* Every step keeps the invariant.
LEMMA RemoteStep == RemoteInv /\ [Next]_vars => RemoteInv'
<1> SUFFICES ASSUME RemoteInv, [Next]_vars PROVE RemoteInv'
  OBVIOUS
<1>1. ASSUME NEW c \in Callers, CallerStep(c) PROVE RemoteInv'
  BY <1>1, RouteStep, DirectFailsStep, DirectAnswerStep, RelayPostStep, RelayAnswerStep,
     RelayTimeoutStep DEF CallerStep
<1> QED BY <1>1, StartStep, AuthFailsStep, HandleDirectStep, HandleStrayStep, PollStep,
           RespondStep, GoDownStep, QuietStep, LocalWriteStep, ExpireStep DEF Next

\* Nothing is under way at first.
LEMMA InitRemote == Init => RemoteInv
<1> SUFFICES ASSUME Init PROVE RemoteInv
  OBVIOUS
<1>1. (CHOOSE v \in Values : TRUE) \in Values
  BY RemoteConstants
<1>2. TypeOK
  <2>1. store \in Store
    BY <1>1 DEF Init, Store, Contents
  <2>2. NoAnswer("none") \in [st : {"none", "ok", "answered", "fail"}, data : Contents]
    BY DEF NoAnswer, Contents
  <2> QED BY <2>1, <2>2, RemoteConstants DEF Init, TypeOK
<1>3. \A c \in Callers : call[c].stage = "idle" /\ direct[c] = NoAnswer("none") /\ ~Left(c)
  BY DEF Init, Idle, Left
<1>4. Alone
  BY <1>3 DEF Init, Alone, Awaits
<1>5. CallInv
  BY <1>3 DEF CallInv, DirectInv, RelayInv
<1> QED BY <1>2, <1>4, <1>5 DEF RemoteInv

\* So it holds in every state.
LEMMA SpecRemote == Spec => []RemoteInv
<1> QED BY InitRemote, RemoteStep, PTL DEF Spec

\* A call, its direct and its relayed request keep their shape, for any number
\* of callers, files, request ids and failures (TypeOK of RemoteRequest).
THEOREM RemoteTypeCorrect == Spec => []TypeOK
<1>1. RemoteInv => TypeOK
  BY DEF RemoteInv
<1> QED BY SpecRemote, <1>1, PTL

\* One call of _do_p2p_request has its operation executed twice at most, once
\* by the peer's P2P server and once by its relay worker, whoever else calls and
\* whatever is lost, late or refused.
THEOREM CallsRunAtMostTwice == Spec => []ExecutedAtMostTwice
<1>1. RemoteInv => ExecutedAtMostTwice
  <2> SUFFICES ASSUME RemoteInv, NEW c \in Callers, call[c] # Idle
               PROVE  call[c].execs <= 2
    BY DEF ExecutedAtMostTwice
  <2>1. TypeOK /\ DirectInv(c) /\ RelayInv(c)
    BY DEF RemoteInv, CallInv
  <2>2. call[c].stage \in {"route", "direct", "post", "await"}
    BY <2>1, CallShape
  <2>3. call[c].execs \in Nat /\ Spent(c) \in Nat /\ call[c].execs <= Spent(c)
    BY <2>1, SpentType
  <2>4. CASE call[c].stage \in {"route", "direct"}
    BY <2>1, <2>4 DEF DirectInv
  <2>5. CASE call[c].stage \in {"post", "await"}
    <3>1. Spent(c) <= 2
      BY <2>1, <2>3, <2>5 DEF RelayInv
    <3> QED BY <2>3, <3>1
  <2> QED BY <2>2, <2>4, <2>5
<1> QED BY SpecRemote, <1>1, PTL

\* A call that goes on, or returns with a failure, does not succeed.
LEMMA GoesOn ==
    ASSUME TypeOK, NEW c \in Callers, Succeeds(c)
    PROVE  /\ call'[c].stage # call[c].stage
           /\ call'[c] # call[c]
           /\ \A d \in Callers : \A q : call' = [call EXCEPT ![d] = q] => d = c /\ q = Idle
           /\ \A d \in Callers : ~(/\ call' = [call EXCEPT ![d] = Idle]
                                   /\ out' = [out EXCEPT ![d] = Failure])
<1>1. call[c] # Idle /\ call'[c] = Idle /\ out'[c].st = "ok"
  BY DEF Succeeds
<1>2. call[c].stage # "idle" /\ Idle.stage = "idle"
  BY <1>1, CallShape DEF Idle
<1>3. Failure.st = "fail"
  BY NoAnswerShape DEF Failure
<1>4. ASSUME NEW d \in Callers, NEW q, call' = [call EXCEPT ![d] = q] PROVE d = c /\ q = Idle
  BY <1>1, <1>4 DEF TypeOK
<1>5. ASSUME NEW d \in Callers, call' = [call EXCEPT ![d] = Idle], out' = [out EXCEPT ![d] = Failure]
      PROVE  FALSE
  <2>1. d = c
    BY <1>4, <1>5
  <2>2. out'[c] = Failure
    BY <1>5, <2>1 DEF TypeOK
  <2> QED BY <1>1, <1>3, <2>2
<1> QED BY <1>1, <1>2, <1>4, <1>5

\* Success is a direct or a relayed answer.
LEMMA SuccessIsAnswer ==
    ASSUME TypeOK, Next, NEW c \in Callers, Succeeds(c)
    PROVE  DirectAnswer(c) \/ RelayAnswer(c)
<1>1. call'[c].stage # call[c].stage /\ call'[c] # call[c]
  BY GoesOn
<1>2. ASSUME NEW d \in Callers, NEW r \in Req, Start(d, r) PROVE FALSE
  <2>1. \A s : NewCall(s, r) # Idle
    BY DEF NewCall, Idle
  <2> QED BY <1>1, <1>2, <2>1, GoesOn DEF Start
<1>3. ASSUME NEW d \in Callers, NEW s \in {"direct", "post", "await"},
             call[d] \in Call
      PROVE  [call[d] EXCEPT !.stage = s] # Idle
  <2>1. [call[d] EXCEPT !.stage = s].stage = s
    BY <1>3 DEF Call
  <2> QED BY <2>1 DEF Idle
<1>4. ASSUME NEW d \in Callers, Route(d) PROVE FALSE
  <2>1. call[d] \in Call
    BY <1>4, CallShape DEF Route
  <2>2. CASE Return(d, Failure)
    BY <2>2, GoesOn DEF Return
  <2>3. CASE call' = [call EXCEPT ![d].stage = "direct"]
    BY <1>3, <2>1, <2>3, GoesOn
  <2> QED BY <1>4, <2>2, <2>3 DEF Route
<1>5. ASSUME NEW d \in Callers, DirectFails(d) PROVE FALSE
  <2>1. call[d] \in Call
    BY <1>5, CallShape DEF DirectFails
  <2> QED BY <1>3, <1>5, <2>1, GoesOn DEF DirectFails
<1>6. ASSUME NEW d \in Callers, RelayPost(d) PROVE FALSE
  <2>1. call[d] \in Call
    BY <1>6, CallShape DEF RelayPost
  <2>2. CASE Return(d, Failure)
    BY <2>2, GoesOn DEF Return
  <2>3. ASSUME NEW i \in Ids, call' = [call EXCEPT ![d].stage = "await", ![d].id = i]
        PROVE  FALSE
    <3>1. call'[d].stage = "await"
      BY <2>1, <2>3 DEF TypeOK, Call
    <3>2. d = c
      BY <1>1, <2>3 DEF TypeOK
    <3> QED BY <3>1, <3>2 DEF Succeeds, Idle
  <2> QED BY <1>6, <2>2, <2>3 DEF RelayPost
<1>7. ASSUME NEW d \in Callers, RelayTimeout(d) \/ AuthFails(d) PROVE FALSE
  BY <1>7, GoesOn DEF RelayTimeout, AuthFails, Return
<1>8. ASSUME NEW d \in Callers, DirectAnswer(d) \/ RelayAnswer(d)
      PROVE  DirectAnswer(c) \/ RelayAnswer(c)
  <2>1. d = c
    BY <1>1, <1>8 DEF DirectAnswer, RelayAnswer, Return, TypeOK
  <2> QED BY <1>8, <2>1
<1>9. ASSUME NEW d, NEW s, call' = Observed(d, s) PROVE FALSE
  BY <1>1, <1>9, ObservedAwaits
<1>10. ASSUME \/ \E d \in Callers : HandleDirect(d)
              \/ \E s \in stray : HandleStray(s)
              \/ \E i \in Ids : Poll(i)
              \/ \E f \in Files : \E v \in Values : LocalWrite(f, v)
       PROVE FALSE
  <2>1. call' = call \/ \E d, s : call' = Observed(d, s)
    BY <1>10 DEF HandleDirect, HandleStray, Poll, LocalWrite
  <2> QED BY <1>1, <1>9, <2>1
<1>11. ASSUME \/ \E d \in Callers : IntervalPasses(d)
              \/ Respond \/ GoDown \/ GoUp \/ Heartbeat
              \/ \E i \in Ids : Expire(i)
       PROVE FALSE
  <2>1. call' = call
    BY <1>11 DEF IntervalPasses, Respond, GoDown, GoUp, Heartbeat, Expire
  <2> QED BY <1>1, <2>1
<1> QED BY <1>2, <1>4, <1>5, <1>6, <1>7, <1>8, <1>10, <1>11 DEF Next, CallerStep

\* What a caller is told is true: success means that this very call has been
\* executed, not an earlier one whose response was still about, and that what
\* it returns of a file was so while the call lasted.
THEOREM AnswersBelongToCalls == Spec => AnswersAreCurrent
<1> DEFINE Current ==
      \A c \in Callers : Succeeds(c) =>
         /\ call[c].execs > 0
         /\ call[c].req.op \notin Changes => out'[c].data \in call[c].seen
<1>1. RemoteInv /\ [Next]_vars => [Current]_vars
  <2> SUFFICES ASSUME RemoteInv, Next, NEW c \in Callers, Succeeds(c)
               PROVE  Backed(c, out'[c])
    BY DEF Backed, Succeeds
  <2>1. TypeOK /\ Alone /\ DirectInv(c) /\ RelayInv(c)
    BY DEF RemoteInv, CallInv
  <2>2. out'[c].st = "ok" /\ \A a : a.st # "ok" => Reply(a).st # "ok"
    BY NoAnswerShape DEF Succeeds, Reply, Failure
  <2>3. \A a : Reply(a).st = "ok" => Reply(a) = a
    BY NoAnswerShape DEF Reply, Failure
  <2>4. CASE DirectAnswer(c)
    <3>3. ASSUME call' = [call EXCEPT ![c].retry = FALSE] PROVE FALSE
      <4>1. call[c] \in Call
        BY <2>1, <2>4, CallShape DEF DirectAnswer
      <4>2. call'[c].stage = call[c].stage
        BY <2>1, <3>3, <4>1 DEF TypeOK, Call
      <4> QED BY <2>1, <4>2, GoesOn
    <3>1. out' = [out EXCEPT ![c] = Reply(direct[c])]
      BY <2>4, <3>3 DEF DirectAnswer, Return
    <3>2. out'[c] = direct[c]
      BY <2>1, <2>2, <2>3, <3>1 DEF TypeOK
    <3> QED BY <2>1, <2>4, <3>2 DEF DirectAnswer, DirectInv
  <2>5. CASE RelayAnswer(c)
    <3>1. PICK i \in Ids : box[i].st = "done" /\ i = call[c].id /\ Return(c, Reply(box[i].res))
      BY <2>5 DEF RelayAnswer, ResponseFor
    <3>2. out'[c] = box[i].res
      BY <2>1, <2>2, <2>3, <3>1 DEF TypeOK, Return
    <3> QED BY <2>1, <2>5, <3>1, <3>2 DEF RelayAnswer, RelayInv
  <2> QED BY <2>1, <2>4, <2>5, SuccessIsAnswer
<1> QED BY SpecRemote, <1>1, PTL DEF Spec, AnswersAreCurrent
==============================================================================
