---------------------------- MODULE RemoteRequest ----------------------------
(***************************************************************************)
(* Requests to the storage of another device (stardustlib/remote_source.py,*)
(* relay_client.py) and their execution there (p2p_server.py,              *)
(* relay_worker.py).                                                       *)
(*                                                                         *)
(* A request goes directly to the peer's P2P server.  After a time-out or  *)
(* a network error the same operation is posted to the central server,     *)
(* where the peer's relay worker fetches it; the direct request may still  *)
(* be executed, before or after.  A direct answer belongs to its           *)
(* connection, a relayed one is looked up by request id.                   *)
(*                                                                         *)
(* The peer's storage is one directory with files.  Tokens are             *)
(* TokenRefresh's subject; here a token is accepted, or refused once.      *)
(***************************************************************************)
EXTENDS Integers, FiniteSets

CONSTANTS
    Callers,    \* processes that use the peer, each with its RemoteSource
    Files, Values,
    Absent,     \* content of a file that does not exist
    Nobody,     \* caller of a request whose call has returned
    Ids,        \* request ids of the relay
    Mixes,      \* sets of operations; those of one set are called in a behaviour
    MaxFaults   \* bound: lost messages, early time-outs, refusals, crashes

AllOps == {"read", "exists", "list", "write", "delete", "mkdir", "rmdir"}

Changes == {"write", "delete", "mkdir", "rmdir"}

ASSUME RemoteConstants ==
    /\ Values # {} /\ Absent \notin Values /\ Nobody \notin Callers
    /\ Mixes \subseteq SUBSET AllOps
    /\ MaxFaults \in Nat

VARIABLES
    store,      \* the peer's directory
    up,         \* the peer's daemon runs
    reach,      \* its P2P port is open and can be reached
    routed,     \* the central server takes it for online
    relay,      \* the callers have the relay enabled
    proxy,      \* proxy[c]: RemoteSource of c; fresh: it knows the peer's address
    call,       \* call[c]: the operation under way
    direct,     \* direct[c]: the direct request of c
    stray,      \* direct requests whose callers wait no more
    box,        \* relay requests and responses at the central server
    work,       \* the relay worker: an executed request, to be answered
    out,        \* out[c]: how the last call of c ended
    mix,        \* the operations that are called
    nfaults

peerVars == <<store, up, reach, routed, work>>

vars == <<peerVars, mix, relay, proxy, call, direct, stray, box, out, nfaults>>

Contents == Values \cup {Absent}

Store == [dir : BOOLEAN, disk : [Files -> Contents]]

Req == [op : AllOps \ {"write"}, file : Files, val : {Absent}]
       \cup [op : {"write"}, file : Files, val : Values]

Status == {"ok", "missing", "error", "401", "503"}

Answer == [st : Status, data : Contents]

NoAnswer(s) == [st |-> s, data |-> Absent]

Idle == [stage |-> "idle"]

NoId == "none"

Free == [st |-> "free"]

Taken == [st |-> "taken"]

\* execs and seen are ghosts: how often the operation has been executed, and
\* the contents its file has had since the call.
Call == [stage : {"route", "direct", "post", "await"}, req : Req, retry : BOOLEAN,
         id : Ids \cup {NoId}, execs : 0..3, seen : SUBSET Contents]

\* The type invariant: a call, its direct and its relayed request keep their shape.
TypeOK ==
    /\ store \in Store
    /\ up \in BOOLEAN /\ reach \in BOOLEAN /\ routed \in BOOLEAN /\ relay \in BOOLEAN
    /\ proxy \in [Callers -> [active : BOOLEAN, fresh : BOOLEAN, recent : BOOLEAN]]
    /\ call \in [Callers -> {Idle} \cup Call]
    /\ direct \in [Callers -> Answer \cup {NoAnswer(s) : s \in {"none", "sent", "lost"}}]
    /\ stray \subseteq [n : 0..MaxFaults, req : Req, c : Callers \cup {Nobody}]
    /\ box \in [Ids -> {Free} \cup {Taken} \cup [st : {"queued"}, req : Req]
                              \cup [st : {"done"}, res : Answer]]
    /\ work = Idle \/ work \in [id : Ids, res : Answer]
    /\ out \in [Callers -> [st : {"none", "ok", "answered", "fail"}, data : Contents]]
    /\ mix \in Mixes
    /\ nfaults \in 0..MaxFaults

\* Sources have been mounted: the peer was online then, or was not.
Init ==
    /\ store = [dir |-> TRUE, disk |-> [f \in Files |-> CHOOSE v \in Values : TRUE]]
    /\ up \in BOOLEAN /\ routed = up
    /\ reach \in BOOLEAN /\ relay \in BOOLEAN
    /\ proxy = [c \in Callers |-> [active |-> routed, fresh |-> TRUE, recent |-> FALSE]]
    /\ call = [c \in Callers |-> Idle]
    /\ direct = [c \in Callers |-> NoAnswer("none")]
    /\ stray = {}
    /\ box = [i \in Ids |-> Free]
    /\ work = Idle
    /\ out = [c \in Callers |-> NoAnswer("none")]
    /\ mix \in Mixes
    /\ nfaults = 0

Fault == nfaults < MaxFaults /\ nfaults' = nfaults + 1

NoFault == nfaults' = nfaults

-----------------------------------------------------------------------------
(* The operations of the P2P server: answer and new directory.             *)

Result(st, data, s) == [ans |-> [st |-> st, data |-> data], store |-> s]

OpRead(f) ==
    Result(IF store.disk[f] = Absent THEN "missing" ELSE "ok", store.disk[f], store)

OpExists(f) == Result("ok", store.disk[f], store)

OpList(f) == Result(IF store.dir THEN "ok" ELSE "missing", store.disk[f], store)

\* Missing directories are made.
OpWrite(f, v) ==
    Result("ok", Absent, [dir |-> TRUE, disk |-> [store.disk EXCEPT ![f] = v]])

OpDelete(f) ==
    Result(IF store.disk[f] = Absent THEN "missing" ELSE "ok", Absent,
           [store EXCEPT !.disk[f] = Absent])

OpMkdir == Result("ok", Absent, [store EXCEPT !.dir = TRUE])

\* rmtree: the files go with the directory.
OpRmdir ==
    Result(IF store.dir THEN "ok" ELSE "missing", Absent,
           [dir |-> FALSE, disk |-> [f \in Files |-> Absent]])

Executed(r) ==
    CASE r.op = "read"   -> OpRead(r.file)
      [] r.op = "exists" -> OpExists(r.file)
      [] r.op = "list"   -> OpList(r.file)
      [] r.op = "write"  -> OpWrite(r.file, r.val)
      [] r.op = "delete" -> OpDelete(r.file)
      [] r.op = "mkdir"  -> OpMkdir
      [] OTHER           -> OpRmdir

\* Ghost: what a request that changes nothing can show of the store s.
Shown(r, s) == IF r.op \in Changes THEN {} ELSE {s.disk[r.file]}

\* Ghost: every call under way sees the store s; c has been executed.
Observed(c, s) ==
    [d \in Callers |->
       IF call[d] = Idle THEN Idle
       ELSE [call[d] EXCEPT !.seen = @ \cup Shown(call[d].req, s),
                            !.execs = IF d = c THEN @ + 1 ELSE @]]

\* Whose request the relay has under this id.
Awaits(c, i) == call[c].stage = "await" /\ call[c].id = i

AwaitedBy(i) == IF \E c \in Callers : Awaits(c, i)
                THEN CHOOSE c \in Callers : Awaits(c, i) ELSE Nobody

-----------------------------------------------------------------------------
(* The caller.                                                             *)

Released(S, c) == {[s EXCEPT !.c = IF @ = c THEN Nobody ELSE @] : s \in S}

\* The synchronous call ends.
Return(c, o) ==
    /\ call' = [call EXCEPT ![c] = Idle]
    /\ out' = [out EXCEPT ![c] = o]
    /\ direct' = [direct EXCEPT ![c] = NoAnswer("none")]
    /\ stray' = Released(stray, c)

Failure == NoAnswer("fail")

\* HTTP 200, or an error status of the operation, which becomes an OSError.
Reply(a) == CASE a.st = "ok" -> a
              [] a.st = "missing" -> NoAnswer("answered")
              [] OTHER -> Failure

NewCall(s, r) == [stage |-> s, req |-> r, retry |-> TRUE, id |-> NoId, execs |-> 0,
                  seen |-> Shown(r, store)]

\* Mutant: a source that was offline once is not asked for again.
StartNoRefresh(c, r) ==
    /\ call[c] = Idle
    /\ r.op \in mix
    /\ \/ /\ proxy[c].active
          /\ call' = [call EXCEPT ![c] = NewCall("direct", r)]
          /\ direct' = [direct EXCEPT ![c] = NoAnswer("sent")]
          /\ out' = [out EXCEPT ![c] = NoAnswer("none")]
       \/ /\ ~proxy[c].active
          /\ out' = [out EXCEPT ![c] = Failure]
          /\ UNCHANGED <<call, direct>>
    /\ UNCHANGED <<mix, peerVars, relay, proxy, stray, box, nfaults>>

\* An operation on an active source.  _read_remote asks for the route of an
\* inactive one first, unless it has done so a short while ago; every other
\* operation fails there.
Start(c, r) ==
    /\ call[c] = Idle
    /\ r.op \in mix
    /\ \/ /\ proxy[c].active
          /\ call' = [call EXCEPT ![c] = NewCall("direct", r)]
          /\ direct' = [direct EXCEPT ![c] = NoAnswer("sent")]
          /\ out' = [out EXCEPT ![c] = NoAnswer("none")]
          /\ proxy' = proxy
       \/ /\ ~proxy[c].active /\ r.op = "read" /\ ~proxy[c].recent
          /\ call' = [call EXCEPT ![c] = NewCall("route", r)]
          /\ proxy' = [proxy EXCEPT ![c].recent = TRUE]
          /\ out' = [out EXCEPT ![c] = NoAnswer("none")]
          /\ direct' = direct
       \/ /\ ~proxy[c].active /\ (r.op = "read" => proxy[c].recent)
          /\ out' = [out EXCEPT ![c] = Failure]
          /\ UNCHANGED <<proxy, call, direct>>
    /\ UNCHANGED <<mix, peerVars, relay, stray, box, nfaults>>

\* _async_initialize: what the server's routing entry says; an error leaves
\* the source inactive.
Route(c) ==
    /\ call[c].stage = "route"
    /\ \/ /\ routed /\ NoFault
          /\ proxy' = [proxy EXCEPT ![c].active = TRUE, ![c].fresh = TRUE]
          /\ call' = [call EXCEPT ![c].stage = "direct"]
          /\ direct' = [direct EXCEPT ![c] = NoAnswer("sent")]
          /\ UNCHANGED <<stray, out>>
       \/ /\ IF routed THEN Fault /\ UNCHANGED proxy
             ELSE NoFault /\ proxy' = [proxy EXCEPT ![c].fresh = TRUE]
          /\ Return(c, Failure)
    /\ UNCHANGED <<mix, peerVars, relay, box>>

\* refresh may be called again after _refresh_min_interval.
IntervalPasses(c) ==
    /\ proxy[c].recent
    /\ proxy' = [proxy EXCEPT ![c].recent = FALSE]
    /\ UNCHANGED <<mix, peerVars, relay, call, direct, stray, box, out, nfaults>>

\* No token, or none after a refusal.
AuthFails(c) ==
    /\ call[c].stage = "post" \/ direct[c].st \in {"sent", "401"}
    /\ Fault
    /\ Return(c, Failure)
    /\ UNCHANGED <<mix, peerVars, relay, proxy, box>>

\* The direct request can reach the peer.
Reachable(c) == up /\ reach /\ proxy[c].fresh

\* Mutant: a time-out is retried like a refused token.
DirectFailsRetrying(c) ==
    /\ call[c].stage = "direct"
    /\ IF Reachable(c) /\ direct[c].st # "lost" THEN Fault ELSE NoFault
    /\ IF call[c].retry
       THEN /\ call' = [call EXCEPT ![c].retry = FALSE]
            /\ direct' = [direct EXCEPT ![c] = NoAnswer("sent")]
       ELSE /\ call' = [call EXCEPT ![c].stage = "post"]
            /\ direct' = [direct EXCEPT ![c] = NoAnswer("none")]
    /\ UNCHANGED <<mix, peerVars, relay, proxy, stray, box, out>>

\* Time-out or network error: the relay is tried.  A request that has reached
\* the peer may be executed there later (a late read concerns nobody).
DirectFails(c) ==
    /\ call[c].stage = "direct"
    /\ IF Reachable(c) /\ direct[c].st # "lost" THEN Fault ELSE NoFault
    /\ LET left == stray \cup {[n |-> nfaults, req |-> call[c].req, c |-> c]}
           late == IF direct[c].st = "sent" /\ Reachable(c) /\ call[c].req.op \in Changes
                   THEN {stray, left} ELSE {stray}
       IN  \/ /\ relay
              /\ stray' \in late
              /\ direct' = [direct EXCEPT ![c] = NoAnswer("none")]
              /\ call' = [call EXCEPT ![c].stage = "post"]
              /\ out' = out
           \/ /\ ~relay
              /\ call' = [call EXCEPT ![c] = Idle]
              /\ out' = [out EXCEPT ![c] = Failure]
              /\ direct' = [direct EXCEPT ![c] = NoAnswer("none")]
              /\ stray' \in {Released(l, c) : l \in late}
    /\ UNCHANGED <<mix, peerVars, relay, proxy, box>>

\* The answer of the P2P server; a first 401 is followed by a refresh of the
\* token and a second request.
DirectAnswer(c) ==
    /\ call[c].stage = "direct"
    /\ direct[c].st \in Status
    /\ \/ /\ direct[c].st = "401" /\ call[c].retry
          /\ call' = [call EXCEPT ![c].retry = FALSE]
          /\ direct' = [direct EXCEPT ![c] = NoAnswer("sent")]
          /\ UNCHANGED <<stray, out>>
       \/ /\ ~(direct[c].st = "401" /\ call[c].retry)
          /\ Return(c, Reply(direct[c]))
    /\ UNCHANGED <<mix, peerVars, relay, proxy, box, nfaults>>

\* POST /relay/request.  It is refused, or its answer is lost.  The server's
\* request ids are new: nobody waits for one that it gives.
RelayPost(c) ==
    /\ call[c].stage = "post"
    /\ LET free == {i \in Ids : box[i] = Free /\ AwaitedBy(i) = Nobody}
           queued(i) == [box EXCEPT ![i] = [st |-> "queued", req |-> call[c].req]]
       IN  \/ \E i \in free :
                \/ /\ box' = queued(i)
                   /\ call' = [call EXCEPT ![c].stage = "await", ![c].id = i]
                   /\ NoFault
                   /\ UNCHANGED <<direct, stray, out>>
                \/ /\ box' = queued(i)
                   /\ Fault
                   /\ Return(c, Failure)
           \/ /\ IF free = {} THEN NoFault ELSE Fault
              /\ Return(c, Failure)
              /\ box' = box
    /\ UNCHANGED <<mix, peerVars, relay, proxy>>

\* Mutant: the first response of the box is taken for one's own.
AnyResponse(c) == {i \in Ids : box[i].st = "done"}

\* GET /relay/response/{request_id}
ResponseFor(c) == {i \in Ids : box[i].st = "done" /\ i = call[c].id}

RelayAnswer(c) ==
    /\ call[c].stage = "await"
    /\ \E i \in ResponseFor(c) :
         /\ Return(c, Reply(box[i].res))
         /\ box' = [box EXCEPT ![i] = Free]
    /\ UNCHANGED <<mix, peerVars, relay, proxy, nfaults>>

\* Mutant: the request is posted again.
RelayTimeoutReposts(c) ==
    /\ call[c].stage = "await"
    /\ IF up /\ box[call[c].id] # Free THEN Fault ELSE NoFault
    /\ call' = [call EXCEPT ![c].stage = "post", ![c].id = NoId]
    /\ UNCHANGED <<mix, peerVars, relay, proxy, direct, stray, box, out>>

\* 504 or a time-out of the long poll: early, or because no response will come.
RelayTimeout(c) ==
    /\ call[c].stage = "await"
    /\ IF up /\ box[call[c].id] # Free THEN Fault ELSE NoFault
    /\ Return(c, Failure)
    /\ UNCHANGED <<mix, peerVars, relay, proxy, box>>

-----------------------------------------------------------------------------
(* The peer.                                                               *)

\* A handler: the token is verified at the server, then the operation runs.
\* It is refused, or the server is not there, or the operation fails.
HandleDirect(c) ==
    /\ direct[c].st = "sent" /\ call[c].stage = "direct"
    /\ Reachable(c)
    /\ \/ /\ NoFault
          /\ LET x == Executed(call[c].req) IN
               /\ store' = x.store
               /\ direct' = [direct EXCEPT ![c] = x.ans]
               /\ call' = Observed(c, x.store)
       \/ /\ Fault
          /\ \E s \in {"401", "503", "error"} : direct' = [direct EXCEPT ![c] = NoAnswer(s)]
          /\ UNCHANGED <<store, call>>
    /\ UNCHANGED <<mix, up, reach, routed, work, relay, proxy, stray, box, out>>

\* A request whose caller has stopped waiting.
HandleStray(s) ==
    /\ s \in stray
    /\ stray' = stray \ {s}
    /\ LET x == Executed(s.req) IN
         /\ store' = x.store
         /\ call' = Observed(s.c, x.store)
    /\ UNCHANGED <<mix, up, reach, routed, work, relay, proxy, direct, box, out, nfaults>>

\* _poll_once: a request is taken from the server and dispatched, or lost on
\* the way, or its operation fails.
Poll(i) ==
    /\ up /\ work = Idle
    /\ box[i].st = "queued"
    /\ \/ /\ NoFault
          /\ LET x == Executed(box[i].req) IN
               /\ store' = x.store
               /\ call' = Observed(AwaitedBy(i), x.store)
               /\ work' = [id |-> i, res |-> x.ans]
          /\ box' = [box EXCEPT ![i] = Taken]
       \/ /\ Fault
          /\ work' = [id |-> i, res |-> NoAnswer("error")]
          /\ box' = [box EXCEPT ![i] = Taken]
          /\ UNCHANGED <<store, call>>
       \/ /\ Fault
          /\ box' = [box EXCEPT ![i] = Free]
          /\ UNCHANGED <<store, call, work>>
    /\ UNCHANGED <<mix, up, reach, routed, relay, proxy, direct, stray, out>>

\* Mutant: the state of the request for the status of the operation.
RespondState ==
    /\ up /\ work # Idle
    /\ work' = Idle
    /\ box' = [box EXCEPT ![work.id] = [st |-> "done", res |-> NoAnswer("taken")]]
    /\ UNCHANGED <<mix, store, up, reach, routed, relay, proxy, call, direct, stray, out,
                   nfaults>>

\* POST /relay/response/{request_id}; a failure is only logged.
Respond ==
    /\ up /\ work # Idle
    /\ work' = Idle
    /\ \/ NoFault /\ box' = [box EXCEPT ![work.id] =
                               IF @ = Free THEN @ ELSE [st |-> "done", res |-> work.res]]
       \/ Fault /\ box' = [box EXCEPT ![work.id] = Free]
    /\ UNCHANGED <<mix, store, up, reach, routed, relay, proxy, call, direct, stray, out>>

\* The daemon ends; requests at its port are gone with it.
GoDown ==
    /\ up /\ Fault
    /\ up' = FALSE
    /\ stray' = {}
    /\ direct' = [c \in Callers |-> IF direct[c].st = "sent" THEN NoAnswer("lost")
                                    ELSE direct[c]]
    /\ work' = Idle
    /\ box' = IF work = Idle THEN box ELSE [box EXCEPT ![work.id] = Free]
    /\ UNCHANGED <<mix, store, reach, routed, relay, proxy, call, out>>

\* It starts, maybe under another address, without P2P if the port is taken.
GoUp ==
    /\ ~up
    /\ up' = TRUE
    /\ \E moved \in BOOLEAN :
         proxy' = [c \in Callers |-> [proxy[c] EXCEPT !.fresh = @ /\ ~moved]]
    /\ reach' \in BOOLEAN
    /\ UNCHANGED <<mix, store, routed, work, relay, call, direct, stray, box, out, nfaults>>

\* Heartbeats, or their absence.
Heartbeat ==
    /\ routed # up
    /\ routed' = up
    /\ UNCHANGED <<mix, store, up, reach, work, relay, proxy, call, direct, stray, box, out,
                   nfaults>>

\* The peer itself writes a file.
LocalWrite(f, v) ==
    /\ up
    /\ store.disk[f] # v
    /\ store' = OpWrite(f, v).store
    /\ call' = Observed(Nobody, store')
    /\ UNCHANGED <<mix, up, reach, routed, work, relay, proxy, direct, stray, box, out,
                   nfaults>>

\* The server forgets requests and responses that nobody waits for.
Expire(i) ==
    /\ box[i].st \in {"queued", "done"} /\ AwaitedBy(i) = Nobody
    /\ box' = [box EXCEPT ![i] = Free]
    /\ UNCHANGED <<mix, peerVars, relay, proxy, call, direct, stray, out, nfaults>>

-----------------------------------------------------------------------------
CallerStep(c) ==
    \/ Route(c)
    \/ DirectFails(c)
    \/ DirectAnswer(c)
    \/ RelayPost(c)
    \/ RelayAnswer(c)
    \/ RelayTimeout(c)

Next ==
    \/ \E c \in Callers : \E r \in Req : Start(c, r)
    \/ \E c \in Callers : CallerStep(c)
    \/ \E c \in Callers : IntervalPasses(c)
    \/ \E c \in Callers : AuthFails(c)
    \/ \E c \in Callers : HandleDirect(c)
    \/ \E s \in stray : HandleStray(s)
    \/ \E i \in Ids : Poll(i)
    \/ Respond
    \/ GoDown
    \/ GoUp
    \/ Heartbeat
    \/ \E f \in Files : \E v \in Values : LocalWrite(f, v)
    \/ \E i \in Ids : Expire(i)

\* Calls have time-outs, the peer's event loop and relay worker go on while
\* it runs, time passes, and the server expires what is old.  Nobody is made
\* to call, to start a daemon or to write.
Fairness ==
    /\ \A c \in Callers : /\ WF_vars(CallerStep(c))
                          /\ WF_vars(IntervalPasses(c))
                          /\ WF_vars(HandleDirect(c))
    /\ \A i \in Ids : WF_vars(Poll(i)) /\ WF_vars(Expire(i))
    /\ WF_vars(Respond)
    /\ WF_vars(Heartbeat)

Spec == Init /\ [][Next]_vars /\ Fairness

-----------------------------------------------------------------------------
\* However direct request, retry after 401 and relay combine, one call of
\* _do_p2p_request has its operation executed at most twice: once directly
\* and once by the relay worker.
ExecutedAtMostTwice ==
    \A c \in Callers : call[c] # Idle => call[c].execs <= 2

\* Call c returns with success.
Succeeds(c) == call[c] # Idle /\ call'[c] = Idle /\ out'[c].st = "ok"

\* A call that returns success was executed since it began, not some earlier
\* request whose response was still around, and what a read, exists or list
\* returns about the file was true at some moment of the call.
AnswersAreCurrent ==
    [][\A c \in Callers : Succeeds(c) =>
         /\ call[c].execs > 0
         /\ call[c].req.op \notin Changes => out'[c].data \in call[c].seen]_vars

\* Every call returns, whatever is lost: all waits are bounded.
CallsReturn == \A c \in Callers : call[c] # Idle ~> call[c] = Idle

\* With the relay, a peer that stays up is reached again: a user who goes on
\* reading gets answers from it, although the address that the source
\* remembers may be out of date and is not asked for again.
PeerReachedAgain ==
    \A c \in Callers :
        /\ relay /\ "read" \in mix
        /\ <>[]up
        /\ WF_vars(\E r \in Req : r.op = "read" /\ Start(c, r))
        => []<>(out[c].st \in {"ok", "answered"})
=============================================================================
