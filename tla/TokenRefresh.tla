---------------------------- MODULE TokenRefresh ----------------------------
(***************************************************************************)
(* Tokens of one host (stardustlib/auth_client.py, credential_store.py,    *)
(* and remote_source.py's retry after 401).                                *)
(*                                                                         *)
(* The processes of a host, the daemon and the CLI, share one credential   *)
(* file and one lock file beside it.  Each process has one AuthClient,     *)
(* mem[p], used by all coroutines of its event loops.  The server rotates  *)
(* refresh tokens: a refresh consumes the token it is made with and issues *)
(* the next one.  A token here is an access and refresh token pair.        *)
(*                                                                         *)
(* file_lock spins with time.sleep, inside a coroutine: while one spins    *)
(* no other coroutine of its event loop runs.                              *)
(***************************************************************************)
EXTENDS Integers, FiniteSets

CONSTANTS
    Coroutines,     \* <<process, event loop, number>>
    Absent,         \* no credential file
    Free,           \* no lock file
    Dead,           \* a lock file whose creator has died
    MaxExpiries,    \* bound: times the access tokens run out
    MaxRefusals,    \* bound: peers that answer 401 to a P2P request
    MaxLoss,        \* bound: network errors and crashes
    MaxLogouts      \* bound: logouts

ASSUME TokenBounds ==
    /\ MaxExpiries \in Nat
    /\ MaxRefusals \in Nat
    /\ MaxLoss \in Nat
    /\ MaxLogouts \in Nat

ASSUME LockNames == Free \notin Coroutines /\ Dead \notin Coroutines /\ Free # Dead

ASSUME AbsentAssumption == Absent \notin Nat

Process(c) == c[1]

Loop(c) == <<c[1], c[2]>>

Processes == {Process(c) : c \in Coroutines}

NoToken == 0

VARIABLES
    store,      \* the credential file: its token, or Absent
    lock,       \* the lock file: its creator, Free or Dead
    mem,        \* mem[p]: the token an AuthClient has
    up,         \* the processes that run
    pc,         \* pc[c]: "idle", "spin", "sent" or "answered"
    locked,     \* locked[c]: c refreshes under the lock
    req,        \* req[c]: the refresh token c has sent
    ans,        \* ans[c]: the token the server answered with (NoToken: 401)
    valid,      \* external: refresh tokens the server accepts
    issued,     \* external: the number of tokens the server has issued
    old,        \* tokens whose access token is about to expire
    session,    \* "in", "leaving" (logout sent) or "out"
    nexp, nref, nloss, nlogout

serverVars == <<valid, issued>>
countVars == <<nexp, nref, nloss, nlogout>>
vars == <<store, lock, mem, up, pc, locked, req, ans, valid, issued, old,
          session, nexp, nref, nloss, nlogout>>

\* The type invariant: the stored tokens, the lock file and the step of each
\* process keep their shape.
TypeOK ==
    /\ store \in Nat \cup {Absent}
    /\ lock \in Coroutines \cup {Free, Dead}
    /\ mem \in [Processes -> Nat]
    /\ up \subseteq Processes
    /\ pc \in [Coroutines -> {"idle", "spin", "sent", "answered"}]
    /\ locked \in [Coroutines -> BOOLEAN]
    /\ req \in [Coroutines -> Nat]
    /\ ans \in [Coroutines -> Nat]
    /\ valid \subseteq Nat
    /\ issued \in Nat
    /\ old \subseteq Nat
    /\ session \in {"in", "leaving", "out"}
    /\ nexp \in 0..MaxExpiries
    /\ nref \in 0..MaxRefusals
    /\ nloss \in 0..MaxLoss
    /\ nlogout \in 0..MaxLogouts

\* The user has logged in and every process has loaded the token.
Init ==
    /\ store = 1
    /\ lock = Free
    /\ mem = [p \in Processes |-> 1]
    /\ up = Processes
    /\ pc = [c \in Coroutines |-> "idle"]
    /\ locked = [c \in Coroutines |-> FALSE]
    /\ req = [c \in Coroutines |-> NoToken]
    /\ ans = [c \in Coroutines |-> NoToken]
    /\ valid = {1}
    /\ issued = 1
    /\ old = {}
    /\ session = "in"
    /\ nexp = 0 /\ nref = 0 /\ nloss = 0 /\ nlogout = 0

-----------------------------------------------------------------------------
\* A coroutine runs unless its process is down or a spinning coroutine has
\* its event loop.
Runs(c) ==
    /\ Process(c) \in up
    /\ \A d \in Coroutines : Loop(d) = Loop(c) /\ pc[d] = "spin" => d = c

Stale(t) == t = NoToken \/ t \in old

\* Mutant: a missing file is read as if it held a token.
ReloadedBlindly(p) == store

\* Mutant: the tokens are not read again under the lock.
NotReloaded(p) == mem[p]

\* _reload_tokens_from_store: no file, no change.
Reloaded(p) == IF store = Absent THEN mem[p] ELSE store

\* get_valid_token finds its token about to expire.
NeedsRefresh(c) == mem[Process(c)] # NoToken /\ Stale(mem[Process(c)])

\* Mutant: open without O_EXCL.
CanCreateAnyway == TRUE

\* file_lock: O_CREAT | O_EXCL succeeds only if there is no lock file.
CanCreate == lock = Free

\* The lock file is created: read the tokens again; if they are fresh, or if
\* there are none, give the lock back; otherwise send the refresh token.
AcquireLock(c) ==
    /\ Runs(c)
    /\ pc[c] = "spin" \/ (pc[c] = "idle" /\ NeedsRefresh(c))
    /\ CanCreate
    /\ LET t == Reloaded(Process(c))
       IN  /\ mem' = [mem EXCEPT ![Process(c)] = t]
           /\ IF t # NoToken /\ Stale(t)
              THEN /\ lock' = c
                   /\ pc' = [pc EXCEPT ![c] = "sent"]
                   /\ req' = [req EXCEPT ![c] = t]
                   /\ locked' = [locked EXCEPT ![c] = TRUE]
              ELSE /\ lock' = Free
                   /\ pc' = [pc EXCEPT ![c] = "idle"]
                   /\ UNCHANGED <<req, locked>>
    /\ UNCHANGED <<store, up, ans, serverVars, old, session, countVars>>

\* The lock file is there: sleep and try again, with the event loop stopped.
Spin(c) ==
    /\ Runs(c)
    /\ pc[c] = "idle"
    /\ NeedsRefresh(c)
    /\ ~CanCreate
    /\ pc' = [pc EXCEPT ![c] = "spin"]
    /\ UNCHANGED <<store, lock, mem, up, locked, req, ans, serverVars,
                   old, session, countVars>>

\* Mutant: file_lock without a deadline.
SpinForever(c) == FALSE

\* TimeoutError: go on with the token there is.
SpinTimeout(c) ==
    /\ Runs(c)
    /\ pc[c] = "spin"
    /\ ~CanCreate
    /\ pc' = [pc EXCEPT ![c] = "idle"]
    /\ UNCHANGED <<store, lock, mem, up, locked, req, ans, serverVars, old,
                   session, countVars>>

\* A peer answers 401 to a P2P request: _do_p2p_request calls refresh_token
\* itself, without the lock.
RefreshUnlocked(c) ==
    /\ Runs(c)
    /\ pc[c] = "idle"
    /\ nref < MaxRefusals
    /\ mem[Process(c)] # NoToken
    /\ pc' = [pc EXCEPT ![c] = "sent"]
    /\ req' = [req EXCEPT ![c] = mem[Process(c)]]
    /\ locked' = [locked EXCEPT ![c] = FALSE]
    /\ nref' = nref + 1
    /\ UNCHANGED <<store, lock, mem, up, ans, serverVars, old, session,
                   nexp, nloss, nlogout>>

\* POST /auth/refresh: a valid token is consumed and a new one issued.
ServerRefresh(c) ==
    /\ pc[c] = "sent"
    /\ IF req[c] \in valid
       THEN /\ issued' = issued + 1
            /\ valid' = (valid \ {req[c]}) \cup {issued + 1}
            /\ ans' = [ans EXCEPT ![c] = issued + 1]
       ELSE /\ ans' = [ans EXCEPT ![c] = NoToken]
            /\ UNCHANGED serverVars
    /\ pc' = [pc EXCEPT ![c] = "answered"]
    /\ UNCHANGED <<store, lock, mem, up, locked, req, old, session,
                   countVars>>

\* The end of file_lock's block: the lock file is removed, whoever made it.
Release(c) == lock' = IF locked[c] THEN Free ELSE lock

Done(c) ==
    /\ pc' = [pc EXCEPT ![c] = "idle"]
    /\ req' = [req EXCEPT ![c] = NoToken]
    /\ ans' = [ans EXCEPT ![c] = NoToken]
    /\ locked' = [locked EXCEPT ![c] = FALSE]
    /\ Release(c)

\* The answer of refresh_token: the new tokens, or none after a 401, go to
\* memory and to the file (_store_tokens, _clear_tokens, _persist).
HandleAnswer(c) ==
    /\ Runs(c)
    /\ pc[c] = "answered"
    /\ mem' = [mem EXCEPT ![Process(c)] = ans[c]]
    /\ store' = ans[c]
    /\ Done(c)
    /\ UNCHANGED <<up, serverVars, old, session, countVars>>

\* A network error, a 5xx or a time-out: the tokens are kept.
RefreshFails(c) ==
    /\ Runs(c)
    /\ pc[c] \in {"sent", "answered"}
    /\ nloss < MaxLoss
    /\ nloss' = nloss + 1
    /\ Done(c)
    /\ UNCHANGED <<store, mem, up, serverVars, old, session, nexp, nref, nlogout>>

-----------------------------------------------------------------------------
\* Access tokens live 15 minutes.
Expire ==
    /\ nexp < MaxExpiries
    /\ nexp' = nexp + 1
    /\ old' = 1..issued
    /\ UNCHANGED <<store, lock, mem, up, pc, locked, req, ans,
                   serverVars, session, nref, nloss, nlogout>>

\* A process is killed.  Its lock file stays.
Crash(p) ==
    /\ p \in up
    /\ nloss < MaxLoss
    /\ nloss' = nloss + 1
    /\ up' = up \ {p}
    /\ lock' = IF lock \in Coroutines /\ Process(lock) = p THEN Dead ELSE lock
    /\ mem' = [mem EXCEPT ![p] = NoToken]
    /\ pc' = [c \in Coroutines |-> IF Process(c) = p THEN "idle" ELSE pc[c]]
    /\ req' = [c \in Coroutines |-> IF Process(c) = p THEN NoToken ELSE req[c]]
    /\ ans' = [c \in Coroutines |-> IF Process(c) = p THEN NoToken ELSE ans[c]]
    /\ locked' = [c \in Coroutines |-> Process(c) # p /\ locked[c]]
    /\ UNCHANGED <<store, serverVars, old, session, nexp, nref, nlogout>>

\* load_from_store of a process that starts.
Start(p) ==
    /\ p \notin up
    /\ up' = up \cup {p}
    /\ mem' = [mem EXCEPT ![p] = IF store = Absent THEN NoToken ELSE store]
    /\ UNCHANGED <<store, lock, pc, locked, req, ans, serverVars, old,
                   session, countVars>>

\* cmd_logout: the file's token is revoked (logout), best effort ...
LogoutSend ==
    /\ session = "in"
    /\ nlogout < MaxLogouts
    /\ store # Absent
    /\ nlogout' = nlogout + 1
    /\ session' = "leaving"
    /\ \/ valid' = valid \ {store} /\ nloss' = nloss
       \/ valid' = valid /\ nloss < MaxLoss /\ nloss' = nloss + 1
    /\ UNCHANGED <<store, lock, mem, up, pc, locked, req, ans, issued,
                   old, nexp, nref>>

\* ... and then the file is removed, with the lock file (clear).
LogoutClear ==
    /\ session = "leaving"
    /\ session' = "out"
    /\ store' = Absent
    /\ lock' = Free
    /\ UNCHANGED <<mem, up, pc, locked, req, ans, serverVars, old,
                   countVars>>

\* cmd_login: a new token, written to the file without the lock.
Login ==
    /\ session = "out"
    /\ session' = "in"
    /\ issued' = issued + 1
    /\ valid' = valid \cup {issued + 1}
    /\ store' = issued + 1
    /\ UNCHANGED <<lock, mem, up, pc, locked, req, ans, old, countVars>>

-----------------------------------------------------------------------------
CoroutineStep(c) ==
    \/ AcquireLock(c)
    \/ Spin(c)
    \/ SpinTimeout(c)
    \/ ServerRefresh(c)
    \/ HandleAnswer(c)

Next ==
    \/ \E c \in Coroutines : CoroutineStep(c)
    \/ \E c \in Coroutines : RefreshUnlocked(c)
    \/ \E c \in Coroutines : RefreshFails(c)
    \/ \E p \in Processes : Crash(p) \/ Start(p)
    \/ Expire
    \/ LogoutSend
    \/ LogoutClear
    \/ Login

Spec == Init /\ [][Next]_vars

\* Event loops run their coroutines, the server answers, and a coroutine
\* that spins looks at its clock.  A coroutine that keeps coming back to a
\* dead lock gives its event loop back in between: the loop's ready queue is
\* first in, first out, so an answer that is there gets its turn.
Fairness ==
    \A c \in Coroutines : WF_vars(CoroutineStep(c)) /\ SF_vars(HandleAnswer(c))

FairSpec == Spec /\ Fairness

-----------------------------------------------------------------------------
InRefresh(c) == pc[c] \in {"sent", "answered"}

\* At most one coroutine of the host refreshes under the lock, whatever fails
\* (file_lock), until a logout removes a lock file that is in use (clear).
MutualExclusion ==
    nlogout = 0 =>
       \A c, d \in Coroutines :
          InRefresh(c) /\ InRefresh(d) /\ locked[c] /\ locked[d] => c = d

\* A refresh that is under way and will bring a token into the file.
Pending(c) ==
    \/ pc[c] = "sent" /\ req[c] \in valid
    \/ pc[c] = "answered" /\ ans[c] \in valid

\* As long as the user is logged in the host has a refresh token the server
\* accepts, in the file or on its way there (_refresh_with_lock: the rotated
\* token is never lost).
TokenNeverLost ==
    session = "in" => \/ store \in valid
                      \/ \E c \in Coroutines : Pending(c)

\* So far every refresh was made under the lock, none failed, no process
\* died and nobody logged out.
Undisturbed == nref = 0 /\ nloss = 0 /\ nlogout = 0

\* The lock and the reload under it do what they are for: nobody sends a
\* refresh token that was already consumed, which the server would answer by
\* a 401 that clears the tokens of all processes, and the rotated token is
\* never lost (_refresh_with_lock).
RotationSafe ==
    Undisturbed =>
       /\ TokenNeverLost
       /\ \A c \in Coroutines : pc[c] = "sent" => req[c] \in valid

\* get_valid_token returns: nobody spins, or waits for an answer, for ever,
\* not even for a lock file left by a process that died.
CallsReturn ==
    \A c \in Coroutines : pc[c] # "idle" ~> pc[c] = "idle"
=============================================================================
