------------------------- MODULE TokenRefreshProofs -------------------------
(***************************************************************************)
(* Proofs about TokenRefresh, for any number of processes, event loops and *)
(* coroutines and any number of expiries.                                  *)
(***************************************************************************)
EXTENDS TokenRefresh, TLAPS

USE TokenBounds, LockNames, AbsentAssumption

\* The initial state has the right types.
LEMMA InitTyped == Init => TypeOK
BY DEF Init, TypeOK, NoToken

\* Every step keeps the types.
LEMMA NextTyped == TypeOK /\ [Next]_vars => TypeOK'
<1> SUFFICES ASSUME TypeOK, [Next]_vars
             PROVE  TypeOK'
  OBVIOUS
<1> USE DEF TypeOK, serverVars, countVars
<1>p. \A c \in Coroutines : Process(c) \in Processes
  BY DEF Processes
<1>1. ASSUME NEW c \in Coroutines, AcquireLock(c)
      PROVE  TypeOK'
  <2>1. mem[Process(c)] \in Nat /\ Reloaded(Process(c)) \in Nat
    BY <1>p DEF Reloaded
  <2>2. mem' \in [Processes -> Nat]
    BY <1>1, <2>1 DEF AcquireLock
  <2>3. lock' \in Coroutines \cup {Free, Dead}
    BY <1>1 DEF AcquireLock
  <2>4. pc' \in [Coroutines -> {"idle", "spin", "sent", "answered"}]
    BY <1>1 DEF AcquireLock
  <2>5. req' \in [Coroutines -> Nat] /\ locked' \in [Coroutines -> BOOLEAN]
    <3> DEFINE t == Reloaded(Process(c))
    <3>1. \/ req' = [req EXCEPT ![c] = t] /\ locked' = [locked EXCEPT ![c] = TRUE]
          \/ req' = req /\ locked' = locked
      BY <1>1 DEF AcquireLock
    <3>2. t \in Nat
      BY <2>1
    <3> HIDE DEF t
    <3> QED BY ZenonT(40), <3>1, <3>2
  <2> QED BY <1>1, <2>2, <2>3, <2>4, <2>5 DEF AcquireLock
<1>2. ASSUME NEW c \in Coroutines, Spin(c)
      PROVE  TypeOK'
  BY <1>2 DEF Spin
<1>3. ASSUME NEW c \in Coroutines, SpinTimeout(c)
      PROVE  TypeOK'
  BY <1>3 DEF SpinTimeout
<1>4. ASSUME NEW c \in Coroutines, ServerRefresh(c)
      PROVE  TypeOK'
  <2>1. issued' \in Nat /\ valid' \subseteq Nat /\ ans' \in [Coroutines -> Nat]
    <3>1. CASE req[c] \in valid
      <4>1. /\ issued' = issued + 1
            /\ valid' = (valid \ {req[c]}) \cup {issued + 1}
            /\ ans' = [ans EXCEPT ![c] = issued + 1]
        BY <1>4, <3>1 DEF ServerRefresh
      <4>2. issued + 1 \in Nat
        OBVIOUS
      <4> QED BY <4>1, <4>2
    <3>2. CASE req[c] \notin valid
      <4>1. issued' = issued /\ valid' = valid /\ ans' = [ans EXCEPT ![c] = 0]
        BY <1>4, <3>2 DEF ServerRefresh, NoToken
      <4> QED BY <4>1
    <3> QED BY <3>1, <3>2
  <2>2. pc' \in [Coroutines -> {"idle", "spin", "sent", "answered"}]
    BY <1>4 DEF ServerRefresh
  <2> QED BY <1>4, <2>1, <2>2 DEF ServerRefresh
<1>5. ASSUME NEW c \in Coroutines, HandleAnswer(c)
      PROVE  TypeOK'
  BY <1>5, <1>p DEF HandleAnswer, Done, Release, NoToken
<1>6. ASSUME NEW c \in Coroutines, RefreshUnlocked(c)
      PROVE  TypeOK'
  BY <1>6, <1>p DEF RefreshUnlocked
<1>7. ASSUME NEW c \in Coroutines, RefreshFails(c)
      PROVE  TypeOK'
  BY <1>7 DEF RefreshFails, Done, Release, NoToken
<1>8. ASSUME NEW p \in Processes, Crash(p)
      PROVE  TypeOK'
  BY <1>8 DEF Crash, NoToken
<1>9. ASSUME NEW p \in Processes, Start(p)
      PROVE  TypeOK'
  BY <1>9 DEF Start, NoToken
<1>10. CASE Expire
  BY <1>10 DEF Expire
<1>11. CASE LogoutSend
  <2>1. valid' \subseteq Nat
    BY <1>11 DEF LogoutSend
  <2>2. nloss' \in 0..MaxLoss /\ nlogout' \in 0..MaxLogouts
    BY <1>11 DEF LogoutSend
  <2>3. /\ session' = "leaving"
        /\ UNCHANGED <<store, lock, mem, up, pc, locked, req, ans, issued, old,
                       nexp, nref>>
    BY <1>11 DEF LogoutSend
  <2> QED BY <2>1, <2>2, <2>3
<1>12. CASE LogoutClear
  BY <1>12 DEF LogoutClear
<1>13. CASE Login
  BY <1>13 DEF Login
<1>14. CASE UNCHANGED vars
  BY <1>14 DEF vars
<1> QED BY <1>1, <1>2, <1>3, <1>4, <1>5, <1>6, <1>7, <1>8, <1>9, <1>10, <1>11,
           <1>12, <1>13, <1>14 DEF Next, CoroutineStep

\* Whatever the processes of a host do, tokens, lock and files keep their
\* types (AuthClient, CredentialStore).
THEOREM TokenTypeCorrect == Spec => []TypeOK
BY InitTyped, NextTyped, PTL DEF Spec

-----------------------------------------------------------------------------
(***************************************************************************)
(* What has not happened yet had not happened before the last step.        *)
(***************************************************************************)

\* The counters of logouts, unlocked refreshes and failures never go down.
LEMMA CountersGrow ==
    ASSUME TypeOK, [Next]_vars
    PROVE  /\ nlogout' = 0 => nlogout = 0
           /\ Undisturbed' => Undisturbed
<1> SUFFICES nlogout' >= nlogout /\ nref' >= nref /\ nloss' >= nloss
  BY DEF TypeOK, Undisturbed
<1> USE DEF TypeOK, countVars
<1>1. ASSUME NEW c \in Coroutines, CoroutineStep(c)
      PROVE  UNCHANGED countVars
  BY <1>1 DEF CoroutineStep, AcquireLock, Spin, SpinTimeout, ServerRefresh,
              HandleAnswer
<1>2. ASSUME NEW c \in Coroutines, RefreshUnlocked(c) \/ RefreshFails(c)
      PROVE  nlogout' >= nlogout /\ nref' >= nref /\ nloss' >= nloss
  BY <1>2 DEF RefreshUnlocked, RefreshFails
<1>3. ASSUME NEW p \in Processes, Crash(p) \/ Start(p)
      PROVE  nlogout' >= nlogout /\ nref' >= nref /\ nloss' >= nloss
  BY <1>3 DEF Crash, Start
<1>4. CASE Expire \/ LogoutSend \/ LogoutClear \/ Login
  BY <1>4 DEF Expire, LogoutSend, LogoutClear, Login
<1>5. CASE UNCHANGED vars
  BY <1>5 DEF vars
<1> QED BY <1>1, <1>2, <1>3, <1>4, <1>5 DEF Next

-----------------------------------------------------------------------------
(***************************************************************************)
(* Mutual exclusion, as long as nobody logs out: clear removes the lock     *)
(* file of whoever has it.                                                 *)
(***************************************************************************)

\* Who refreshes under the lock is the creator of the lock file.
LockInv ==
    /\ session = "in"
    /\ \A c \in Coroutines : InRefresh(c) /\ locked[c] => lock = c

\* Without logouts every step keeps LockInv.
LEMMA NextLockInv ==
    ASSUME nlogout' = 0, TypeOK, LockInv, [Next]_vars
    PROVE  LockInv'
<1> USE DEF TypeOK, LockInv, InRefresh, serverVars, countVars
<1>1. ASSUME NEW c \in Coroutines, AcquireLock(c)
      PROVE  LockInv'
  <2>1. session' = "in" /\ lock = Free
    BY <1>1 DEF AcquireLock, CanCreate
  <2>2. \A d \in Coroutines : ~(InRefresh(d) /\ locked[d])
    BY <2>1
  <2>3. CASE lock' = c /\ pc' = [pc EXCEPT ![c] = "sent"]
                       /\ locked' = [locked EXCEPT ![c] = TRUE]
    BY <2>1, <2>2, <2>3
  <2>4. CASE pc' = [pc EXCEPT ![c] = "idle"] /\ locked' = locked
    BY <2>1, <2>2, <2>4
  <2> QED BY <1>1, <2>3, <2>4 DEF AcquireLock
<1>2. ASSUME NEW c \in Coroutines, Spin(c)
      PROVE  LockInv'
  BY <1>2 DEF Spin
<1>3. ASSUME NEW c \in Coroutines, SpinTimeout(c)
      PROVE  LockInv'
  BY <1>3 DEF SpinTimeout
<1>4. ASSUME NEW c \in Coroutines, ServerRefresh(c)
      PROVE  LockInv'
  <2>1. pc[c] = "sent" /\ pc' = [pc EXCEPT ![c] = "answered"]
        /\ locked' = locked /\ lock' = lock /\ session' = session
    BY <1>4 DEF ServerRefresh
  <2> QED BY <2>1
<1>5. ASSUME NEW c \in Coroutines, InRefresh(c), Done(c), session' = session
      PROVE  LockInv'
  BY <1>5 DEF Done, Release
<1>6. ASSUME NEW c \in Coroutines, RefreshUnlocked(c)
      PROVE  LockInv'
  BY <1>6 DEF RefreshUnlocked
<1>7. ASSUME NEW p \in Processes, Crash(p)
      PROVE  LockInv'
  <2>1. SUFFICES ASSUME NEW d \in Coroutines, InRefresh(d)', locked'[d]
                 PROVE  lock' = d
    BY <1>7 DEF Crash
  <2>2. Process(d) # p /\ InRefresh(d) /\ locked[d]
    BY <1>7, <2>1 DEF Crash
  <2>3. lock = d
    BY <2>2
  <2> QED BY <1>7, <2>2, <2>3 DEF Crash
<1>8. ASSUME NEW p \in Processes, Start(p)
      PROVE  LockInv'
  BY <1>8 DEF Start
<1>9. CASE Expire
  BY <1>9 DEF Expire
<1>10. ~LogoutSend /\ ~LogoutClear /\ ~Login
  BY DEF LogoutSend, LogoutClear, Login
<1>11. CASE UNCHANGED vars
  BY <1>11 DEF vars
<1>12. \A c \in Coroutines : HandleAnswer(c) \/ RefreshFails(c)
                             => InRefresh(c) /\ Done(c) /\ session' = session
  BY DEF HandleAnswer, RefreshFails
<1> QED BY <1>1, <1>2, <1>3, <1>4, <1>5, <1>6, <1>7, <1>8, <1>9, <1>10, <1>11,
           <1>12 DEF Next, CoroutineStep

\* As long as nobody logs out, at most one coroutine of the host refreshes
\* under the lock, whatever requests fail and processes die (file_lock).
THEOREM MutualExclusionHolds == Spec => []MutualExclusion
<1> DEFINE Inv == nlogout = 0 => LockInv
<1>1. Init => Inv
  BY DEF Init, LockInv, InRefresh
<1>2. TypeOK /\ Inv /\ [Next]_vars => Inv'
  BY NextLockInv, CountersGrow
<1>3. Inv => MutualExclusion
  BY DEF LockInv, MutualExclusion
<1> HIDE DEF Inv
<1> QED BY <1>1, <1>2, <1>3, TokenTypeCorrect, PTL DEF Spec

-----------------------------------------------------------------------------
(***************************************************************************)
(* Rotation.  If all refreshes are made under the lock, none fails and     *)
(* nobody logs out, there is one valid token, the last one issued, and it  *)
(* is in the file or in the hands of the one coroutine that refreshes.     *)
(***************************************************************************)

RotationInv ==
    /\ valid = {issued}
    /\ lock # Dead
    /\ lock = Free => store = issued
    /\ lock \in Coroutines => InRefresh(lock)
    /\ \A c \in Coroutines :
          InRefresh(c) => /\ lock = c
                          /\ locked[c]
                          /\ pc[c] = "sent" => req[c] = issued /\ store = issued
                          /\ pc[c] = "answered" => ans[c] = issued

\* Every step keeps RotationInv.
LEMMA NextRotationInv ==
    ASSUME Undisturbed', TypeOK, LockInv, RotationInv, [Next]_vars
    PROVE  RotationInv'
<1> USE DEF TypeOK, RotationInv, InRefresh, serverVars, countVars
<1>1. ASSUME NEW c \in Coroutines, AcquireLock(c)
      PROVE  RotationInv'
  <2>1. lock = Free /\ store = issued /\ Reloaded(Process(c)) = issued
    BY <1>1 DEF AcquireLock, CanCreate, Reloaded
  <2>2. \A d \in Coroutines : ~InRefresh(d)
    BY <2>1
  <2>3. UNCHANGED <<store, valid, issued, ans>>
    BY <1>1 DEF AcquireLock
  <2>4. CASE lock' = c /\ pc' = [pc EXCEPT ![c] = "sent"]
                       /\ locked' = [locked EXCEPT ![c] = TRUE]
                       /\ req' = [req EXCEPT ![c] = issued]
    BY <2>1, <2>2, <2>3, <2>4
  <2>5. CASE lock' = Free /\ pc' = [pc EXCEPT ![c] = "idle"]
    BY <2>1, <2>2, <2>3, <2>5
  <2> QED BY <1>1, <2>1, <2>4, <2>5 DEF AcquireLock
<1>2. ASSUME NEW c \in Coroutines, Spin(c) \/ SpinTimeout(c)
      PROVE  RotationInv'
  <2>1. /\ ~InRefresh(c)
        /\ pc' = [pc EXCEPT ![c] = "spin"] \/ pc' = [pc EXCEPT ![c] = "idle"]
        /\ UNCHANGED <<store, lock, locked, req, ans, valid, issued>>
    BY <1>2 DEF Spin, SpinTimeout
  <2>2. \A d \in Coroutines : /\ InRefresh(d)' <=> InRefresh(d)
                              /\ InRefresh(d) => pc'[d] = pc[d]
    BY <2>1
  <2> QED BY <2>1, <2>2
<1>3. ASSUME NEW c \in Coroutines, ServerRefresh(c)
      PROVE  RotationInv'
  <2>1. pc[c] = "sent" /\ req[c] = issued /\ issued \in valid /\ lock = c
    BY <1>3 DEF ServerRefresh
  <2>2. /\ issued' = issued + 1 /\ valid' = {issued + 1}
        /\ ans' = [ans EXCEPT ![c] = issued + 1]
        /\ pc' = [pc EXCEPT ![c] = "answered"]
        /\ UNCHANGED <<store, lock, locked, req>>
    BY <1>3, <2>1 DEF ServerRefresh
  <2>3. \A d \in Coroutines : d # c => ~InRefresh(d)
    BY <2>1
  <2> QED BY <2>1, <2>2, <2>3
<1>4. ASSUME NEW c \in Coroutines, HandleAnswer(c)
      PROVE  RotationInv'
  <2>1. pc[c] = "answered" /\ lock = c /\ locked[c] /\ ans[c] = issued
    BY <1>4 DEF HandleAnswer
  <2>2. /\ store' = issued /\ lock' = Free
        /\ pc' = [pc EXCEPT ![c] = "idle"]
        /\ UNCHANGED <<valid, issued>>
    BY <1>4, <2>1 DEF HandleAnswer, Done, Release
  <2>3. \A d \in Coroutines : ~InRefresh(d)'
    BY <2>1, <2>2
  <2> QED BY <2>2, <2>3
<1>5. ASSUME NEW p \in Processes, Start(p)
      PROVE  RotationInv'
  BY <1>5 DEF Start
<1>6. CASE Expire
  BY <1>6 DEF Expire
<1>7. CASE UNCHANGED vars
  BY <1>7 DEF vars
<1>8. /\ ~LogoutSend /\ ~LogoutClear /\ ~Login
      /\ \A c \in Coroutines : ~RefreshUnlocked(c) /\ ~RefreshFails(c)
      /\ \A p \in Processes : ~Crash(p)
  BY DEF Undisturbed, LogoutSend, LogoutClear, Login, LockInv, RefreshUnlocked, RefreshFails,
         Crash
<1> QED BY <1>1, <1>2, <1>3, <1>4, <1>5, <1>6, <1>7, <1>8 DEF Next, CoroutineStep

\* RotationSafe follows from the invariant.
LEMMA RotationImplies ==
    ASSUME TypeOK, RotationInv
    PROVE  RotationSafe
<1>1. \A c \in Coroutines : pc[c] = "sent" => req[c] \in valid
  BY DEF RotationInv, InRefresh
<1>2. CASE lock = Free
  BY <1>1, <1>2 DEF RotationInv, RotationSafe, TokenNeverLost
<1>3. CASE lock \in Coroutines
  <2>1. Pending(lock)
    BY <1>3 DEF RotationInv, InRefresh, Pending
  <2> QED BY <1>1, <1>3, <2>1 DEF RotationSafe, TokenNeverLost
<1> QED BY <1>2, <1>3 DEF TypeOK, RotationInv

\* As long as every refresh is made under the lock, none fails and nobody
\* logs out, any number of processes and coroutines never loses the refresh
\* token and never replays one: the lock and the reload under it suffice
\* (_refresh_with_lock).
THEOREM RotationIsSafe == Spec => []RotationSafe
<1> DEFINE Inv == Undisturbed => LockInv /\ RotationInv
<1>1. Init => Inv
  BY DEF Init, LockInv, RotationInv, InRefresh
<1>2. TypeOK /\ Inv /\ [Next]_vars => Inv'
  <2> SUFFICES ASSUME TypeOK, Inv, [Next]_vars, Undisturbed'
               PROVE  LockInv' /\ RotationInv'
    OBVIOUS
  <2>1. LockInv /\ RotationInv
    BY CountersGrow
  <2>2. LockInv'
    BY <2>1, NextLockInv DEF Undisturbed
  <2>3. RotationInv'
    BY <2>1, NextRotationInv
  <2> QED BY <2>2, <2>3
<1>3. TypeOK /\ Inv => RotationSafe
  BY RotationImplies DEF RotationSafe
<1> HIDE DEF Inv
<1> QED BY <1>1, <1>2, <1>3, TokenTypeCorrect, PTL DEF Spec
=============================================================================
