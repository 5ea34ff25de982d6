---------------------- MODULE ReplicationSchedulerProofs ----------------------
(***************************************************************************)
(* What ReplicationScheduler guarantees for any number of files, any bound *)
(* per cycle, any grace period and any number of failures and restarts.    *)
(***************************************************************************)
EXTENDS ReplicationScheduler, FiniteSetTheorems, TLAPS

\* There are finitely many files, each with a place in the order.
LEMMA FilesFinite == IsFiniteSet(Files) /\ \A f \in Files : Place(f) \in 1..Len(Order)
<1>1. DOMAIN Order = 1..Len(Order) /\ Len(Order) \in Nat
  BY SchedulerBounds
<1>2. \A f \in Files : \E i \in 1..Len(Order) : Order[i] = f
  BY <1>1 DEF Files, Range
<1>3. \A f \in Files : Place(f) \in 1..Len(Order)
  BY <1>1, <1>2 DEF Place
<1>4. Order \in Surjection(1..Len(Order), Files)
  <2>1. Order \in [1..Len(Order) -> Files]
    BY <1>1, SchedulerBounds DEF Files
  <2> QED BY <1>2, <2>1 DEF Surjection
<1>5. IsFiniteSet(1..Len(Order))
  BY <1>1, FS_Interval
<1> QED BY <1>3, <1>4, <1>5, FS_Surjection

\* Some file of a set comes last.
LEMMA LastFile ==
    ASSUME NEW F \in SUBSET Files, F # {}
    PROVE  \E f \in F : \A g \in F : Place(g) <= Place(f)
<1> DEFINE A == {Len(Order) - Place(f) : f \in F}
<1>1. Len(Order) \in Nat /\ \A f \in F : Place(f) \in 1..Len(Order)
  BY FilesFinite, SchedulerBounds
<1>2. A \subseteq Nat /\ A # {}
  BY <1>1
<1>3. PICK m \in A : \A k \in A : <<k, m>> \notin OpToRel(<, Nat)
  <2> HIDE DEF A, OpToRel
  <2> QED BY <1>2, NatLessThanWellFounded, WFMin
<1>4. \A k \in A : ~(k < m)
  BY <1>2, <1>3 DEF OpToRel
<1>5. PICK f \in F : m = Len(Order) - Place(f)
  BY <1>3
<1>6. ASSUME NEW g \in F PROVE Place(g) <= Place(f)
  <2>1. ~(Len(Order) - Place(g) < Len(Order) - Place(f))
    BY <1>4, <1>5
  <2> QED BY <1>1, <2>1
<1> QED BY <1>6

\* paths[:max] has at most max files, whatever is listed: the last one of them
\* has all of them up to itself.
LEMMA FirstBounded ==
    ASSUME NEW Q \in SUBSET Files
    PROVE  First(Q) \subseteq Files /\ Cardinality(First(Q)) <= MaxPerCycle
<1>1. First(Q) \subseteq Q /\ First(Q) \in SUBSET Files
  BY DEF First
<1>2. CASE First(Q) = {}
  BY <1>1, <1>2, FS_EmptySet, SchedulerBounds
<1>3. CASE First(Q) # {}
  <2>1. PICK f \in First(Q) : \A g \in First(Q) : Place(g) <= Place(f)
    BY <1>1, <1>3, LastFile
  <2>2. First(Q) \subseteq UpTo(f, Q) /\ UpTo(f, Q) \subseteq Files
    BY <1>1, <2>1 DEF UpTo
  <2>3. IsFiniteSet(UpTo(f, Q))
    BY <2>2, FilesFinite, FS_Subset
  <2>4. /\ Cardinality(First(Q)) <= Cardinality(UpTo(f, Q))
        /\ Cardinality(First(Q)) \in Nat /\ Cardinality(UpTo(f, Q)) \in Nat
    BY <2>2, <2>3, FS_Subset, FS_CardinalityType
  <2>5. Cardinality(UpTo(f, Q)) <= MaxPerCycle
    BY <2>1 DEF First
  <2> QED BY <1>1, <2>4, <2>5, SchedulerBounds
<1> QED BY <1>2, <1>3

\* A cycle's work gets less.
LEMMA SmallerWork ==
    ASSUME NEW Q \in SUBSET Files, Cardinality(Q) <= MaxPerCycle, NEW R \in SUBSET Q
    PROVE  R \subseteq Files /\ Cardinality(R) <= MaxPerCycle
<1>1. IsFiniteSet(Q)
  BY FilesFinite, FS_Subset
<1>2. Cardinality(R) <= Cardinality(Q) /\ Cardinality(R) \in Nat /\ Cardinality(Q) \in Nat
  BY <1>1, FS_Subset, FS_CardinalityType
<1> QED BY <1>2, SchedulerBounds

\* No work.
LEMMA NoWork == Cardinality({}) <= MaxPerCycle
  BY FS_EmptySet, SchedulerBounds

\* The number of failures stays within its bound.
LEMMA FailuresCounted ==
    ASSUME TypeOK, NEW k \in Nat, Failures(k)
    PROVE  nbad' \in 0..MaxBad
  BY SchedulerBounds DEF TypeOK, Failures

-----------------------------------------------------------------------------
\* The start of the daemon.
LEMMA InitTyped == Init => TypeOK
<1> SUFFICES ASSUME Init PROVE TypeOK
  OBVIOUS
<1>1. /\ status \in [Files -> {"none", "pending", "replicated"}]
      /\ age \in [Files -> {Never} \cup 0..Grace]
  BY Zenon DEF Init
<1>2. 0 \in 0..MaxBad /\ 0 \in 0..MaxDegrade /\ 0 \in 0..MaxRestarts
  BY SchedulerBounds
<1> QED BY <1>1, <1>2, NoWork DEF Init, TypeOK

\* The backup loop keeps the types.
LEMMA BackupTyped ==
    ASSUME TypeOK, BackupLoop
    PROVE  TypeOK'
<1>1. CASE BackupCycle
  <2>1. Listed(BackupStatuses) \in SUBSET Files
    BY DEF Listed
  <2>2. backupQ' \subseteq Files /\ Cardinality(backupQ') <= MaxPerCycle
    <3>1. backupQ' \in SUBSET First(Listed(BackupStatuses))
      BY <1>1 DEF BackupCycle
    <3> QED BY <2>1, <3>1, FirstBounded, SmallerWork
  <2> QED BY <1>1, <2>2 DEF BackupCycle, healVars, TypeOK
<1>2. ASSUME NEW f \in Files, BackupOne(f)
      PROVE  TypeOK'
  <2>1. backupQ' \subseteq Files /\ Cardinality(backupQ') <= MaxPerCycle
    <3>1. backupQ' \in SUBSET backupQ
      BY <1>2 DEF BackupOne
    <3> QED BY <3>1, SmallerWork DEF TypeOK
  <2>2. nbad' \in 0..MaxBad
    BY <1>2, FailuresCounted DEF BackupOne, Bad, Good, TypeOK
  <2>3. /\ status' \in [Files -> {"none", "pending", "replicated"}]
        /\ degraded' \subseteq Files /\ skip' \subseteq Files
    BY <1>2 DEF BackupOne, TypeOK
  <2> QED BY <1>2, <2>1, <2>2, <2>3 DEF BackupOne, healVars, TypeOK
<1>3. CASE BackupSleep
  BY <1>3 DEF BackupSleep, healVars, TypeOK
<1> QED BY <1>1, <1>2, <1>3 DEF BackupLoop

\* The heal loop keeps the types.
LEMMA HealTyped ==
    ASSUME TypeOK, HealLoop
    PROVE  TypeOK'
<1>1. CASE HealCycle
  <2>1. healQ' \subseteq Files /\ Cardinality(healQ') <= MaxPerCycle
    BY <1>1, FirstBounded DEF HealCycle, Listed
  <2>2. ASSUME NEW f \in Files PROVE Older(age[f]) \in {Never} \cup 0..Grace
    BY SchedulerBounds DEF Older, Never, TypeOK
  <2>3. age' \in [Files -> {Never} \cup 0..Grace]
    BY <1>1, <2>2 DEF HealCycle
  <2> QED BY <1>1, <2>1, <2>3 DEF HealCycle, backupVars, TypeOK
<1>2. ASSUME NEW f \in Files, HealOne(f)
      PROVE  TypeOK'
  <2>1. healQ' \subseteq Files /\ Cardinality(healQ') <= MaxPerCycle
    <3>1. healQ' \in SUBSET healQ
      BY <1>2 DEF HealOne
    <3> QED BY <3>1, SmallerWork DEF TypeOK
  <2>2. Since(f) \in 0..Grace
    BY SchedulerBounds DEF Since, Never, TypeOK
  <2>3. \E k \in {0, 1, 2} : Failures(k)
    BY <1>2 DEF HealOne, Bad
  <2>4. nbad' \in 0..MaxBad
    BY <2>3, FailuresCounted
  <2>5. age' \in [Files -> {Never} \cup 0..Grace]
    <3>1. age' = age \/ age' = [age EXCEPT ![f] = Never] \/ age' = [age EXCEPT ![f] = Since(f)]
      BY <1>2 DEF HealOne
    <3> QED BY <2>2, <3>1 DEF TypeOK
  <2>6. /\ status' \in [Files -> {"none", "pending", "replicated"}]
        /\ degraded' \subseteq Files
    BY <1>2 DEF HealOne, TypeOK
  <2> QED BY <1>2, <2>1, <2>4, <2>5, <2>6 DEF HealOne, backupVars, TypeOK
<1>3. CASE HealSleep
  BY <1>3 DEF HealSleep, backupVars, TypeOK
<1> QED BY <1>1, <1>2, <1>3 DEF HealLoop

\* Whatever is listed, fails, degrades or restarts, a cycle of either loop
\* works on at most max_files_per_cycle files, and every record keeps its type
\* (run_backup_cycle, run_heal_cycle).
THEOREM SchedulerTypeCorrect == Spec => []TypeOK
<1>1. ASSUME TypeOK, [Next]_vars
      PROVE  TypeOK'
  <2>1. ASSUME NEW f \in Files, Degrade(f)
        PROVE  TypeOK'
    BY <1>1, <2>1, SchedulerBounds DEF Degrade, backupVars, healVars, TypeOK
  <2>2. CASE Restart
    <3>1. age' \in [Files -> {Never} \cup 0..Grace]
      BY <2>2, Zenon DEF Restart
    <3>2. nrestart' \in 0..MaxRestarts
      BY <1>1, <2>2, SchedulerBounds DEF Restart, TypeOK
    <3> QED BY <1>1, <2>2, <3>1, <3>2, NoWork DEF Restart, TypeOK
  <2>3. CASE UNCHANGED vars
    BY <1>1, <2>3 DEF vars, TypeOK
  <2> QED BY <1>1, <2>1, <2>2, <2>3, BackupTyped, HealTyped DEF Next
<1> QED BY <1>1, InitTyped, PTL DEF Spec
=============================================================================
