---------------------------- MODULE StoreProofs -----------------------------
(***************************************************************************)
(* What the two stores that keep an account of their space guarantee, for  *)
(* any number of files, chunks and processes, any capacity and any number  *)
(* of failures: the loopback source of a device (LoopbackSource) and the   *)
(* chunk store of a holder (ParityStore).  First the laws of sums on which *)
(* both accounts rest.                                                     *)
(***************************************************************************)
EXTENDS ParityStore, LoopbackSource, Functions, FiniteSetTheorems, TLAPS

-----------------------------------------------------------------------------
(***************************************************************************)
(* Sums of the values of a function over a finite set (SumFunctionOnSet of *)
(* module Functions).                                                      *)
(*                                                                         *)
(* Induction over data is done with sets: the theorem WFMin about minimal  *)
(* elements takes a set where the induction theorems take a predicate.     *)
(***************************************************************************)
\* Natural numbers have a least one among them.
LEMMA LeastElement ==
    ASSUME NEW A, A \subseteq Nat, A # {}
    PROVE  \E m \in A : \A k \in A : m <= k
<1>1. PICK m \in A : \A k \in A : <<k, m>> \notin OpToRel(<, Nat)
  <2> HIDE DEF OpToRel
  <2> QED BY NatLessThanWellFounded, WFMin
<1>2. \A k \in A : ~(k < m)
  BY <1>1 DEF OpToRel
<1> QED BY <1>2

\* A set of natural numbers with 0 and all successors has them all.
LEMMA SetInduction ==
    ASSUME NEW A, A \subseteq Nat, 0 \in A, \A n \in A : n + 1 \in A
    PROVE  A = Nat
<1> SUFFICES ASSUME Nat \ A # {} PROVE FALSE
  OBVIOUS
<1>1. PICK m \in Nat \ A : \A k \in Nat \ A : m <= k
  <2>1. Nat \ A \subseteq Nat
    OBVIOUS
  <2> QED BY <2>1, LeastElement
<1>2. m # 0 /\ m - 1 \in Nat
  OBVIOUS
<1>3. m - 1 \in A
  BY <1>1, <1>2
<1> QED BY <1>2, <1>3

-----------------------------------------------------------------------------
\* The element that the fold takes next, and the function it computes.
Chosen(s) == CHOOSE x \in s : TRUE

Step(f, g, s) == IF s = {} THEN 0 ELSE f[Chosen(s)] + g[s \ {Chosen(s)}]

Partial(f, S) == CHOOSE g : g = [s \in SUBSET S |-> Step(f, g, s)]

\* The sum is what that function yields for the whole set.
LEMMA SumIsPartial ==
    ASSUME NEW f, NEW S
    PROVE  SumFunctionOnSet(f, S) = Partial(f, S)[S]
  BY DEF SumFunctionOnSet, FoldFunctionOnSet, MapThenFoldSet, Partial, Step, Chosen

\* An element there is can be taken.
LEMMA ChosenIn ==
    ASSUME NEW s, s # {}
    PROVE  Chosen(s) \in s
  BY DEF Chosen

\* Subsets of S with at most n elements.
UpTo(S, n) == {s \in SUBSET S : Cardinality(s) <= n}

\* Without one of its elements a set counts one less.
LEMMA UpToSmaller ==
    ASSUME NEW S, IsFiniteSet(S), NEW n \in Nat, NEW s \in UpTo(S, n + 1), NEW x \in s
    PROVE  s \ {x} \in UpTo(S, n)
<1>1. IsFiniteSet(s)
  BY FS_Subset DEF UpTo
<1>2. Cardinality(s \ {x}) = Cardinality(s) - 1 /\ Cardinality(s) \in Nat
  BY <1>1, FS_RemoveElement, FS_CardinalityType
<1> QED BY <1>2 DEF UpTo

\* Only the empty set has no elements.
LEMMA UpToEmpty ==
    ASSUME NEW S, IsFiniteSet(S)
    PROVE  UpTo(S, 0) = {{}}
<1>1. ASSUME NEW s \in SUBSET S PROVE Cardinality(s) <= 0 <=> s = {}
  <2>1. IsFiniteSet(s)
    BY FS_Subset
  <2>2. Cardinality(s) \in Nat /\ (Cardinality(s) = 0 <=> s = {})
    BY <2>1, FS_CardinalityType, FS_EmptySet
  <2> QED BY <2>2
<1> QED BY <1>1 DEF UpTo

\* No subset has more elements than the set.
LEMMA UpToAll ==
    ASSUME NEW S, IsFiniteSet(S)
    PROVE  Cardinality(S) \in Nat /\ UpTo(S, Cardinality(S)) = SUBSET S
  BY FS_Subset, FS_CardinalityType DEF UpTo

\* The fold is well-defined: the recursion has a solution.
LEMMA PartialDef ==
    ASSUME NEW S, IsFiniteSet(S), NEW f
    PROVE  Partial(f, S) = [s \in SUBSET S |-> Step(f, Partial(f, S), s)]
<1> DEFINE A == {n \in Nat : \E g : g = [s \in UpTo(S, n) |-> Step(f, g, s)]}
<1>1. 0 \in A
  <2> DEFINE g == [s \in UpTo(S, 0) |-> 0]
  <2>1. \A s \in UpTo(S, 0) : Step(f, g, s) = 0
    BY UpToEmpty DEF Step
  <2>2. g = [s \in UpTo(S, 0) |-> Step(f, g, s)]
    BY <2>1
  <2> HIDE DEF g
  <2> QED BY <2>2
<1>2. ASSUME NEW n \in A PROVE n + 1 \in A
  <2>1. n \in Nat
    OBVIOUS
  <2>2. PICK g : g = [s \in UpTo(S, n) |-> Step(f, g, s)]
    OBVIOUS
  <2> DEFINE h == [s \in UpTo(S, n + 1) |-> Step(f, g, s)]
  <2>3. UpTo(S, n) \subseteq UpTo(S, n + 1)
    <3>1. ASSUME NEW s \in UpTo(S, n) PROVE Cardinality(s) <= n + 1
      BY <2>1, FS_Subset, FS_CardinalityType DEF UpTo
    <3> QED BY <3>1 DEF UpTo
  <2>4. \A s \in UpTo(S, n) : h[s] = g[s]
    <3>1. \A s \in UpTo(S, n) : g[s] = Step(f, g, s)
      BY <2>2
    <3> QED BY <2>3, <3>1
  <2>5. ASSUME NEW s \in UpTo(S, n + 1) PROVE Step(f, h, s) = Step(f, g, s)
    <3>1. CASE s = {}
      BY <3>1 DEF Step
    <3>2. CASE s # {}
      <4>1. s \ {Chosen(s)} \in UpTo(S, n)
        BY <2>1, <3>2, ChosenIn, UpToSmaller
      <4> HIDE DEF h
      <4> QED BY <2>4, <3>2, <4>1 DEF Step
    <3> QED BY <3>1, <3>2
  <2>6. h = [s \in UpTo(S, n + 1) |-> Step(f, h, s)]
    BY <2>5
  <2> HIDE DEF h
  <2> QED BY <2>1, <2>6
<1>3. Cardinality(S) \in A
  <2>1. A \subseteq Nat
    OBVIOUS
  <2> HIDE DEF A
  <2>2. A = Nat
    BY <1>1, <1>2, <2>1, SetInduction
  <2> QED BY <2>2, UpToAll
<1>4. \E g : g = [s \in SUBSET S |-> Step(f, g, s)]
  BY <1>3, UpToAll
<1> QED BY <1>4 DEF Partial

-----------------------------------------------------------------------------
\* A set of subsets of S that has the empty set, and every set all of whose
\* one-smaller sets it has, has all subsets of S.
LEMMA SubsetInduction ==
    ASSUME NEW S, IsFiniteSet(S), NEW B, {} \in B,
           \A s \in SUBSET S : s # {} /\ (\A x \in s : s \ {x} \in B) => s \in B
    PROVE  SUBSET S \subseteq B
<1> DEFINE A == {n \in Nat : UpTo(S, n) \subseteq B}
<1>1. 0 \in A
  BY UpToEmpty
<1>2. ASSUME NEW n \in A PROVE n + 1 \in A
  <2>1. ASSUME NEW s \in UpTo(S, n + 1), s # {} PROVE s \in B
    <3>1. \A x \in s : s \ {x} \in UpTo(S, n)
      BY UpToSmaller
    <3>2. s \in SUBSET S
      BY DEF UpTo
    <3> QED BY <2>1, <3>1, <3>2
  <2> QED BY <2>1
<1>3. A \subseteq Nat
  OBVIOUS
<1> HIDE DEF A
<1>4. A = Nat
  BY <1>1, <1>2, <1>3, SetInduction
<1>5. Cardinality(S) \in A
  BY <1>4, UpToAll
<1> QED BY <1>5, UpToAll DEF A

\* Solutions of the recursion agree.
LEMMA StepUnique ==
    ASSUME NEW S, IsFiniteSet(S), NEW f, NEW e, \A x \in S : f[x] = e[x], NEW g, NEW h,
           \A s \in SUBSET S : g[s] = Step(f, g, s),
           \A s \in SUBSET S : h[s] = Step(e, h, s)
    PROVE  \A s \in SUBSET S : g[s] = h[s]
<1> DEFINE B == {s \in SUBSET S : g[s] = h[s]}
<1>1. {} \in B
  BY DEF Step
<1>2. ASSUME NEW s \in SUBSET S, s # {}, \A x \in s : s \ {x} \in B PROVE s \in B
  <2>1. Chosen(s) \in s
    BY <1>2, ChosenIn
  <2>2. g[s \ {Chosen(s)}] = h[s \ {Chosen(s)}] /\ f[Chosen(s)] = e[Chosen(s)]
    BY <1>2, <2>1
  <2> QED BY <1>2, <2>2 DEF Step
<1> HIDE DEF B
<1>3. SUBSET S \subseteq B
  BY <1>1, <1>2, SubsetInduction
<1> QED BY <1>3 DEF B

\* The recursion at one subset.
LEMMA PartialStep ==
    ASSUME NEW S, IsFiniteSet(S), NEW f, NEW s \in SUBSET S
    PROVE  Partial(f, S)[s] = Step(f, Partial(f, S), s)
<1> DEFINE g == Partial(f, S)
<1>1. g = [t \in SUBSET S |-> Step(f, g, t)]
  BY PartialDef
<1> HIDE DEF g
<1>2. g[s] = Step(f, g, s)
  BY <1>1
<1> QED BY <1>2 DEF g

\* The sum of equal values is the same: used space depends on the sizes alone.
THEOREM SumSame ==
    ASSUME NEW S, IsFiniteSet(S), NEW f, NEW e, \A x \in S : f[x] = e[x]
    PROVE  SumFunctionOnSet(f, S) = SumFunctionOnSet(e, S)
<1>1. /\ \A s \in SUBSET S : Partial(f, S)[s] = Step(f, Partial(f, S), s)
      /\ \A s \in SUBSET S : Partial(e, S)[s] = Step(e, Partial(e, S), s)
  BY PartialStep
<1> QED BY <1>1, StepUnique, SumIsPartial

\* The function for S yields the sums over its subsets.
LEMMA PartialIsSum ==
    ASSUME NEW S, IsFiniteSet(S), NEW T \in SUBSET S, NEW f
    PROVE  Partial(f, S)[T] = SumFunctionOnSet(f, T)
<1>1. IsFiniteSet(T)
  BY FS_Subset
<1>2. /\ \A s \in SUBSET T : Partial(f, S)[s] = Step(f, Partial(f, S), s)
      /\ \A s \in SUBSET T : Partial(f, T)[s] = Step(f, Partial(f, T), s)
  BY <1>1, PartialStep
<1> QED BY <1>1, <1>2, StepUnique, SumIsPartial

\* Nothing sums up to 0: the used space of a source without files.
THEOREM SumEmpty ==
    ASSUME NEW f
    PROVE  SumFunctionOnSet(f, {}) = 0
  BY FS_EmptySet, PartialStep, SumIsPartial DEF Step

\* The fold takes the picked element first.
LEMMA SumChosen ==
    ASSUME NEW S, IsFiniteSet(S), S # {}, NEW f
    PROVE  SumFunctionOnSet(f, S)
             = f[Chosen(S)] + SumFunctionOnSet(f, S \ {Chosen(S)})
<1>1. Partial(f, S)[S] = f[Chosen(S)] + Partial(f, S)[S \ {Chosen(S)}]
  BY PartialStep DEF Step
<1>2. S \ {Chosen(S)} \in SUBSET S
  OBVIOUS
<1> QED BY <1>1, <1>2, PartialIsSum, SumIsPartial

\* The sum of integers is one: a used space is a number.
THEOREM SumType ==
    ASSUME NEW S, IsFiniteSet(S), NEW f, \A x \in S : f[x] \in Int
    PROVE  SumFunctionOnSet(f, S) \in Int
<1> DEFINE B == {s \in SUBSET S : SumFunctionOnSet(f, s) \in Int}
<1>1. {} \in B
  BY SumEmpty
<1>2. ASSUME NEW s \in SUBSET S, s # {}, \A x \in s : s \ {x} \in B PROVE s \in B
  <2>1. Chosen(s) \in s /\ IsFiniteSet(s)
    BY <1>2, ChosenIn, FS_Subset
  <2>2. SumFunctionOnSet(f, s \ {Chosen(s)}) \in Int /\ f[Chosen(s)] \in Int
    BY <1>2, <2>1
  <2>3. SumFunctionOnSet(f, s) = f[Chosen(s)] + SumFunctionOnSet(f, s \ {Chosen(s)})
    BY <1>2, <2>1, SumChosen
  <2>4. SumFunctionOnSet(f, s) \in Int
    BY <2>2, <2>3
  <2> QED BY <2>4
<1> HIDE DEF B
<1>3. SUBSET S \subseteq B
  BY <1>1, <1>2, SubsetInduction
<1> QED BY <1>3 DEF B

\* Any element may be taken out first: the order in which a scan meets the
\* files does not matter.
THEOREM SumRemove ==
    ASSUME NEW S, IsFiniteSet(S), NEW f, \A x \in S : f[x] \in Int, NEW x \in S
    PROVE  SumFunctionOnSet(f, S) = f[x] + SumFunctionOnSet(f, S \ {x})
<1> DEFINE B == {s \in SUBSET S : \A y \in s :
                   SumFunctionOnSet(f, s) = f[y] + SumFunctionOnSet(f, s \ {y})}
<1>1. {} \in B
  OBVIOUS
<1>2. ASSUME NEW s \in SUBSET S, s # {}, \A y \in s : s \ {y} \in B PROVE s \in B
  <2> DEFINE p == Chosen(s)
  <2>1. p \in s /\ IsFiniteSet(s)
    BY <1>2, ChosenIn, FS_Subset
  <2>2. SumFunctionOnSet(f, s) = f[p] + SumFunctionOnSet(f, s \ {p})
    BY <1>2, <2>1, SumChosen
  <2> HIDE DEF p
  <2>3. ASSUME NEW y \in s, y # p
        PROVE  SumFunctionOnSet(f, s) = f[y] + SumFunctionOnSet(f, s \ {y})
    <3> DEFINE rest == SumFunctionOnSet(f, s \ {p, y})
    <3>1. /\ (s \ {p}) \ {y} = s \ {p, y} /\ (s \ {y}) \ {p} = s \ {p, y}
          /\ y \in s \ {p} /\ p \in s \ {y}
      BY <2>1, <2>3
    <3>2. SumFunctionOnSet(f, s \ {p}) = f[y] + rest
      BY <1>2, <2>1, <3>1
    <3>3. SumFunctionOnSet(f, s \ {y}) = f[p] + rest
      BY <1>2, <2>3, <3>1
    <3>4. rest \in Int /\ f[y] \in Int /\ f[p] \in Int
      <4>1. s \ {p, y} \in SUBSET S /\ IsFiniteSet(s \ {p, y})
        BY FS_Subset
      <4> QED BY <2>1, <4>1, SumType
    <3> HIDE DEF rest
    <3> QED BY <2>2, <3>2, <3>3, <3>4
  <2> QED BY <2>2, <2>3
<1> HIDE DEF B
<1>3. SUBSET S \subseteq B
  BY <1>1, <1>2, SubsetInduction
<1> QED BY <1>3 DEF B

\* One value changed: what writing or deleting one file adds to the used space.
THEOREM SumUpdate ==
    ASSUME NEW S, IsFiniteSet(S), NEW f \in [S -> Int], NEW e \in [S -> Int],
           NEW x \in S, \A y \in S \ {x} : e[y] = f[y]
    PROVE  SumFunctionOnSet(e, S) = SumFunctionOnSet(f, S) - f[x] + e[x]
<1>1. IsFiniteSet(S \ {x})
  BY FS_RemoveElement
<1>2. SumFunctionOnSet(e, S \ {x}) = SumFunctionOnSet(f, S \ {x})
  BY <1>1, SumSame
<1>3. SumFunctionOnSet(e, S) = e[x] + SumFunctionOnSet(f, S \ {x})
  BY <1>2, SumRemove
<1>4. SumFunctionOnSet(f, S) = f[x] + SumFunctionOnSet(f, S \ {x})
  BY SumRemove
<1>5. SumFunctionOnSet(f, S \ {x}) \in Int /\ f[x] \in Int /\ e[x] \in Int
  BY <1>1, SumType
<1> QED BY <1>3, <1>4, <1>5

\* Smaller values have a smaller sum: what removing a subtree gives.
THEOREM SumMonotone ==
    ASSUME NEW S, IsFiniteSet(S), NEW f \in [S -> Int], NEW e \in [S -> Int],
           \A x \in S : f[x] <= e[x]
    PROVE  SumFunctionOnSet(f, S) <= SumFunctionOnSet(e, S)
<1> DEFINE B == {s \in SUBSET S : SumFunctionOnSet(f, s) <= SumFunctionOnSet(e, s)}
<1>1. {} \in B
  BY SumEmpty
<1>2. ASSUME NEW s \in SUBSET S, s # {}, \A x \in s : s \ {x} \in B PROVE s \in B
  <2> DEFINE p == Chosen(s)
  <2>1. p \in s /\ IsFiniteSet(s) /\ IsFiniteSet(s \ {p})
    BY <1>2, ChosenIn, FS_Subset
  <2>2. /\ SumFunctionOnSet(f, s) = f[p] + SumFunctionOnSet(f, s \ {p})
        /\ SumFunctionOnSet(e, s) = e[p] + SumFunctionOnSet(e, s \ {p})
    BY <1>2, <2>1, SumChosen
  <2>3. SumFunctionOnSet(f, s \ {p}) <= SumFunctionOnSet(e, s \ {p})
    BY <1>2, <2>1
  <2>4. /\ SumFunctionOnSet(f, s \ {p}) \in Int /\ SumFunctionOnSet(e, s \ {p}) \in Int
        /\ f[p] \in Int /\ e[p] \in Int /\ f[p] <= e[p]
    BY <2>1, SumType
  <2> HIDE DEF p
  <2> QED BY <2>2, <2>3, <2>4
<1> HIDE DEF B
<1>3. SUBSET S \subseteq B
  BY <1>1, <1>2, SubsetInduction
<1> QED BY <1>3 DEF B

\* Files of length 0 take no space.
THEOREM SumZero ==
    ASSUME NEW S, IsFiniteSet(S), NEW f, \A x \in S : f[x] = 0
    PROVE  SumFunctionOnSet(f, S) = 0
<1> DEFINE B == {s \in SUBSET S : SumFunctionOnSet(f, s) = 0}
<1>1. {} \in B
  BY SumEmpty
<1>2. ASSUME NEW s \in SUBSET S, s # {}, \A x \in s : s \ {x} \in B PROVE s \in B
  <2>1. Chosen(s) \in s /\ IsFiniteSet(s)
    BY <1>2, ChosenIn, FS_Subset
  <2>2. SumFunctionOnSet(f, s \ {Chosen(s)}) = 0 /\ f[Chosen(s)] = 0
    BY <1>2, <2>1
  <2> QED BY <1>2, <2>1, <2>2, SumChosen
<1> HIDE DEF B
<1>3. SUBSET S \subseteq B
  BY <1>1, <1>2, SubsetInduction
<1> QED BY <1>3 DEF B

-----------------------------------------------------------------------------
(***************************************************************************)
(* The space accounts of LoopbackSource.                                   *)
(***************************************************************************)
\* One process at most has ever had the source, and no write has failed.
SoleUse == nfailures = 0 /\ \A p, q \in ever : p = q

\* Whoever is mounted counts as a user; a sole user's account misses nothing
\* that others did, and is kept within the source.
UseInv ==
    /\ IsFiniteSet(ever)
    /\ \A pr \in Procs : mount[pr] = "mounted" => pr \in ever
    /\ nfailures = 0 => failed = {}
    /\ SoleUse => \A pr \in ever : others[pr] = 0
    /\ SoleUse => ScanUsedSpace <= Capacity

LoopInv == LoopbackTypeOK /\ AccountCoversDisk /\ UseInv

-----------------------------------------------------------------------------
\* The bytes on the disk are a number.
LEMMA ScanType ==
    ASSUME LoopbackTypeOK
    PROVE  ScanUsedSpace \in Int
  BY SumType, LoopbackConstants DEF ScanUsedSpace, LoopbackTypeOK

\* What a scan would measure next is a number.
LEMMA ScanTypeNext ==
    ASSUME size' \in [Files -> 0..MaxLen]
    PROVE  ScanUsedSpace' \in Int
<1>1. ASSUME NEW f \in Files PROVE size'[f] \in Int
  BY LoopbackConstants
<1>2. SumFunctionOnSet(size', Files) \in Int
  BY <1>1, SumType, LoopbackConstants
<1> QED BY <1>2 DEF ScanUsedSpace

\* One file changes.
LEMMA ScanChange ==
    ASSUME size \in [Files -> 0..MaxLen], size' \in [Files -> 0..MaxLen],
           NEW f \in Files, \A g \in Files \ {f} : size'[g] = size[g]
    PROVE  ScanUsedSpace' = ScanUsedSpace - size[f] + size'[f]
<1>1. size \in [Files -> Int] /\ size' \in [Files -> Int] /\ IsFiniteSet(Files)
  BY LoopbackConstants
<1>2. SumFunctionOnSet(size', Files) = SumFunctionOnSet(size, Files) - size[f] + size'[f]
  BY <1>1, SumUpdate
<1> QED BY <1>2 DEF ScanUsedSpace

\* It gets a new length.
LEMMA ScanUpdate ==
    ASSUME LoopbackTypeOK, NEW f \in Files, NEW k \in 0..MaxLen,
           size' = [size EXCEPT ![f] = k]
    PROVE  /\ size' \in [Files -> 0..MaxLen]
           /\ ScanUsedSpace' = ScanUsedSpace - size[f] + k
<1>1. /\ size \in [Files -> 0..MaxLen] /\ size' \in [Files -> 0..MaxLen]
      /\ size'[f] = k /\ \A g \in Files \ {f} : size'[g] = size[g]
  BY DEF LoopbackTypeOK
<1> QED BY <1>1, ScanChange

\* The bounds of the model.
LEMMA FaultCounted ==
    ASSUME LoopbackTypeOK, DiskFault
    PROVE  nfailures' \in 1..MaxFailures
  BY LoopbackConstants DEF LoopbackTypeOK, DiskFault

\* The same of the operations.
LEMMA OperationCounted ==
    ASSUME LoopbackTypeOK, Operation
    PROVE  nops' \in 0..MaxOps
  BY LoopbackConstants DEF LoopbackTypeOK, Operation

-----------------------------------------------------------------------------
\* A process that has the source changes the files, and its account by at
\* least as much as the disk, unless its write failed.
FilesChange(pr) ==
    /\ mount[pr] = "mounted"
    /\ size' \in [Files -> 0..MaxLen]
    /\ used' \in [Procs -> Int]
    /\ \A o \in Procs \ {pr} : used'[o] = used[o]
    /\ pr \notin failed' => ScanUsedSpace' - ScanUsedSpace <= used'[pr] - used[pr]
    /\ SeenByOthers(pr)
    /\ failed \subseteq failed' /\ failed' \subseteq Procs
    /\ nfailures' = 0 => failed' = failed
    /\ nfailures' \in 0..MaxFailures /\ (nfailures' = 0 => nfailures = 0)
    /\ nops' \in 0..MaxOps
    /\ UNCHANGED <<marker, mount, ever>>

\* A step that changes files and their account together keeps the account
\* true.
LEMMA FilesChangeKeeps ==
    ASSUME LoopInv, NEW pr \in Procs, FilesChange(pr),
           SoleUse' => ScanUsedSpace' <= Capacity
    PROVE  LoopInv'
<1>1. ScanUsedSpace \in Int /\ ScanUsedSpace' \in Int
  BY ScanType, ScanTypeNext DEF LoopInv, FilesChange
<1>2. /\ others' \in [Procs -> Int] /\ others'[pr] = others[pr]
      /\ \A o \in Procs \ {pr} :
           others'[o] = others[o] + ScanUsedSpace' - ScanUsedSpace
  BY <1>1 DEF LoopInv, LoopbackTypeOK, FilesChange, SeenByOthers
<1>3. LoopbackTypeOK'
  BY <1>2 DEF LoopInv, LoopbackTypeOK, FilesChange
<1>4. AccountCoversDisk'
  <2> SUFFICES ASSUME NEW o \in Procs, mount[o] = "mounted", o \notin failed'
      PROVE  ScanUsedSpace' <= used'[o] + others'[o]
    BY DEF AccountCoversDisk, FilesChange
  <2>1. /\ ScanUsedSpace <= used[o] + others[o]
        /\ used[o] \in Int /\ others[o] \in Int /\ used'[o] \in Int
    BY DEF LoopInv, AccountCoversDisk, LoopbackTypeOK, FilesChange
  <2>2. CASE o = pr
    BY <1>1, <1>2, <2>1, <2>2 DEF FilesChange
  <2>3. CASE o # pr
    BY <1>1, <1>2, <2>1, <2>3 DEF FilesChange
  <2> QED BY <2>2, <2>3
<1>5. UseInv'
  <2>1. SoleUse' => SoleUse /\ \A o \in ever : o = pr
    BY DEF SoleUse, FilesChange, LoopInv, UseInv
  <2> QED BY <1>2, <2>1 DEF LoopInv, UseInv, FilesChange
<1> QED BY <1>3, <1>4, <1>5 DEF LoopInv

\* The process mounts the source: its account is exact.
LEMMA MountKeeps ==
    ASSUME LoopInv, NEW pr \in Procs, MountedBy(pr), marker' \in BOOLEAN,
           nops' \in 0..MaxOps, UNCHANGED <<size, nfailures>>
    PROVE  LoopInv'
<1>1. ScanUsedSpace \in Int /\ ScanUsedSpace' = ScanUsedSpace
  BY ScanType DEF LoopInv, ScanUsedSpace
<1>2. LoopbackTypeOK'
  BY <1>1 DEF LoopInv, LoopbackTypeOK, MountedBy
<1>3. AccountCoversDisk'
  BY <1>1 DEF LoopInv, LoopbackTypeOK, MountedBy, AccountCoversDisk
<1>4. UseInv'
  <2>1. IsFiniteSet(ever')
    BY FS_AddElement DEF LoopInv, UseInv, MountedBy
  <2>2. SoleUse' => SoleUse
    BY DEF SoleUse, MountedBy
  <2>3. SoleUse' => \A o \in ever' : others'[o] = 0
    BY DEF SoleUse, MountedBy, LoopInv, LoopbackTypeOK
  <2> QED BY <1>1, <2>1, <2>2, <2>3 DEF LoopInv, LoopbackTypeOK, UseInv, MountedBy
<1> QED BY <1>2, <1>3, <1>4 DEF LoopInv

\* An image that does not exist yet has nothing to account for.
LEMMA InitLoop == LoopbackInit => LoopInv
<1> SUFFICES ASSUME LoopbackInit PROVE LoopInv
  OBVIOUS
<1>1. ScanUsedSpace = 0
  <2>1. \A f \in Files : size[f] = 0
    BY DEF LoopbackInit
  <2> QED BY <2>1, SumZero, LoopbackConstants DEF ScanUsedSpace
<1>2. LoopbackTypeOK
  <2>1. 0 \in 0..MaxLen /\ 0 \in 0..MaxOps /\ 0 \in 0..MaxFailures
    BY LoopbackConstants
  <2>2. size \in [Files -> 0..MaxLen]
    BY <2>1 DEF LoopbackInit
  <2>3. mount \in [Procs -> {"no", "creating", "mounted"}]
    BY DEF LoopbackInit
  <2>4. used \in [Procs -> Int] /\ others \in [Procs -> Int]
    BY DEF LoopbackInit
  <2> QED BY <2>1, <2>2, <2>3, <2>4 DEF LoopbackInit, LoopbackTypeOK
<1>3. AccountCoversDisk
  BY DEF LoopbackInit, AccountCoversDisk
<1>4. UseInv
  BY <1>1, FS_EmptySet, LoopbackConstants DEF LoopbackInit, UseInv
<1> QED BY <1>2, <1>3, <1>4 DEF LoopInv

\* Opening a source measures what is on the disk.
LEMMA InitializeKeeps ==
    ASSUME LoopInv, NEW pr \in Procs, Initialize(pr)
    PROVE  LoopInv'
<1>1. nops' \in 0..MaxOps
  BY OperationCounted DEF LoopInv, Initialize
<1>2. CASE marker
  BY <1>1, <1>2, MountKeeps DEF Initialize, LoopInv, LoopbackTypeOK
<1>3. CASE ~marker
  <2>1. /\ mount' = [mount EXCEPT ![pr] = "creating"]
        /\ UNCHANGED <<used, others, failed, ever, marker, size, nfailures>>
    BY <1>3 DEF Initialize
  <2>2. ScanUsedSpace' = ScanUsedSpace /\ (SoleUse' <=> SoleUse)
    BY <2>1 DEF ScanUsedSpace, SoleUse
  <2>3. LoopbackTypeOK'
    BY <1>1, <2>1 DEF LoopInv, LoopbackTypeOK
  <2>4. AccountCoversDisk' /\ UseInv'
    BY <2>1, <2>2 DEF LoopInv, LoopbackTypeOK, AccountCoversDisk, UseInv
  <2> QED BY <2>3, <2>4 DEF LoopInv
<1> QED BY <1>2, <1>3

\* Creating the image mounts it empty.
LEMMA CreateKeeps ==
    ASSUME LoopInv, NEW pr \in Procs, Create(pr)
    PROVE  LoopInv'
  BY MountKeeps DEF Create, LoopInv, LoopbackTypeOK

\* A creation that fails empties the directory and leaves the source
\* unmounted.
LEMMA CreateFailsKeeps ==
    ASSUME LoopInv, NEW pr \in Procs, CreateFails(pr)
    PROVE  LoopInv'
<1>1. nfailures' \in 1..MaxFailures /\ nfailures' # 0
  BY FaultCounted DEF LoopInv, CreateFails
<1>2. size' \in [Files -> 0..MaxLen]
  BY LoopbackConstants DEF CreateFails
<1>3. ScanUsedSpace \in Int /\ ScanUsedSpace' \in Int
  BY <1>2, ScanType, ScanTypeNext DEF LoopInv
<1>4. /\ others' \in [Procs -> Int]
      /\ \A o \in Procs \ {pr} :
           others'[o] = others[o] + ScanUsedSpace' - ScanUsedSpace
  BY <1>3 DEF LoopInv, LoopbackTypeOK, CreateFails, SeenByOthers
<1>5. LoopbackTypeOK'
  <2>1. nfailures' \in 0..MaxFailures
    BY <1>1
  <2>2. mount' \in [Procs -> {"no", "creating", "mounted"}]
    BY DEF LoopInv, LoopbackTypeOK, CreateFails
  <2> QED BY <1>2, <1>4, <2>1, <2>2 DEF LoopInv, LoopbackTypeOK, CreateFails
<1>6. AccountCoversDisk'
  <2> SUFFICES ASSUME NEW o \in Procs, mount'[o] = "mounted", o \notin failed'
      PROVE  ScanUsedSpace' <= used'[o] + others'[o]
    BY DEF AccountCoversDisk
  <2>1. o # pr /\ mount[o] = "mounted" /\ o \notin failed
    BY DEF CreateFails, LoopInv, LoopbackTypeOK
  <2>2. /\ ScanUsedSpace <= used[o] + others[o]
        /\ used[o] \in Int /\ others[o] \in Int /\ used'[o] = used[o]
    BY <2>1 DEF LoopInv, AccountCoversDisk, LoopbackTypeOK, CreateFails
  <2> QED BY <1>3, <1>4, <2>1, <2>2
<1>7. UseInv'
  BY <1>1 DEF LoopInv, LoopbackTypeOK, UseInv, CreateFails, SoleUse
<1> QED BY <1>5, <1>6, <1>7 DEF LoopInv

\* A process that closes its source leaves the disk alone.
LEMMA LeaveKeeps ==
    ASSUME LoopInv, NEW pr \in Procs, Leave(pr)
    PROVE  LoopInv'
<1>1. ScanUsedSpace' = ScanUsedSpace /\ (SoleUse' <=> SoleUse)
  BY DEF Leave, ScanUsedSpace, SoleUse
<1> QED BY <1>1 DEF Leave, LoopInv, LoopbackTypeOK, AccountCoversDisk, UseInv

\* A sole user's account covers the disk.
LEMMA SoleUserKnows ==
    ASSUME LoopInv, NEW pr \in Procs, mount[pr] = "mounted", SoleUse
    PROVE  ScanUsedSpace <= used[pr]
<1>1. pr \in ever /\ others[pr] = 0 /\ pr \notin failed
  BY DEF LoopInv, UseInv, SoleUse
<1>2. ScanUsedSpace <= used[pr] + others[pr] /\ used[pr] \in Int
  BY <1>1 DEF LoopInv, AccountCoversDisk, LoopbackTypeOK
<1> QED BY <1>1, <1>2

\* A write checks the room first and accounts for what it wrote.
LEMMA WriteKeeps ==
    ASSUME LoopInv, NEW pr \in Procs, NEW f \in Files, NEW n \in Lengths, Write(pr, f, n)
    PROVE  LoopInv'
<1>1. n \in 0..MaxLen /\ size[f] \in Int /\ used[pr] \in Int /\ Capacity \in Int
  BY LoopbackConstants DEF Lengths, LoopInv, LoopbackTypeOK
<1>2. /\ size' \in [Files -> 0..MaxLen]
      /\ ScanUsedSpace' = ScanUsedSpace - size[f] + n
      /\ ScanUsedSpace \in Int
  BY <1>1, ScanUpdate, ScanType DEF Write, LoopInv
<1>3. /\ used' \in [Procs -> Int] /\ used'[pr] = used[pr] + n - size[f]
      /\ \A o \in Procs \ {pr} : used'[o] = used[o]
  BY <1>1 DEF Write, LoopInv, LoopbackTypeOK
<1>4. FilesChange(pr)
  BY <1>1, <1>2, <1>3, OperationCounted DEF Write, FilesChange, LoopInv, LoopbackTypeOK
<1>5. ASSUME SoleUse' PROVE ScanUsedSpace' <= Capacity
  <2>1. SoleUse
    BY <1>5 DEF SoleUse, Write
  <2>2. ScanUsedSpace <= used[pr] /\ ScanUsedSpace <= Capacity
    BY <2>1, SoleUserKnows DEF Write, LoopInv, UseInv
  <2> QED BY <1>1, <1>2, <2>2 DEF Write, Fits
<1> QED BY <1>4, <1>5, FilesChangeKeeps

\* A write that fails half-way puts the writer among those whose account
\* may be wrong.
LEMMA WriteFailsKeeps ==
    ASSUME LoopInv, NEW pr \in Procs, NEW f \in Files, NEW n \in Lengths,
           WriteFails(pr, f, n)
    PROVE  LoopInv'
<1>1. PICK k \in 0..(n - 1) : size' = [size EXCEPT ![f] = k]
  BY DEF WriteFails
<1>2. k \in 0..MaxLen
  BY LoopbackConstants DEF Lengths
<1>3. size' \in [Files -> 0..MaxLen]
  BY <1>1, <1>2, ScanUpdate DEF LoopInv
<1>4. nfailures' \in 0..MaxFailures /\ nfailures' # 0
  BY FaultCounted, LoopbackConstants DEF WriteFails, LoopInv
<1>5. FilesChange(pr)
  BY <1>3, <1>4, OperationCounted DEF WriteFails, FilesChange, LoopInv, LoopbackTypeOK
<1> QED BY <1>4, <1>5, FilesChangeKeeps DEF SoleUse

\* The maximum of two numbers.
LEMMA MaxOfTwo ==
    ASSUME NEW a \in Int, NEW b \in Int
    PROVE  Max({a, b}) \in {a, b} /\ a <= Max({a, b}) /\ b <= Max({a, b})
<1>1. \E x \in {a, b} : \A y \in {a, b} : x >= y
  OBVIOUS
<1> QED BY <1>1 DEF Max

\* The files shrink: what a sole user has still fits.
LEMMA ShrinkFits ==
    ASSUME LoopInv, NEW pr \in Procs, FilesChange(pr), ScanUsedSpace' <= ScanUsedSpace
    PROVE  SoleUse' => ScanUsedSpace' <= Capacity
<1>1. SoleUse' => SoleUse
  BY DEF SoleUse, FilesChange
<1>2. ScanUsedSpace \in Int /\ ScanUsedSpace' \in Int /\ Capacity \in Int
  BY ScanType, ScanTypeNext, LoopbackConstants DEF LoopInv, FilesChange
<1> QED BY <1>1, <1>2 DEF LoopInv, UseInv

\* A deletion gives back what the file took, and no account goes below
\* zero.
LEMMA DeleteDataKeeps ==
    ASSUME LoopInv, NEW pr \in Procs, NEW f \in Files, DeleteData(pr, f)
    PROVE  LoopInv'
<1>1. 0 \in 0..MaxLen /\ size[f] \in Nat /\ used[pr] \in Int
  BY LoopbackConstants DEF LoopInv, LoopbackTypeOK
<1>2. /\ size' \in [Files -> 0..MaxLen]
      /\ ScanUsedSpace' = ScanUsedSpace - size[f] + 0
      /\ ScanUsedSpace \in Int
  BY <1>1, ScanUpdate, ScanType DEF DeleteData, LoopInv
<1>3. /\ used' = [used EXCEPT ![pr] = Max({0, used[pr] - size[f]})]
      /\ Max({0, used[pr] - size[f]}) \in Int
      /\ used[pr] - size[f] <= Max({0, used[pr] - size[f]})
  <2>1. 0 \in Int /\ used[pr] - size[f] \in Int
    BY <1>1
  <2>2. Max({0, used[pr] - size[f]}) \in {0, used[pr] - size[f]}
    BY <2>1, MaxOfTwo
  <2>3. used[pr] - size[f] <= Max({0, used[pr] - size[f]})
    BY <2>1, MaxOfTwo
  <2> QED BY <2>1, <2>2, <2>3 DEF DeleteData
<1>4. FilesChange(pr)
  BY <1>1, <1>2, <1>3, OperationCounted DEF DeleteData, FilesChange, LoopInv, LoopbackTypeOK
<1>5. ScanUsedSpace' <= ScanUsedSpace
  BY <1>1, <1>2
<1> QED BY <1>4, <1>5, ShrinkFits, FilesChangeKeeps

\* Removing a directory leaves the account too large, never too small.
LEMMA RmdirKeeps ==
    ASSUME LoopInv, NEW pr \in Procs, Rmdir(pr)
    PROVE  LoopInv'
<1>1. size' \in [Files -> 0..MaxLen]
  BY LoopbackConstants DEF Rmdir, LoopInv, LoopbackTypeOK
<1>2. ScanUsedSpace' <= ScanUsedSpace
  <2>1. size \in [Files -> Int] /\ size' \in [Files -> Int]
    BY <1>1, LoopbackConstants DEF LoopInv, LoopbackTypeOK
  <2>2. \A f \in Files : size'[f] <= size[f]
    BY LoopbackConstants DEF Rmdir, LoopInv, LoopbackTypeOK
  <2> QED BY <2>1, <2>2, SumMonotone, LoopbackConstants DEF ScanUsedSpace
<1>3. ScanUsedSpace \in Int /\ ScanUsedSpace' \in Int
  BY <1>1, ScanType, ScanTypeNext DEF LoopInv
<1>4. used' = used /\ used[pr] \in Int
  BY DEF Rmdir, LoopInv, LoopbackTypeOK
<1>5. FilesChange(pr)
  BY <1>1, <1>2, <1>3, <1>4, OperationCounted DEF Rmdir, FilesChange, LoopInv, LoopbackTypeOK
<1> QED BY <1>2, <1>5, ShrinkFits, FilesChangeKeeps

\* Every step of a source keeps the invariant.
LEMMA LoopStep == LoopInv /\ [LoopbackNext]_loopbackVars => LoopInv'
<1> SUFFICES ASSUME LoopInv, [LoopbackNext]_loopbackVars PROVE LoopInv'
  OBVIOUS
<1>1. ASSUME NEW pr \in Procs,
             Initialize(pr) \/ Create(pr) \/ CreateFails(pr) \/ Leave(pr) \/ Rmdir(pr)
      PROVE  LoopInv'
  BY <1>1, InitializeKeeps, CreateKeeps, CreateFailsKeeps, LeaveKeeps, RmdirKeeps
<1>2. ASSUME NEW pr \in Procs, NEW f \in Files, NEW n \in Lengths,
             Write(pr, f, n) \/ WriteFails(pr, f, n)
      PROVE  LoopInv'
  BY <1>2, WriteKeeps, WriteFailsKeeps
<1>3. ASSUME NEW pr \in Procs, NEW f \in Files, DeleteData(pr, f) PROVE LoopInv'
  BY <1>3, DeleteDataKeeps
<1>4. CASE UNCHANGED loopbackVars
  <2>1. ScanUsedSpace' = ScanUsedSpace /\ (SoleUse' <=> SoleUse)
    BY <1>4 DEF loopbackVars, ScanUsedSpace, SoleUse
  <2> QED BY <1>4, <2>1 DEF loopbackVars, LoopInv, LoopbackTypeOK, AccountCoversDisk, UseInv
<1> QED BY <1>1, <1>2, <1>3, <1>4 DEF LoopbackNext

\* Sizes, accounts and mounts keep their types (storage_source.py).
THEOREM LoopbackTypeCorrect == LoopbackSpec => []LoopbackTypeOK
<1>1. LoopInv => LoopbackTypeOK
  BY DEF LoopInv
<1> QED BY InitLoop, LoopStep, <1>1, PTL DEF LoopbackSpec

\* The account of a process that has the source, corrected by what others did,
\* never falls short of the disk, for any number of processes: only a write
\* that broke off half-way is missing (LoopbackSource.write, delete, rmdir).
THEOREM AccountsCoverDisk == LoopbackSpec => []AccountCoversDisk
<1>1. LoopInv => AccountCoversDisk
  BY DEF LoopInv
<1> QED BY InitLoop, LoopStep, <1>1, PTL DEF LoopbackSpec

\* Used by one process the source never takes more than size_bytes, however
\* files are written, overwritten, deleted and remounted (LoopbackSource).
THEOREM SoleUserKeepsWithinSize == LoopbackSpec => []SoleUserWithinSize
<1>1. LoopInv => SoleUserWithinSize
  <2> SUFFICES ASSUME LoopInv, Cardinality(ever) <= 1, nfailures = 0
      PROVE  ScanUsedSpace <= Capacity
    BY DEF SoleUserWithinSize
  <2>1. Cardinality(ever) = 0 \/ Cardinality(ever) = 1
    BY FS_CardinalityType DEF LoopInv, UseInv
  <2>2. ever = {} \/ \E p : ever = {p}
    BY <2>1, FS_EmptySet, FS_Singleton, Zenon DEF LoopInv, UseInv
  <2> QED BY <2>2 DEF LoopInv, UseInv, SoleUse
<1> QED BY InitLoop, LoopStep, <1>1, PTL DEF LoopbackSpec

-----------------------------------------------------------------------------
(***************************************************************************)
(* The chunks and the quota of ParityStore.                                *)
(***************************************************************************)
\* In memory and in index.json: a chunk that was acknowledged is its owner's.
EntryKept(ix, c) == ix[c] # None /\ ix[c].owner = promised[c].owner

\* AckedFetchable, and the same of the index that a restart would load.
KeptInv ==
    \A c \in Chunks : promised[c] # None =>
        /\ EntryKept(index, c) /\ EntryKept(saved, c)
        /\ data[c] \in promised[c].blobs

\* A store under way is by the owner of the chunk, if it has one, and its
\* data is in the file.
StoringInv ==
    op.kind = "store" =>
        /\ op.blob \in Blobs
        /\ promised[op.chunk] # None => op.owner = promised[op.chunk].owner
        /\ data[op.chunk] = op.blob

\* A delete under way has dropped the promise.
DeletingInv == op.kind = "delete" => promised[op.chunk] = None

ParityInv == TypeOK /\ KeptInv /\ StoringInv /\ DeletingInv

\* An empty store keeps nothing.
LEMMA InitParity == Init => ParityInv
  BY ParityConstants DEF Init, ParityInv, TypeOK, KeptInv, StoringInv, DeletingInv,
     OpType, Idle, Entry

\* Writing a chunk file leaves the index as it was.
LEMMA StoreKeeps ==
    ASSUME ParityInv, NEW c \in Chunks, NEW u \in Users, NEW b \in Blobs, Store(c, u, b)
    PROVE  ParityInv'
<1>1. TypeOK'
  <2>1. promised' \in [Chunks -> [owner : Users, blobs : SUBSET Blobs] \cup {None}]
    BY DEF ParityInv, TypeOK, Store
  <2>2. op' \in OpType
    BY DEF Store, OpType
  <2> QED BY <2>1, <2>2 DEF ParityInv, TypeOK, Store
<1>2. KeptInv'
  <2> SUFFICES ASSUME NEW d \in Chunks, promised'[d] # None
      PROVE  /\ EntryKept(index, d)' /\ EntryKept(saved, d)'
             /\ data'[d] \in promised'[d].blobs
    BY DEF KeptInv
  <2>1. CASE d = c
    <3>1. promised[c] # None
      BY <2>1 DEF Store
    <3>2. /\ promised'[c].owner = promised[c].owner
          /\ promised'[c].blobs = promised[c].blobs \cup {b}
      BY <3>1 DEF Store, ParityInv, TypeOK
    <3> QED BY <2>1, <3>1, <3>2 DEF Store, ParityInv, TypeOK, KeptInv, EntryKept
  <2>2. CASE d # c
    <3>1. promised'[d] = promised[d] /\ data'[d] = data[d]
      BY <2>2 DEF Store, ParityInv, TypeOK
    <3> QED BY <3>1 DEF Store, ParityInv, KeptInv, EntryKept
  <2> QED BY <2>1, <2>2
<1>3. StoringInv'
  <2>1. promised'[c] # None => promised[c] # None /\ promised'[c].owner = promised[c].owner
    BY DEF Store, ParityInv, TypeOK
  <2>2. promised[c] # None => u = promised[c].owner
    BY DEF Store, MayStore, ParityInv, KeptInv, EntryKept
  <2>3. data'[c] = b
    BY DEF Store, ParityInv, TypeOK
  <2> QED BY <2>1, <2>2, <2>3 DEF Store, StoringInv
<1>4. DeletingInv'
  BY DEF Store, DeletingInv
<1> QED BY <1>1, <1>2, <1>3, <1>4 DEF ParityInv

\* The index then names the file that was written.
LEMMA StoreIndexKeeps ==
    ASSUME ParityInv, StoreIndex
    PROVE  ParityInv'
<1>1. op \in [kind : {"store"}, chunk : Chunks, owner : Users, blob : Blobs]
  BY DEF ParityInv, TypeOK, StoringInv, OpType, Idle, StoreIndex
<1> DEFINE e == [owner |-> op.owner, size |-> Size[op.blob]]
<1>2. e \in Entry /\ e # None /\ e.owner = op.owner
  BY <1>1, ParityConstants DEF Entry
<1>3. index' \in [Chunks -> Entry \cup {None}] /\ index'[op.chunk] = e
  BY <1>1, <1>2 DEF StoreIndex, ParityInv, TypeOK
<1>4. \A d \in Chunks : d # op.chunk => index'[d] = index[d]
  BY DEF StoreIndex, ParityInv, TypeOK
<1> DEFINE p == [owner |-> op.owner, blobs |-> {op.blob}]
<1>5. CASE saved' = index' /\ promised' = [promised EXCEPT ![op.chunk] = p] /\ NoFault
  <2>1. TypeOK'
    <3>1. promised' \in [Chunks -> [owner : Users, blobs : SUBSET Blobs] \cup {None}]
      BY <1>1, <1>5 DEF ParityInv, TypeOK
    <3> QED BY <1>3, <1>5, <3>1 DEF StoreIndex, ParityInv, TypeOK, OpType, NoFault
  <2>2. promised'[op.chunk] = p /\ \A d \in Chunks : d # op.chunk => promised'[d] = promised[d]
    BY <1>1, <1>5 DEF ParityInv, TypeOK
  <2>3. KeptInv'
    <3> SUFFICES ASSUME NEW d \in Chunks, promised'[d] # None
        PROVE  /\ EntryKept(index, d)' /\ EntryKept(saved, d)'
               /\ data'[d] \in promised'[d].blobs
      BY DEF KeptInv
    <3>1. CASE d = op.chunk
      BY <1>1, <1>2, <1>3, <1>5, <2>2, <3>1 DEF StoreIndex, ParityInv, StoringInv, EntryKept
    <3>2. CASE d # op.chunk
      BY <1>4, <1>5, <2>2, <3>2 DEF StoreIndex, ParityInv, KeptInv, EntryKept
    <3> QED BY <3>1, <3>2
  <2> QED BY <2>1, <2>3 DEF StoreIndex, Idle, ParityInv, StoringInv, DeletingInv
<1>6. CASE Fault /\ UNCHANGED <<saved, promised>>
  <2>1. TypeOK'
    BY <1>3, <1>6, ParityConstants DEF StoreIndex, ParityInv, TypeOK, OpType, Fault
  <2>2. KeptInv'
    <3> SUFFICES ASSUME NEW d \in Chunks, promised'[d] # None
        PROVE  /\ EntryKept(index, d)' /\ EntryKept(saved, d)'
               /\ data'[d] \in promised'[d].blobs
      BY DEF KeptInv
    <3>1. CASE d = op.chunk
      BY <1>1, <1>2, <1>3, <1>6, <3>1 DEF StoreIndex, ParityInv, KeptInv, StoringInv, EntryKept
    <3>2. CASE d # op.chunk
      BY <1>4, <1>6, <3>2 DEF StoreIndex, ParityInv, KeptInv, EntryKept
    <3> QED BY <3>1, <3>2
  <2> QED BY <2>1, <2>2 DEF StoreIndex, Idle, ParityInv, StoringInv, DeletingInv
<1> QED BY <1>5, <1>6 DEF StoreIndex

\* Deleting takes a chunk file that nobody else keeps.
LEMMA DeleteKeeps ==
    ASSUME ParityInv, NEW c \in Chunks, NEW u \in Users, Delete(c, u)
    PROVE  ParityInv'
<1>1. TypeOK'
  <2>1. data' \in [Chunks -> Blobs \cup {None}] /\ nfaults' \in 0..MaxFaults
    BY ParityConstants DEF Delete, ParityInv, TypeOK, Fault, NoFault
  <2>2. op' \in OpType
    BY DEF Delete, OpType
  <2> QED BY <2>1, <2>2 DEF Delete, ParityInv, TypeOK
<1>2. /\ promised'[c] = None
      /\ \A d \in Chunks : d # c => promised'[d] = promised[d] /\ data'[d] = data[d]
  BY DEF Delete, ParityInv, TypeOK
<1>3. KeptInv'
  BY <1>2 DEF Delete, ParityInv, KeptInv, EntryKept
<1> QED BY <1>1, <1>2, <1>3 DEF Delete, ParityInv, StoringInv, DeletingInv

\* The index then forgets it.
LEMMA DeleteIndexKeeps ==
    ASSUME ParityInv, DeleteIndex
    PROVE  ParityInv'
<1>1. op.chunk \in Chunks /\ promised[op.chunk] = None
  BY DEF ParityInv, TypeOK, DeletingInv, OpType, Idle, DeleteIndex
<1>2. /\ index' \in [Chunks -> Entry \cup {None}]
      /\ \A d \in Chunks : d # op.chunk => index'[d] = index[d]
  BY DEF DeleteIndex, ParityInv, TypeOK
<1>3. TypeOK'
  BY <1>2, ParityConstants DEF DeleteIndex, ParityInv, TypeOK, OpType, Fault, NoFault
<1>4. KeptInv'
  BY <1>1, <1>2 DEF DeleteIndex, ParityInv, KeptInv, EntryKept
<1> QED BY <1>3, <1>4 DEF DeleteIndex, Idle, ParityInv, StoringInv, DeletingInv

\* A new quota touches no chunk.
LEMMA SetMaxBytesKeeps ==
    ASSUME ParityInv, NEW m \in Quotas, SetMaxBytes(m)
    PROVE  ParityInv'
  BY DEF SetMaxBytes, ParityInv, TypeOK, KeptInv, EntryKept, StoringInv, DeletingInv

\* A restart takes the index from its file again.
LEMMA RestartKeeps ==
    ASSUME ParityInv, Restart
    PROVE  ParityInv'
<1>1. TypeOK'
  BY ParityConstants DEF Restart, ParityInv, TypeOK, OpType, Fault
<1>2. KeptInv'
  BY DEF Restart, ParityInv, KeptInv, EntryKept
<1> QED BY <1>1, <1>2 DEF Restart, Idle, ParityInv, StoringInv, DeletingInv

\* Every step of the store keeps the invariant.
LEMMA ParityStep == ParityInv /\ [Next]_vars => ParityInv'
<1> SUFFICES ASSUME ParityInv, [Next]_vars PROVE ParityInv'
  OBVIOUS
<1>1. CASE \E c \in Chunks, u \in Users, b \in Blobs : Store(c, u, b)
  BY <1>1, StoreKeeps
<1>2. CASE StoreIndex
  BY <1>2, StoreIndexKeeps
<1>3. CASE \E c \in Chunks, u \in Users : Delete(c, u)
  BY <1>3, DeleteKeeps
<1>4. CASE DeleteIndex
  BY <1>4, DeleteIndexKeeps
<1>5. CASE \E m \in Quotas : SetMaxBytes(m)
  BY <1>5, SetMaxBytesKeeps
<1>6. CASE Restart
  BY <1>6, RestartKeeps
<1>7. CASE UNCHANGED vars
  BY <1>7 DEF vars, ParityInv, TypeOK, KeptInv, EntryKept, StoringInv, DeletingInv
<1> QED BY <1>1, <1>2, <1>3, <1>4, <1>5, <1>6, <1>7 DEF Next

\* The store keeps its types (parity_store.py).
THEOREM ParityTypeCorrect == Spec => []TypeOK
<1>1. ParityInv => TypeOK
  BY DEF ParityInv
<1> QED BY InitParity, ParityStep, <1>1, PTL DEF Spec

\* A chunk that was acknowledged can be fetched by its owner until the owner
\* deletes it, for any number of kills and failed writes of index.json: the
\* data is replaced before the index names it, and both by os.replace (store,
\* delete, _load_index).
THEOREM AckedChunksKept == Spec => []AckedFetchable
<1>1. ParityInv => AckedFetchable
  BY DEF ParityInv, KeptInv, EntryKept, AckedFetchable, Fetch
<1> QED BY InitParity, ParityStep, <1>1, PTL DEF Spec

-----------------------------------------------------------------------------
\* The length of the file of chunk c.
FileSize(c) == IF data[c] = None THEN 0 ELSE Size[data[c]]

DiskUse == SumFunctionOnSet([c \in Chunks |-> FileSize(c)], Chunks)

\* Until something fails, index and directory agree but for the chunk that an
\* operation is at, and the directory is within the quota.
AgreeInv ==
    nfaults = 0 =>
        /\ \A c \in Chunks : op = Idle \/ c # op.chunk => SizeIn(index, c) = FileSize(c)
        /\ op.kind = "delete" => data[op.chunk] = None
        /\ DiskUse <= Max(Quotas)

QuotaInv == ParityInv /\ AgreeInv

\* A quota that was set is at most the largest one.
LEMMA QuotaBound ==
    ASSUME NEW m \in Quotas
    PROVE  m <= Max(Quotas) /\ Max(Quotas) \in Nat
<1> DEFINE B == {s \in SUBSET Quotas : s # {} => \E x \in s : \A y \in s : x >= y}
<1>1. IsFiniteSet(Quotas) /\ Quotas \subseteq Nat
  BY ParityConstants
<1>2. {} \in B
  OBVIOUS
<1>3. ASSUME NEW s \in SUBSET Quotas, s # {}, \A x \in s : s \ {x} \in B PROVE s \in B
  <2>1. PICK x : x \in s
    BY <1>3
  <2>2. CASE s \ {x} = {}
    BY <1>1, <2>1, <2>2
  <2>3. CASE s \ {x} # {}
    <3>1. PICK z \in s \ {x} : \A y \in s \ {x} : z >= y
      BY <1>3, <2>1, <2>3
    <3>2. x >= z \/ z >= x
      BY <1>1, <2>1
    <3>3. \E w \in s : \A y \in s : w >= y
      BY <1>1, <2>1, <3>1, <3>2
    <3> QED BY <3>3
  <2> QED BY <2>2, <2>3
<1> HIDE DEF B
<1>4. SUBSET Quotas \subseteq B
  BY <1>1, <1>2, <1>3, SubsetInduction
<1>5. Quotas \in B
  BY <1>4
<1>6. \E x \in Quotas : \A y \in Quotas : x >= y
  BY <1>5 DEF B
<1>7. Max(Quotas) \in Quotas /\ \A y \in Quotas : Max(Quotas) >= y
  BY <1>6 DEF Max
<1> QED BY <1>1, <1>7

\* Lengths are numbers, in the index and on the disk.
LEMMA SizesType ==
    ASSUME TypeOK
    PROVE  /\ [c \in Chunks |-> SizeIn(index, c)] \in [Chunks -> Int]
           /\ [c \in Chunks |-> FileSize(c)] \in [Chunks -> Int]
<1>1. ASSUME NEW c \in Chunks PROVE SizeIn(index, c) \in Int /\ FileSize(c) \in Int
  <2>1. index[c] = None \/ index[c].size \in Nat
    BY DEF TypeOK, Entry
  <2>2. data[c] = None \/ Size[data[c]] \in Nat
    BY ParityConstants DEF TypeOK
  <2> QED BY <2>1, <2>2 DEF SizeIn, FileSize
<1> QED BY <1>1

\* The same of the disk after a step.
LEMMA SizesTypeNext ==
    ASSUME TypeOK'
    PROVE  [c \in Chunks |-> FileSize(c)'] \in [Chunks -> Int]
<1>1. ASSUME NEW c \in Chunks PROVE FileSize(c)' \in Int
  BY ParityConstants DEF TypeOK, FileSize
<1> QED BY <1>1

\* An empty store is within its quota.
LEMMA InitQuota == Init => QuotaInv
<1> SUFFICES ASSUME Init PROVE QuotaInv
  OBVIOUS
<1>1. \A c \in Chunks : FileSize(c) = 0 /\ SizeIn(index, c) = 0
  BY DEF Init, FileSize, SizeIn
<1>2. DiskUse = 0
  BY <1>1, SumZero, ParityConstants DEF DiskUse
<1>3. maxBytes \in Quotas /\ Max(Quotas) \in Nat
  BY QuotaBound DEF Init
<1> QED BY <1>1, <1>2, <1>3, InitParity DEF Init, QuotaInv, AgreeInv, Idle

\* What the store has checked against the quota is what the directory takes.
LEMMA StoreAgrees ==
    ASSUME QuotaInv, TypeOK', NEW c \in Chunks, NEW u \in Users, NEW b \in Blobs,
           Store(c, u, b)
    PROVE  AgreeInv'
<1> SUFFICES ASSUME nfaults = 0 PROVE AgreeInv'
  BY DEF AgreeInv, Store
<1> DEFINE ix == [d \in Chunks |-> SizeIn(index, d)]
           fs == [d \in Chunks |-> FileSize(d)']
<1>1. /\ op = Idle /\ \A d \in Chunks : SizeIn(index, d) = FileSize(d)
      /\ op'.chunk = c /\ op'.kind = "store" /\ index' = index /\ nfaults' = nfaults
      /\ \A d \in Chunks \ {c} : data'[d] = data[d]
      /\ data'[c] = b
  BY DEF QuotaInv, ParityInv, TypeOK, AgreeInv, Store
<1>2. /\ \A d \in Chunks \ {c} : FileSize(d)' = SizeIn(index, d)
      /\ FileSize(c)' = Size[b]
  BY <1>1, ParityConstants DEF FileSize
<1>3. ix \in [Chunks -> Int] /\ fs \in [Chunks -> Int] /\ IsFiniteSet(Chunks)
  BY SizesType, SizesTypeNext, ParityConstants DEF QuotaInv, ParityInv
<1>4. fs[c] = Size[b] /\ ix[c] = SizeIn(index, c) /\ \A d \in Chunks \ {c} : fs[d] = ix[d]
  BY <1>2
<1>5. DiskUse' = SumFunctionOnSet(fs, Chunks) /\ UsedBytes = SumFunctionOnSet(ix, Chunks)
  BY DEF DiskUse, UsedBytes
<1> HIDE DEF ix, fs
<1>6. SumFunctionOnSet(fs, Chunks) = SumFunctionOnSet(ix, Chunks) - ix[c] + fs[c]
  BY <1>3, <1>4, SumUpdate
<1>7. DiskUse' = Projected(c, b)
  BY <1>4, <1>5, <1>6 DEF Projected
<1>8. DiskUse' <= Max(Quotas)
  <2>1. maxBytes \in Quotas /\ maxBytes \in Nat /\ Projected(c, b) <= maxBytes
    BY ParityConstants DEF QuotaInv, ParityInv, TypeOK, Store
  <2>2. maxBytes <= Max(Quotas) /\ Max(Quotas) \in Nat
    BY <2>1, QuotaBound
  <2>3. SumFunctionOnSet(fs, Chunks) \in Int
    BY <1>3, SumType
  <2> QED BY <1>5, <1>7, <2>1, <2>2, <2>3
<1>9. \A d \in Chunks : op' = Idle \/ d # op'.chunk => SizeIn(index, d)' = FileSize(d)'
  <2>1. op' # Idle
    BY <1>1 DEF Store, Idle
  <2> QED BY <1>1, <1>2, <2>1 DEF SizeIn
<1> QED BY <1>1, <1>8, <1>9 DEF AgreeInv

\* After a store the index and the disk weigh the same.
LEMMA StoreIndexAgrees ==
    ASSUME QuotaInv, StoreIndex
    PROVE  AgreeInv'
<1> SUFFICES ASSUME nfaults' = 0 PROVE AgreeInv'
  BY DEF AgreeInv
<1>1. nfaults = 0
  BY DEF StoreIndex, NoFault, Fault, QuotaInv, ParityInv, TypeOK
<1>2. /\ op.chunk \in Chunks /\ op.blob \in Blobs /\ data[op.chunk] = op.blob
      /\ op.kind = "store" /\ op # Idle
  BY DEF StoreIndex, QuotaInv, ParityInv, TypeOK, StoringInv, OpType, Idle
<1>3. /\ \A d \in Chunks : FileSize(d)' = FileSize(d)
      /\ DiskUse' = DiskUse /\ op' = Idle
  BY DEF StoreIndex, FileSize, DiskUse
<1>4. /\ index'[op.chunk] = [owner |-> op.owner, size |-> Size[op.blob]]
      /\ \A d \in Chunks \ {op.chunk} : index'[d] = index[d]
  BY <1>2 DEF StoreIndex, QuotaInv, ParityInv, TypeOK
<1>5. index'[op.chunk] # None
  <2>1. op.owner \in Users /\ Size[op.blob] \in Nat
    BY <1>2, ParityConstants DEF QuotaInv, ParityInv, TypeOK, OpType
  <2> QED BY <1>4, <2>1, ParityConstants
<1>6. SizeIn(index', op.chunk) = FileSize(op.chunk)
  <2>1. data[op.chunk] # None
    BY <1>2, ParityConstants
  <2>2. index'[op.chunk].size = Size[op.blob]
    BY <1>4
  <2>3. SizeIn(index', op.chunk) = Size[op.blob]
    BY <1>5, <2>2 DEF SizeIn
  <2> QED BY <1>2, <2>1, <2>3 DEF FileSize
<1>7. \A d \in Chunks \ {op.chunk} : SizeIn(index, d)' = FileSize(d)
  BY <1>1, <1>2, <1>4 DEF SizeIn, QuotaInv, AgreeInv
<1>8. \A d \in Chunks : SizeIn(index', d) = FileSize(d)
  BY <1>6, <1>7 DEF SizeIn
<1>9. \A d \in Chunks : SizeIn(index, d)' = FileSize(d)'
  BY <1>3, <1>8 DEF SizeIn
<1> QED BY <1>1, <1>3, <1>9 DEF QuotaInv, AgreeInv, Idle

\* While a deletion is under way the disk weighs less by the file that
\* went.
LEMMA DeleteAgrees ==
    ASSUME QuotaInv, TypeOK', NEW c \in Chunks, NEW u \in Users, Delete(c, u)
    PROVE  AgreeInv'
<1> SUFFICES ASSUME nfaults' = 0 PROVE AgreeInv'
  BY DEF AgreeInv
<1>1. nfaults = 0 /\ data' = [data EXCEPT ![c] = None]
  BY DEF Delete, NoFault, Fault, QuotaInv, ParityInv, TypeOK
<1>2. /\ op = Idle /\ op'.kind = "delete" /\ op'.chunk = c /\ index' = index
      /\ data'[c] = None /\ \A d \in Chunks \ {c} : data'[d] = data[d]
  BY <1>1 DEF Delete, QuotaInv, ParityInv, TypeOK
<1>3. FileSize(c)' = 0 /\ \A d \in Chunks \ {c} : FileSize(d)' = FileSize(d)
  BY <1>2 DEF FileSize
<1>4. 0 <= FileSize(c)
  BY ParityConstants DEF FileSize, QuotaInv, ParityInv, TypeOK
<1> DEFINE fs == [d \in Chunks |-> FileSize(d)]
           gs == [d \in Chunks |-> FileSize(d)']
<1>5. fs \in [Chunks -> Int] /\ gs \in [Chunks -> Int] /\ IsFiniteSet(Chunks)
  BY SizesType, SizesTypeNext, ParityConstants DEF QuotaInv, ParityInv
<1>6. \A d \in Chunks : gs[d] <= fs[d]
  <2>1. \A d \in Chunks : fs[d] \in Int
    BY <1>5
  <2> QED BY <1>3, <1>4, <2>1
<1>7. DiskUse = SumFunctionOnSet(fs, Chunks) /\ DiskUse' = SumFunctionOnSet(gs, Chunks)
  BY DEF DiskUse
<1> HIDE DEF fs, gs
<1>8. SumFunctionOnSet(gs, Chunks) <= SumFunctionOnSet(fs, Chunks)
  BY <1>5, <1>6, SumMonotone
<1>9. DiskUse' <= Max(Quotas)
  <2>1. SumFunctionOnSet(gs, Chunks) \in Int /\ SumFunctionOnSet(fs, Chunks) \in Int
    BY <1>5, SumType
  <2>2. Max(Quotas) \in Nat /\ DiskUse <= Max(Quotas)
    BY <1>1, QuotaBound DEF QuotaInv, ParityInv, TypeOK, AgreeInv
  <2> QED BY <1>7, <1>8, <2>1, <2>2
<1>10. \A d \in Chunks \ {c} : SizeIn(index, d)' = FileSize(d)'
  BY <1>1, <1>2, <1>3 DEF SizeIn, QuotaInv, AgreeInv
<1>11. op' # Idle
  BY <1>2 DEF Delete, Idle
<1> QED BY <1>2, <1>9, <1>10, <1>11 DEF AgreeInv

\* After a deletion they weigh the same again.
LEMMA DeleteIndexAgrees ==
    ASSUME QuotaInv, DeleteIndex
    PROVE  AgreeInv'
<1> SUFFICES ASSUME nfaults' = 0 PROVE AgreeInv'
  BY DEF AgreeInv
<1>1. nfaults = 0
  BY DEF DeleteIndex, NoFault, Fault, QuotaInv, ParityInv, TypeOK
<1>2. op.chunk \in Chunks /\ data[op.chunk] = None /\ op # Idle /\ op' = Idle
  BY <1>1 DEF DeleteIndex, QuotaInv, ParityInv, TypeOK, AgreeInv, OpType, Idle
<1>3. /\ \A d \in Chunks : FileSize(d)' = FileSize(d)
      /\ DiskUse' = DiskUse
  BY DEF DeleteIndex, FileSize, DiskUse
<1>4. index'[op.chunk] = None /\ \A d \in Chunks \ {op.chunk} : index'[d] = index[d]
  BY <1>2 DEF DeleteIndex, QuotaInv, ParityInv, TypeOK
<1>5. \A d \in Chunks : SizeIn(index, d)' = FileSize(d)
  BY <1>1, <1>2, <1>4 DEF SizeIn, FileSize, QuotaInv, AgreeInv
<1> QED BY <1>1, <1>2, <1>3, <1>5 DEF QuotaInv, AgreeInv, Idle

\* Every step keeps the disk within the largest quota that was set.
LEMMA QuotaStep == QuotaInv /\ [Next]_vars => QuotaInv'
<1> SUFFICES ASSUME QuotaInv, [Next]_vars PROVE AgreeInv'
  BY ParityStep DEF QuotaInv
<1>0. TypeOK'
  BY ParityStep DEF QuotaInv, ParityInv
<1>1. CASE \E c \in Chunks, u \in Users, b \in Blobs : Store(c, u, b)
  BY <1>0, <1>1, StoreAgrees
<1>2. CASE StoreIndex
  BY <1>2, StoreIndexAgrees
<1>3. CASE \E c \in Chunks, u \in Users : Delete(c, u)
  BY <1>0, <1>3, DeleteAgrees
<1>4. CASE DeleteIndex
  BY <1>4, DeleteIndexAgrees
<1>5. CASE \E m \in Quotas : SetMaxBytes(m)
  BY <1>5 DEF SetMaxBytes, QuotaInv, AgreeInv, FileSize, SizeIn, DiskUse
<1>6. CASE Restart
  BY <1>6 DEF Restart, Fault, QuotaInv, ParityInv, TypeOK, AgreeInv
<1>7. CASE UNCHANGED vars
  BY <1>7 DEF vars, QuotaInv, AgreeInv, FileSize, SizeIn, DiskUse
<1> QED BY <1>1, <1>2, <1>3, <1>4, <1>5, <1>6, <1>7 DEF Next

\* Until something fails, the files in the directory take no more than the
\* largest quota, for any chunks, sizes and changes of the quota: what store
\* projects from the index is what the directory will take (store, delete).
THEOREM DiskKeepsWithinQuota == Spec => []DiskWithinQuota
<1>1. QuotaInv => DiskWithinQuota
  BY DEF QuotaInv, AgreeInv, DiskWithinQuota, DiskUse, FileSize
<1> QED BY InitQuota, QuotaStep, <1>1, PTL DEF Spec
=============================================================================
