--------------------------- MODULE LoopbackSource ---------------------------
(***************************************************************************)
(* The space of a loopback source (stardustlib/storage_source.py, class    *)
(* LoopbackSource).                                                        *)
(*                                                                         *)
(* The image file only marks the reserved size; data lies in a companion   *)
(* directory.  Every process that opens the source scans that directory    *)
(* once and then keeps its own account of the bytes used; what the other   *)
(* processes write and delete in the meantime is not in it.                *)
(*                                                                         *)
(* Names that ParityStore has too are told apart here (LoopbackInit,       *)
(* DiskFault, DeleteData ...): StoreProofs is about both modules.          *)
(***************************************************************************)
EXTENDS Integers, FiniteSets, FiniteSetsExt

CONSTANTS
    Procs,      \* processes that use the source
    Files,      \* files in the companion directory
    InDir,      \* those that lie in the one subdirectory
    Capacity,   \* size_bytes
    MaxLen,     \* bound: length of a file
    MaxOps,     \* bound: operations
    MaxFailures \* bound: failed writes and failed creations

ASSUME LoopbackConstants ==
    /\ IsFiniteSet(Files)
    /\ InDir \subseteq Files
    /\ {Capacity, MaxLen, MaxOps, MaxFailures} \subseteq Nat

VARIABLES
    marker,     \* the image file exists
    size,       \* size[f]: bytes of file f, 0 if there is none
    mount,      \* mount[pr]: state of the source in process pr
    used,       \* used[pr]: _used_bytes
    others,     \* ghost: net bytes other processes have added since the mount
    failed,     \* ghost: processes one of whose writes has failed half-way
    ever,       \* ghost: processes that have ever had the source
    nops, nfailures

loopbackVars == <<marker, size, mount, used, others, failed, ever, nops, nfailures>>

Lengths == 1..MaxLen

\* The type invariant. An account (`used`) may be negative: it is one process's
\* count and does not see what another process deletes.
LoopbackTypeOK ==
    /\ marker \in BOOLEAN
    /\ size \in [Files -> 0..MaxLen]
    /\ mount \in [Procs -> {"no", "creating", "mounted"}]
    /\ used \in [Procs -> Int]
    /\ others \in [Procs -> Int]
    /\ failed \subseteq Procs /\ ever \subseteq Procs
    /\ nops \in 0..MaxOps /\ nfailures \in 0..MaxFailures

LoopbackInit ==
    /\ marker = FALSE
    /\ size = [f \in Files |-> 0]
    /\ mount = [pr \in Procs |-> "no"]
    /\ used = [pr \in Procs |-> 0]
    /\ others = [pr \in Procs |-> 0]
    /\ failed = {} /\ ever = {}
    /\ nops = 0 /\ nfailures = 0

-----------------------------------------------------------------------------
Operation == nops < MaxOps /\ nops' = nops + 1

DiskFault == nfailures < MaxFailures /\ nfailures' = nfailures + 1

\* _scan_used_space
ScanUsedSpace == SumFunctionOnSet(size, Files)

\* Ghost: process pr has changed the files.
SeenByOthers(pr) ==
    others' = [o \in Procs |->
                 IF o = pr THEN others[o]
                 ELSE others[o] + ScanUsedSpace' - ScanUsedSpace]

\* _mount
MountedBy(pr) ==
    /\ mount' = [mount EXCEPT ![pr] = "mounted"]
    /\ used' = [used EXCEPT ![pr] = ScanUsedSpace]
    /\ others' = [others EXCEPT ![pr] = 0]
    /\ failed' = failed \ {pr}
    /\ ever' = ever \cup {pr}

\* initialize: an image that exists is mounted, otherwise it is created.
Initialize(pr) ==
    /\ mount[pr] = "no"
    /\ Operation
    /\ \/ marker /\ MountedBy(pr)
       \/ /\ ~marker
          /\ mount' = [mount EXCEPT ![pr] = "creating"]
          /\ UNCHANGED <<used, others, failed, ever>>
    /\ UNCHANGED <<marker, size, nfailures>>

\* _create_loopback_file, then _mount.
Create(pr) ==
    /\ mount[pr] = "creating"
    /\ marker' = TRUE
    /\ MountedBy(pr)
    /\ UNCHANGED <<size, nops, nfailures>>

\* It fails: _cleanup_partial removes image and companion directory, also if
\* another process has made them and stored files in the meantime.
CreateFails(pr) ==
    /\ mount[pr] = "creating"
    /\ DiskFault
    /\ marker' = FALSE
    /\ size' = [f \in Files |-> 0]
    /\ mount' = [mount EXCEPT ![pr] = "no"]
    /\ SeenByOthers(pr)
    /\ UNCHANGED <<used, failed, ever, nops>>

\* The process ends.
Leave(pr) ==
    /\ mount[pr] = "mounted"
    /\ mount' = [mount EXCEPT ![pr] = "no"]
    /\ UNCHANGED <<marker, size, used, others, failed, ever, nops, nfailures>>

-----------------------------------------------------------------------------
\* Mutant: only the file itself must be smaller than the source.
FitsAlone(pr, f, n) == n - size[f] > 0 => n - size[f] <= Capacity

\* What a write needs beyond the file it replaces is available.
Fits(pr, f, n) == n - size[f] > 0 => n - size[f] <= Capacity - used[pr]

\* Mutant: the replaced file is subtracted from the account, not from what
\* is added to it.
WriteForgets(pr, f, n) ==
    /\ mount[pr] = "mounted"
    /\ Operation
    /\ Fits(pr, f, n)
    /\ size' = [size EXCEPT ![f] = n]
    /\ used' = [used EXCEPT ![pr] = n - size[f]]
    /\ SeenByOthers(pr)
    /\ UNCHANGED <<marker, mount, failed, ever, nfailures>>

\* write
Write(pr, f, n) ==
    /\ mount[pr] = "mounted"
    /\ Operation
    /\ Fits(pr, f, n)
    /\ size' = [size EXCEPT ![f] = n]
    /\ used' = [used EXCEPT ![pr] = @ + n - size[f]]
    /\ SeenByOthers(pr)
    /\ UNCHANGED <<marker, mount, failed, ever, nfailures>>

\* write, with the disk below full: k of n bytes are written, the account is
\* not touched.  (If the caller then deletes the remains they are subtracted.)
WriteFails(pr, f, n) ==
    /\ mount[pr] = "mounted"
    /\ Operation /\ DiskFault
    /\ Fits(pr, f, n)
    /\ \E k \in 0..(n - 1) : size' = [size EXCEPT ![f] = k]
    /\ failed' = failed \cup {pr}
    /\ SeenByOthers(pr)
    /\ UNCHANGED <<marker, mount, used, ever>>

\* delete
DeleteData(pr, f) ==
    /\ mount[pr] = "mounted"
    /\ Operation
    /\ size[f] > 0
    /\ size' = [size EXCEPT ![f] = 0]
    /\ used' = [used EXCEPT ![pr] = Max({0, @ - size[f]})]
    /\ SeenByOthers(pr)
    /\ UNCHANGED <<marker, mount, failed, ever, nfailures>>

\* rmdir: the account keeps the removed bytes until the next mount.
Rmdir(pr) ==
    /\ mount[pr] = "mounted"
    /\ Operation
    /\ \E f \in InDir : size[f] > 0
    /\ size' = [f \in Files |-> IF f \in InDir THEN 0 ELSE size[f]]
    /\ SeenByOthers(pr)
    /\ UNCHANGED <<marker, mount, used, failed, ever, nfailures>>

LoopbackNext ==
    \E pr \in Procs :
        \/ Initialize(pr)
        \/ Create(pr)
        \/ CreateFails(pr)
        \/ Leave(pr)
        \/ \E f \in Files : \E n \in Lengths : Write(pr, f, n)
        \/ \E f \in Files : \E n \in Lengths : WriteFails(pr, f, n)
        \/ \E f \in Files : DeleteData(pr, f)
        \/ Rmdir(pr)

LoopbackSpec == LoopbackInit /\ [][LoopbackNext]_loopbackVars

-----------------------------------------------------------------------------
\* The account of a process, corrected by what others did behind its back,
\* never falls short of what is on the disk (so that available space is not
\* overstated), unless one of its writes broke off half-way.
AccountCoversDisk ==
    \A pr \in Procs :
        mount[pr] = "mounted" /\ pr \notin failed => ScanUsedSpace <= used[pr] + others[pr]

\* Used by one process, the source refuses what does not fit into size_bytes
\* (docstring of LoopbackSource): until a write breaks off its files never
\* take more.
SoleUserWithinSize ==
    Cardinality(ever) <= 1 /\ nfailures = 0 => ScanUsedSpace <= Capacity
=============================================================================
