----------------------------- MODULE ParityStore -----------------------------
(***************************************************************************)
(* The store of a holder: chunks that other devices back up here           *)
(* (stardustlib/parity_store.py; p2p_server.py calls it).                  *)
(*                                                                         *)
(* A chunk is a .bin file and an entry of the index, which is kept in      *)
(* memory and in index.json.  Both files are replaced whole (os.replace),  *)
(* but one after the other: the process may die, or the second write fail, *)
(* in between.  The handlers of p2p_server.py and relay_worker.py call the *)
(* store without awaiting, so that operations never overlap.               *)
(***************************************************************************)
EXTENDS Integers, FiniteSets, FiniteSetsExt

CONSTANTS
    Chunks,     \* chunk ids
    Users,      \* users of the service
    Blobs,      \* what a chunk may contain
    Size,       \* Size[b]: its length
    Quotas,     \* values of max_bytes that policies give
    MaxFaults,  \* bound: kills and failed writes
    None        \* no entry, no file

ASSUME ParityConstants ==
    /\ Size \in [Blobs -> Nat]
    /\ IsFiniteSet(Chunks)
    /\ Quotas \subseteq Nat /\ IsFiniteSet(Quotas)
    /\ MaxFaults \in Nat
    /\ None \notin [owner : Users, size : Nat]
    /\ None \notin [owner : Users, blobs : SUBSET Blobs]
    /\ None \notin Blobs

Entry == [owner : Users, size : Nat]

VARIABLES
    index,      \* _index
    saved,      \* index.json
    data,       \* the .bin files
    maxBytes,   \* _max_bytes
    op,         \* the operation that has written the data, not yet the index
    promised,   \* ghost: chunks acknowledged, with what their owner may get
    nfaults

vars == <<index, saved, data, maxBytes, op, promised, nfaults>>

Idle == [kind |-> "idle"]

OpType == {Idle} \cup [kind : {"store", "delete"}, chunk : Chunks, owner : Users,
                       blob : Blobs \cup {None}]

\* The type invariant: the holder's index, its disk and the operation under
\* way keep their shape.
TypeOK ==
    /\ index \in [Chunks -> Entry \cup {None}]
    /\ saved \in [Chunks -> Entry \cup {None}]
    /\ data \in [Chunks -> Blobs \cup {None}]
    /\ maxBytes \in Quotas
    /\ op \in OpType
    /\ promised \in [Chunks -> [owner : Users, blobs : SUBSET Blobs] \cup {None}]
    /\ nfaults \in 0..MaxFaults

\* An empty directory.
Init ==
    /\ index = [c \in Chunks |-> None]
    /\ saved = [c \in Chunks |-> None]
    /\ data = [c \in Chunks |-> None]
    /\ maxBytes \in Quotas
    /\ op = Idle
    /\ promised = [c \in Chunks |-> None]
    /\ nfaults = 0

-----------------------------------------------------------------------------
Fault == nfaults < MaxFaults /\ nfaults' = nfaults + 1

NoFault == nfaults' = nfaults

SizeIn(ix, c) == IF ix[c] = None THEN 0 ELSE ix[c].size

\* used_bytes
UsedBytes == SumFunctionOnSet([c \in Chunks |-> SizeIn(index, c)], Chunks)

\* Mutant: the new data is left out of the account.
ProjectedWithout(c, b) == UsedBytes - SizeIn(index, c)

\* What the store would use with b as chunk c.
Projected(c, b) == UsedBytes - SizeIn(index, c) + Size[b]

\* Mutant: nobody asks whose chunk it is.
MayStoreAny(c, u) == TRUE

\* A chunk id belongs to whoever stored it first.
MayStore(c, u) == index[c] # None => index[c].owner = u

\* store, as far as the replaced .bin file.
Store(c, u, b) ==
    /\ op = Idle
    /\ MayStore(c, u)
    /\ Projected(c, b) <= maxBytes
    /\ data' = [data EXCEPT ![c] = b]
    /\ op' = [kind |-> "store", chunk |-> c, owner |-> u, blob |-> b]
    /\ promised' = IF promised[c] = None THEN promised
                   ELSE [promised EXCEPT ![c].blobs = @ \cup {b}]
    /\ UNCHANGED <<index, saved, maxBytes, nfaults>>

\* Mutant: the entry holds how much longer the chunk has become.
StoreIndexGrowth ==
    /\ op.kind = "store"
    /\ index' = [index EXCEPT ![op.chunk] =
                    [owner |-> op.owner,
                     size |-> Size[op.blob] - SizeIn(index, op.chunk)]]
    /\ op' = Idle
    /\ \/ /\ saved' = index'
          /\ promised' = [promised EXCEPT ![op.chunk] =
                            [owner |-> op.owner, blobs |-> {op.blob}]]
          /\ NoFault
       \/ Fault /\ UNCHANGED <<saved, promised>>
    /\ UNCHANGED <<data, maxBytes>>

\* The rest of store: the entry, and index.json.  If that cannot be written
\* the caller gets an error.
StoreIndex ==
    /\ op.kind = "store"
    /\ index' = [index EXCEPT ![op.chunk] =
                    [owner |-> op.owner, size |-> Size[op.blob]]]
    /\ op' = Idle
    /\ \/ /\ saved' = index'
          /\ promised' = [promised EXCEPT ![op.chunk] =
                            [owner |-> op.owner, blobs |-> {op.blob}]]
          /\ NoFault
       \/ Fault /\ UNCHANGED <<saved, promised>>
    /\ UNCHANGED <<data, maxBytes>>

\* delete, as far as the removed .bin file; an error of os.remove is ignored.
Delete(c, u) ==
    /\ op = Idle
    /\ index[c] # None /\ index[c].owner = u
    /\ \/ data' = [data EXCEPT ![c] = None] /\ NoFault
       \/ data' = data /\ data[c] # None /\ Fault
    /\ op' = [kind |-> "delete", chunk |-> c, owner |-> u, blob |-> None]
    /\ promised' = [promised EXCEPT ![c] = None]
    /\ UNCHANGED <<index, saved, maxBytes>>

\* The rest of delete.
DeleteIndex ==
    /\ op.kind = "delete"
    /\ index' = [index EXCEPT ![op.chunk] = None]
    /\ op' = Idle
    /\ \/ saved' = index' /\ NoFault
       \/ saved' = saved /\ Fault
    /\ UNCHANGED <<data, maxBytes, promised>>

\* A policy changes the quota.
SetMaxBytes(m) ==
    /\ op = Idle
    /\ maxBytes' = m
    /\ UNCHANGED <<index, saved, data, op, promised, nfaults>>

\* The process dies and is started again: _load_index.
Restart ==
    /\ Fault
    /\ index' = saved
    /\ op' = Idle
    /\ UNCHANGED <<saved, data, maxBytes, promised>>

\* fetch: the chunk, for its owner.
Fetch(c, u) ==
    IF index[c] # None /\ index[c].owner = u THEN data[c] ELSE None

Next ==
    \/ \E c \in Chunks, u \in Users, b \in Blobs : Store(c, u, b)
    \/ StoreIndex
    \/ \E c \in Chunks, u \in Users : Delete(c, u)
    \/ DeleteIndex
    \/ \E m \in Quotas : SetMaxBytes(m)
    \/ Restart

Spec == Init /\ [][Next]_vars

-----------------------------------------------------------------------------
\* A chunk whose store was acknowledged is fetched by its owner until it asks
\* for its deletion, whatever other users store, however often the process
\* dies and writes fail; what it gets is what it stored last, or what it was
\* storing when that failed.
AckedFetchable ==
    \A c \in Chunks :
        promised[c] # None => Fetch(c, promised[c].owner) \in promised[c].blobs

\* As long as nothing fails, the files in the directory never need more than
\* the largest quota, whatever is stored, overwritten and deleted.
DiskWithinQuota ==
    LET SizeOf == [c \in Chunks |-> IF data[c] = None THEN 0 ELSE Size[data[c]]]
    IN  nfaults = 0 => SumFunctionOnSet(SizeOf, Chunks) <= Max(Quotas)
==============================================================================
