----------------------------- MODULE MetadataLog -----------------------------
(***************************************************************************)
(* What the devices' optimistic uploads promise together: the metadata on  *)
(* the server is a log of blobs to which an upload only ever adds a blob   *)
(* that carries everything live in the last one.                           *)
(***************************************************************************)
EXTENDS Integers, Sequences

CONSTANTS
    Paths,   \* virtual paths
    NoRec    \* no row at a path

VARIABLES
    log,     \* the blobs the server accepted
    removed  \* the paths whose row some device removed on purpose

\* Blob b has every live row of blob a, at the same version or a later one,
\* except where a device removed the row itself.
Dominates(b, a) ==
    \A p \in Paths \ removed :
        a[p] # NoRec /\ ~a[p].del => b[p] # NoRec /\ b[p].ver >= a[p].ver

Start == Len(log) = 1 /\ removed = {}

Upload ==
    /\ Len(log') = Len(log) + 1
    /\ log' = Append(log, log'[Len(log) + 1])
    /\ Dominates(log'[Len(log) + 1], log[Len(log)])
    /\ removed' = removed

Remove ==
    /\ removed \subseteq removed'
    /\ log' = log

LogSpec == Start /\ [][Upload \/ Remove]_<<log, removed>>
==============================================================================
