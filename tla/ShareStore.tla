----------------------------- MODULE ShareStore -----------------------------
(***************************************************************************)
(* What the directory of key shares promises the rest of the node: a share *)
(* that was saved is there until it is deleted, a deleted one never comes  *)
(* back, and neither a crash nor the encryption of old files changes what  *)
(* is stored.  Keystore implements it with files.                          *)
(***************************************************************************)
CONSTANTS
    Path,      \* one per key and store
    Task,      \* a share is known by the keygen task that made it
    NoShare    \* not a task

VARIABLES
    stored,    \* the share kept under each path
    deleted    \* the paths whose share was deleted

svars == <<stored, deleted>>

Init ==
    /\ stored \in [Path -> Task \union {NoShare}]
    /\ deleted = {}

Put(p, t) ==
    /\ stored[p] = NoShare /\ p \notin deleted
    /\ stored' = [stored EXCEPT ![p] = t]
    /\ UNCHANGED deleted

\* Only for the task the share belongs to.
Remove(p, t) ==
    /\ stored[p] = t
    /\ stored' = [stored EXCEPT ![p] = NoShare]
    /\ deleted' = deleted \union {p}

Next == \E p \in Path, t \in Task : Put(p, t) \/ Remove(p, t)

Spec == Init /\ [][Next]_svars
=============================================================================
