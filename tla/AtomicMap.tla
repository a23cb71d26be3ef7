----------------------------- MODULE AtomicMap ------------------------------
(***************************************************************************)
(* What the storage traits promise (storage/src/lib.rs): a map from        *)
(* logical keys to values, and batches of writes.  A batch is invisible    *)
(* until it is committed as a whole, no two open batches write the same    *)
(* key, and a restart drops the open batches and nothing else.             *)
(*                                                                         *)
(* A map is the set of its <<key, value>> pairs.                           *)
(***************************************************************************)
CONSTANTS
    Threads,   \* callers
    Map0,      \* what is stored at first
    Deleted    \* in a batch: the key is removed

VARIABLES
    map,       \* what is stored
    batch      \* for each caller the keys it writes, with values or Deleted

KeysOf(m)     == {p[1] : p \in m}
Without(m, K) == {p \in m : p[1] \notin K}

Init == map = Map0 /\ batch = [t \in Threads |-> {}]

\* push, of keys no other batch writes.
Write(t) ==
    /\ KeysOf(batch[t]) \subseteq KeysOf(batch'[t])
    /\ \A u \in Threads \ {t} :
          batch'[u] = batch[u] /\ KeysOf(batch'[t]) \cap KeysOf(batch[u]) = {}
    /\ UNCHANGED map

Commit(t) ==
    /\ batch' = [batch EXCEPT ![t] = {}]
    /\ map' = Without(map, KeysOf(batch[t])) \cup {p \in batch[t] : p[2] # Deleted}

Drop(t) == batch' = [batch EXCEPT ![t] = {}] /\ UNCHANGED map

\* Writes outside of batches: the counter, and the deletion of deltas of one
\* inode, those that clear_deltas found.
PutCounter == Without(map', {<<"counter">>}) = Without(map, {<<"counter">>})

Clear ==
    /\ map' \subseteq map
    /\ \E i \in {p[1][2] : p \in {q \in map : q[1][1] = "delta"}} :
          \A p \in map \ map' : p[1][1] = "delta" /\ p[1][2] = i

Restart == batch' = [t \in Threads |-> {}] /\ UNCHANGED map

Next ==
    \/ Restart
    \/ \E t \in Threads : Write(t) \/ Commit(t) \/ Drop(t)
    \/ UNCHANGED batch /\ (PutCounter \/ Clear)

Spec == Init /\ [][Next]_<<map, batch>>

=============================================================================
