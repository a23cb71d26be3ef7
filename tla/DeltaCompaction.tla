-------------------------- MODULE DeltaCompaction --------------------------
(***************************************************************************)
(* The link count of one directory under delta appends and compaction.     *)
(*                                                                         *)
(* A namespace transaction does not rewrite its parent directory's inode.  *)
(* It appends delta rows (server/src/lib.rs batch_parent_deltas), which    *)
(* load_inode folds into the stored value on a cache miss and which the    *)
(* compaction worker (server/src/compaction.rs) merges into the stored     *)
(* value.  After its commit the transaction patches the folded-inode cache *)
(* (server/src/cache.rs) and marks the directory dirty for the worker,     *)
(* unless it fails in between.                                             *)
(*                                                                         *)
(* The model follows one directory.  Request threads interleave with the   *)
(* single worker at the granularity of one store access: a sequence-number *)
(* increment, a row lock, a commit, a scan, a cache operation.             *)
(* SetMtime and SetCtime are always appended as a pair and fold with max;  *)
(* the pair is one delta with inc = 0 here.                                *)
(***************************************************************************)
EXTENDS Integers, FiniteSets, Sequences, Folds

CONSTANTS
    Threads,      \* request handler threads
    Worker,       \* the compaction worker thread
    NoOwner,      \* owner of a free row lock
    Requests,     \* the kinds of request the threads may issue
    Compacting,   \* TRUE iff some process runs DeltaCompactionWorker::run_loop
    Failing,      \* TRUE iff the allocator's counter may fail to be stored
    Threshold,    \* CompactionConfig::delta_threshold
    MaxTxns,      \* bound: transactions and cache fills begun by request threads
    MaxCrashes    \* bound: process crashes

Namespace == {"mkdir", "rmdir", "touch"}
Kinds     == Namespace \cup {"setattr", "load", "flush"}

ASSUME ThreadsAssumption ==
    /\ Worker \notin Threads
    /\ NoOwner \notin Threads \cup {Worker}
ASSUME ConfigAssumption ==
    /\ Requests \subseteq Kinds
    /\ {Compacting, Failing} \subseteq BOOLEAN
    /\ Threshold \in Nat
    /\ MaxTxns \in Nat
    /\ MaxCrashes \in Nat

VARIABLES
    base,      \* inode row: its nlink and, as history, how often each delta was folded in
    deltas,    \* delta rows of the directory: records [seq, epoch, inc], seq is the key
    subdirs,   \* number of subdirectory entries of the directory
    lock,      \* row lock on the inode row
    nextSeq,   \* in-memory sequence counter of RocksDeltaStore
    cache,     \* nlink of the cached folded value, or Miss
    dirty,     \* is the directory in the worker's dirty set?
    pc,        \* control state of each thread
    kind,      \* the request each thread is serving
    todo,      \* nlink increments of the deltas still to be pushed into the batch
    writes,    \* delta rows in the thread's uncommitted write batch
    val,       \* inode value a thread holds in a local variable
    wpc,       \* control state of the worker
    wscan,     \* delta rows the worker has read
    wval,      \* inode value the worker holds
    flushing,  \* is the worker in flush_all rather than compact_dirty?
    committed, \* history: identities of all committed deltas
    epoch,     \* history: number of crashes, makes delta identities unique
    txns       \* number of transactions and cache fills begun by request threads

store   == <<base, deltas, subdirs, lock>>
memory  == <<nextSeq, cache, dirty>>
threads == <<pc, kind, todo, writes, val>>
worker  == <<wpc, wscan, wval, flushing>>
history == <<committed, epoch, txns>>
vars    == <<store, memory, threads, worker, history>>

Miss == -1

\* A new directory: "." and its entry in the parent.
NewDir == [nlink |-> 2, folded |-> [i \in {} |-> 0]]

Id(d)    == <<d.epoch, d.seq>>
Ids(D)   == {Id(d) : d \in D}
Seqs(D)  == {d.seq : d \in D}

----------------------------------------------------------------------------
(* Folding *)

\* The row that an iterator in key order yields last.
LastRow(D) == CHOOSE d \in D : \A e \in D : e.seq <= d.seq

\* fold_deltas on nlink: in key order, clamped at zero after every step.
FoldDeltas(nlink, D) ==
    LET Step(inc, acc) == IF acc + inc < 0 THEN 0 ELSE acc + inc
    IN  MapThenFoldSet(Step, nlink, LAMBDA d : d.inc, LastRow, D)

\* The history side of a fold: every delta of D counted once more.
CountFold(folded, D) ==
    [i \in DOMAIN folded \cup Ids(D) |->
        (IF i \in DOMAIN folded THEN folded[i] ELSE 0)
      + (IF i \in Ids(D) THEN 1 ELSE 0)]

Fold(b, D) ==
    [nlink |-> FoldDeltas(b.nlink, D), folded |-> CountFold(b.folded, D)]

\* The effective link count, base plus pending deltas.
Effective == FoldDeltas(base.nlink, deltas)

\* A batch of puts applied to the delta column family: equal keys overwrite.
PutRows(D, W) == {d \in D : d.seq \notin Seqs(W)} \cup W

\* Mutant of DeleteRows: the worker clears all rows, scanned or not.
DeleteRowsAll(D, W) == {}

\* A batch of deletes by key.
DeleteRows(D, W) == {d \in D : d.seq \notin Seqs(W)}

\* The deltas each kind of request appends to its parent, in batch order.
ParentDeltas(k) ==
    CASE k = "mkdir" -> <<1, 0>>
      [] k = "rmdir" -> <<-1, 0>>
      [] k = "touch" -> <<0>>

----------------------------------------------------------------------------
(* Namespace transactions: mkdir, rmdir, and those that only touch times   *)

\* A handler returns and its local variables die.
Return(t) ==
    /\ pc' = [pc EXCEPT ![t] = "idle"]
    /\ kind' = [kind EXCEPT ![t] = "none"]
    /\ todo' = [todo EXCEPT ![t] = <<>>]
    /\ writes' = [writes EXCEPT ![t] = {}]
    /\ val' = [val EXCEPT ![t] = NewDir]

InTxn(t) == pc[t] \in {"push", "commit"}

\* Mutant of CanRemove: rmdir does not lock the entry it removes.
CanRemoveUnlocked == subdirs > 0

\* A subdirectory that no running rmdir has locked.
CanRemove ==
    subdirs > Cardinality({t \in Threads : InTxn(t) /\ kind[t] = "rmdir"})

\* The closure of execute_with_retry starts.  A retried attempt starts here
\* again, with new sequence numbers.
BeginTxn(t, k) ==
    /\ pc[t] = "idle"
    /\ k \in Requests \cap Namespace
    /\ txns < MaxTxns
    /\ k = "rmdir" => CanRemove
    /\ pc' = [pc EXCEPT ![t] = "push"]
    /\ kind' = [kind EXCEPT ![t] = k]
    /\ todo' = [todo EXCEPT ![t] = ParentDeltas(k)]
    /\ txns' = txns + 1
    /\ UNCHANGED <<store, memory, writes, val, worker, committed, epoch>>

\* One turn of the loop of batch_parent_deltas.
PushDelta(t) ==
    /\ pc[t] = "push"
    /\ writes' = [writes EXCEPT ![t] =
            @ \cup {[seq |-> nextSeq, epoch |-> epoch, inc |-> Head(todo[t])]}]
    /\ nextSeq' = nextSeq + 1
    /\ todo' = [todo EXCEPT ![t] = Tail(@)]
    /\ pc' = [pc EXCEPT ![t] = IF Len(todo[t]) = 1 THEN "commit" ELSE "push"]
    /\ UNCHANGED <<store, cache, dirty, kind, val, worker, history>>

Increment(k) == CASE k = "mkdir" -> 1 [] k = "rmdir" -> -1 [] k = "touch" -> 0

\* The directory entry and the deltas become visible in one commit.
Commit(t) ==
    /\ pc[t] = "commit"
    /\ deltas' = PutRows(deltas, writes[t])
    /\ subdirs' = subdirs + Increment(kind[t])
    /\ committed' = committed \cup Ids(writes[t])
    /\ pc' = [pc EXCEPT ![t] = "patch"]
    /\ UNCHANGED <<base, lock, memory, kind, todo, writes, val, worker, epoch, txns>>

\* The transaction is dropped: its sequence numbers are never used.
CommitConflict(t) ==
    /\ pc[t] = "commit"
    /\ Return(t)
    /\ UNCHANGED <<store, memory, worker, history>>

\* create, mkdir and symlink call maybe_persist between their commit and the
\* cache.  When it fails the handler returns an error: the transaction stays
\* committed, a cached directory stale and the directory unmarked.
PersistFails(t) ==
    /\ Failing
    /\ pc[t] = "patch"
    /\ kind[t] \in {"mkdir", "touch"}
    /\ Return(t)
    /\ UNCHANGED <<store, memory, worker, history>>

\* cache.apply_deltas(parent): no-op unless the directory is cached.
PatchCache(t) ==
    /\ pc[t] = "patch"
    /\ cache' = IF cache = Miss THEN Miss ELSE FoldDeltas(cache, writes[t])
    /\ pc' = [pc EXCEPT ![t] = "mark"]
    /\ UNCHANGED <<store, nextSeq, dirty, kind, todo, writes, val, worker, history>>

\* compaction.mark_dirty(parent), the last call of the handler.
MarkDirty(t) ==
    /\ pc[t] = "mark"
    /\ dirty' = TRUE
    /\ Return(t)
    /\ UNCHANGED <<store, nextSeq, cache, worker, history>>

----------------------------------------------------------------------------
(* setattr on the directory; a rename of the directory rewrites its row    *)
(* and its cache entry in the same way                                     *)

\* Mutant of SetLock: setattr reads the row without locking it.
SetLockUnlocked(t) ==
    /\ pc[t] = "idle"
    /\ "setattr" \in Requests
    /\ txns < MaxTxns
    /\ val' = [val EXCEPT ![t] = base]
    /\ pc' = [pc EXCEPT ![t] = "setCommit"]
    /\ txns' = txns + 1
    /\ UNCHANGED <<store, memory, kind, todo, writes, worker, committed, epoch>>

SetLock(t) ==
    /\ pc[t] = "idle"
    /\ "setattr" \in Requests
    /\ txns < MaxTxns
    /\ lock = NoOwner
    /\ lock' = t
    /\ val' = [val EXCEPT ![t] = base]
    /\ pc' = [pc EXCEPT ![t] = "setCommit"]
    /\ txns' = txns + 1
    /\ UNCHANGED <<base, deltas, subdirs, memory, kind, todo, writes, worker,
                   committed, epoch>>

\* The changed mode, owner or times are not modelled; the row keeps its nlink.
SetCommit(t) ==
    /\ pc[t] = "setCommit"
    /\ base' = val[t]
    /\ lock' = NoOwner
    /\ pc' = [pc EXCEPT ![t] = "setCache"]
    /\ UNCHANGED <<deltas, subdirs, memory, kind, todo, writes, val, worker, history>>

\* cache.put with the value just stored: the base, without pending deltas.
SetCache(t) ==
    /\ pc[t] = "setCache"
    /\ cache' = val[t].nlink
    /\ Return(t)
    /\ UNCHANGED <<store, nextSeq, dirty, worker, history>>

----------------------------------------------------------------------------
(* load_inode *)

\* A hit returns the cached value and changes nothing.
LoadHit(t) ==
    /\ pc[t] = "idle"
    /\ "load" \in Requests
    /\ cache # Miss
    /\ UNCHANGED vars

LoadMiss(t) ==
    /\ pc[t] = "idle"
    /\ "load" \in Requests
    /\ cache = Miss
    /\ txns < MaxTxns
    /\ pc' = [pc EXCEPT ![t] = "loadBase"]
    /\ txns' = txns + 1
    /\ UNCHANGED <<store, memory, kind, todo, writes, val, worker, committed, epoch>>

LoadBase(t) ==
    /\ pc[t] = "loadBase"
    /\ val' = [val EXCEPT ![t] = base]
    /\ pc' = [pc EXCEPT ![t] = "loadScan"]
    /\ UNCHANGED <<store, memory, kind, todo, writes, worker, history>>

LoadScan(t) ==
    /\ pc[t] = "loadScan"
    /\ val' = [val EXCEPT ![t] = Fold(@, deltas)]
    /\ pc' = [pc EXCEPT ![t] = "loadPut"]
    /\ UNCHANGED <<store, memory, kind, todo, writes, worker, history>>

LoadPut(t) ==
    /\ pc[t] = "loadPut"
    /\ cache' = val[t].nlink
    /\ Return(t)
    /\ UNCHANGED <<store, nextSeq, dirty, worker, history>>

\* The shard is full and the load of another inode evicts the directory.
Evict ==
    /\ "load" \in Requests
    /\ cache # Miss
    /\ cache' = Miss
    /\ UNCHANGED <<store, nextSeq, dirty, threads, worker, history>>

----------------------------------------------------------------------------
(* The compaction worker *)

\* compact_dirty swaps out the dirty set.
Drain ==
    /\ Compacting
    /\ wpc = "wait"
    /\ dirty
    /\ dirty' = FALSE
    /\ flushing' = FALSE
    /\ wpc' = "count"
    /\ UNCHANGED <<store, nextSeq, cache, threads, wscan, wval, history>>

\* flush_all, which ignores the threshold.
DrainAll ==
    /\ "flush" \in Requests
    /\ wpc = "wait"
    /\ dirty
    /\ dirty' = FALSE
    /\ flushing' = TRUE
    /\ wpc' = "scan"
    /\ UNCHANGED <<store, nextSeq, cache, threads, wscan, wval, history>>

\* The round ends without compacting the directory.  compact_dirty marks it
\* dirty again, flush_all does not.
GiveUp ==
    /\ dirty' = (dirty \/ ~flushing)
    /\ wpc' = "wait"
    /\ wscan' = {}
    /\ wval' = NewDir

\* compact_inode: compare the number of delta rows with the threshold.
Count ==
    /\ wpc = "count"
    /\ IF Cardinality(deltas) = 0 \/ Cardinality(deltas) < Threshold
       THEN GiveUp
       ELSE wpc' = "scan" /\ UNCHANGED <<dirty, wscan, wval>>
    /\ UNCHANGED <<store, nextSeq, cache, threads, flushing, history>>

\* force_compact_inode scans keys and values before it locks the inode row.
Scan ==
    /\ wpc = "scan"
    /\ IF deltas = {}
       THEN GiveUp
       ELSE wscan' = deltas /\ wpc' = "lock" /\ UNCHANGED <<dirty, wval>>
    /\ UNCHANGED <<store, nextSeq, cache, threads, flushing, history>>

LockBase ==
    /\ wpc = "lock"
    /\ lock = NoOwner
    /\ lock' = Worker
    /\ wval' = base
    /\ wpc' = "commit"
    /\ UNCHANGED <<base, deltas, subdirs, memory, threads, wscan, flushing, history>>

\* The row stays locked for longer than the lock timeout.
LockTimeout ==
    /\ wpc = "lock"
    /\ lock # NoOwner
    /\ GiveUp
    /\ UNCHANGED <<store, nextSeq, cache, threads, flushing, history>>

\* The merged row is stored and exactly the scanned keys are deleted.
CommitFold ==
    /\ wpc = "commit"
    /\ base' = Fold(wval, wscan)
    /\ deltas' = DeleteRows(deltas, wscan)
    /\ lock' = NoOwner
    /\ wpc' = "invalidate"
    /\ UNCHANGED <<subdirs, memory, threads, wscan, wval, flushing, history>>

FoldConflict ==
    /\ wpc = "commit"
    /\ lock' = NoOwner
    /\ GiveUp
    /\ UNCHANGED <<base, deltas, subdirs, nextSeq, cache, threads, flushing, history>>

Invalidate ==
    /\ wpc = "invalidate"
    /\ cache' = Miss
    /\ wpc' = "wait"
    /\ wscan' = {}
    /\ wval' = NewDir
    /\ UNCHANGED <<store, nextSeq, dirty, threads, flushing, history>>

----------------------------------------------------------------------------
(* Crash and restart *)

\* Mutant of RecoveredSeq: counters start at zero after a restart.
RecoveredSeqZero == 0

\* recover_seqs: one more than the largest sequence number on disk.
RecoveredSeq == IF deltas = {} THEN 0 ELSE LastRow(deltas).seq + 1

\* Rows survive, open transactions and all memory are lost.
Crash ==
    /\ epoch < MaxCrashes
    /\ epoch' = epoch + 1
    /\ lock' = NoOwner
    /\ nextSeq' = RecoveredSeq
    /\ cache' = Miss
    /\ dirty' = FALSE
    /\ pc' = [t \in Threads |-> "idle"]
    /\ kind' = [t \in Threads |-> "none"]
    /\ todo' = [t \in Threads |-> <<>>]
    /\ writes' = [t \in Threads |-> {}]
    /\ val' = [t \in Threads |-> NewDir]
    /\ wpc' = "wait"
    /\ wscan' = {}
    /\ wval' = NewDir
    /\ UNCHANGED <<base, deltas, subdirs, flushing, committed, txns>>

----------------------------------------------------------------------------
Init ==
    /\ base = NewDir
    /\ deltas = {}
    /\ subdirs = 0
    /\ lock = NoOwner
    /\ nextSeq = 0
    /\ cache = Miss
    /\ dirty = FALSE
    /\ pc = [t \in Threads |-> "idle"]
    /\ kind = [t \in Threads |-> "none"]
    /\ todo = [t \in Threads |-> <<>>]
    /\ writes = [t \in Threads |-> {}]
    /\ val = [t \in Threads |-> NewDir]
    /\ wpc = "wait"
    /\ wscan = {}
    /\ wval = NewDir
    /\ flushing = FALSE
    /\ committed = {}
    /\ epoch = 0
    /\ txns = 0

\* The rest of a request once it has begun.
Continue(t) ==
    \/ PushDelta(t) \/ Commit(t) \/ PatchCache(t) \/ MarkDirty(t)
    \/ SetCommit(t) \/ SetCache(t)
    \/ LoadBase(t) \/ LoadScan(t) \/ LoadPut(t)

Thread(t) ==
    \/ \E k \in Namespace : BeginTxn(t, k)
    \/ CommitConflict(t) \/ PersistFails(t)
    \/ SetLock(t)
    \/ LoadHit(t) \/ LoadMiss(t)
    \/ Continue(t)

WorkerStep ==
    \/ Drain \/ Count \/ Scan \/ LockBase \/ CommitFold \/ Invalidate

Next ==
    \/ \E t \in Threads : Thread(t)
    \/ Evict
    \/ WorkerStep
    \/ DrainAll \/ LockTimeout \/ FoldConflict
    \/ Crash

Spec == Init /\ [][Next]_vars

----------------------------------------------------------------------------
(* Properties *)

IsDelta(d) == d \in [seq : Nat, epoch : Nat, inc : {-1, 0, 1}]

\* History part of an inode value: only committed deltas are ever folded.
IsFolded(f) == DOMAIN f \subseteq committed /\ \A i \in DOMAIN f : f[i] \in Nat

\* Types of the rows, locks, batches and control states.
RowTypes ==
    /\ IsFolded(base.folded)
    /\ \A d \in deltas : IsDelta(d)
    /\ lock \in Threads \cup {Worker, NoOwner}
    /\ nextSeq \in Nat
    /\ dirty \in BOOLEAN
    /\ pc \in [Threads -> {"idle", "push", "commit", "patch", "mark", "setCommit",
                           "setCache", "loadBase", "loadScan", "loadPut"}]
    /\ kind \in [Threads -> Kinds \cup {"none"}]
    /\ todo \in [Threads -> Seq({-1, 0, 1})]
    /\ DOMAIN writes = Threads
    /\ \A t \in Threads : \A d \in writes[t] : IsDelta(d)
    /\ DOMAIN val = Threads
    /\ \A t \in Threads : IsFolded(val[t].folded)
    /\ wpc \in {"wait", "count", "scan", "lock", "commit", "invalidate"}
    /\ \A d \in wscan : IsDelta(d)
    /\ IsFolded(wval.folded)
    /\ flushing \in BOOLEAN
    /\ committed \subseteq Nat \X Nat
    /\ epoch \in Nat
    /\ txns \in Nat

\* Every variable holds a value of its type; link counts never go negative.
TypeOK ==
    /\ RowTypes
    /\ base.nlink \in Nat
    /\ subdirs \in Nat
    /\ cache \in Nat \cup {Miss}
    /\ \A t \in Threads : val[t].nlink \in Nat
    /\ wval.nlink \in Nat

\* base plus pending deltas is the link count POSIX asks for, two plus the
\* number of subdirectories, after every step of every interleaving of
\* mkdir/rmdir, setattr, compaction and crash (fold_deltas, force_compact_inode).
NlinkExact == Effective = 2 + subdirs

\* Every committed delta is either still a row or was folded into the inode row
\* exactly once: compaction neither loses nor repeats one, although it scans the
\* rows before it locks the inode (force_compact_inode) and although setattr
\* writes back a whole row.
ExactlyOnce ==
    \A i \in committed :
        IF i \in Ids(deltas)
        THEN i \notin DOMAIN base.folded
        ELSE i \in DOMAIN base.folded /\ base.folded[i] = 1

\* Why ExactlyOnce holds.  Keys of uncommitted batches are fresh (next_seq_inner,
\* recover_seqs), so a commit overwrites no row; the rows the worker has scanned
\* stay in place until it deletes them; whoever holds the row lock has read the
\* current inode row.
LedgerInv ==
    /\ \A d \in deltas : Id(d) \in committed /\ d.seq < nextSeq
    /\ \A d, e \in deltas : d.seq = e.seq => d = e
    /\ \A i \in committed : i[1] <= epoch /\ (i[1] = epoch => i[2] < nextSeq)
    /\ \A t \in Threads :
        /\ pc[t] \notin {"push", "commit", "patch", "mark"} => writes[t] = {}
        /\ pc[t] = "push" => todo[t] # <<>>
        /\ InTxn(t) => \A d \in writes[t] :
            /\ d.epoch = epoch /\ d.seq < nextSeq
            /\ Id(d) \notin committed
            /\ \A e \in deltas : e.seq # d.seq
            /\ \A u \in Threads : InTxn(u) =>
                \A e \in writes[u] : d.seq = e.seq => t = u /\ d = e
        /\ pc[t] = "setCommit" => lock = t /\ val[t] = base
    /\ wpc \in {"lock", "commit"} => wscan \subseteq deltas
    /\ wpc = "commit" => lock = Worker /\ wval = base

\* No request is running and the worker is not inside a compaction.
AtRest == wpc = "wait" /\ \A t \in Threads : pc[t] = "idle"

\* When nothing runs, a cached directory inode holds its effective attributes,
\* base plus pending deltas, which is what load_inode says it returns.  No run
\* asks this: CacheStale.cfg and the README show what breaks it.
CacheCoherent == AtRest => cache \in {Miss, Effective}

\* The delta machinery implements a plain link counter (module LinkCount): only
\* commits of mkdir and rmdir change the effective count, each by exactly one.
Counter == INSTANCE LinkCount WITH nlink <- Effective
ImplementsCounter == Counter!Spec

=============================================================================
