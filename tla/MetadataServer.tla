--------------------------- MODULE MetadataServer ---------------------------
(***************************************************************************)
(* The namespace operations of server/src/lib.rs on the transactional      *)
(* store of storage/src/rocks.rs.                                          *)
(*                                                                         *)
(* Every operation is one pessimistic transaction: it locks rows one by    *)
(* one with get_for_update, reads them as it locks them, collects a write  *)
(* batch and commits.  Scans (is_dir_empty) take no lock and see what is   *)
(* committed.  Open handles and deferred deletes live in memory only.      *)
(*                                                                         *)
(* One step is one lock, one commit, or one access to an in-memory table.  *)
(* An operation that has to wait for a lock either gets it or times out,   *)
(* which drops its transaction.  A retry (execute_with_retry) is a new     *)
(* operation with the same arguments.                                      *)
(*                                                                         *)
(* Link-count deltas of a directory are kept as their sum: module          *)
(* DeltaCompaction shows that the rows and their compaction implement the  *)
(* sum.  Timestamps, modes, sizes, the folded cache and the dirty set are  *)
(* left out.  The counter of the allocator is stored now and then, and a   *)
(* restart takes what is stored (module InodeAllocator): a number may then *)
(* be given out twice, and a creation writes over the row of another.      *)
(***************************************************************************)
EXTENDS Integers, FiniteSets, FiniteSetsExt, Functions

CONSTANTS
    Threads,     \* request handler threads
    Names,       \* file names
    MaxInode,    \* bound: inode numbers are 1..MaxInode
    Interval,    \* PERSIST_INTERVAL
    Tree0,       \* directory entries when the model starts
    Requests,    \* the operations the clients issue
    MaxOps,      \* bound: operations begun
    MaxCrashes   \* bound: process crashes

Root   == 1
FIRST_ALLOC_INODE == 2
Absent == 0                        \* no counter is stored
Inodes == 1..MaxInode
Slots  == Inodes \X Names          \* keys of the dir_entries column family
Kinds  == {"dir", "file", "symlink"}

NoRow   == [kind |-> "none", nlink |-> 0]
NoEntry == [ino |-> 0, kind |-> "none"]
Entry   == [ino : Inodes, kind : Kinds]

Operations == {"create", "create_and_open", "mkdir", "symlink", "unlink", "rmdir",
               "rename", "rename_self", "link", "open", "release"}

ASSUME BoundsAssumption ==
    /\ MaxInode \in Nat \ {0}
    /\ Interval \in Nat \ {0}
    /\ MaxOps \in Nat
    /\ MaxCrashes \in Nat
    /\ Requests \subseteq Operations
ASSUME TreeAssumption ==
    /\ DOMAIN Tree0 \subseteq Slots
    /\ \A s \in DOMAIN Tree0 : Tree0[s] \in Entry

VARIABLES
    inodes,   \* inode rows: kind and nlink, or NoRow
    located,  \* inodes with a data-location row
    entries,  \* directory entries: slot -> inode and kind, or NoEntry
    delta,    \* per inode: sum of its pending IncrementNlink rows
    stored,   \* value of the next_inode key, or Absent
    next,     \* InodeAllocator::next
    handles,  \* open_handles
    pending,  \* pending_deletes
    born,     \* history: the kind each inode number was created with
    reused,   \* history: a number was given to a second inode
    held,     \* row locks of each thread's transaction
    pc,       \* control state of each thread
    req,      \* request a thread serves
    loc,      \* local variables: what the transaction has read
    ops,      \* operations begun
    crashes   \* crashes so far

rows    == <<inodes, located, entries, delta, stored>>
history == <<born, reused>>
memory  == <<next, handles, pending, history>>
threads == <<held, pc, req, loc>>
vars    == <<rows, memory, threads, ops, crashes>>

EntryKey(s) == <<"entry", s[1], s[2]>>
InodeKey(i) == <<"inode", i>>

NoReq == [op |-> "none", src |-> <<0, "">>, dst |-> <<0, "">>, ino |-> 0]
NoLoc == [ino |-> 0, row |-> NoRow, dst |-> NoEntry, drow |-> NoRow,
          deferred |-> FALSE, todo |-> {}, val |-> 0]

Exists(i)   == inodes[i].kind # "none"
IsDir(i)    == inodes[i].kind = "dir"
Present(s)  == entries[s] # NoEntry
Empty(d)    == \A n \in Names : ~Present(<<d, n>>)     \* is_dir_empty
Refs(i)     == {s \in Slots : entries[s].ino = i}
Subdirs(d)  == {s \in Slots : s[1] = d /\ entries[s].kind = "dir"}

\* Inodes a client may name: all it was ever told of, dead or alive.
KnownDirs  == {i \in Inodes : born[i] = "dir"}
KnownFiles == {i \in Inodes : born[i] \in {"file", "symlink"}}
KnownSlots == KnownDirs \X Names

----------------------------------------------------------------------------
(* Transactions *)

\* Mutant of Free: the row lock is not looked at.
FreeIgnored(t, k) == TRUE

Free(t, k) == \A u \in Threads \ {t} : k \notin held[u]

\* A request reaches an idle handler thread.
Begin(t, op) ==
    /\ pc[t] = "idle"
    /\ op \in Requests
    /\ ops < MaxOps
    /\ ops' = ops + 1

Goto(t, label) == pc' = [pc EXCEPT ![t] = label]

\* The handler returns; a transaction that did not commit is dropped.
Return(t) ==
    /\ Goto(t, "idle")
    /\ held' = [held EXCEPT ![t] = {}]
    /\ req' = [req EXCEPT ![t] = NoReq]
    /\ loc' = [loc EXCEPT ![t] = NoLoc]

Fail(t) == Return(t) /\ UNCHANGED <<rows, memory, crashes>>

Lock(t, k) ==
    /\ Free(t, k)
    /\ held' = [held EXCEPT ![t] = @ \cup {k}]

\* The commit succeeded: locks are gone, the handler goes on in memory.
Committed(t, label) ==
    /\ Goto(t, label)
    /\ held' = [held EXCEPT ![t] = {}]
    /\ UNCHANGED <<req, loc>>

----------------------------------------------------------------------------
(* create, create_and_open, mkdir, symlink *)

KindOf(op) ==
    CASE op = "mkdir" -> "dir"
      [] op = "symlink" -> "symlink"
      [] OTHER -> "file"

\* Lock the new name and allocate.  The parent is neither locked nor read.  An
\* existing name is AlreadyExists: the operation ends with nothing changed, and
\* is no step here, like every refusal at the first lock below.
CreateLock(t, op, s) ==
    /\ Begin(t, op)
    /\ Lock(t, EntryKey(s))
    /\ ~Present(s)
    /\ next \in Inodes
    /\ next' = next + 1
    /\ req' = [req EXCEPT ![t] = [NoReq EXCEPT !.op = op, !.src = s]]
    /\ loc' = [loc EXCEPT ![t].ino = next]
    /\ Goto(t, "insert")
    /\ UNCHANGED <<rows, history, handles, pending, crashes>>

NewRow(kind) == [kind |-> kind, nlink |-> IF kind = "dir" THEN 2 ELSE 1]

Insert(t) ==
    LET s == req[t].src
        i == loc[t].ino
        k == KindOf(req[t].op)
    IN
    /\ pc[t] = "insert"
    /\ inodes' = [inodes EXCEPT ![i] = NewRow(k)]
    /\ entries' = [entries EXCEPT ![s] = [ino |-> i, kind |-> k]]
    /\ located' = IF k = "file" THEN located \cup {i} ELSE located
    /\ delta' = IF k = "dir" THEN [delta EXCEPT ![s[1]] = @ + 1] ELSE delta
    /\ born' = [born EXCEPT ![i] = k]
    /\ reused' = (reused \/ born[i] # "none")
    /\ Committed(t, "persist")
    /\ UNCHANGED <<stored, next, handles, pending, ops, crashes>>

\* After maybe_persist: create_and_open counts its handle.
Created(t) ==
    IF req[t].op = "create_and_open"
    THEN Goto(t, "openHandle") /\ UNCHANGED <<held, req, loc>>
    ELSE Return(t)

\* maybe_persist: the counter is read after the commit, and stored if it is a
\* multiple of the interval.
LoadCounter(t) ==
    /\ pc[t] = "persist"
    /\ IF next % Interval = 0
       THEN Goto(t, "put") /\ loc' = [loc EXCEPT ![t].val = next] /\ UNCHANGED <<held, req>>
       ELSE Created(t)
    /\ UNCHANGED <<rows, memory, ops, crashes>>

PutCounter(t) ==
    /\ pc[t] = "put"
    /\ stored' = loc[t].val
    /\ Created(t)
    /\ UNCHANGED <<inodes, located, entries, delta, memory, ops, crashes>>

\* The store refuses: an error, although the rows are committed, and no handle.
PutFails(t) == pc[t] = "put" /\ Fail(t) /\ UNCHANGED ops

\* The handlers differ in the operation they pass on: its kind (KindOf), its
\* rows and deltas (Insert) and what follows the commit (Created).
Create(t, s)        == CreateLock(t, "create", s)
CreateAndOpen(t, s) == CreateLock(t, "create_and_open", s)
Mkdir(t, s)         == CreateLock(t, "mkdir", s)
Symlink(t, s)       == CreateLock(t, "symlink", s)

----------------------------------------------------------------------------
(* unlink *)

UnlinkEntry(t, s) ==
    /\ Begin(t, "unlink")
    /\ Lock(t, EntryKey(s))
    /\ Present(s) /\ entries[s].kind # "dir"
    /\ req' = [req EXCEPT ![t] = [NoReq EXCEPT !.op = "unlink", !.src = s]]
    /\ loc' = [loc EXCEPT ![t].ino = entries[s].ino]
    /\ Goto(t, "unlinkInode")
    /\ UNCHANGED <<rows, memory, crashes>>

Minus1(n) == IF n = 0 THEN 0 ELSE n - 1      \* saturating_sub(1)

\* Mutant of UnlinkInode: the row is read without its lock.
UnlinkInodeUnlocked(t) ==
    LET i == loc[t].ino IN
    /\ pc[t] = "unlinkInode"
    /\ Exists(i)
    /\ loc' = [loc EXCEPT ![t].row = [inodes[i] EXCEPT !.nlink = Minus1(@)],
                          ![t].deferred = Minus1(inodes[i].nlink) = 0 /\ handles[i] > 0]
    /\ Goto(t, "unlinkCommit")
    /\ UNCHANGED <<rows, memory, held, req, ops, crashes>>

\* Mutant of UnlinkInode: open handles are not looked at.
UnlinkInodeNoHandles(t) ==
    LET i == loc[t].ino IN
    /\ pc[t] = "unlinkInode"
    /\ Exists(i)
    /\ Lock(t, InodeKey(i))
    /\ loc' = [loc EXCEPT ![t].row = [inodes[i] EXCEPT !.nlink = Minus1(@)]]
    /\ Goto(t, "unlinkCommit")
    /\ UNCHANGED <<rows, memory, req, ops, crashes>>

\* Lock and read the inode; if this is its last link, look for open handles.
UnlinkInode(t) ==
    LET i == loc[t].ino IN
    /\ pc[t] = "unlinkInode"
    /\ IF Exists(i)
       THEN /\ Lock(t, InodeKey(i))
            /\ loc' = [loc EXCEPT ![t].row = [inodes[i] EXCEPT !.nlink = Minus1(@)],
                                  ![t].deferred = Minus1(inodes[i].nlink) = 0 /\ handles[i] > 0]
            /\ Goto(t, "unlinkCommit")
            /\ UNCHANGED <<rows, memory, req, crashes>>
       ELSE Free(t, InodeKey(i)) /\ Fail(t)
    /\ UNCHANGED ops

UnlinkCommit(t) ==
    LET i == loc[t].ino
        gone == loc[t].row.nlink = 0 /\ ~loc[t].deferred
    IN
    /\ pc[t] = "unlinkCommit"
    /\ entries' = [entries EXCEPT ![req[t].src] = NoEntry]
    /\ inodes' = [inodes EXCEPT ![i] = IF gone THEN NoRow ELSE loc[t].row]
    /\ located' = IF gone THEN located \ {i} ELSE located
    /\ delta' = IF gone THEN [delta EXCEPT ![i] = 0] ELSE delta
    /\ IF loc[t].deferred THEN Committed(t, "defer") ELSE Return(t)
    /\ UNCHANGED <<stored, memory, ops, crashes>>

\* Mutant of Defer: the deferred delete is not recorded.
DeferForgotten(t) ==
    /\ pc[t] = "defer"
    /\ Return(t)
    /\ UNCHANGED <<rows, memory, ops, crashes>>

\* After the commit, and after the locks are gone.
Defer(t) ==
    /\ pc[t] = "defer"
    /\ pending' = pending \cup {loc[t].ino}
    /\ Return(t)
    /\ UNCHANGED <<rows, next, history, handles, ops, crashes>>

----------------------------------------------------------------------------
(* rmdir *)

RmdirEntry(t, s) ==
    /\ Begin(t, "rmdir")
    /\ Lock(t, EntryKey(s))
    /\ entries[s].kind = "dir"
    /\ req' = [req EXCEPT ![t] = [NoReq EXCEPT !.op = "rmdir", !.src = s]]
    /\ loc' = [loc EXCEPT ![t].ino = entries[s].ino]
    /\ Goto(t, "rmdirInode")
    /\ UNCHANGED <<rows, memory, crashes>>

\* Lock the child inode and scan its entries: DirectoryNotEmpty, or go on.
RmdirInode(t) ==
    LET i == loc[t].ino IN
    /\ pc[t] = "rmdirInode"
    /\ IF Exists(i) /\ Empty(i)
       THEN /\ Lock(t, InodeKey(i))
            /\ Goto(t, "rmdirCommit")
            /\ UNCHANGED <<rows, memory, req, loc, crashes>>
       ELSE Free(t, InodeKey(i)) /\ Fail(t)
    /\ UNCHANGED ops

\* Mutant of RmdirCommit: the inode row stays.
RmdirCommitKeepsRow(t) ==
    LET s == req[t].src IN
    /\ pc[t] = "rmdirCommit"
    /\ entries' = [entries EXCEPT ![s] = NoEntry]
    /\ delta' = [delta EXCEPT ![s[1]] = @ - 1]
    /\ Committed(t, "clearDeltas")
    /\ UNCHANGED <<inodes, located, stored, memory, ops, crashes>>

RmdirCommit(t) ==
    LET i == loc[t].ino
        s == req[t].src
    IN
    /\ pc[t] = "rmdirCommit"
    /\ entries' = [entries EXCEPT ![s] = NoEntry]
    /\ inodes' = [inodes EXCEPT ![i] = NoRow]
    /\ delta' = [delta EXCEPT ![s[1]] = @ - 1]
    /\ Committed(t, "clearDeltas")
    /\ UNCHANGED <<located, stored, memory, ops, crashes>>

\* Mutant of ClearDeltas: the parent's deltas are cleared.
ClearDeltasOfParent(t) ==
    /\ pc[t] = "clearDeltas"
    /\ delta' = [delta EXCEPT ![req[t].src[1]] = 0]
    /\ Return(t)
    /\ UNCHANGED <<inodes, located, entries, stored, memory, ops, crashes>>

\* clear_deltas of the removed directory, also the last step of a rename that
\* replaced something.
ClearDeltas(t) ==
    LET i == IF req[t].op = "rename" THEN loc[t].dst.ino ELSE loc[t].ino IN
    /\ pc[t] = "clearDeltas"
    /\ delta' = [delta EXCEPT ![i] = 0]
    /\ Return(t)
    /\ UNCHANGED <<inodes, located, entries, stored, memory, ops, crashes>>

----------------------------------------------------------------------------
(* rename *)

\* A rename onto itself is a request of its own, so that a run can leave it out:
\* the kernel never sends one, the embedded and the RPC clients may.
RenameSrc(t, s, d) ==
    /\ Begin(t, IF s = d THEN "rename_self" ELSE "rename")
    /\ Lock(t, EntryKey(s))
    /\ Present(s)
    /\ req' = [req EXCEPT ![t] = [NoReq EXCEPT !.op = "rename", !.src = s, !.dst = d]]
    /\ loc' = [loc EXCEPT ![t].ino = entries[s].ino]
    /\ Goto(t, "renameDst")
    /\ UNCHANGED <<rows, memory, crashes>>

\* The inodes to lock: what moves, what it replaces, both parents.
RenameDst(t) ==
    LET d == req[t].dst IN
    /\ pc[t] = "renameDst"
    /\ Lock(t, EntryKey(d))
    /\ loc' = [loc EXCEPT ![t].dst = entries[d],
                          ![t].todo = {loc[t].ino, req[t].src[1], d[1], entries[d].ino} \ {0}]
    /\ Goto(t, "renameInodes")
    /\ UNCHANGED <<rows, memory, req, ops, crashes>>

\* One row lock, the smallest inode number first.
RenameInode(t) ==
    LET i == Min(loc[t].todo) IN
    /\ pc[t] = "renameInodes"
    /\ Lock(t, InodeKey(i))
    /\ loc' = [loc EXCEPT
            ![t].todo = @ \ {i},
            ![t].row = IF i = loc[t].ino THEN inodes[i] ELSE @,
            ![t].drow = IF i = loc[t].dst.ino THEN inodes[i] ELSE @]
    /\ Goto(t, IF loc[t].todo = {i} THEN "renameCheck" ELSE "renameInodes")
    /\ UNCHANGED <<rows, memory, req, ops, crashes>>

\* What may be replaced: nothing, an empty directory by a directory, a file by
\* a file.  Neither parent needs to exist, and the target may be open.
MayReplace(row, dst, drow) ==
    \/ dst = NoEntry
    \/ row.kind = "dir" /\ dst.kind = "dir" /\ Empty(dst.ino)
    \/ row.kind # "dir" /\ dst.kind # "dir" /\ drow # NoRow

RenameCheck(t) ==
    /\ pc[t] = "renameCheck"
    /\ IF loc[t].row # NoRow /\ MayReplace(loc[t].row, loc[t].dst, loc[t].drow)
       THEN Goto(t, "renameCommit") /\ UNCHANGED <<rows, memory, held, req, loc, crashes>>
       ELSE Fail(t)
    /\ UNCHANGED ops

\* Mutant of ReplacedRow: a replaced file is deleted whatever other links it has.
ReplacedRowDropped(l) == IF l.dst.kind = "dir" THEN inodes[l.dst.ino] ELSE NoRow

\* The row of a replaced file loses a link or is deleted; the row of a replaced
\* directory is not in the batch.
ReplacedRow(l) ==
    CASE l.dst.kind = "dir" -> inodes[l.dst.ino]
      [] l.drow.nlink > 1   -> [l.drow EXCEPT !.nlink = @ - 1]
      [] OTHER              -> NoRow

\* Mutant of RenameCommit: a directory that moves keeps its old name.
RenameCommitKeepsSrc(t) ==
    LET l == loc[t] IN
    /\ pc[t] = "renameCommit"
    /\ l.row.kind = "dir" /\ l.dst = NoEntry
    /\ entries' = [entries EXCEPT ![req[t].dst] = [ino |-> l.ino, kind |-> "dir"]]
    /\ Return(t)
    /\ UNCHANGED <<inodes, located, delta, stored, memory, ops, crashes>>

\* Batch operations in their order, the last write of a key wins.
RenameCommit(t) ==
    LET l == loc[t]
        s == req[t].src
        d == req[t].dst
        replaces == l.dst # NoEntry
        drops == replaces /\ ReplacedRow(l) = NoRow
        moves == l.row.kind = "dir" /\ s[1] # d[1]
        Change(i) == (IF replaces /\ l.dst.kind = "dir" /\ i = d[1] THEN -1 ELSE 0)
                   + (IF moves /\ i = d[1] THEN 1 ELSE 0)
                   - (IF moves /\ i = s[1] THEN 1 ELSE 0)
    IN
    /\ pc[t] = "renameCommit"
    /\ entries' = [entries EXCEPT ![s] = NoEntry, ![d] = [ino |-> l.ino, kind |-> l.row.kind]]
    /\ inodes' = [i \in Inodes |->
            CASE i = l.ino -> l.row
              [] replaces /\ i = l.dst.ino /\ i # l.ino -> ReplacedRow(l)
              [] OTHER -> inodes[i]]
    /\ located' = IF drops THEN located \ {l.dst.ino} ELSE located
    /\ delta' = [i \in Inodes |-> delta[i] + Change(i)]
    /\ IF replaces THEN Committed(t, "clearDeltas") ELSE Return(t)
    /\ UNCHANGED <<stored, memory, ops, crashes>>

----------------------------------------------------------------------------
(* link *)

LinkTarget(t, i, s) ==
    /\ Begin(t, "link")
    /\ Lock(t, InodeKey(i))
    /\ Exists(i) /\ ~IsDir(i)
    /\ req' = [req EXCEPT ![t] = [NoReq EXCEPT !.op = "link", !.src = s, !.ino = i]]
    /\ loc' = [loc EXCEPT ![t].ino = i, ![t].row = inodes[i]]
    /\ Goto(t, "linkEntry")
    /\ UNCHANGED <<rows, memory, crashes>>

LinkEntry(t) ==
    LET s == req[t].src IN
    /\ pc[t] = "linkEntry"
    /\ IF Present(s)
       THEN Free(t, EntryKey(s)) /\ Fail(t)
       ELSE /\ Lock(t, EntryKey(s))
            /\ Goto(t, "linkParent")
            /\ UNCHANGED <<rows, memory, req, loc, crashes>>
    /\ UNCHANGED ops

\* The only creating operation that locks and checks its parent.
LinkParent(t) ==
    LET p == req[t].src[1] IN
    /\ pc[t] = "linkParent"
    /\ IF IsDir(p)
       THEN /\ Lock(t, InodeKey(p))
            /\ Goto(t, "linkCommit")
            /\ UNCHANGED <<rows, memory, req, loc, crashes>>
       ELSE Free(t, InodeKey(p)) /\ Fail(t)
    /\ UNCHANGED ops

\* Mutant of LinkCommit: the link is not counted.
LinkCommitUncounted(t) ==
    LET l == loc[t] IN
    /\ pc[t] = "linkCommit"
    /\ entries' = [entries EXCEPT ![req[t].src] = [ino |-> l.ino, kind |-> l.row.kind]]
    /\ Return(t)
    /\ UNCHANGED <<inodes, located, delta, stored, memory, ops, crashes>>

LinkCommit(t) ==
    LET l == loc[t] IN
    /\ pc[t] = "linkCommit"
    /\ inodes' = [inodes EXCEPT ![l.ino] = [l.row EXCEPT !.nlink = @ + 1]]
    /\ entries' = [entries EXCEPT ![req[t].src] = [ino |-> l.ino, kind |-> l.row.kind]]
    /\ Return(t)
    /\ UNCHANGED <<located, delta, stored, memory, ops, crashes>>

----------------------------------------------------------------------------
(* open, release *)

\* load_inode, then with O_TRUNC a transaction on the row, then the handle count.
Open(t, i) ==
    /\ Begin(t, "open")
    /\ Exists(i) /\ ~IsDir(i)
    /\ req' = [req EXCEPT ![t] = [NoReq EXCEPT !.op = "open", !.ino = i]]
    /\ loc' = [loc EXCEPT ![t].ino = i]
    /\ \E label \in {"openTrunc", "openHandle"} : Goto(t, label)
    /\ UNCHANGED <<rows, memory, held, crashes>>

\* The truncation rewrites the row with a new size, which the model leaves out.
OpenTrunc(t) ==
    /\ pc[t] = "openTrunc"
    /\ Free(t, InodeKey(loc[t].ino))
    /\ IF Exists(loc[t].ino)
       THEN Goto(t, "openHandle") /\ UNCHANGED <<rows, memory, held, req, loc, crashes>>
       ELSE Fail(t)
    /\ UNCHANGED ops

OpenHandle(t) ==
    /\ pc[t] = "openHandle"
    /\ handles' = [handles EXCEPT ![loc[t].ino] = @ + 1]
    /\ Return(t)
    /\ UNCHANGED <<rows, next, history, pending, ops, crashes>>

\* check_and_clear_deferred_delete: one step, both tables are locked.
Release(t, i) ==
    LET purges == handles[i] = 1 /\ i \in pending IN
    /\ Begin(t, "release")
    /\ handles[i] > 0
    /\ handles' = [handles EXCEPT ![i] = @ - 1]
    /\ pending' = IF purges THEN pending \ {i} ELSE pending
    /\ IF purges
       THEN /\ Goto(t, "purge")
            /\ req' = [req EXCEPT ![t] = [NoReq EXCEPT !.op = "release", !.ino = i]]
            /\ loc' = [loc EXCEPT ![t].ino = i]
            /\ UNCHANGED held
       ELSE Return(t)
    /\ UNCHANGED <<rows, next, history, crashes>>

\* The row is deleted unread.
Purge(t) ==
    LET i == loc[t].ino IN
    /\ pc[t] = "purge"
    /\ Free(t, InodeKey(i))
    /\ inodes' = [inodes EXCEPT ![i] = NoRow]
    /\ located' = located \ {i}
    /\ delta' = [delta EXCEPT ![i] = 0]
    /\ Return(t)
    /\ UNCHANGED <<entries, stored, memory, ops, crashes>>

----------------------------------------------------------------------------
(* Lock timeouts and crashes *)

\* The row lock a thread needs for its next step; none in the other states.
Wanted(t) ==
    CASE pc[t] = "renameDst" -> {EntryKey(req[t].dst)}
      [] pc[t] = "linkEntry" -> {EntryKey(req[t].src)}
      [] pc[t] = "linkParent" -> {InodeKey(req[t].src[1])}
      [] pc[t] = "renameInodes" -> {InodeKey(Min(loc[t].todo))}
      [] pc[t] \in {"unlinkInode", "rmdirInode", "openTrunc", "purge"} -> {InodeKey(loc[t].ino)}
      [] OTHER -> {}

WaitsFor(t, u) == t # u /\ Wanted(t) \cap held[u] # {}

\* Mutant of LockTimeout: a transaction waits for a lock without limit.
LockTimeoutNever(t) == FALSE /\ Fail(t) /\ UNCHANGED ops

\* RocksDB gives up on the lock: the transaction is dropped with its locks and
\* the request fails (a purge too: its handle and its pending mark are gone).
LockTimeout(t) ==
    /\ \E u \in Threads : WaitsFor(t, u)
    /\ Fail(t)
    /\ UNCHANGED ops

\* The process stops and MetadataServer::new opens the store again: the
\* allocator goes on from the stored counter, which may lag behind.
Crash ==
    /\ crashes < MaxCrashes
    /\ crashes' = crashes + 1
    /\ next' = IF stored = Absent THEN FIRST_ALLOC_INODE ELSE stored
    /\ handles' = [i \in Inodes |-> 0]
    /\ pending' = {}
    /\ held' = [t \in Threads |-> {}]
    /\ pc' = [t \in Threads |-> "idle"]
    /\ req' = [t \in Threads |-> NoReq]
    /\ loc' = [t \in Threads |-> NoLoc]
    /\ UNCHANGED <<rows, history, ops>>

----------------------------------------------------------------------------

\* A tree built earlier: its counts are in the base rows.
InitialKind(i) ==
    IF i = Root THEN "dir"
    ELSE IF \E s \in DOMAIN Tree0 : Tree0[s].ino = i
         THEN (CHOOSE e \in Range(Tree0) : e.ino = i).kind
         ELSE "none"

\* What is stored when numbers below n were given out one after the other.
InitialStored(n) ==
    LET multiples == {m \in FIRST_ALLOC_INODE + 1..n : m % Interval = 0} IN
    IF multiples = {} THEN Absent ELSE Max(multiples)

Init ==
    /\ entries = [s \in Slots |-> IF s \in DOMAIN Tree0 THEN Tree0[s] ELSE NoEntry]
    /\ born = [i \in Inodes |-> InitialKind(i)]
    /\ inodes = [i \in Inodes |->
            CASE born[i] = "none" -> NoRow
              [] born[i] = "dir"  -> [kind |-> "dir", nlink |-> 2 + Cardinality(Subdirs(i))]
              [] OTHER -> [kind |-> born[i], nlink |-> Cardinality(Refs(i))]]
    /\ located = {i \in Inodes : born[i] = "file"}
    /\ delta = [i \in Inodes |-> 0]
    /\ next = 1 + Max({i \in Inodes : born[i] # "none"})
    /\ stored = InitialStored(next)
    /\ reused = FALSE
    /\ handles = [i \in Inodes |-> 0]
    /\ pending = {}
    /\ held = [t \in Threads |-> {}]
    /\ pc = [t \in Threads |-> "idle"]
    /\ req = [t \in Threads |-> NoReq]
    /\ loc = [t \in Threads |-> NoLoc]
    /\ ops = 0
    /\ crashes = 0

\* A request a client makes.
Request(t) ==
    \/ \E s \in KnownSlots :
          \/ Create(t, s) \/ CreateAndOpen(t, s) \/ Mkdir(t, s) \/ Symlink(t, s)
          \/ UnlinkEntry(t, s)
          \/ RmdirEntry(t, s)
          \/ \E d \in KnownSlots : RenameSrc(t, s, d)
          \/ \E i \in KnownFiles : LinkTarget(t, i, s)
    \/ \E i \in KnownFiles : Open(t, i) \/ Release(t, i)

\* A step of the handler that serves it.
Step(t) ==
    \/ Insert(t) \/ LoadCounter(t) \/ PutCounter(t) \/ PutFails(t)
    \/ UnlinkInode(t) \/ UnlinkCommit(t) \/ Defer(t)
    \/ RmdirInode(t) \/ RmdirCommit(t) \/ ClearDeltas(t)
    \/ RenameDst(t) \/ RenameInode(t) \/ RenameCheck(t) \/ RenameCommit(t)
    \/ LinkEntry(t) \/ LinkParent(t) \/ LinkCommit(t)
    \/ OpenTrunc(t) \/ OpenHandle(t) \/ Purge(t)
    \/ LockTimeout(t)

Next == Crash \/ \E t \in Threads : Request(t) \/ Step(t)

Spec == Init /\ [][Next]_vars

\* A handler runs on, and a lock it waits for is granted or times out.
FairSpec == Spec /\ \A t \in Threads : WF_vars(Step(t))

----------------------------------------------------------------------------
(* fsck: what fsck.rs reports of the stored rows.  It reads no delta and no  *)
(* table in memory.                                                          *)

FsckDirs == {i \in Inodes : IsDir(i)}

\* Mutant of FsckRefs: entries of directories without a row count too.
FsckRefsAll(i) == Cardinality(Refs(i))

\* Phases 1 and 2: the names an inode has in directories that have a row.
FsckRefs(i) == Cardinality({s \in Refs(i) : s[1] \in FsckDirs})

\* Phase 3: OrphanInode.
FsckOrphans == {i \in Inodes \ {Root} : Exists(i) /\ FsckRefs(i) = 0}

\* Phase 4: NlinkMismatch; directories are skipped.
FsckNlink == {i \in Inodes : Exists(i) /\ ~IsDir(i) /\ inodes[i].nlink # FsckRefs(i)}

\* Phase 5: CounterInconsistency, when a counter is stored.
FsckCounter == stored # Absent /\ \E i \in Inodes : Exists(i) /\ stored <= i

\* The report: issues of inodes, and the counter.
FsckTree == {<<"OrphanInode", i>> : i \in FsckOrphans}
            \cup {<<"NlinkMismatch", i>> : i \in FsckNlink}
FsckIssues == FsckTree \cup (IF FsckCounter THEN {<<"CounterInconsistency", stored>>} ELSE {})

----------------------------------------------------------------------------
(* Properties *)

Labels == {"idle", "insert", "persist", "put", "unlinkInode", "unlinkCommit", "defer", "rmdirInode",
           "rmdirCommit", "clearDeltas", "renameDst", "renameInodes", "renameCheck",
           "renameCommit", "linkEntry", "linkParent", "linkCommit", "openTrunc",
           "openHandle", "purge"}

\* Every row, table and local variable has its type; a lock has one owner.
TypeOK ==
    /\ inodes \in [Inodes -> [kind : Kinds, nlink : Nat] \cup {NoRow}]
    /\ located \subseteq Inodes
    /\ entries \in [Slots -> Entry \cup {NoEntry}]
    /\ delta \in [Inodes -> Int]
    /\ stored \in 0..MaxInode + 1
    /\ next \in FIRST_ALLOC_INODE..MaxInode + 1
    /\ reused \in BOOLEAN
    /\ born \in [Inodes -> Kinds \cup {"none"}]
    /\ handles \in [Inodes -> Nat]
    /\ pending \subseteq Inodes
    /\ \A t \in Threads :
          /\ pc[t] \in Labels
          /\ pc[t] = "idle" => held[t] = {} /\ loc[t] = NoLoc
          /\ \A u \in Threads \ {t} : held[t] \cap held[u] = {}
    /\ ops \in 0..MaxOps
    /\ crashes \in 0..MaxCrashes

\* No name outlives what it names: whatever creations, removals, links and
\* renames run at once, and wherever they fail, a committed directory entry
\* leads to an inode row of its kind, and a file's row to a data location.
EntriesLive ==
    \A s \in Slots : Present(s) =>
        /\ inodes[entries[s].ino].kind = entries[s].kind
        /\ entries[s].kind = "file" => entries[s].ino \in located

\* A file never has more names than its link count, so that unlink and rename
\* (nlink reaching 0) cannot delete a file another name still leads to.
NlinkCovers ==
    \A i \in Inodes : Exists(i) /\ ~IsDir(i) => inodes[i].nlink >= Cardinality(Refs(i))

\* The link count of a file is the number of its names.
NlinksAgree ==
    \A i \in Inodes : Exists(i) /\ ~IsDir(i) => inodes[i].nlink = Cardinality(Refs(i))

\* design.md, "nlink": the number of directory entries pointing to an inode.
\* After any mix of concurrent creations, links and removals, lock timeouts and
\* a crash, a file's count is exact, as long as the allocator did not give a
\* number to a second inode after the crash.
FileNlinkExact == ~reused => NlinksAgree

\* The link count a directory's base row and deltas add up to is 2 plus its
\* subdirectories, after any mix of concurrent mkdir, rmdir and rename.
DirNlink ==
    \A i \in Inodes : IsDir(i) /\ (i = Root \/ Refs(i) # {}) =>
        inodes[i].nlink + delta[i] = 2 + Cardinality(Subdirs(i))

\* Two renames, or a rename and a rmdir, of one directory never leave it with
\* two names.
DirsSingleParent ==
    \A i \in Inodes : born[i] = "dir" => Cardinality(Refs(i)) <= 1

\* What fsck reports as OrphanInode: a row without a name.  A file that was
\* unlinked while open is exempt.  Creation and removal commit the row with the
\* entry, so a crash or a failed maybe_persist leaves no row behind, as long as
\* no number was given out twice.
NoOrphanRows ==
    ~reused => \A i \in Inodes \ {Root} :
        Exists(i) /\ Refs(i) = {} => ~IsDir(i) /\ inodes[i].nlink = 0

\* A directory that still contains children is not deleted, and nothing is
\* created in a deleted one (rmdir, rename and the creating operations).
NoOrphanEntries ==
    \A s \in Slots : Present(s) => Exists(s[1])

\* An open file keeps its inode row until the last release.
HandlesKeepRow ==
    \A i \in Inodes : handles[i] > 0 => Exists(i)

AtRest == \A t \in Threads : pc[t] = "idle"

\* When no request is being served, the file rows with no link left are exactly
\* the deferred deletes, and each of them still has the handle whose release
\* will delete it.
DeferredDeleted ==
    AtRest => \A i \in Inodes :
        LET unlinked == Exists(i) /\ ~IsDir(i) /\ inodes[i].nlink = 0 IN
        /\ unlinked <=> i \in pending
        /\ i \in pending => handles[i] > 0

\* A set of inodes no path from the root leads into.
CutOff(U) ==
    /\ Root \notin U
    /\ \A s \in Slots : entries[s].ino \in U /\ IsDir(s[1]) => s[1] \in U

Lost(i) == Exists(i) /\ \E U \in SUBSET Inodes : i \in U /\ CutOff(U)

\* The phases of fsck that look at the tree are exact: once requests are over,
\* it reports an OrphanInode or a NlinkMismatch if and only if some inode cannot
\* be reached from the root or some entry lies in a directory that was removed,
\* and it accuses no inode that is reached and has all its names in existing
\* directories.  Numbers given out twice are exempt, and so is the check of the
\* counter (FsckHealthy).
FsckExact ==
    AtRest /\ ~reused =>
        /\ FsckTree = {} <=> /\ \A i \in Inodes : ~Lost(i)
                            /\ \A s \in Slots : Present(s) => Exists(s[1])
        /\ \A issue \in FsckTree :
              Lost(issue[2]) \/ \E s \in Refs(issue[2]) : ~Exists(s[1])

\* fsck_test.rs: a store that nothing damaged has a clean report.  The code does
\* not keep this: the stored counter lags behind the rows (FsckCounter).
FsckHealthy ==
    AtRest /\ (\A i \in Inodes : ~Lost(i)) /\ (\A s \in Slots : Present(s) => Exists(s[1]))
        => FsckIssues = {}

\* The entries and inodes a transaction that is about to commit has in its
\* batch.  Data locations go with their inode; delta rows are in RocksStore.
Written(t) ==
    CASE pc[t] \in {"insert", "unlinkCommit", "rmdirCommit", "linkCommit"} ->
            {EntryKey(req[t].src), InodeKey(loc[t].ino)}
      [] pc[t] = "renameCommit" ->
            {EntryKey(req[t].src), EntryKey(req[t].dst), InodeKey(loc[t].ino)}
            \cup (IF loc[t].dst.kind \in {"file", "symlink"} THEN {InodeKey(loc[t].dst.ino)} ELSE {})
      [] pc[t] = "purge" -> {InodeKey(loc[t].ino)}
      [] OTHER -> {}

\* The push of an entry or an inode never waits for a row lock, which it could
\* only answer with a panic: what a handler writes it has locked while reading,
\* or nobody else can hold.  It says nothing of delta rows, whose locks a
\* removed directory's counter may give out again (ClearedFresh of RocksStore),
\* nor of the purge of a release.
PushesUnblocked ==
    \A t \in Threads : \A u \in Threads \ {t} : Written(t) \cap held[u] = {}

\* No set of transactions waits for each other's row locks.
NoLockCycle ==
    \A S \in SUBSET Threads \ {{}} : \E t \in S : \A u \in S : ~WaitsFor(t, u)

\* Every request is answered, also when transactions wait for each other in a
\* circle: the lock timeout of one of them lets the others go on.
RequestsReturn ==
    \A t \in Threads : pc[t] # "idle" ~> pc[t] = "idle"

=============================================================================
