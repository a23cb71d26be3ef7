# A TLA+ model of RucksFS

RucksFS is a POSIX file system with metadata and data kept apart. A metadata
server keeps inodes and directory entries in RocksDB. A data server keeps file
contents in one backing file. A client library, `VfsCore`, coordinates the two,
and a FUSE front end or a gRPC layer sits around them. This directory models the
parts of the system that have state and concurrency, checks them with TLC, and
proves some of what is checked with TLAPS.

Paths below are relative to the repository's root.

## The system

| Part | Code | State | Operations that change it |
|---|---|---|---|
| Metadata server | `server/src/lib.rs` | `open_handles`, `pending_deletes`; rows in the store | create, create_and_open, mkdir, symlink, unlink, rmdir, rename, link, setattr, open, report_write, release |
| Delta compaction | `server/src/compaction.rs`, `server/src/delta.rs` | dirty set, wake-up flag, running flag | mark_dirty, compact_dirty, flush_all, run_loop, stop |
| Folded cache | `server/src/cache.rs` | LRU of folded inodes | get, put, apply_deltas, invalidate |
| Storage | `storage/src/rocks.rs` | column families, row locks, delta sequence numbers | get_for_update, push, commit, clear_deltas, recover_seqs |
| Inode allocator | `storage/src/allocator.rs` | counter in memory and in the store | alloc, maybe_persist, load |
| Data store | `storage/src/rawdisk.rs`, `dataserver/src/lib.rs` | the backing file | write_at, truncate, flush; delete does nothing |
| VFS core | `client/src/vfs_core.rs` | `written_inodes`, `handle_map` | write, setattr, open, flush, fsync, release |
| FUSE front end | `client/src/fuse.rs` | spawned release tasks, directory offsets | every handler; fallocate and release do more than pass on |
| gRPC services and stubs | `rpc/src` | requests and replies under way | every call of the two servers, with two conversions of errors |
| TLS, tokens | `rpc/src` | none | configuration |
| fsck | `server/src/fsck.rs` | none | a scan in five phases |
| Binaries | `demo/src` | none | wiring, demo, benchmark |

They interact as follows. Every namespace operation is one pessimistic
transaction of the store. It locks rows as it reads them. Changes of a parent
directory are not written to its row: they are appended as *deltas* (link count
plus or minus one, new timestamps), which readers fold on the fly and a worker
folds into the row later. The folded value is cached. A file's bytes go to the
data server and its size to the metadata server, by two calls of the client.

What is hard here:

* scans and cache fills run outside transactions, so they interleave with commits;
* sequence numbers, open handles, deferred deletes and the allocator's counter
  live in memory and are lost, or lag, in a crash;
* row locks are taken in different orders, with deadlock detection switched off
  and a timeout of five seconds;
* the client performs truncation, size reports and flushes after the fact, with
  nothing held;
* the dirty set and the wake-up flag of the worker have a mutex each;
* a request may be executed although its reply is lost, or after its caller has
  given up.

`PROJECT.json` lists these hazards one by one, at the line where each bites.

## Modules

| Module | Models | Role |
|---|---|---|
| `LinkCount` | what a directory's link count promises: one step per operation | abstract specification |
| `DeltaCompaction` | deltas, worker, cache, setattr and crashes for one directory | refines `LinkCount` |
| `DeltaRows_proofs`, `DeltaHandlers_proofs`, `DeltaCompaction_proofs` | | proofs for any constants: the invariant and its lemmas, the handlers, the worker and the theorems |
| `MetadataServer` | all namespace operations, row locks, handles, deferred deletes | one action per lock, commit or table access |
| `CompactionLoop` | dirty set, wake-up flag, run_loop, flush_all and stop, for several directories | the life of the worker |
| `CompactionLoop_proofs`, `CompactionFold_proofs` | | proofs for any constants: types and wake-ups; folding and tracking |
| `InodeAllocator`, `InodeAllocator_proofs` | allocation, persistence, restart | with proofs |
| `AtomicFile` | what callers may expect of one file: a set of outcomes | abstract definition |
| `VfsData`, `VfsData_proofs` | write, setattr, fallocate, open, flush, fsync, release over the data store | `Linearizable` is stated with `AtomicFile` |
| `AtomicMap` | what the store promises: a map with atomic batches | abstract specification |
| `Encoding` | keys and entry values as byte strings, their decoding and order | operators |
| `RocksStore` | column families, batches, locks, scans, sequence numbers, restart, with `InodeAllocator` as a part | refines `AtomicMap` |
| `FsErrors` | `FsError`, its three conversions | operators |
| `MetadataOps` | each method of the metadata server with its reply, in one step or two | operators on the server's state |
| `Rpc` | requests, services and stubs of both servers | operators, over `MetadataOps` |
| `RemoteMount` | FUSE handlers over `VfsCore` over `Rpc`, with failures | composition of client and servers |
| `MC...` | the instances for TLC: starting trees, symmetry | |

### DeltaCompaction

State: `base` (the inode row), `deltas` (the pending rows), `nextSeq` (the
in-memory sequence counter), the folded `cache` entry, the `dirty` set, the row
lock, the request threads' program counters and the worker's. A request goes
`BeginTxn`, one `PushDelta` per appended delta, `Commit` or `CommitConflict`,
`PatchCache`, `MarkDirty`. After its commit it may take `PersistFails` instead,
when the allocator's counter cannot be stored: the deltas are committed, the
cache is not patched and the directory is not marked. A
rename of the directory writes its row and its cache entry as setattr does
(`server/src/lib.rs:1122`). A load goes `LoadMiss`, `LoadBase`, `LoadScan`,
`LoadPut`: these are separate steps because nothing is locked between them.
Compaction goes `Drain`, `Count`, `Scan`, `LockBase`, `CommitFold`, `Invalidate`.
`Crash` drops everything in memory and recovers the sequence counter from the
rows. Timestamps are left out: they fold by maximum and no property depends on
them. The base row carries, as a history, how often each committed delta was
folded into it; `ExactlyOnce` speaks about that history.

### CompactionLoop

The worker's control, with one action per mutex that is taken. `Mark` inserts
into the dirty set and `Raise` sets the flag, since `mark_dirty` lets go of one
mutex before it takes the other. The loop goes `Start`, `Test`, `Wait`, `Wake`
or `Timeout`, `Check`, `Drain`, then `Pick`, `Count`, `Scan`, `FoldIn` for each
directory; `NoRow` and `FoldFails` are the two ways not to compact, after which
`Remark` and `RaiseSelf` mark the directory again. `FlushAll` is the same
without a threshold and without marking again. `Stop` and `StopRaise` are the
two halves of `stop`. Directories are removed with `Remove`, and `Clear` and
`Reset` are what `clear_deltas` then does: it deletes the rows and sets the
sequence counter back, while handlers may hold numbers of the directory or begin
to work in it, since nobody checks the parent. Two kinds of rows have nobody who
marks them: those of a handler that fails between its commit and `mark_dirty`
(`PersistFails`), and those an earlier run left (`Left`). The history `silent`
has them. Rows, locks and the cache of one directory are left to
`DeltaCompaction`: here a delta is its sequence number, and a compaction is a
scan and a later fold.

### MetadataServer

State: inode rows (kind and nlink), directory entries, the sum of each inode's
pending link deltas, data-location rows, the handle and deferred-delete tables,
the row locks held by each thread. An operation is a chain of actions, one for
each lock, the commit, and each later access to a table in memory, in the order
of the code: for instance `UnlinkEntry`, `UnlinkInode`, `UnlinkCommit`, `Defer`.
A thread that waits for a lock either gets it or takes `LockTimeout`. That
deltas can be kept as their sum is what `DeltaCompaction` shows. After its
commit a creating handler reads the inode counter and stores it if it is a
multiple of the interval (`LoadCounter`, `PutCounter`, `PutFails`). A crash
continues with the stored counter, so numbers may be given out again and rows
overwritten: the history `reused` says so. The properties about link counts and
fsck are about behaviours where that did not happen; `NumberReused` below shows
the others.

The phases of `fsck.rs` are operators on the same state: `FsckRefs` counts
names as phases 1 and 2 do, `FsckOrphans` and `FsckNlink` are phases 3 and 4,
and `FsckCounter` is phase 5. `FsckExact` is about the first four; the fifth
reports healthy stores (`CounterLags` below). `PushesUnblocked` is about `push`,
which panics when it has to wait for a row lock. It covers the rows of entries
and inodes. For delta rows it is the sequence numbers that keep transactions
apart, and they are the subject of `RocksStore`.

### InodeAllocator

`Alloc` is the atomic increment, `Commit` the transaction that uses the number,
`LoadCounter` and `Put` the two halves of `maybe_persist`, `Restart` a new
process that loads the stored counter.

### VfsData

State: sizes (and the sizes in the synced part of RocksDB's log), the backing
file and what of it is synced, `written_inodes`, open files, spawned release
tasks. Blocks stand for 4 KiB chunks; a block holds the identity of the write it
came from. `WriteData`, `Report`, `Mark` are the three steps of a write.
`Setattr` commits the size and `ZeroChunk` then zeroes the region chunk by
chunk. The constant `Alone` names operations that callers do not overlap with
others on the same file. It is an assumption about callers and not something
this code enforces. The kernel keeps truncate and fallocate of one mount apart
from other modifications of a file; nothing does so for flush, for callers of
the library, or for two mounts. `VfsTruncateRace`, `VfsFallocateRace` and
`VfsFlushRace` below show what fails without it.
`Linearizable` compares the contents left when all operations have returned with
those that some legal order leaves. Reads are not operations of the model, so
what a read sees in the middle of a write is not checked.

### RocksStore

A column family is a function from byte strings to byte strings. A batch is
opened, takes a row lock with each key it reads or pushes (`Free`), and commits
all its writes in one step; a creating batch takes its inode number from
`InodeAllocator`, whose actions are steps of this module too, and the counter is
a row of the inodes family. `seqs` is the sequence counter of each inode, which
a restart empties and recovers by a scan. `clear_deltas` is a scan, a batch and
the reset of the counter, three steps that follow a commit which deleted an
inode or replaced an entry, and that wait for no other transaction; `AtomicMap`
says of it that some delta rows of one inode go. The history `cleared` has the
inodes it was called for, and `SeqsFresh` is about the others. Keys are encoded as in the code: a prefix
byte, a big-endian number of fixed width, a name or a second number, with bytes
of base 2 and numbers of three bytes, so that numbers, prefixes and names look
alike as often as possible. `MapOf` decodes the families to a map from logical
keys, and that is the refinement mapping to `AtomicMap`. Callers push any
operation in any order. That is more than the metadata server does.

### RemoteMount

A call of the application is a task: the FUSE handler (`FuseOpen`, `FuseWrite`,
...) checks what it checks and sends its first request; `Serve` and `ServeBytes`
are the server's side; the `Vfs...` actions receive a reply and send the next
request (the deletion of purged inodes, a truncate, a size report) or finish; `Return` gives the
errno to the application. `FuseRelease` spawns a task of its own, as the code
does. Failures: `Lose` breaks the connection before or after the request was
served, and a request that was not served, or only in part, may be served late
(`ServeLate`, `ServeLateRest`, `ServeLateBytes`);
`Conflict` is a transaction that gives up; `PersistFails` is a failing
`maybe_persist` after the commit. Errors pass through `MetadataStatus`,
`MetadataError` and `Errno`, as they do on the way to the application.

The metadata server serves most requests in one step here. `open`,
`create_and_open`, `unlink` and `release` change a table in memory apart from
their transaction, and take a second step (`ServeRest`) with other requests in
between. What happens inside a transaction is the subject of `MetadataServer`.
The data server refuses a truncate to its limit or beyond. The kernel is external and is assumed to do what it does: it looks
names up before it changes them, holds the locks of the directories and files a
call changes until the call returns, moves no directory into itself, and
releases a descriptor after the last call on it. `readdirplus` is modelled with
its offsets: `stream` has the names read so far and, as a history, the names the
directory has had all the time and at some time.

## Runs

| Run | Checks | Shows |
|---|---|---|
| `DeltaCompaction` | `TypeOK`, `NlinkExact`, `ExactlyOnce`, `LedgerInv`, `ImplementsCounter` | deltas are neither lost nor folded twice, with two threads, the worker, flush_all and a crash |
| `CompactionLoop` | `NoLostWakeup`, `PendingTracked`, `FoldedOnce` | no wake-up is lost, no marked directory is forgotten, each delta is folded once |
| `LoopLiveness` | `CatchesUp`, `StopEnds` | the worker catches up without its timeout, and stop ends it |
| `NamespaceRaces` | `TypeOK`, `EntriesLive`, `NlinkCovers`, `DirsSingleParent`, `DirNlink`, `PushesUnblocked` | the tree stays sound under two concurrent handlers, and no push of an entry or an inode has to wait |
| `LinkCounts` | `FileNlinkExact`, `NoOrphanRows`, `FsckExact`, `RequestsReturn` | without rename, and as long as no inode number is reused, link counts are exact and fsck accuses what is lost and nothing else; no request hangs |
| `OpenFiles` | `HandlesKeepRow`, `DeferredDeleted` | deferred deletion works for one handler at a time |
| `RocksStore` | `StoreTypeOK`, `UniqueInRun`, `ScansExact`, `SeqsFresh`, `ImplementsMap` | byte strings in shared families are a map with atomic batches; scans are exact; inode numbers, and the sequence numbers of an inode that was not cleared, are given out once in a run |
| `VfsData` | `TailZero`, `Linearizable`, `FlushDurable` | file operations are atomic and durable answers are true, where callers serialise resizing and flushing |
| `VfsFaults` | `TypeOK`, `Isolated` | files never share data, under every overlap and fault |
| `RemoteMount` | `TypeOK`, `DefiniteOutcome`, `HandlesCovered`, `Kept`, `Settled`, `ListingExact` | what an errno says is true, handle counts never run low, the data of a file that has a row is not deleted, mount and servers agree after calls without failures, a directory is listed exactly |
| `RmdirCreateRace` | `NoOrphanEntries`, violated | a create succeeds in a directory that is being removed |
| `AllocatorReuse` | `NeverReused`, violated | a restart gives out inode numbers a second time |

Each violated property states what a comment, a test or the design document says
of the program; `findings` in `PROJECT.json` quotes the line.

### More counterexamples

In each of the following TLC reports the property violated. They mark how far
the properties of the runs reach: a property above holds with the operations its
configuration allows, and these show what breaks it. Where the second column is
"own", the configuration is a file of that name, to be run as
`tlc -config <name>.cfg <module>` with the `MC` module of the model. The
others change a configuration that is here: the property is replaced, and the
constants as said.

Compaction and cache:

| Name | Configuration | Property | Cause |
|---|---|---|---|
| `CacheStale` | own | `CacheCoherent` | the allocator's counter cannot be stored: mkdir returns before it patches the cached parent (`server/src/lib.rs:742`) |
| `CacheLoadRace` | own | `CacheCoherent` | a load fills the cache after a commit it did not see (`server/src/lib.rs:244`) |
| `CacheSetattr` | `CacheStale`, `Failing = FALSE`, `Requests = {"mkdir", "setattr"}` | `CacheCoherent` | setattr caches a directory without its pending deltas (`server/src/lib.rs:563`; line 213 calls the cached value "effective") |
| `CacheCompactionRace` | `CacheStale`, `Failing = FALSE`, `Requests = {"mkdir", "load"}`, `Compacting = TRUE` | `CacheCoherent` | a load straddles a compaction (`server/src/compaction.rs:199`) |
| `LoopSpins` | own | `LoopSleeps` | a directory below the threshold is marked again in every round, and the loop never sleeps (`server/src/compaction.rs:221`; line 50 speaks of "avoiding unnecessary polling") |
| `LoopRemoved` | own | `DirtyExists` | so is a directory that was removed (`server/src/compaction.rs:225`) |
| `LoopTwoFolds` | own | `FoldedOnce` | flush_all beside run_loop: two scans fold the same deltas (`server/src/compaction.rs:158`) |
| `LoopFlushDrops` | own | `FlushTracked` | flush_all drops a directory whose compaction fails (`server/src/compaction.rs:247`) |
| `LoopEarlyStop` | own | `StopEnds` | run_loop sets `running` and overwrites a stop that came first (`server/src/compaction.rs:261`) |

With `Failing = FALSE` and no other change `CacheStale` passes: one handler at a
time, without setattr and without compaction, keeps the cache up to date.

Metadata server:

| Name | Configuration | Property | Cause |
|---|---|---|---|
| `OpenUnlinkRace` | own | `HandlesKeepRow` | the handle is counted after the inode was loaded (`server/src/lib.rs:1183`) |
| `UnlinkReleaseRace` | own | `DeferredDeleted` | a release comes between unlink's commit and its deferred-delete mark (`server/src/lib.rs:857`) |
| `CrashDeferred` | own | `DeferredDeleted` | the marks are lost in a crash |
| `LinkDeferred` | own | `EntriesLive` | a link to an unlinked open file does not cancel its deletion (`server/src/lib.rs:1395`) |
| `RenameLockCycle` | own | `NoLockCycle` | two opposite renames wait for each other (`storage/src/rocks.rs:690` says lock order prevents it) |
| `PurgeBlocked` | own | `PushesUnblocked` | the purge of a release pushes a row that a link or an unlink has locked (`storage/src/rocks.rs:578`) |
| `FsckCycle` | own | `FsckExact` | a directory is moved below itself: both are cut off, and fsck finds nothing (`server/src/lib.rs:1049`; the kernel checks this, other callers need not) |
| `RenameOverDir` | `FsckCycle`, `Tree0 <- TwoDirs` | `NoOrphanRows` | rename onto an empty directory keeps the replaced row (`server/src/lib.rs:1042`; `docs/design.md:1975` says it is deleted) |
| `RenameSameFile` | `FsckCycle`, `Tree0 <- OneFile`, `Requests = {"link", "rename"}`, `MaxOps = 2` | `FileNlinkExact` | rename onto another link of the same file loses a decrement (`server/src/lib.rs:1059`) |
| `RenameSelf` | `FsckCycle`, `Tree0 <- DirAndFile`, `Requests = {"rename_self"}` | `DirNlink` | rename of a directory onto itself takes a link from the parent (`server/src/lib.rs:1062`) |
| `RenameOverOpen` | `FsckCycle`, `Tree0 <- DirAndFile`, `Requests = {"create", "open", "rename"}`, `MaxOps = 3` | `HandlesKeepRow` | rename deletes an open target at once (`server/src/lib.rs:1042`) |
| `NumberReused` | `LinkCounts` | `NlinksAgree` | after a crash a number is given out again: two names, one row with one link (`server/src/lib.rs:118`) |
| `CounterLags` | `LinkCounts`, `Interval = 5` | `FsckHealthy` | the stored counter lags behind the rows, and fsck reports it in a store that nothing damaged (`server/src/fsck.rs:157`) |

Store and allocator:

| Name | Configuration | Property | Cause |
|---|---|---|---|
| `StoreClearRace` | `RocksStore` | `ClearedFresh` | a create still holds a sequence number of a directory whose counter is reset (`storage/src/rocks.rs:504`) |
| `StoreInherited` | `RocksStore` | `NothingInherited` | after a restart a directory gets a number whose delta rows are still there (`server/src/lib.rs:911`) |
| `AllocatorRegress` | `AllocatorReuse`, `Threads = {t1, t2}`, `t2 = t2`, `Interval = 2`, `MaxInode = 7` | `CounterForward` | two stores of the counter are swapped (`docs/design.md:742`) |
| `AllocatorFsck` | `AllocatorReuse` | `CounterClean` | the stored counter lags, so fsck reports a healthy store (`server/src/fsck.rs:157`) |

Data path:

| Name | Configuration | Property | Cause |
|---|---|---|---|
| `VfsOpenTrunc` | own | `TailZero` | O_TRUNC leaves the old data behind the size (`server/src/lib.rs:1172`) |
| `VfsTruncateRace` | own | `Linearizable` | a late zero-fill wipes out a later write (`client/src/vfs_core.rs:167`) |
| `VfsFallocateRace` | `VfsTruncateRace`, `Calls = {"write", "fallocate"}` | `Linearizable` | fallocate acts on a stale size and shrinks the file (`client/src/fuse.rs:491`) |
| `VfsFlushRace` | `VfsTruncateRace`, `Calls = {"write", "flush"}` | `FlushDurable` | flush drops the mark before it syncs (`client/src/vfs_core.rs:204`) |
| `VfsFlushRetry` | `VfsTruncateRace`, `Calls = {"write", "flush"}`, `Threads = {t1}`, `Faults = {"sync"}` | `FlushDurable` | a failed flush is forgotten (`client/src/vfs_core.rs:204`) |
| `VfsLateRelease` | `VfsTruncateRace`, `Calls = {"write", "open", "flush", "release"}`, `Threads = {t1}` | `FlushDurable` | a late release drops the mark of a later write (`client/src/vfs_core.rs:249`) |
| `VfsStaleTail` | `VfsTruncateRace`, `Threads = {t1}`, `Faults = {"report"}` | `Linearizable` | data of a failed write shows up in a later extension (`docs/design.md:2360` calls it harmless) |
| `VfsShortWrite` | `VfsTruncateRace`, `Calls = {"write"}`, `Threads = {t1}`, `Faults = {"short"}` | `Linearizable` | a short pwrite is reported as complete (`storage/src/rawdisk.rs:106`) |
| `VfsTruncateLimit` | `VfsTruncateRace`, `Calls = {"setattr"}`, `Threads = {t1}`, `SizeBound = 3` | `TruncateAccepted` | truncate to exactly the region size fails after the size is committed (`storage/src/rawdisk.rs:118`) |
| `VfsFsyncSize` | `VfsTruncateRace`, `Calls = {"write", "fsync"}`, `Threads = {t1}` | `FsyncSize` | commits are not synced (`storage/src/rocks.rs:694`; `docs/design.md:2129` says the log is durable) |

Mount over gRPC:

| Name | Configuration | Property | Cause |
|---|---|---|---|
| `MountLateTruncate` | `RemoteMount` | `BytesKept` | a truncate whose caller has given up is served after a later write (`client/src/vfs_core.rs:167`) |
| `MountOpenKept` | `RemoteMount` | `OpenKept` | rename deletes an open target, and open counts its handle late (`server/src/lib.rs:1042`, `server/src/lib.rs:1183`) |
| `MountRowLeft` | `RemoteMount` | `NoRowLeft` | a release comes between unlink's commit and its mark (`server/src/lib.rs:857`) |
| `MountLostOpen` | `RemoteMount` | `NoHandleLeft` | the reply to an open is lost, and nobody releases the handle (`server/src/lib.rs:1183`) |
| `MountListing` | `RemoteMount` | `ListingComplete` | readdirplus skips by index in a list made anew: a removal makes it miss a name (`client/src/fuse.rs:400`) |
| `MountMapped` | `RemoteMount` | `Mapped` | release of one descriptor takes the mapping from the others; without effect with one data server (`client/src/vfs_core.rs:247`) |
| `MountErrno` | `RemoteMount` | `ErrnoKept` | ENOTDIR and EISDIR become EINVAL over gRPC (`rpc/src/metadata_server.rs:30`) |

### Bounds

* Two handler threads. Every race listed above needs no more than two.
* Three or four operations, five or six where there is one thread. The
  counterexamples above are found with at most four, most of them with two or
  three. `VfsFaults` allows two, since all calls, all faults and two files are
  in play at once; what it checks, `Isolated`, is also proved without bounds.
* In `DeltaCompaction`, one directory with a threshold of two deltas: compaction
  happens while further deltas arrive. One crash, one restart.
* In `CompactionLoop`, two directories, one of which can be removed, a threshold
  of two and two deltas each: directories below and at the threshold. A row of an
  earlier run in one directory, or in both for liveness; two failures, or one for
  liveness; one stop. The safety properties are also proved without bounds.
* `MaxInode` leaves room for every create. `Names` has two names. `Nested`
  starts with a directory in a directory and a file with two links, so that
  replacement, non-empty directories and shared rows occur at once.
* A region of two blocks with sizes up to three: writes that end before, at and
  beyond the limit, and a zero-fill of several chunks.
* The persist interval is 2 to 4 instead of 64: boundaries are crossed, and a
  crash finds the stored counter behind and not behind.
* In `RocksStore`, bytes of base 2 and numbers of three bytes; two names, one a
  prefix of the other; three pushes and one restart. `Mixes` splits the kinds of
  keys: a behaviour writes either trees or delta logs, each beside inode rows.
  Trees and delta logs are in different families.
* In `RemoteMount`, two application threads, two release tasks, three calls that
  change something and one failure. `Mixes` splits the calls into four groups
  that are used together; `Overlap` names the calls that are made while another
  is under way, the others run alone. `PageSize = 1` makes every listing take
  several requests. The data store's limit is two blocks and sizes go to three:
  a truncate below, at and beyond the limit.
* Threads are interchangeable, so runs of safety properties use symmetry; runs
  of liveness properties do not.
* Operations are bounded in number, so the models stop when they are used up.
  For that reason deadlock is not checked; `RequestsReturn` says that no request
  is left hanging.

### Fairness

`LoopLiveness` assumes weak fairness of a handler that has begun, of the
thread in `run_loop`, and of a `stop` that has begun: all are threads of the
operating system and their steps are not disabled again by others. Nothing is
assumed of the timeout of the wait. `CatchesUp` therefore says that the wake-up
alone suffices. Failed compactions are bounded in number: one that is refused in
every round never ends. The loop must be running, and no binary of the
repository starts it.

`LinkCounts` assumes that a handler which can take its next step does. Getting a
lock is one of those steps, and so is giving up on it, since a lock wait ends
after five seconds.

## Proofs

`DeltaCompaction_proofs` proves `ExactlyOnce` and `LedgerInv` for every number
of threads, operations, crashes and every threshold. `ExactlyOnce` alone is not
inductive. The inductive invariant is the conjunction of three parts:

* `RowTypes`, the types of the rows, the transactions and the worker's locals;
* `LedgerInv`: sequence numbers in use lie below the counter, those of
  uncommitted and of pending deltas are distinct, whoever writes the base row
  holds its lock and has the stored value in hand, and the rows the worker has
  scanned are still pending;
* `ExactlyOnce` itself.

The lock is needed where the worker commits: between its read of the base and
its commit nobody has changed the row. The distinct sequence numbers are needed
where it deletes: deleting by key removes the folded rows and no other. The
recovery of the counter is needed after a crash. The proof has one lemma for
each group of actions, and `InvNext` puts them together. `LedgerStep` states
what a step that leaves the requests alone must show, and most steps of the
worker cite it; `LocalStep` does the same for steps of a request that write no
row. The lemmas are in three modules: `DeltaRows_proofs` has the
invariant and the steps that write no row, `DeltaHandlers_proofs` the steps of
requests that write rows, `DeltaCompaction_proofs` the worker, crashes and the
theorems.

`InodeAllocator_proofs` proves `UniqueInRun` and `TypeOK` for any threads,
interval and number of restarts. The inductive invariant adds to them that the
numbers committed in this run and those about to be committed lie below the
counter, and that what is stored or about to be stored is at least 2.

`VfsData_proofs` proves `Isolated` for any files, region size, callers and
faults. It is inductive by itself. The work is in the arithmetic: what fits of a
write ends inside the region (`FitsInside`), and two regions have no block in
common (`RegionsDisjoint`), from which `ReadsOwnAlways` follows: a read returns
what was written to this file.

`CompactionLoop_proofs` proves the types and `NoLostWakeup` for any handlers,
directories, threshold, and any other callers of flush_all. `NoLostWakeup` is
not inductive: it speaks of the loop before and in its wait, and what it says
there depends on what the loop did before. `WakeInv` says the same of every
state but those between the clearing of the flag and the taking of the set. The
types need `NumbersInv`: in a directory that exists, sequence numbers that are
given out and not committed are new and distinct. It says nothing of a removed
directory, whose counter `clear_deltas` resets while handlers hold its numbers.

`CompactionFold_proofs` proves `FoldedOnce` and `PendingTracked` under the
assumption `Flushers = {}`, one compacting thread; `LoopTwoFolds` shows that
`FoldedOnce` is false without it. `FoldInv` adds that numbers not given out are
not folded, and that what the worker has scanned is still there when it folds.
`PendingTracked` exempts rows that nobody will mark, so its inductive form goes
row by row: `PendingInv` says that of a directory nobody has, every row is
exempt or has a handler that will mark it, and `TrackInv` that the rows which
arrived after the scan are, too, so that the fold may let go of the directory.

The proofs assume what the modules' named `ASSUME`s say about the constants and
nothing else. They use the assumptions of the models: a commit is atomic and a
row lock is exclusive (RocksDB), `fetch_add` is atomic, a mutex excludes.

Only model-checked:

* liveness (`CatchesUp`, `StopEnds`, `RequestsReturn`), out of the prover's reach;
* `NlinkExact` and `ImplementsCounter`: that the sum over the deltas is kept needs
  an induction over the set of deltas;
* `ScansExact` and `ImplementsMap`: what encoding and scanning compute for every
  input needs an induction over sequences;
* all of `MetadataServer` and `RemoteMount`, and `Linearizable`, `TailZero`,
  `FlushDurable`.

## Not modelled

* TLS, tokens, addresses: configuration, no state. There are no retries and no
  timeouts in the gRPC layer.
* The serialisation of an inode value: a fixed layout that is neither scanned
  nor compared.
* Permissions, modes and timestamps. Nothing but `fold_deltas`, which takes the
  maximum, computes with them.
* A second data server. No binary registers one, so every route leads to the
  default; `Mapped` says what the routes would need.
* The text of RocksDB's errors, by which `storage/src/rocks.rs:570` tells a
  conflict from other failures, and a stored counter that cannot be read, after
  which the allocator starts at 2 (`server/src/lib.rs:117`). The models let a
  failed operation be issued again or not, and store only what the code stores.
* `append_deltas`, `insert_child`, `remove_child` and `persist`, which only
  tests call.
* The embedded client, which delegates to `VfsCore`; the binaries, the demo and
  the benchmark; logging and metrics.

## Plan

1. Proofs about `MetadataServer`: the lock discipline and `EntriesLive`.
2. `NlinkExact` by minimal counterexample over sequence numbers, and from it
   that `DeltaCompaction` implements `LinkCount`; types of `VfsData`.
3. The metadata server's batches as callers of `RocksStore`: reuse of a number
   then meets rows, deltas and file contents at once.
4. `fold_deltas` with timestamps, against a reference.
