------------------------------ MODULE VfsData ------------------------------
(***************************************************************************)
(* The data path: VfsCore (client/src/vfs_core.rs) writes a file's bytes   *)
(* to the data server and its size to the metadata server, one call after  *)
(* the other and with nothing held in between.                             *)
(*                                                                         *)
(* The data server is one backing file in which every inode owns a region  *)
(* of MaxFileSize blocks (storage/src/rawdisk.rs).  A size lives in the    *)
(* inode row; setattr, open with O_TRUNC and report_write each change it   *)
(* in one transaction on that row (server/src/lib.rs), so one step each.   *)
(*                                                                         *)
(* Callers hold their files open and call the VfsOps from several threads  *)
(* of one client.  The kernel serialises some operations of one mount on   *)
(* one file; callers of the library or of two mounts do not: the constant  *)
(* Alone says which operations are never overlapped.  Every step changes   *)
(* the backing file, a size or the set written_inodes.  Data location      *)
(* routing is left out: no binary registers a second data server.          *)
(***************************************************************************)
EXTENDS Integers, FiniteSetsExt

CONSTANTS
    Threads,      \* callers of VfsOps
    Files,        \* inode numbers of the files
    MaxFileSize,  \* max_file_size, in blocks
    SizeBound,    \* bound: sizes asked for with setattr and fallocate
    Calls,        \* the operations the callers use
    Alone,        \* operations the callers never overlap with others on a file
    Faults,       \* what may fail: "report", "short", "sync"
    MaxOps        \* bound: operations begun

Operations == {"write", "setattr", "fallocate", "open", "open_trunc", "flush", "fsync", "release"}

ASSUME ConstantsAssumption ==
    /\ Files \subseteq Nat \ {0}
    /\ MaxFileSize \in Nat \ {0}
    /\ SizeBound \in Nat
    /\ Calls \subseteq Operations
    /\ Alone \subseteq Operations
    /\ Faults \subseteq {"report", "short", "sync"}
    /\ MaxOps \in Nat

VARIABLES
    size,     \* committed size in the inode row
    walSize,  \* the size in the part of the write-ahead log that is on stable storage
    disk,     \* the backing file: block -> <<file, id>> of the write it holds, or Hole
    synced,   \* the backing file on stable storage
    written,  \* VfsCore::written_inodes
    opened,   \* per thread: the files it has open
    closing,  \* per file: spawned release tasks that have not run
    pc,       \* per thread: the next step of its operation
    loc,      \* per thread: the operation and its locals
    ops,      \* operations begun
    done,     \* history: operations that have returned
    promised  \* history: writes that a later flush or fsync reported durable

data     == <<disk, synced>>
client   == <<written, opened, closing>>
sizes    == <<size, walSize>>
history  == <<done, promised>>
vars     == <<size, walSize, disk, synced, written, opened, closing, pc, loc, ops, done, promised>>

Hole == <<0, 0>>
Idle == [id |-> 0, op |-> "none", f |-> 0, at |-> 0, len |-> 0, pos |-> 0, before |-> {}]

-----------------------------------------------------------------------------
(* The backing file.                                                       *)

\* absolute_offset: where block b of file f lies.
Block(f, b) == f * MaxFileSize + b

\* The blocks that matter: the regions of the files and those behind them.
Regions   == Files \cup {f + 1 : f \in Files}
Addresses == {Block(f, b) : f \in Regions, b \in 0..(MaxFileSize - 1)}

\* Mutant: the data is not cut off at the end of the region.
FitsUnclamped(b, n) == n

\* The blocks of an n-block write at b that fit into the region.
Fits(b, n) == Min({n, MaxFileSize - b})

\* The backing file after a pwrite of v to n blocks of f from b.
Pwrite(f, b, n, v) ==
    [a \in Addresses |-> IF a \in Block(f, b)..(Block(f, b) + n - 1) THEN v ELSE disk[a]]

\* What a read of block b of f returns.
ReadAt(f, b) == disk[Block(f, b)]

-----------------------------------------------------------------------------
(* Beginning and ending an operation.                                      *)

Ids(D) == {r.id : r \in D}

\* A new operation of the callers.
Call(op, f, at, len) == [id |-> ops + 1, op |-> op, f |-> f, at |-> at, len |-> len,
                         pos |-> 0, before |-> Ids(done)]

MayCall(t, op, f) ==
    /\ pc[t] = "idle"
    /\ op \in Calls
    /\ \A u \in Threads : pc[u] # "idle" /\ loc[u].f = f => {op, loc[u].op} \cap Alone = {}
    /\ ops < MaxOps
    /\ ops' = ops + 1

Begin(t, r) == MayCall(t, r.op, r.f) /\ loc' = [loc EXCEPT ![t] = r]

Goto(t, label) == pc' = [pc EXCEPT ![t] = label]

\* The operation r of t returns, with success or with an error.
Finish(t, r, ok) ==
    /\ done' = done \cup {[id |-> r.id, op |-> r.op, f |-> r.f, at |-> r.at, len |-> r.len,
                           before |-> r.before, ok |-> ok]}
    /\ Goto(t, "idle")

\* Its locals are dropped.
Forget(t) == loc' = [loc EXCEPT ![t] = Idle]

Return(t, ok) == Finish(t, loc[t], ok) /\ Forget(t) /\ ops' = ops

-----------------------------------------------------------------------------
(* write: write_data, then report_write, then the written mark.            *)

\* write_at: the part that fits goes to the backing file, and its length is
\* reported whatever pwrite returned: a short pwrite goes unnoticed.
WriteData(t, f, b, n) ==
    LET k == Fits(b, n) IN
    /\ f \in opened[t]
    /\ Begin(t, Call("write", f, b, k))
    /\ \E j \in (IF "short" \in Faults THEN 0..k ELSE {k}) :
           disk' = Pwrite(f, b, j, <<f, ops + 1>>)
    /\ Goto(t, "report")
    /\ UNCHANGED <<sizes, synced, client, history>>

\* Mutant: the reported end replaces the size instead of extending it.
ReportReplaces(t) ==
    LET l == loc[t] IN
    /\ pc[t] = "report"
    /\ size' = [size EXCEPT ![l.f] = l.at + l.len]
    /\ Goto(t, "mark")
    /\ UNCHANGED <<walSize, data, client, loc, ops, history>>

\* report_write: the size grows to the end of the write.
Report(t) ==
    LET l == loc[t] IN
    /\ pc[t] = "report"
    /\ size' = [size EXCEPT ![l.f] = Max({@, l.at + l.len})]
    /\ Goto(t, "mark")
    /\ UNCHANGED <<walSize, data, client, loc, ops, history>>

\* report_write fails, or the client stops before it: write returns the
\* error and leaves the data where it is.
ReportFails(t) ==
    /\ "report" \in Faults
    /\ pc[t] = "report"
    /\ Return(t, FALSE)
    /\ UNCHANGED <<sizes, data, client, promised>>

Mark(t) ==
    /\ pc[t] = "mark"
    /\ written' = written \cup {loc[t].f}
    /\ Return(t, TRUE)
    /\ UNCHANGED <<sizes, data, opened, closing, promised>>

-----------------------------------------------------------------------------
(* setattr with a size, fallocate, and open.                               *)

\* Mutant: the zero-fill starts one block late.
ZeroFromLate(n) == n + 1

\* Where the zero-fill of a shrink to n blocks starts.
ZeroFrom(n) == n

\* The transaction of setattr on operation r: only a shrink asks the client
\* to truncate the data.
SetSize(t, r, n) ==
    /\ size' = [size EXCEPT ![r.f] = n]
    /\ IF n < size[r.f]
       THEN /\ loc' = [loc EXCEPT ![t] = [r EXCEPT !.pos = ZeroFrom(n)]]
            /\ Goto(t, "zero")
            /\ done' = done
       ELSE Finish(t, r, TRUE) /\ Forget(t)

Setattr(t, f, n) ==
    /\ MayCall(t, "setattr", f)
    /\ SetSize(t, Call("setattr", f, n, 0), n)
    /\ UNCHANGED <<walSize, data, client, promised>>

\* truncate refuses a size above max_file_size, and absolute_offset refuses
\* max_file_size itself; setattr returns the error, its transaction stays.
TruncateRefused(t) ==
    /\ pc[t] = "zero"
    /\ loc[t].at >= MaxFileSize
    /\ Return(t, FALSE)
    /\ UNCHANGED <<sizes, data, client, promised>>

\* truncate zeroes the region from the new size on, one chunk at a time.
ZeroChunk(t) ==
    LET l == loc[t] IN
    /\ pc[t] = "zero"
    /\ l.at < MaxFileSize
    /\ IF l.pos >= MaxFileSize
       THEN Return(t, TRUE) /\ disk' = disk
       ELSE /\ disk' = Pwrite(l.f, l.pos, 1, Hole)
            /\ loc' = [loc EXCEPT ![t].pos = @ + 1]
            /\ UNCHANGED <<pc, ops, done>>
    /\ UNCHANGED <<sizes, synced, client, promised>>

\* fallocate in mode 0: getattr, and setattr when the end lies behind the
\* size it saw.
Fallocate(t, f, n) ==
    /\ f \in opened[t]
    /\ n > size[f]
    /\ Begin(t, Call("fallocate", f, n, 0))
    /\ Goto(t, "extend")
    /\ UNCHANGED <<sizes, data, client, history>>

FallocateSet(t) ==
    /\ pc[t] = "extend"
    /\ SetSize(t, loc[t], loc[t].at)
    /\ UNCHANGED <<walSize, data, client, ops, promised>>

\* open loads the inode; with O_TRUNC and a size that is not zero, a
\* transaction resets the size.  Nothing truncates the data.
Open(t, f, op) ==
    /\ f \notin opened[t]
    /\ Begin(t, Call(op, f, 0, 0))
    /\ Goto(t, IF op = "open_trunc" /\ size[f] > 0 THEN "trunc" ELSE "handle")
    /\ UNCHANGED <<sizes, data, client, history>>

OpenTrunc(t) ==
    /\ pc[t] = "trunc"
    /\ size' = [size EXCEPT ![loc[t].f] = 0]
    /\ Goto(t, "handle")
    /\ UNCHANGED <<walSize, data, client, loc, ops, history>>

OpenHandle(t) ==
    /\ pc[t] = "handle"
    /\ opened' = [opened EXCEPT ![t] = @ \cup {loc[t].f}]
    /\ Return(t, TRUE)
    /\ UNCHANGED <<sizes, data, written, closing, promised>>

-----------------------------------------------------------------------------
(* flush, fsync and release.                                               *)

\* The writes to f that had returned when the operation with these
\* predecessors began.
Covered(f, before) == {r.id : r \in {d \in done : d.op = "write" /\ d.f = f /\ d.ok}} \cap before

\* flush of a file that is not marked returns at once.
FlushSkip(t, f, op) ==
    /\ f \in opened[t] /\ f \notin written
    /\ MayCall(t, op, f)
    /\ promised' = promised \cup Covered(f, Ids(done))
    /\ UNCHANGED <<sizes, data, client, pc, loc, done>>

\* Otherwise it takes the mark away before it asks the data server to sync.
FlushMarked(t, f, op) ==
    /\ f \in opened[t] /\ f \in written
    /\ Begin(t, Call(op, f, 0, 0))
    /\ written' = written \ {f}
    /\ Goto(t, "sync")
    /\ UNCHANGED <<sizes, data, opened, closing, history>>

\* Mutant: fsync takes the fast path of flush.
FsyncUsesMark(t, f) == FlushMarked(t, f, "fsync") \/ FlushSkip(t, f, "fsync")

\* fsync asks the data server in any case.
Fsync(t, f) ==
    /\ f \in opened[t]
    /\ Begin(t, Call("fsync", f, 0, 0))
    /\ Goto(t, "sync")
    /\ UNCHANGED <<sizes, data, client, history>>

\* sync_data of the whole backing file; the write-ahead log is not synced.
Sync(t) ==
    /\ pc[t] = "sync"
    /\ synced' = disk
    /\ promised' = promised \cup Covered(loc[t].f, loc[t].before)
    /\ Goto(t, "idle") /\ Forget(t)
    /\ UNCHANGED <<sizes, disk, client, ops, done>>

SyncFails(t) ==
    /\ "sync" \in Faults
    /\ pc[t] = "sync"
    /\ Goto(t, "idle") /\ Forget(t)
    /\ UNCHANGED <<sizes, data, client, ops, history>>

\* The operating system writes the log back when it pleases.
WalWriteback(f) ==
    /\ walSize[f] # size[f]
    /\ walSize' = [walSize EXCEPT ![f] = size[f]]
    /\ UNCHANGED <<size, data, client, pc, loc, ops, history>>

\* FuseClient::release answers at once and spawns a task.
Close(t, f) ==
    /\ f \in opened[t]
    /\ pc[t] = "idle" /\ "release" \in Calls
    /\ opened' = [opened EXCEPT ![t] = @ \ {f}]
    /\ closing' = [closing EXCEPT ![f] = @ + 1]
    /\ UNCHANGED <<sizes, data, written, pc, loc, ops, history>>

\* The task: VfsCore::release forgets the mark of the inode.
Release(f) ==
    /\ closing[f] > 0
    /\ closing' = [closing EXCEPT ![f] = @ - 1]
    /\ written' = written \ {f}
    /\ UNCHANGED <<sizes, data, opened, pc, loc, ops, history>>

-----------------------------------------------------------------------------

Init ==
    /\ size = [f \in Files |-> 0]
    /\ walSize = [f \in Files |-> 0]
    /\ disk = [a \in Addresses |-> Hole]
    /\ synced = [a \in Addresses |-> Hole]
    /\ written = {}
    /\ opened = [t \in Threads |-> Files]
    /\ closing = [f \in Files |-> 0]
    /\ pc = [t \in Threads |-> "idle"]
    /\ loc = [t \in Threads |-> Idle]
    /\ ops = 0
    /\ done = {}
    /\ promised = {}

Request(t, f) ==
    \/ \E b \in 0..(MaxFileSize - 1), n \in 1..MaxFileSize : WriteData(t, f, b, n)
    \/ \E n \in 0..SizeBound : Setattr(t, f, n)
    \/ \E n \in 1..SizeBound : Fallocate(t, f, n)
    \/ \E op \in {"open", "open_trunc"} : Open(t, f, op)
    \/ FlushSkip(t, f, "flush")
    \/ FlushMarked(t, f, "flush")
    \/ Fsync(t, f)
    \/ Close(t, f)

Step(t) ==
    \/ Report(t)
    \/ ReportFails(t)
    \/ Mark(t)
    \/ TruncateRefused(t)
    \/ ZeroChunk(t)
    \/ FallocateSet(t)
    \/ OpenTrunc(t)
    \/ OpenHandle(t)
    \/ Sync(t)
    \/ SyncFails(t)

Next ==
    \/ \E t \in Threads, f \in Files : Request(t, f)
    \/ \E t \in Threads : Step(t)
    \/ \E f \in Files : Release(f)
    \/ \E f \in Files : WalWriteback(f)

Spec == Init /\ [][Next]_vars

-----------------------------------------------------------------------------
(* Properties.                                                             *)

Byte == {Hole} \cup (Files \X (1..MaxOps))

\* Types.  Sizes stay within what a write or a setattr can ask for.
TypeOK ==
    /\ size \in [Files -> 0..Max({MaxFileSize, SizeBound})]
    /\ walSize \in [Files -> 0..Max({MaxFileSize, SizeBound})]
    /\ disk \in [Addresses -> Byte]
    /\ synced \in [Addresses -> Byte]
    /\ written \subseteq Files
    /\ opened \in [Threads -> SUBSET Files]
    /\ closing \in [Files -> Nat]
    /\ pc \in [Threads -> {"idle", "report", "mark", "zero", "extend", "trunc", "handle", "sync"}]
    /\ \A t \in Threads : loc[t] = Idle <=> pc[t] = "idle"
    /\ ops \in 0..MaxOps
    /\ Ids(done) \cup promised \subseteq 1..ops

\* Regions do not leak (rawdisk.rs: each inode's data lives in its own
\* range): whatever is cut short, fails or is truncated meanwhile, a block
\* of a file's region holds a hole or a write to this very file, and no
\* block outside all regions is ever written.
Isolated ==
    \A a \in Addresses : disk[a] # Hole =>
        \E f \in Files, b \in 0..(MaxFileSize - 1) : a = Block(f, b) /\ disk[a][1] = f

AtRest == \A t \in Threads : pc[t] = "idle"

\* Extending a file is a metadata-only operation (setattr) because the
\* region behind the size reads as zeros; so it must be zero whenever no
\* operation is under way.
TailZero ==
    AtRest => \A f \in Files : \A b \in size[f]..(MaxFileSize - 1) : ReadAt(f, b) = Hole

\* Every operation is atomic (VfsOps): what is left when all have returned
\* is what some order of them, in keeping with calls and returns, leaves of
\* a file that is changed by one operation at a time.
Atomic == INSTANCE AtomicFile
Visible(f) ==
    [size |-> size[f], blocks |-> [b \in Atomic!Blocks |-> IF b < size[f] THEN ReadAt(f, b) ELSE Hole]]
Linearizable ==
    AtRest => \A f \in Files : Visible(f) \in Atomic!Outcomes({d \in done : d.f = f})

\* What a durable answer promised stays true (flush, fsync): a block whose
\* latest content is a write that had returned before a successful flush
\* or fsync began is on stable storage.
FlushDurable ==
    \A a \in Addresses : disk[a][2] \in promised => synced[a] = disk[a]

\* fsync also covers the size: as long as the size of the file reaches to
\* the end of a promised write, so does the size in the synced log.
FsyncSize ==
    \A d \in done : d.id \in promised /\ size[d.f] >= d.at + d.len
        => walSize[d.f] >= d.at + d.len

\* truncate refuses only sizes above max_file_size, so that a setattr to at
\* most that size succeeds.
TruncateAccepted ==
    \A d \in done : d.op = "setattr" /\ d.at <= MaxFileSize => d.ok

=============================================================================
