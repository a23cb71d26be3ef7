---------------------------- MODULE RemoteMount ----------------------------
(***************************************************************************)
(* One mounted client and its two servers: the FUSE handlers               *)
(* (client/src/fuse.rs) over VfsCore (client/src/vfs_core.rs) over gRPC    *)
(* (Rpc) to a metadata server (MetadataOps) and a data server.             *)
(*                                                                         *)
(* A file-system call becomes one or more requests.  A request is served   *)
(* in one step or two (MetadataOps), and its reply is received in another; *)
(* in between the connection may break, the transaction may give up, and a *)
(* request whose caller has given up may still be served later.  close(2)  *)
(* returns at once and a spawned task sends the release.                   *)
(*                                                                         *)
(* The kernel is external.  It looks a name up before it creates, removes  *)
(* or renames it and passes on what makes sense then; it holds the locks   *)
(* of the directories and files a call changes until the call returns; it  *)
(* links no file without links and renames no file onto itself and no      *)
(* directory into itself; it releases a descriptor no call uses any more.  *)
(***************************************************************************)
EXTENDS Rpc

CONSTANTS
    Threads,    \* application threads that make calls
    Slots,      \* bound: spawned release tasks alive at a time
    Mixes,      \* bound: the sets of calls that are used together
    Overlap,    \* bound: the calls that are made while others are under way
    Sizes,      \* sizes asked for with setattr and fallocate
    PageSize,   \* directory entries that fit into one readdirplus reply
    LateRpcs,   \* requests that may be served after their caller gave up
    MaxCalls,   \* bound: calls made
    MaxFaults   \* bound: failures

Queries   == {"lookup", "getattr", "access", "statfs", "readlink", "read", "readdir"}
Creating  == {"create", "create_and_open", "mkdir", "symlink"}
Mutating  == Creating \cup {"unlink", "rmdir", "rename", "setattr", "link", "report_write"}
StreamOps == {"opendir", "readdirplus", "releasedir"}
DescriptorOps == {"read", "write", "flush", "fsync", "fallocate"}
AllOps    == Queries \cup StreamOps \cup DescriptorOps \cup
             {"mknod", "create", "mkdir", "symlink", "unlink", "rmdir", "rename", "setattr",
              "link", "open", "release"}

ASSUME MountAssumption ==
    /\ Threads \cap Slots = {}
    /\ Mixes \subseteq SUBSET AllOps /\ Overlap \subseteq AllOps
    /\ Sizes \subseteq Nat
    /\ PageSize \in Nat \ {0}
    /\ MaxCalls \in Nat /\ MaxFaults \in Nat

VARIABLES
    meta,        \* state of the metadata server (MetadataOps)
    data,        \* state of the data server (Rpc)
    task,        \* per thread and slot: the call it is in
    late,        \* requests, and the rests of requests, whose caller has given up
    handle_map,  \* VfsCore: inodes with a data server recorded
    written,     \* VfsCore: written_inodes
    fds,         \* kernel: descriptors open on each inode
    stream,      \* kernel: the directory stream being read, and the names its
                 \* directory has had all the time and at some time
    acked,       \* history: inodes with bytes written and acknowledged
    wiped,       \* history: inodes that a late truncate has emptied
    mix,         \* the calls the application uses
    calls,       \* calls made that may change a server
    faults       \* failures so far

vars    == <<meta, data, task, late, handle_map, written, fds, stream, acked, wiped, mix, calls, faults>>
servers == <<meta, data, late, wiped>>
client  == <<handle_map, written>>
kernel  == <<fds, stream, acked>>
bounds  == <<mix, calls, faults>>

Tasks == Threads \cup Slots

Idle == [st |-> "idle", op |-> "none", ino |-> NoInode, locks |-> {}, req |-> Message,
         rest |-> NoRest, want |-> NoSize, reply |-> NoReply, errno |-> Fine, muts |-> 0]

NoStream == [dir |-> NoInode, off |-> 0, got |-> << >>, end |-> FALSE,
             kept |-> {}, seen |-> {}]

\* A root directory with a file (name 1), open and written to, and a directory
\* (name 2).
Init ==
    /\ LET some(f, v) == [i \in Inodes |-> IF i \in DOMAIN f THEN f[i] ELSE v] IN
       meta = [live    |-> 1..3,
               kind    |-> some(<<"dir", "file", "dir">>, "none"),
               nlink   |-> some(<<3, 1, 2>>, 0),
               size    |-> some(<<0, 1>>, 0),
               entry   |-> [p \in Inodes |-> [n \in Names |->
                               IF p = Root /\ n \in 1..2 THEN n + 1 ELSE NoInode]],
               next    |-> 4,
               handles |-> some(<<0, 1>>, 0),
               pending |-> {}]
    /\ data = [bytes |-> {2}, deleted |-> {}]
    /\ task = [t \in Tasks |-> Idle]
    /\ late = {}
    /\ handle_map = {2} /\ written = {2}
    /\ fds = [i \in Inodes |-> IF i = 2 THEN 1 ELSE 0]
    /\ stream = NoStream
    /\ acked = {2} /\ wiped = {}
    /\ mix \in Mixes
    /\ calls = 0 /\ faults = 0

-----------------------------------------------------------------------------
(* Making a call.                                                          *)

Busy(t) == task[t].st # "idle"

\* Kernel: no other call holds one of the locks.
Unlocked(locks) == \A t \in Threads : task[t].locks \cap locks = {}

\* Inodes the kernel may name in a call.
Known == 1..(meta.next - 1)

\* Kernel: what is used as a directory is one, though it may be removed.
Dirs == {i \in Known : meta.kind[i] = "dir"}

\* Kernel: the child p/n a lookup finds, names without one, names of a kind.
Child(p, n)  == IF n \in Names THEN meta.entry[p][n] ELSE NoInode
Free(p)      == {n \in Names \cup LongNames : Child(p, n) = NoInode}
Taken(p, D)  == {n \in Names : Child(p, n) # NoInode /\ (meta.kind[Child(p, n)] = "dir") \in D}
Others       == {i \in Known : meta.kind[i] # "dir"}

\* Bound: every creating request on the way finds a number.
Room == meta.next + Cardinality({t \in Threads : Busy(t) /\ task[t].req.rpc \in Creating})
                  + Cardinality({l \in late : l.req.rpc \in Creating}) <= MaxInode

\* Calls that change no server are not counted.
MayCall(t, op) ==
    /\ op \in mix
    /\ op \in Overlap \/ \A u \in Threads : ~Busy(u)
    /\ \A u \in Threads : Busy(u) => task[u].op \in Overlap
    /\ ~Busy(t)
    /\ IF op \in Queries \cup StreamOps THEN calls' = calls
       ELSE calls < MaxCalls /\ calls' = calls + 1
    /\ mix' = mix

\* The handler of op sends its first request; it has a size in mind.
CallFor(t, op, i, locks, q, want) ==
    /\ MayCall(t, op)
    /\ Unlocked(locks)
    /\ q.rpc \in Creating => Room
    /\ task' = [task EXCEPT ![t] = [Idle EXCEPT !.st = "sent", !.op = op, !.ino = i,
                                                !.locks = locks, !.req = q, !.want = want]]

Call(t, op, i, locks, q) == CallFor(t, op, i, locks, q, NoSize)

\* The handler of op answers without asking a server.
Local(t, op, i, errno) ==
    /\ MayCall(t, op)
    /\ task' = [task EXCEPT ![t] = [Idle EXCEPT !.st = "returned", !.op = op, !.ino = i,
                                                !.errno = errno]]

\* Most calls change nothing but the task that makes them.
Quiet == UNCHANGED <<servers, client, kernel, faults>>

-----------------------------------------------------------------------------
(* The FUSE handlers (fuse.rs).                                            *)

FuseLookup(t, p, n)   == Call(t, "lookup", NoInode, {}, LookupRequest(p, n)) /\ Quiet
FuseGetattr(t, i)     == Call(t, "getattr", i, {}, GetattrRequest(i)) /\ Quiet
FuseAccess(t, i)      == Call(t, "access", i, {}, GetattrRequest(i)) /\ Quiet
FuseStatfs(t, i)      == Call(t, "statfs", i, {}, StatfsRequest(i)) /\ Quiet
FuseReadlink(t, i)    == Call(t, "readlink", i, {}, ReadlinkRequest(i)) /\ Quiet

FuseMkdir(t, p, n)    == Call(t, "mkdir", NoInode, {p}, MkdirRequest(p, n)) /\ Quiet
FuseSymlink(t, p, n)  == Call(t, "symlink", NoInode, {p}, SymlinkRequest(p, n)) /\ Quiet
FuseCreate(t, p, n)   == Call(t, "create", NoInode, {p}, CreateAndOpenRequest(p, n)) /\ Quiet
FuseRmdir(t, p, n)    == Call(t, "rmdir", NoInode, {p}, RmdirRequest(p, n)) /\ Quiet

\* Kernel: a file without links gets none.
FuseLink(t, i, p, n) ==
    meta.nlink[i] > 0 /\ Call(t, "link", i, {p, i}, LinkRequest(p, n, i)) /\ Quiet

\* mknod makes regular files only.
FuseMknod(t, p, n, regular) ==
    /\ IF regular THEN Call(t, "mknod", NoInode, {p}, CreateRequest(p, n))
                  ELSE Local(t, "mknod", NoInode, "EOPNOTSUPP")
    /\ Quiet

FuseUnlink(t, p, n) == Call(t, "unlink", NoInode, {p, Child(p, n)} \ {NoInode}, UnlinkRequest(p, n)) /\ Quiet

\* Kernel: the inodes below i, and i.
Subtree(i) ==
    LET down[k \in 0..MaxInode] ==
            IF k = 0 THEN {i}
            ELSE down[k-1] \cup {meta.entry[p][n] : p \in down[k-1] \ {NoInode}, n \in Names}
    IN down[MaxInode]

FuseRename(t, p, n, q, m) ==
    LET i == Child(p, n)
        j == Child(q, m)
    IN
    /\ Call(t, "rename", NoInode, {p, q, i, j} \ {NoInode}, RenameRequest(p, n, q, m))
    /\ i # j /\ q \notin Subtree(i)
    /\ j # NoInode => (meta.kind[i] = "dir") = (meta.kind[j] = "dir")
    /\ Quiet

\* Bytes whose truncation has been asked for need not be kept.
FuseSetattr(t, i, size) ==
    /\ Call(t, "setattr", i, {i}, SetattrRequest(i, size))
    /\ acked' = IF size = 0 THEN acked \ {i} ELSE acked
    /\ UNCHANGED <<servers, client, fds, stream, faults>>

FuseOpen(t, i, trunc) == Call(t, "open", i, {}, OpenRequest(i, trunc)) /\ Quiet

-----------------------------------------------------------------------------
(* Calls on a descriptor.                                                  *)

FuseRead(t, i)  == fds[i] > 0 /\ Call(t, "read", i, {}, ReadDataRequest(i)) /\ Quiet
FuseFsync(t, i) == fds[i] > 0 /\ Call(t, "fsync", i, {}, FlushRequest(i)) /\ Quiet

\* One block at offset 0.
FuseWrite(t, i) == fds[i] > 0 /\ Call(t, "write", i, {i}, WriteDataRequest(i, 1)) /\ Quiet

\* VfsCore::flush: nothing is sent for a file without writes; the mark goes
\* before the request.
FuseFlush(t, i) ==
    /\ fds[i] > 0
    /\ IF i \in written THEN Call(t, "flush", i, {}, FlushRequest(i))
                        ELSE Local(t, "flush", i, Fine)
    /\ written' = written \ {i}
    /\ UNCHANGED <<servers, handle_map, kernel, faults>>

\* Flags other than KEEP_SIZE and PUNCH_HOLE are refused, these two do nothing.
FuseFallocate(t, i, end, flags) ==
    /\ fds[i] > 0
    /\ IF flags = "plain"
       THEN CallFor(t, "fallocate", i, {i}, GetattrRequest(i), end)
       ELSE Local(t, "fallocate", i, IF flags = "other" THEN "EOPNOTSUPP" ELSE Fine)
    /\ Quiet

\* Kernel: descriptors of i that a call is using.
InUse(i) == Cardinality({t \in Threads : Busy(t) /\ task[t].op \in DescriptorOps /\ task[t].ino = i})

\* The last close of a descriptor: answered at once, a task is spawned.
FuseRelease(r, i) ==
    /\ fds[i] > InUse(i)
    /\ Call(r, "release", i, {}, ReleaseRequest(i))
    /\ fds' = [fds EXCEPT ![i] = @ - 1]
    /\ UNCHANGED <<servers, client, stream, acked, faults>>

-----------------------------------------------------------------------------
(* Directory streams.  There is no handle for one: every readdirplus lists *)
(* the directory anew and skips the entries before the offset it is given. *)

FuseOpendir(t, i) ==
    /\ stream = NoStream
    /\ Local(t, "opendir", i, Fine)
    /\ stream' = [NoStream EXCEPT !.dir = i, !.kept = NamesIn(meta, i), !.seen = NamesIn(meta, i)]
    /\ UNCHANGED <<servers, client, fds, acked, faults>>

FuseReleasedir(t) ==
    /\ stream.dir # NoInode
    /\ \A u \in Threads : task[u].op # "readdirplus"
    /\ Local(t, "releasedir", stream.dir, Fine)
    /\ stream' = NoStream
    /\ UNCHANGED <<servers, client, fds, acked, faults>>

\* Not implemented, so that the kernel uses readdirplus.
FuseReaddir(t, i) == Local(t, "readdir", i, "ENOSYS") /\ Quiet

FuseReaddirplus(t) ==
    /\ stream.dir # NoInode /\ ~stream.end
    /\ Call(t, "readdirplus", stream.dir, {stream.dir}, ReaddirRequest(stream.dir))
    /\ Quiet

\* Mutant: the offset of an entry is its own index, not that of the next one.
PageRepeats(names, off) == SubSeq(names, IF off = 0 THEN 1 ELSE off, Len(names))

\* The entries of one reply: the ones behind the first off.
Page(names, off) == SubSeq(names, off + 1, Len(names))

\* Kernel: takes the entries that fit; an empty reply ends the directory.
Take(names) ==
    LET page == Page(names, stream.off)
        got  == SubSeq(page, 1, IF Len(page) < PageSize THEN Len(page) ELSE PageSize)
    IN [stream EXCEPT !.off = @ + Len(got), !.got = @ \o got, !.end = got = << >>]

-----------------------------------------------------------------------------
(* The servers.                                                            *)

\* The state of the metadata server after the first step for a request.
Commit(a) ==
    /\ meta' = a.s
    /\ stream' = IF stream.dir = NoInode THEN stream
                 ELSE [stream EXCEPT !.kept = @ \cap NamesIn(a.s, stream.dir),
                                     !.seen = @ \cup NamesIn(a.s, stream.dir)]

\* The reply is on its way; k transactions were committed for it.
Answered(t, r, k) ==
    task' = [task EXCEPT ![t].st = "answered", ![t].reply = r, ![t].rest = NoRest, ![t].muts = @ + k]

\* The first step; the reply waits for the rest, if there is one.
Serve(t) ==
    LET q == task[t].req
        a == ServeMetadata(meta, q)
        k == IF a.r.err = Fine /\ q.rpc \in Mutating THEN 1 ELSE 0
    IN
    /\ task[t].st = "sent" /\ q.rpc \notin DataRpcs
    /\ Commit(a)
    /\ IF a.rest = NoRest THEN Answered(t, a.r, k)
       ELSE task' = [task EXCEPT ![t].st = "halfway", ![t].reply = a.r, ![t].rest = a.rest, ![t].muts = @ + k]
    /\ UNCHANGED <<data, late, wiped, client, fds, acked, bounds>>

ServeRest(t) ==
    /\ task[t].st = "halfway"
    /\ meta' = Rest(meta, task[t].rest)
    /\ Answered(t, task[t].reply, 0)
    /\ UNCHANGED <<data, late, wiped, client, kernel, bounds>>

ServeBytes(t) ==
    LET a == ServeData(data, task[t].req) IN
    /\ task[t].st = "sent" /\ task[t].req.rpc \in DataRpcs
    /\ data' = a.s
    /\ Answered(t, a.r, 0)
    /\ UNCHANGED <<meta, late, wiped, client, kernel, bounds>>

Late(q, rest) == [req |-> q, rest |-> rest]

\* Nobody waits for the reply: the data server, and the two steps of the
\* metadata server.
ServeLateBytes(l) ==
    /\ l.req.rpc \in DataRpcs
    /\ late' = late \ {l}
    /\ data' = ServeData(data, l.req).s
    /\ wiped' = IF l.req = TruncateRequest(l.req.inode, 0) THEN wiped \cup {l.req.inode} ELSE wiped
    /\ UNCHANGED <<meta, task, client, kernel, bounds>>

ServeLate(l) ==
    LET a == ServeMetadata(meta, l.req) IN
    /\ l.req.rpc \notin DataRpcs /\ l.rest = NoRest
    /\ Commit(a)
    /\ late' = (late \ {l}) \cup (IF a.rest = NoRest THEN {} ELSE {Late(l.req, a.rest)})
    /\ UNCHANGED <<data, wiped, task, client, fds, acked, bounds>>

ServeLateRest(l) ==
    /\ l.rest # NoRest
    /\ meta' = Rest(meta, l.rest)
    /\ late' = late \ {l}
    /\ UNCHANGED <<data, wiped, task, client, kernel, bounds>>

-----------------------------------------------------------------------------
(* Failures.                                                               *)

MayFail == faults < MaxFaults /\ faults' = faults + 1

Status(c) == [NoReply EXCEPT !.err = c]

\* The connection breaks under a request or its reply; a request may be lost or
\* may still reach the server, and one that is being served is served to the end.
Lose(t) ==
    /\ MayFail
    /\ task[t].st \in {"sent", "halfway", "answered"}
    /\ Answered(t, Status(Unavailable), 0)
    /\ \/ task[t].st # "halfway" /\ late' = late
       \/ task[t].st = "sent" /\ task[t].req.rpc \in LateRpcs /\ late' = late \cup {Late(task[t].req, NoRest)}
       \/ task[t].st = "halfway" /\ late' = late \cup {Late(task[t].req, task[t].rest)}
    /\ UNCHANGED <<meta, data, wiped, client, kernel, mix, calls>>

\* Does the next step of the server for t commit a transaction?
Commits(t) ==
    \/ task[t].st = "sent" /\ (task[t].req.rpc \in Mutating \/ (task[t].req.rpc = "open" /\ task[t].req.trunc))
    \/ task[t].st = "halfway" /\ task[t].rest.todo = "delete"

\* execute_with_retry gives up: nothing is committed, but release has already
\* changed the tables.
Conflict(t) ==
    /\ MayFail
    /\ Commits(t)
    /\ Answered(t, Status(MetadataStatus["TransactionConflict"]), 0)
    /\ UNCHANGED <<servers, client, kernel, mix, calls>>

\* maybe_persist fails after the commit: create ends before the handle counts.
PersistFails(t) ==
    LET a == ServeMetadata(meta, task[t].req) IN
    /\ MayFail
    /\ task[t].st = "sent" /\ task[t].req.rpc \in Creating /\ a.r.err = Fine
    /\ Commit(a)
    /\ Answered(t, Status(MetadataStatus["Io"]), 1)
    /\ UNCHANGED <<data, late, wiped, client, fds, acked, mix, calls>>

-----------------------------------------------------------------------------
(* VfsCore: what follows a reply.  The stub has turned it into a result.   *)

Got(t) == Result(task[t].req, task[t].reply)

Received(t, rpcs) == task[t].st = "answered" /\ task[t].req.rpc \in rpcs

\* The reply to one of rpcs says that it worked.
Worked(t, rpcs) == Received(t, rpcs) /\ Got(t).err = Fine

Send(t, q) == task' = [task EXCEPT ![t].st = "sent", ![t].req = q, ![t].reply = NoReply]

\* The call returns: fs_error_to_errno.  A release task has nobody to tell.
Finish(t, e) ==
    task' = [task EXCEPT ![t] = IF t \in Slots THEN Idle
                                ELSE [@ EXCEPT !.st = "returned", !.errno = Errno[e]]]

\* Mutant: a request that failed is sent once more.
VfsFailRetries(t) ==
    /\ task[t].st = "answered" /\ task[t].req.rpc # "delete_data"
    /\ Got(t).err # Fine
    /\ IF Got(t).err = "Io" THEN Send(t, task[t].req) ELSE Finish(t, Got(t).err)
    /\ UNCHANGED <<servers, client, kernel, bounds>>

\* "?": an error ends the call.
VfsFail(t) ==
    /\ task[t].st = "answered" /\ task[t].req.rpc # "delete_data"
    /\ Got(t).err # Fine
    /\ Finish(t, Got(t).err)
    /\ UNCHANGED <<servers, client, kernel, bounds>>

\* Mutant: release deletes the data of the file, whatever the reply says.
VfsPurgeClosed(t) ==
    /\ Worked(t, {"unlink", "rename", "release"})
    /\ \E i \in Got(t).purged \cup ({task[t].ino} \ {NoInode}) : Send(t, DeleteDataRequest(i))
    /\ UNCHANGED <<servers, client, kernel, bounds>>

\* unlink, rename and release: the data of a purged inode is deleted.
VfsPurge(t) ==
    /\ Worked(t, {"unlink", "rename", "release"})
    /\ \E i \in Got(t).purged : Send(t, DeleteDataRequest(i))
    /\ UNCHANGED <<servers, client, kernel, bounds>>

\* A failed deletion is logged, no more.
VfsPurged(t) ==
    /\ Received(t, {"delete_data"}) /\ task[t].op # "release"
    /\ Finish(t, Fine)
    /\ UNCHANGED <<servers, client, kernel, bounds>>

\* Mutant: release drops the mark and the mapping, but deletes no data.
VfsReleaseKeeps(t) ==
    /\ task[t].op = "release" /\ Worked(t, {"release"})
    /\ handle_map' = handle_map \ {task[t].ino} /\ written' = written \ {task[t].ino}
    /\ Finish(t, Fine)
    /\ UNCHANGED <<servers, kernel, bounds>>

\* The end of release: the inode loses its mapping and its mark, although other
\* descriptors may be open on it.
VfsRelease(t) ==
    /\ task[t].op = "release"
    /\ Received(t, {"delete_data"}) \/ (Worked(t, {"release"}) /\ Got(t).purged = {})
    /\ handle_map' = handle_map \ {task[t].ino} /\ written' = written \ {task[t].ino}
    /\ Finish(t, Fine)
    /\ UNCHANGED <<servers, kernel, bounds>>

\* setattr: a file that has become smaller is truncated.
VfsTruncate(t) ==
    /\ Worked(t, {"setattr"}) /\ Got(t).truncate # NoSize
    /\ Send(t, TruncateRequest(task[t].ino, Got(t).truncate))
    /\ UNCHANGED <<servers, client, kernel, bounds>>

\* write: the bytes are there, now the size; then the mark.
VfsReport(t) ==
    /\ Worked(t, {"write_data"})
    /\ Send(t, ReportWriteRequest(task[t].ino, 1))
    /\ UNCHANGED <<servers, client, kernel, bounds>>

VfsWritten(t) ==
    /\ Worked(t, {"report_write"})
    /\ written' = written \cup {task[t].ino}
    /\ Finish(t, Fine)
    /\ UNCHANGED <<servers, handle_map, kernel, bounds>>

\* open and create_and_open: the handle is mapped to its data server.
VfsOpened(t) ==
    /\ Worked(t, {"open", "create_and_open"})
    /\ handle_map' = handle_map \cup {Got(t).ino}
    /\ Finish(t, Fine)
    /\ UNCHANGED <<servers, written, kernel, bounds>>

\* fallocate grows a file that is smaller than asked for.
FuseGrow(t) ==
    /\ task[t].op = "fallocate" /\ Worked(t, {"getattr"}) /\ task[t].want > Got(t).size
    /\ Send(t, SetattrRequest(task[t].ino, task[t].want))
    /\ UNCHANGED <<servers, client, kernel, bounds>>

\* Nothing else is left to do.
VfsForward(t) ==
    /\ \/ Worked(t, {"lookup", "statfs", "readlink", "readdir", "create", "mkdir", "symlink",
                     "rmdir", "link", "read_data", "flush", "truncate"})
       \/ Worked(t, {"getattr"}) /\ (task[t].op = "fallocate" => task[t].want <= Got(t).size)
       \/ Worked(t, {"setattr"}) /\ Got(t).truncate = NoSize
       \/ Worked(t, {"unlink", "rename"}) /\ Got(t).purged = {}
    /\ Finish(t, Fine)
    /\ UNCHANGED <<servers, client, kernel, bounds>>

-----------------------------------------------------------------------------
(* Kernel: a call has returned to the application.                         *)

Return(t) ==
    LET c  == task[t]
        ok == c.errno = Fine
    IN
    /\ c.st = "returned"
    /\ fds' = IF ok /\ c.op \in {"open", "create"} THEN [fds EXCEPT ![c.reply.ino] = @ + 1] ELSE fds
    /\ acked' = IF ok /\ c.op = "write" THEN acked \cup {c.ino} ELSE acked
    /\ stream' = IF ok /\ c.op = "readdirplus" THEN Take(c.reply.names) ELSE stream
    /\ task' = [task EXCEPT ![t] = Idle]
    /\ UNCHANGED <<servers, client, bounds>>

\* The calls of thread t, with every argument.
Calls(t) ==
    \/ \E p \in Dirs :
          \/ \E n \in Names \cup LongNames : FuseLookup(t, p, n)
          \/ \E n \in Free(p) :
                \/ FuseMkdir(t, p, n) \/ FuseSymlink(t, p, n) \/ FuseCreate(t, p, n)
                \/ \E regular \in BOOLEAN : FuseMknod(t, p, n, regular)
                \/ \E i \in Others : FuseLink(t, i, p, n)
          \/ \E n \in Taken(p, {FALSE}) : FuseUnlink(t, p, n)
          \/ \E n \in Taken(p, {TRUE}) : FuseRmdir(t, p, n)
          \/ \E n \in Taken(p, BOOLEAN), q \in Dirs, m \in Names : FuseRename(t, p, n, q, m)
          \/ FuseOpendir(t, p) \/ FuseReaddir(t, p)
    \/ \E i \in Known :
          \/ FuseGetattr(t, i) \/ FuseAccess(t, i) \/ FuseStatfs(t, i) \/ FuseSetattr(t, i, NoSize)
    \/ \E i \in Others :
          \/ FuseReadlink(t, i) \/ FuseRead(t, i)  \/ FuseFsync(t, i)
          \/ FuseWrite(t, i)    \/ FuseFlush(t, i)
          \/ \E size \in Sizes : FuseSetattr(t, i, size) \/ FuseFallocate(t, i, size, "plain")
          \/ \E trunc \in BOOLEAN : FuseOpen(t, i, trunc)
          \/ \E flags \in {"keep", "other"} : FuseFallocate(t, i, 0, flags)
    \/ FuseReaddirplus(t) \/ FuseReleasedir(t)

Steps(t) ==
    \/ Serve(t) \/ ServeRest(t) \/ ServeBytes(t) \/ Lose(t) \/ Conflict(t) \/ PersistFails(t)
    \/ VfsFail(t) \/ VfsPurge(t) \/ VfsPurged(t) \/ VfsRelease(t) \/ VfsTruncate(t)
    \/ VfsReport(t) \/ VfsWritten(t) \/ VfsOpened(t) \/ FuseGrow(t) \/ VfsForward(t)

Next ==
    \/ \E t \in {u \in Threads : ~Busy(u)} : Calls(t)
    \/ \E t \in Threads : Return(t)
    \/ \E r \in Slots, i \in Known : FuseRelease(r, i)
    \/ \E t \in Tasks : Steps(t)
    \/ \E l \in late : ServeLate(l) \/ ServeLateRest(l) \/ ServeLateBytes(l)

Spec == Init /\ [][Next]_vars

-----------------------------------------------------------------------------
(* Properties.                                                             *)

\* The type of the state.
TypeOK ==
    /\ meta.live \subseteq Inodes /\ meta.pending \subseteq Inodes
    /\ meta.kind \in [Inodes -> Kinds]
    /\ meta.nlink \in [Inodes -> Nat] /\ meta.size \in [Inodes -> Nat]
    /\ meta.entry \in [Inodes -> [Names -> Inodes \cup {NoInode}]]
    /\ meta.next \in 1..(MaxInode + 1)
    /\ meta.handles \in [Inodes -> Nat]
    /\ data.bytes \subseteq Inodes /\ data.deleted \subseteq Inodes
    /\ \A t \in Tasks :
          /\ task[t].st \in {"idle", "sent", "halfway", "answered", "returned"}
          /\ task[t].op \in AllOps \cup {"none"}
          /\ task[t].muts \in 0..1
    /\ handle_map \subseteq Inodes /\ written \subseteq Inodes
    /\ fds \in [Inodes -> Nat]
    /\ acked \subseteq Inodes /\ wiped \subseteq Inodes
    /\ calls \in 0..MaxCalls /\ faults \in 0..MaxFaults

\* Calls that change the metadata exactly once when they succeed.
Changing == {"mknod", "create", "mkdir", "symlink", "unlink", "rmdir", "rename", "setattr",
             "link", "write"}

\* The truncate that follows a setattr was refused.
TruncateRefused(t) == task[t].req.rpc = "truncate" /\ task[t].errno = "EINVAL"

\* What an errno tells the application: success means that the change was
\* committed once, any error but EIO that nothing was.  The errors go through
\* map_error of the service, map_error of the client and fs_error_to_errno,
\* and EIO may stand for a lost reply or for a failure after the commit.  The
\* one other exception: a file is made smaller, to the limit of the data store
\* or beyond, and the data store refuses after the size was committed.
DefiniteOutcome ==
    \A t \in Threads : task[t].st = "returned" =>
        /\ task[t].errno = Fine /\ task[t].op \in Changing => task[t].muts = 1
        /\ task[t].errno \notin {Fine, "EIO"} => task[t].muts = 0 \/ TruncateRefused(t)

\* Releases of i that the server has not seen.
Releasing(i) ==
    Cardinality({r \in Slots : task[r].st = "sent" /\ task[r].req = ReleaseRequest(i)})
  + Cardinality(late \cap {Late(ReleaseRequest(i), NoRest)})

\* open_handles never counts fewer handles of a file than the kernel has
\* descriptors on it and releases under way, whatever replies are lost and
\* whatever comes between the steps of open and release: a lost open or release
\* may leave a handle behind, never take one away.
HandlesCovered == \A i \in Inodes : meta.handles[i] >= fds[i] + Releasing(i)

\* As long as a file has a row the data server is not told to delete it, and it
\* keeps the bytes whose write returned, over failures and with requests served
\* late: the purged_inodes of unlink, rename and release name only files whose
\* row is gone.  What can empty such a file is a truncate that is served after
\* its caller gave up.
Kept ==
    \A i \in meta.live :
        i \notin data.deleted /\ (i \in acked \ wiped => i \in data.bytes)

\* The names of i.
Named(i) == {<<p, n>> \in Inodes \X Names : meta.entry[p][n] = i}

\* At rest after no failure the two servers and the mount agree: handles are
\* descriptors, a file's link count is its number of names, a file without names
\* that has a row is marked for deletion, and the data server was told of every
\* file whose row is gone.  The server leaves the last part to the client: the
\* purged_inodes of unlink, rename and release.
Settled ==
    faults = 0 /\ (\A t \in Tasks : ~Busy(t)) =>
        \A i \in Inodes :
            /\ meta.handles[i] = fds[i]
            /\ meta.kind[i] \in {"file", "symlink"} =>
                  /\ i \in meta.live => meta.nlink[i] = Cardinality(Named(i))
                  /\ i \in meta.live /\ Named(i) = {} <=> i \in meta.pending
                  /\ i \notin meta.live => i \in data.deleted

\* An open file keeps its row.  The code does not promise it: rename does not
\* look at open_handles, and open counts its handle after it found the row.
OpenKept == \A i \in Inodes : fds[i] > 0 => i \in meta.live

\* A row without names goes with the last descriptor.  The code does not promise
\* it: unlink marks the file after its commit, and a release may be faster.
NoRowLeft ==
    faults = 0 /\ (\A t \in Tasks : ~Busy(t)) => \A i \in meta.pending : fds[i] > 0

\* A file that has a row keeps the bytes whose write returned.  The code does not
\* promise it: a truncate may be served after its caller gave up.
BytesKept == acked \cap meta.live \subseteq data.bytes

\* A directory whose names do not change while its stream is open is read
\* exactly once, entry by entry, although every readdirplus lists it anew.
ListingExact ==
    stream.end /\ stream.kept = stream.seen => stream.got = SetToSortSeq(stream.kept, <)

\* A name that is there all the time is read, whatever happens to the others.
ListingComplete == stream.end => stream.kept \subseteq {stream.got[k] : k \in DOMAIN stream.got}

\* Once nothing is under way, every handle the server counts has a descriptor,
\* failures or not.
NoHandleLeft ==
    late = {} /\ (\A t \in Tasks : ~Busy(t)) => \A i \in Inodes : meta.handles[i] = fds[i]

\* Every open descriptor is mapped to its data server.
Mapped == \A i \in Inodes : fds[i] > 0 => i \in handle_map

\* A call that fails over gRPC fails with the errno it would have without it.
ErrnoKept == \A e \in FsError : Errno[MetadataError[MetadataStatus[e]]] = Errno[e]

=============================================================================
