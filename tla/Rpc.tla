-------------------------------- MODULE Rpc --------------------------------
(***************************************************************************)
(* The two gRPC services (rpc/src).  For every call there is the request   *)
(* the client stub builds and the handler that takes it apart, calls the   *)
(* backend and turns its error into a status.  The stub turns the status   *)
(* back into an error (Result).  Nothing is retried and nothing times out. *)
(*                                                                         *)
(* The data server's state d is a record: d.bytes, the inodes whose first  *)
(* block holds written bytes, and d.deleted, those it was told to delete.  *)
(* The store's delete does nothing (numbers are not reused), so a deletion *)
(* leaves the bytes.  Files of several blocks are the subject of VfsData.  *)
(***************************************************************************)
EXTENDS MetadataOps

CONSTANT MaxFileSize    \* max_file_size of the data store, in blocks

ASSUME MaxFileSizeAssumption == MaxFileSize \in Nat \ {0}

-----------------------------------------------------------------------------
(* MetadataRpcClient: the requests.                                        *)

Message == [rpc |-> "none", inode |-> NoInode, parent |-> NoInode, name |-> 0,
            new_parent |-> NoInode, new_name |-> 0, size |-> NoSize, trunc |-> FALSE]

OfInode(rpc, i)    == [Message EXCEPT !.rpc = rpc, !.inode = i]
OfEntry(rpc, p, n) == [Message EXCEPT !.rpc = rpc, !.parent = p, !.name = n]

LookupRequest(p, n)        == OfEntry("lookup", p, n)
GetattrRequest(i)          == OfInode("getattr", i)
ReaddirRequest(i)          == OfInode("readdir", i)
CreateRequest(p, n)        == OfEntry("create", p, n)
CreateAndOpenRequest(p, n) == OfEntry("create_and_open", p, n)
MkdirRequest(p, n)         == OfEntry("mkdir", p, n)
UnlinkRequest(p, n)        == OfEntry("unlink", p, n)
RmdirRequest(p, n)         == OfEntry("rmdir", p, n)
RenameRequest(p, n, q, m)  == [OfEntry("rename", p, n) EXCEPT !.new_parent = q, !.new_name = m]
SetattrRequest(i, size)    == [OfInode("setattr", i) EXCEPT !.size = size]
StatfsRequest(i)           == OfInode("statfs", i)
OpenRequest(i, trunc)      == [OfInode("open", i) EXCEPT !.trunc = trunc]
ReportWriteRequest(i, end) == [OfInode("report_write", i) EXCEPT !.size = end]
LinkRequest(p, n, i)       == [OfEntry("link", p, n) EXCEPT !.inode = i]
SymlinkRequest(p, n)       == OfEntry("symlink", p, n)
ReadlinkRequest(i)         == OfInode("readlink", i)
ReleaseRequest(i)          == OfInode("release", i)

-----------------------------------------------------------------------------
(* MetadataRpcServer: the handlers.                                        *)

\* map_err(map_error): the reply with its error as a status.
Answer(a) == [a EXCEPT !.r.err = MetadataStatus[@]]

ServeLookup(s, q)        == Answer(Lookup(s, q.parent, q.name))
ServeGetattr(s, q)       == Answer(Getattr(s, q.inode))
ServeReaddir(s, q)       == Answer(Readdir(s, q.inode))
ServeCreate(s, q)        == Answer(Create(s, q.parent, q.name))
ServeCreateAndOpen(s, q) == Answer(CreateAndOpen(s, q.parent, q.name))
ServeMkdir(s, q)         == Answer(Mkdir(s, q.parent, q.name))
ServeUnlink(s, q)        == Answer(Unlink(s, q.parent, q.name))
ServeRmdir(s, q)         == Answer(Rmdir(s, q.parent, q.name))
ServeRename(s, q)        == Answer(Rename(s, q.parent, q.name, q.new_parent, q.new_name))
ServeSetattr(s, q)       == Answer(Setattr(s, q.inode, q.size))
ServeStatfs(s, q)        == Answer(Statfs(s, q.inode))
ServeOpen(s, q)          == Answer(Open(s, q.inode, q.trunc))
ServeReportWrite(s, q)   == Answer(ReportWrite(s, q.inode, q.size))
ServeLink(s, q)          == Answer(Link(s, q.parent, q.name, q.inode))
ServeSymlink(s, q)       == Answer(Symlink(s, q.parent, q.name))
ServeReadlink(s, q)      == Answer(Readlink(s, q.inode))
ServeRelease(s, q)       == Answer(Release(s, q.inode))

\* The handler tonic's router calls for q.
ServeMetadata(s, q) ==
    CASE q.rpc = "lookup"   -> ServeLookup(s, q)   [] q.rpc = "getattr"  -> ServeGetattr(s, q)
      [] q.rpc = "readdir"  -> ServeReaddir(s, q)  [] q.rpc = "create"   -> ServeCreate(s, q)
      [] q.rpc = "create_and_open" -> ServeCreateAndOpen(s, q)
      [] q.rpc = "mkdir"    -> ServeMkdir(s, q)    [] q.rpc = "unlink"   -> ServeUnlink(s, q)
      [] q.rpc = "rmdir"    -> ServeRmdir(s, q)    [] q.rpc = "rename"   -> ServeRename(s, q)
      [] q.rpc = "setattr"  -> ServeSetattr(s, q)  [] q.rpc = "statfs"   -> ServeStatfs(s, q)
      [] q.rpc = "open"     -> ServeOpen(s, q)     [] q.rpc = "link"     -> ServeLink(s, q)
      [] q.rpc = "report_write" -> ServeReportWrite(s, q)
      [] q.rpc = "symlink"  -> ServeSymlink(s, q)  [] q.rpc = "readlink" -> ServeReadlink(s, q)
      [] q.rpc = "release"  -> ServeRelease(s, q)

-----------------------------------------------------------------------------
(* The data service.                                                       *)

ReadDataRequest(i)         == OfInode("read_data", i)
WriteDataRequest(i, end)   == [OfInode("write_data", i) EXCEPT !.size = end]
TruncateRequest(i, size)   == [OfInode("truncate", i) EXCEPT !.size = size]
FlushRequest(i)            == OfInode("flush", i)
DeleteDataRequest(i)       == OfInode("delete_data", i)

DataRpcs == {"read_data", "write_data", "truncate", "flush", "delete_data"}

\* truncate of the raw disk store: a size at the limit is refused as well, by
\* absolute_offset.
Truncate(d, i, size) ==
    IF size >= MaxFileSize THEN Fail(d, "InvalidInput")
    ELSE Reply([d EXCEPT !.bytes = IF size = 0 THEN @ \ {i} ELSE @], NoReply)

\* map_err(map_error) of the data service.
DataAnswer(a) == [a EXCEPT !.r.err = DataStatus[@]]

\* DataRpcServer over DataServer.  Reads and writes are below the limit; but for
\* truncate the store then fails only with an Io error, which to the client is
\* a lost connection (DataError).
ServeReadData(d, q)   == Reply(d, NoReply)
ServeWriteData(d, q)  == Reply([d EXCEPT !.bytes = @ \cup {q.inode}], NoReply)
ServeTruncate(d, q)   == DataAnswer(Truncate(d, q.inode, q.size))
ServeFlush(d, q)      == Reply(d, NoReply)
ServeDeleteData(d, q) == Reply([d EXCEPT !.deleted = @ \cup {q.inode}], NoReply)

ServeData(d, q) ==
    CASE q.rpc = "read_data"   -> ServeReadData(d, q)
      [] q.rpc = "write_data"  -> ServeWriteData(d, q)
      [] q.rpc = "truncate"    -> ServeTruncate(d, q)
      [] q.rpc = "flush"       -> ServeFlush(d, q)
      [] q.rpc = "delete_data" -> ServeDeleteData(d, q)

-----------------------------------------------------------------------------
(* What a stub returns for a reply: map_error of its client.               *)

Result(q, r) ==
    [r EXCEPT !.err = IF q.rpc \in DataRpcs THEN DataError[@] ELSE MetadataError[@]]

=============================================================================
