------------------------------ MODULE FsErrors ------------------------------
(***************************************************************************)
(* The errors of RucksFS and the three conversions an error goes through   *)
(* on its way from a server to the application: FsError to gRPC status     *)
(* (rpc/src/*_server.rs), gRPC status to FsError (rpc/src/*_client.rs) and *)
(* FsError to errno (client/src/fuse.rs).  Each is a function, written as  *)
(* a record indexed by the error's name; messages are left out.            *)
(***************************************************************************)

\* The variants of enum FsError.
FsError == {"NotImplemented", "NotFound", "AlreadyExists", "NotADirectory", "IsADirectory",
            "DirectoryNotEmpty", "NameTooLong", "Io", "InvalidInput", "PermissionDenied",
            "TransactionConflict", "Other"}

\* No error.
Fine == "ok"

\* map_error of the metadata service: the status of an error.
MetadataStatus ==
    [NotFound            |-> "not_found",         PermissionDenied  |-> "permission_denied",
     InvalidInput        |-> "invalid_argument",  Io                |-> "internal",
     NotImplemented      |-> "unimplemented",     AlreadyExists     |-> "already_exists",
     NotADirectory       |-> "invalid_argument",  IsADirectory      |-> "invalid_argument",
     DirectoryNotEmpty   |-> "failed_precondition", NameTooLong     |-> "out_of_range",
     TransactionConflict |-> "aborted",           Other             |-> "internal",
     ok                  |-> Fine]

\* map_error of the data service: what it does not name is internal.
DataStatus ==
    [e \in FsError \cup {Fine} |->
        IF e \in {"NotFound", "PermissionDenied", "InvalidInput", "NotImplemented", Fine}
        THEN MetadataStatus[e] ELSE "internal"]

\* A broken connection; tonic answers the caller itself.
Unavailable == "unavailable"

Statuses == {MetadataStatus[e] : e \in FsError} \cup {"unauthenticated", Unavailable}

\* Mutant: a status the client does not know is taken for a missing file.
MetadataErrorUnknown ==
    [not_found |-> "NotFound", permission_denied |-> "PermissionDenied",
     invalid_argument |-> "InvalidInput", unauthenticated |-> "PermissionDenied",
     unimplemented |-> "NotImplemented", already_exists |-> "AlreadyExists",
     failed_precondition |-> "DirectoryNotEmpty", aborted |-> "TransactionConflict",
     out_of_range |-> "NameTooLong", internal |-> "NotFound", unavailable |-> "NotFound",
     ok |-> Fine]

\* map_error of the metadata client; every other status is an Io error.
MetadataError ==
    [not_found           |-> "NotFound",          permission_denied |-> "PermissionDenied",
     invalid_argument    |-> "InvalidInput",      unauthenticated   |-> "PermissionDenied",
     unimplemented       |-> "NotImplemented",    already_exists    |-> "AlreadyExists",
     failed_precondition |-> "DirectoryNotEmpty", aborted           |-> "TransactionConflict",
     out_of_range        |-> "NameTooLong",       internal          |-> "Io",
     unavailable         |-> "Io",                ok                |-> Fine]

\* map_error of the data client.
DataError ==
    [c \in Statuses \cup {Fine} |->
        IF c \in {"not_found", "permission_denied", "invalid_argument", "unimplemented", Fine}
        THEN MetadataError[c] ELSE "Io"]

\* fs_error_to_errno.
Errno ==
    [NotImplemented |-> "EOPNOTSUPP", NotFound          |-> "ENOENT",
     AlreadyExists  |-> "EEXIST",     NotADirectory     |-> "ENOTDIR",
     IsADirectory   |-> "EISDIR",     DirectoryNotEmpty |-> "ENOTEMPTY",
     NameTooLong    |-> "ENAMETOOLONG", Io              |-> "EIO",
     InvalidInput   |-> "EINVAL",     PermissionDenied  |-> "EPERM",
     TransactionConflict |-> "EAGAIN", Other            |-> "EIO",
     ok             |-> Fine]

=============================================================================
