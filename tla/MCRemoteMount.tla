--------------------------- MODULE MCRemoteMount ---------------------------
(***************************************************************************)
(* Finite instances of RemoteMount.                                        *)
(***************************************************************************)
EXTENDS RemoteMount, TLC

\* Files and names; descriptors; queries and special files; directory streams.
TheMixes ==
    {{"create", "unlink", "rename", "open", "write", "release", "link"},
     {"open", "write", "setattr", "fallocate", "flush", "fsync", "read", "release", "rename", "unlink"},
     {"lookup", "getattr", "access", "statfs", "readlink", "readdir", "mknod", "symlink", "mkdir",
      "rmdir", "rename"},
     {"opendir", "readdirplus", "releasedir", "mkdir", "unlink", "rmdir"}}

\* Every request.
EveryRpc == Mutating \cup DataRpcs \cup {"create_and_open", "open", "release"}

\* The calls whose requests may be under way together.
Overlapping == {"open", "create", "write", "unlink", "rename", "setattr"}

MountSymmetry == Permutations(Threads) \cup Permutations(Slots)

=============================================================================
