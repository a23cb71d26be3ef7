---------------------------- MODULE MetadataOps ----------------------------
(***************************************************************************)
(* What the metadata server answers to one request: every method of the    *)
(* trait MetadataOps, as server/src/lib.rs implements it, is an operator   *)
(* from the server's state and the arguments to the next state and the     *)
(* reply.  All a method commits it commits in one transaction, which is    *)
(* one step; open, create_and_open, unlink and release also change a table *)
(* in memory before or after it, and that is a step of its own (Rest),     *)
(* with requests of others in between.  unlink looks at open_handles while *)
(* it holds the row lock, as a part of its first step.  The steps inside a *)
(* transaction are the subject of MetadataServer and DeltaCompaction.      *)
(*                                                                         *)
(* The state is a record.  Inode numbers are never reused while the server *)
(* runs (InodeAllocator), so kind may be kept when a row is removed.       *)
(* Owners, permission bits and times are left out.                         *)
(***************************************************************************)
EXTENDS Integers, FiniteSets, SequencesExt, FsErrors

CONSTANTS
    MaxInode,   \* bound: inode numbers
    Names,      \* names of at most NAME_MAX bytes, as numbers in key order
    LongNames   \* names beyond NAME_MAX

ASSUME NamesAssumption ==
    /\ MaxInode \in Nat \ {0}
    /\ Names \subseteq Nat /\ LongNames \subseteq Nat
    /\ Names \cap LongNames = {}

Root    == 1
Inodes  == 1..MaxInode
NoInode == 0
NoSize  == -1    \* a size that is not given: None

Kinds == {"none", "dir", "file", "symlink"}

\* The state of a server: rows, directory entries, next number, the two tables.
\*   live     rows of the inodes column family      kind   type bits of the mode
\*   nlink    link count, deltas folded in          size   size in the row
\*   entry    entry[p][n]: the child, or NoInode    next   next_inode
\*   handles  open_handles                          pending  pending_deletes
NoReply == [err |-> Fine, ino |-> NoInode, size |-> 0, purged |-> {},
            truncate |-> NoSize, names |-> << >>]

\* What a handler has yet to do after its first step, with inode ino.
NoRest == [todo |-> "none", ino |-> NoInode]

\* State and reply, with or without a second step before the reply is sent.
Then(s, r, todo, i) == [s |-> s, r |-> r, rest |-> [todo |-> todo, ino |-> i]]
Reply(s, r)         == [s |-> s, r |-> r, rest |-> NoRest]

Fail(s, e) == Reply(s, [NoReply EXCEPT !.err = e])

\* Ok(attr) of inode i.
Attr(s, i) == Reply(s, [NoReply EXCEPT !.ino = i, !.size = s.size[i]])

IsDir(s, i) == s.kind[i] = "dir"

\* validate_name.
TooLong(n) == n \in LongNames

\* The folded link count after an IncrementNlink delta of directory p.
AddNlink(s, nlink, p, k) ==
    IF p \in s.live THEN [nlink EXCEPT ![p] = @ + k] ELSE nlink

-----------------------------------------------------------------------------
(* Queries.                                                                *)

\* load_inode: the row with its deltas folded in.
Getattr(s, i) == IF i \in s.live THEN Attr(s, i) ELSE Fail(s, "NotFound")

Lookup(s, p, n) ==
    IF TooLong(n) THEN Fail(s, "NameTooLong")
    ELSE IF s.entry[p][n] = NoInode THEN Fail(s, "NotFound")
    ELSE Getattr(s, s.entry[p][n])

\* The names in directory p.
NamesIn(s, p) == {n \in Names : s.entry[p][n] # NoInode}

\* list_dir: the names of the entries, in key order.
Listing(s, i) == SetToSortSeq(NamesIn(s, i), <)

Readdir(s, i) ==
    IF i \notin s.live THEN Fail(s, "NotFound")
    ELSE IF ~IsDir(s, i) THEN Fail(s, "NotADirectory")
    ELSE Reply(s, [NoReply EXCEPT !.names = Listing(s, i)])

\* A symlink row is written in the transaction that writes its target.
Readlink(s, i) ==
    IF i \notin s.live THEN Fail(s, "NotFound")
    ELSE IF s.kind[i] # "symlink" THEN Fail(s, "InvalidInput")
    ELSE Reply(s, NoReply)

\* statfs: constants, whatever the inode.
Statfs(s, i) == Reply(s, NoReply)

-----------------------------------------------------------------------------
(* create, mkdir and symlink differ in the row they write and in the link  *)
(* the child directory holds on its parent.  None looks at the parent.     *)

\* The state with a new inode of kind k as entry n of p.
NewInode(s, p, n, k) ==
    LET i == s.next IN
    [s EXCEPT !.live  = @ \cup {i},
              !.kind  = [@ EXCEPT ![i] = k],
              !.nlink = AddNlink(s, [@ EXCEPT ![i] = IF k = "dir" THEN 2 ELSE 1],
                                 p, IF k = "dir" THEN 1 ELSE 0),
              !.size  = [@ EXCEPT ![i] = IF k = "symlink" THEN 1 ELSE 0],
              !.entry = [@ EXCEPT ![p][n] = i],
              !.next  = i + 1]

MakeEntry(s, p, n, k) ==
    IF TooLong(n) THEN Fail(s, "NameTooLong")
    ELSE IF s.entry[p][n] # NoInode THEN Fail(s, "AlreadyExists")
    ELSE Attr(NewInode(s, p, n, k), s.next)

Create(s, p, n)  == MakeEntry(s, p, n, "file")
Mkdir(s, p, n)   == MakeEntry(s, p, n, "dir")
Symlink(s, p, n) == MakeEntry(s, p, n, "symlink")

\* create, then one handle more for the new file.
CreateAndOpen(s, p, n) ==
    LET c == Create(s, p, n) IN
    IF c.r.err # Fine THEN c ELSE Then(c.s, c.r, "count", c.r.ino)

-----------------------------------------------------------------------------
(* Removing entries.                                                       *)

Purged(i) == [NoReply EXCEPT !.purged = {i}]

\* has_handles: the deletion waits for the last release.
Defer(s, i) == s.handles[i] > 0

\* The last name of an open file leaves the row with nlink 0 and, after the
\* commit, a pending delete; that of a closed one removes the row and hands its
\* data to the client to delete.
Unlink(s, p, n) ==
    IF TooLong(n) THEN Fail(s, "NameTooLong")
    ELSE IF s.entry[p][n] = NoInode THEN Fail(s, "NotFound")
    ELSE LET i  == s.entry[p][n]
             s1 == [s EXCEPT !.entry = [@ EXCEPT ![p][n] = NoInode],
                             !.nlink = [@ EXCEPT ![i] = IF @ = 0 THEN 0 ELSE @ - 1]]
         IN
    IF IsDir(s, i) THEN Fail(s, "IsADirectory")
    ELSE IF i \notin s.live THEN Fail(s, "NotFound")
    ELSE IF s1.nlink[i] > 0 THEN Reply(s1, NoReply)
    ELSE IF Defer(s, i) THEN Then(s1, NoReply, "defer", i)
    ELSE Reply([s1 EXCEPT !.live = @ \ {i}], Purged(i))

Rmdir(s, p, n) ==
    IF TooLong(n) THEN Fail(s, "NameTooLong")
    ELSE IF s.entry[p][n] = NoInode THEN Fail(s, "NotFound")
    ELSE LET i == s.entry[p][n] IN
    IF ~IsDir(s, i) THEN Fail(s, "NotADirectory")
    ELSE IF i \notin s.live THEN Fail(s, "NotFound")
    ELSE IF NamesIn(s, i) # {} THEN Fail(s, "DirectoryNotEmpty")
    ELSE Reply([s EXCEPT !.entry = [@ EXCEPT ![p][n] = NoInode],
                         !.live  = @ \ {i},
                         !.nlink = AddNlink(s, @, p, -1)], NoReply)

\* rename: the errors, in the order in which the code finds them.
RenameError(s, p, n, q, m) ==
    LET i == s.entry[p][n]
        j == s.entry[q][m]
    IN
    IF i = NoInode \/ i \notin s.live THEN "NotFound"
    ELSE IF j = NoInode THEN Fine
    ELSE IF IsDir(s, i) /\ ~IsDir(s, j) THEN "NotADirectory"
    ELSE IF ~IsDir(s, i) /\ IsDir(s, j) THEN "IsADirectory"
    ELSE IF IsDir(s, j) /\ NamesIn(s, j) # {} THEN "DirectoryNotEmpty"
    ELSE IF ~IsDir(s, j) /\ j \notin s.live THEN "NotFound"
    ELSE Fine

\* A replaced file loses a link or, with its last one, its row: handles are
\* not looked at.  The row of a replaced directory stays.  The source row is
\* written back as it was read, after the target's.
Rename(s, p, n, q, m) ==
    IF TooLong(n) \/ TooLong(m) THEN Fail(s, "NameTooLong")
    ELSE IF RenameError(s, p, n, q, m) # Fine THEN Fail(s, RenameError(s, p, n, q, m))
    ELSE LET i     == s.entry[p][n]
             j     == s.entry[q][m]
             file  == j # NoInode /\ ~IsDir(s, j)
             gone  == IF file /\ s.nlink[j] <= 1 THEN {j} ELSE {}
             moved == IsDir(s, i) /\ p # q
             n1 == IF file /\ s.nlink[j] > 1 THEN [s.nlink EXCEPT ![j] = @ - 1] ELSE s.nlink
             n2 == [n1 EXCEPT ![i] = s.nlink[i]]
             n3 == AddNlink(s, n2, q, IF j # NoInode /\ IsDir(s, j) THEN -1 ELSE 0)
             n4 == AddNlink(s, AddNlink(s, n3, p, IF moved THEN -1 ELSE 0),
                            q, IF moved THEN 1 ELSE 0)
         IN Reply([s EXCEPT !.entry = [@ EXCEPT ![p][n] = NoInode, ![q][m] = i],
                            !.live  = (@ \ gone) \cup {i},
                            !.nlink = n4],
                  [NoReply EXCEPT !.purged = gone])

-----------------------------------------------------------------------------
(* Links, attributes and handles.                                          *)

Link(s, p, n, i) ==
    IF TooLong(n) THEN Fail(s, "NameTooLong")
    ELSE IF i \notin s.live THEN Fail(s, "NotFound")
    ELSE IF IsDir(s, i) THEN Fail(s, "PermissionDenied")
    ELSE IF s.entry[p][n] # NoInode THEN Fail(s, "AlreadyExists")
    ELSE IF p \notin s.live THEN Fail(s, "NotFound")
    ELSE IF ~IsDir(s, p) THEN Fail(s, "NotADirectory")
    ELSE Attr([s EXCEPT !.nlink = [@ EXCEPT ![i] = @ + 1],
                        !.entry = [@ EXCEPT ![p][n] = i]], i)

\* Mutant: a size that is not given is taken for one.
SetattrNone(s, i, size) ==
    IF i \notin s.live THEN Fail(s, "NotFound")
    ELSE Reply([s EXCEPT !.size = [@ EXCEPT ![i] = size]], [NoReply EXCEPT !.ino = i])

\* A smaller size asks the client to truncate the data; a larger one does not.
Setattr(s, i, size) ==
    IF i \notin s.live THEN Fail(s, "NotFound")
    ELSE LET s1 == IF size = NoSize THEN s ELSE [s EXCEPT !.size = [@ EXCEPT ![i] = size]]
         IN Reply(s1, [NoReply EXCEPT !.ino = i, !.size = s1.size[i],
                           !.truncate = IF s1.size[i] < s.size[i] THEN size ELSE NoSize])

ReportWrite(s, i, end) ==
    IF i \notin s.live THEN Fail(s, "NotFound")
    ELSE Reply([s EXCEPT !.size = [@ EXCEPT ![i] = IF end > @ THEN end ELSE @]], NoReply)

\* open, with or without O_TRUNC; the handle, which is the inode number, is
\* counted after the row was read or rewritten.
Open(s, i, trunc) ==
    IF i \notin s.live THEN Fail(s, "NotFound")
    ELSE IF IsDir(s, i) THEN Fail(s, "IsADirectory")
    ELSE Then([s EXCEPT !.size = [@ EXCEPT ![i] = IF trunc THEN 0 ELSE @]],
              [NoReply EXCEPT !.ino = i], "count", i)

\* The tables after check_and_clear_deferred_delete.
Closed(s, i) ==
    IF s.handles[i] = 0 THEN s
    ELSE [s EXCEPT !.handles = [@ EXCEPT ![i] = @ - 1],
                   !.pending = IF s.handles[i] = 1 THEN @ \ {i} ELSE @]

\* release: the tables first; if that was the last handle of a file that waits
\* for its deletion, a transaction deletes the row.
Release(s, i) ==
    IF s.handles[i] = 1 /\ i \in s.pending
    THEN Then(Closed(s, i), Purged(i), "delete", i)
    ELSE Reply(Closed(s, i), NoReply)

\* The second step of a handler.
Rest(s, x) ==
    CASE x.todo = "count"  -> [s EXCEPT !.handles = [@ EXCEPT ![x.ino] = @ + 1]]
      [] x.todo = "defer"  -> [s EXCEPT !.pending = @ \cup {x.ino}]
      [] x.todo = "delete" -> [s EXCEPT !.live = @ \ {x.ino}]

=============================================================================
