---------------------------- MODULE AtomicFile ----------------------------
(***************************************************************************)
(* What callers of write, setattr, fallocate and open may expect of one    *)
(* file (VfsOps in core/src/lib.rs): each operation that has returned took *)
(* effect at one instant between its call and its return.  An operation    *)
(* that returned an error took effect completely or not at all.            *)
(***************************************************************************)
EXTENDS Integers, SequencesExt

CONSTANTS
    MaxFileSize,  \* blocks of a file that can hold data
    Hole          \* what a block holds that was never written

Blocks == 0..(MaxFileSize - 1)

Empty == [size |-> 0, blocks |-> [b \in Blocks |-> Hole]]

\* The file cut or extended with holes to n blocks.
Resize(file, n) ==
    [size |-> n, blocks |-> [b \in Blocks |-> IF b < n THEN file.blocks[b] ELSE Hole]]

\* The file after operation r.
Apply(file, r) ==
    CASE r.op = "write" ->
             [size   |-> Max({file.size, r.at + r.len}),
              blocks |-> [b \in Blocks |-> IF b \in r.at..(r.at + r.len - 1)
                                           THEN <<r.f, r.id>> ELSE file.blocks[b]]]
      [] r.op = "setattr"    -> Resize(file, r.at)
      [] r.op = "fallocate"  -> Resize(file, Max({file.size, r.at}))
      [] r.op = "open_trunc" -> Resize(file, 0)
      [] r.op = "open"       -> file

\* The orders of the operations R in which no operation precedes one that
\* had returned before it was called.
Orders(R) ==
    {s \in SetToSeqs(R) : \A i, j \in DOMAIN s : i < j => s[j].id \notin s[i].before}

\* The files that the finished operations R may have left behind.
Outcomes(R) ==
    LET Ok == {r \in R : r.ok} IN
    {FoldLeft(Apply, Empty, s) : s \in UNION {Orders(Ok \cup F) : F \in SUBSET (R \ Ok)}}

=============================================================================
