--------------------------- MODULE InodeAllocator ---------------------------
(***************************************************************************)
(* The inode allocator of storage/src/allocator.rs as server/src/lib.rs    *)
(* uses it: create, mkdir and symlink take a number from the in-memory     *)
(* counter inside their transaction, commit the inode row under it, and    *)
(* then call maybe_persist, which reads the counter again and stores it    *)
(* when it is a multiple of PERSIST_INTERVAL.  A restart loads the stored  *)
(* value; nothing else saves the counter, a clean shutdown included.       *)
(***************************************************************************)
EXTENDS Naturals

CONSTANTS
    Threads,     \* request handler threads
    Interval,    \* PERSIST_INTERVAL
    MaxInode,    \* bound: the largest number handed out
    MaxRestarts  \* bound: restarts

FIRST_ALLOC_INODE == 2
Absent == 0                       \* no counter is stored

ASSUME AllocatorAssumption ==
    /\ Interval \in Nat \ {0}
    /\ MaxInode \in Nat
    /\ MaxRestarts \in Nat

VARIABLES
    next,       \* InodeAllocator::next
    persisted,  \* value of the next_inode key, or Absent
    pc,         \* control state of each thread
    mine,       \* number each thread allocated
    val,        \* counter value a thread read in maybe_persist
    run,        \* history: numbers whose row was committed since the start
    before,     \* history: numbers whose row was committed by earlier runs
    restarts    \* restarts so far

vars == <<next, persisted, pc, mine, val, run, before, restarts>>

Goto(t, label) == pc' = [pc EXCEPT ![t] = label]

Return(t) ==
    /\ Goto(t, "idle")
    /\ mine' = [mine EXCEPT ![t] = 0]
    /\ val' = [val EXCEPT ![t] = 0]

\* InodeAllocator::load
Load == IF persisted = Absent THEN FIRST_ALLOC_INODE ELSE persisted

Init ==
    /\ next = FIRST_ALLOC_INODE
    /\ persisted = Absent
    /\ pc = [t \in Threads |-> "idle"]
    /\ mine = [t \in Threads |-> 0]
    /\ val = [t \in Threads |-> 0]
    /\ run = {}
    /\ before = {}
    /\ restarts = 0

\* Mutant of Alloc: the counter is loaded and stored, and an increment is lost
\* when another request is under way.
AllocTorn(t) ==
    /\ pc[t] = "idle"
    /\ next <= MaxInode
    /\ mine' = [mine EXCEPT ![t] = next]
    /\ next' = IF \E u \in Threads : pc[u] = "commit" THEN next ELSE next + 1
    /\ Goto(t, "commit")
    /\ UNCHANGED <<persisted, val, run, before, restarts>>

\* fetch_add
Alloc(t) ==
    /\ pc[t] = "idle"
    /\ next <= MaxInode
    /\ mine' = [mine EXCEPT ![t] = next]
    /\ next' = next + 1
    /\ Goto(t, "commit")
    /\ UNCHANGED <<persisted, val, run, before, restarts>>

Commit(t) ==
    /\ pc[t] = "commit"
    /\ run' = run \cup {mine[t]}
    /\ Goto(t, "load")
    /\ UNCHANGED <<next, persisted, mine, val, before, restarts>>

\* The transaction fails; a retry allocates again.
CommitFails(t) ==
    /\ pc[t] = "commit"
    /\ Return(t)
    /\ UNCHANGED <<next, persisted, run, before, restarts>>

\* maybe_persist reads the counter, which others may have moved on since Alloc.
LoadCounter(t) ==
    /\ pc[t] = "load"
    /\ IF next % Interval = 0
       THEN Goto(t, "put") /\ val' = [val EXCEPT ![t] = next] /\ UNCHANGED mine
       ELSE Return(t)
    /\ UNCHANGED <<next, persisted, run, before, restarts>>

Put(t) ==
    /\ pc[t] = "put"
    /\ persisted' = val[t]
    /\ Return(t)
    /\ UNCHANGED <<next, run, before, restarts>>

\* The store refuses; the request reports an error although its row is there.
PutFails(t) ==
    /\ pc[t] = "put"
    /\ Return(t)
    /\ UNCHANGED <<next, persisted, run, before, restarts>>

\* A crash or a shutdown, and MetadataServer::new on the same store.
Restart ==
    /\ restarts < MaxRestarts
    /\ restarts' = restarts + 1
    /\ next' = Load
    /\ pc' = [t \in Threads |-> "idle"]
    /\ before' = before \cup run
    /\ run' = {}
    /\ mine' = [t \in Threads |-> 0]
    /\ val' = [t \in Threads |-> 0]
    /\ UNCHANGED persisted

Next ==
    \/ Restart
    \/ \E t \in Threads :
          \/ Alloc(t) \/ Commit(t) \/ CommitFails(t)
          \/ LoadCounter(t) \/ Put(t) \/ PutFails(t)

Spec == Init /\ [][Next]_vars

\* Phase 5 of fsck.rs: the stored counter is not above every inode row.
FsckCounter == persisted # Absent /\ \E i \in run \cup before : persisted <= i

----------------------------------------------------------------------------
(* Properties *)

\* The counters and the threads' local variables have their types.
TypeOK ==
    /\ next \in Nat /\ next >= FIRST_ALLOC_INODE
    /\ persisted \in Nat
    /\ pc \in [Threads -> {"idle", "commit", "load", "put"}]
    /\ mine \in [Threads -> Nat]
    /\ val \in [Threads -> Nat]
    /\ run \subseteq Nat
    /\ before \subseteq Nat
    /\ restarts \in 0..MaxRestarts

\* Between two restarts no number is given out twice: what a thread is about to
\* commit is neither committed nor about to be committed by another (alloc).
UniqueInRun ==
    \A t \in Threads : pc[t] = "commit" =>
        /\ mine[t] \notin run
        /\ \A u \in Threads \ {t} : pc[u] = "commit" => mine[u] # mine[t]

\* rawdisk.rs: inode numbers are never reused.
NeverReused == run \cap before = {}

\* fsck_test.rs: a store that only served creations, and that nothing damaged,
\* has no CounterInconsistency once its requests are over.
CounterClean == (\A t \in Threads : pc[t] = "idle") => ~FsckCounter

\* design.md, Reclamation Strategy: the counter only moves forward.
CounterForward == [][persisted' >= persisted]_persisted

=============================================================================
