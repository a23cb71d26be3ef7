----------------------- MODULE InodeAllocator_proofs -----------------------
(***************************************************************************)
(* Within one run of the process the allocator hands out each number once: *)
(* for any number of threads, any persist interval and any number of       *)
(* restarts.                                                               *)
(***************************************************************************)
EXTENDS InodeAllocator, TLAPS

\* Everything handed out since the start lies below the counter, and what is
\* stored, or about to be, is a number the allocator can start from.
Inv ==
    /\ TypeOK
    /\ UniqueInRun
    /\ persisted = Absent \/ persisted >= FIRST_ALLOC_INODE
    /\ \A n \in run : n < next
    /\ \A t \in Threads :
          /\ pc[t] = "commit" => mine[t] < next
          /\ pc[t] = "put" => val[t] >= FIRST_ALLOC_INODE

USE AllocatorAssumption DEF FIRST_ALLOC_INODE, Absent

\* Nothing is handed out yet.
LEMMA InvInit == Init => Inv
BY DEF Init, Inv, TypeOK, UniqueInRun

\* The fetch_add gives a thread a number no other has, below the new counter.
LEMMA InvAlloc ==
    ASSUME Inv, NEW t \in Threads, Alloc(t)
    PROVE  Inv'
<1>1. /\ next' = next + 1 /\ next \in Nat /\ next' \in Nat
      /\ mine' = [mine EXCEPT ![t] = next]
      /\ pc' = [pc EXCEPT ![t] = "commit"]
      /\ UNCHANGED <<persisted, val, run, before, restarts>>
    BY DEF Alloc, Inv, TypeOK, Goto
<1>2. TypeOK'
    BY <1>1 DEF Inv, TypeOK
<1>3. UniqueInRun'
    BY <1>1 DEF Inv, TypeOK, UniqueInRun
<1>4. /\ (persisted = Absent \/ persisted >= FIRST_ALLOC_INODE)'
      /\ (\A n \in run : n < next)'
    BY <1>1 DEF Inv, TypeOK
<1>5. \A u \in Threads :
          /\ pc'[u] = "commit" => mine'[u] < next'
          /\ pc'[u] = "put" => val'[u] >= FIRST_ALLOC_INODE
    BY <1>1 DEF Inv, TypeOK
<1> QED BY <1>2, <1>3, <1>4, <1>5 DEF Inv

\* A commit moves a thread's own number into the numbers of this run.
LEMMA InvCommit ==
    ASSUME Inv, NEW t \in Threads, Commit(t)
    PROVE  Inv'
<1>1. /\ run' = run \cup {mine[t]} /\ mine[t] < next /\ mine[t] \in Nat
      /\ pc[t] = "commit"
      /\ pc' = [pc EXCEPT ![t] = "load"]
      /\ UNCHANGED <<next, persisted, mine, val, before, restarts>>
    BY DEF Commit, Inv, TypeOK, Goto
<1>2. TypeOK'
    BY <1>1 DEF Inv, TypeOK
<1>3. UniqueInRun'
    BY <1>1 DEF Inv, TypeOK, UniqueInRun
<1>4. (\A n \in run : n < next)'
    BY <1>1 DEF Inv, TypeOK
<1>5. \A u \in Threads :
          /\ pc'[u] = "commit" => mine'[u] < next'
          /\ pc'[u] = "put" => val'[u] >= FIRST_ALLOC_INODE
    BY <1>1 DEF Inv, TypeOK
<1> QED BY <1>1, <1>2, <1>3, <1>4, <1>5 DEF Inv

\* maybe_persist reads the counter, or the request ends.
LEMMA InvLoadCounter ==
    ASSUME Inv, NEW t \in Threads, LoadCounter(t)
    PROVE  Inv'
<1>1. CASE next % Interval = 0
  <2>1. /\ pc' = [pc EXCEPT ![t] = "put"]
        /\ val' = [val EXCEPT ![t] = next]
        /\ UNCHANGED <<next, persisted, mine, run, before, restarts>>
      BY <1>1 DEF LoadCounter, Goto
  <2> QED BY <2>1 DEF Inv, TypeOK, UniqueInRun
<1>2. CASE next % Interval # 0
  <2>1. /\ pc' = [pc EXCEPT ![t] = "idle"]
        /\ val' = [val EXCEPT ![t] = 0]
        /\ mine' = [mine EXCEPT ![t] = 0]
        /\ UNCHANGED <<next, persisted, run, before, restarts>>
      BY <1>2 DEF LoadCounter, Goto, Return
  <2> QED BY <2>1 DEF Inv, TypeOK, UniqueInRun
<1> QED BY <1>1, <1>2

\* A request ends and stores what it read, or nothing.
LEMMA InvReturn ==
    ASSUME Inv, NEW t \in Threads, CommitFails(t) \/ Put(t) \/ PutFails(t)
    PROVE  Inv'
<1>1. /\ pc' = [pc EXCEPT ![t] = "idle"]
      /\ val' = [val EXCEPT ![t] = 0]
      /\ mine' = [mine EXCEPT ![t] = 0]
      /\ UNCHANGED <<next, run, before, restarts>>
    BY DEF CommitFails, Put, PutFails, Return, Goto
<1>2. persisted' = persisted \/ (persisted' = val[t] /\ pc[t] = "put")
    BY DEF CommitFails, Put, PutFails
<1>3. /\ persisted' \in Nat
      /\ persisted' = Absent \/ persisted' >= FIRST_ALLOC_INODE
    BY <1>1, <1>2 DEF Inv, TypeOK
<1> QED BY <1>1, <1>3 DEF Inv, TypeOK, UniqueInRun

\* A restart starts from the stored counter with nothing handed out.
LEMMA InvRestart ==
    ASSUME Inv, Restart
    PROVE  Inv'
<1>1. /\ next' = Load /\ persisted' = persisted /\ run' = {}
      /\ before' = before \cup run /\ restarts' = restarts + 1 /\ restarts < MaxRestarts
      /\ pc' = [t \in Threads |-> "idle"]
      /\ mine' = [t \in Threads |-> 0]
      /\ val' = [t \in Threads |-> 0]
    BY DEF Restart
<1>2. next' \in Nat /\ next' >= FIRST_ALLOC_INODE
    BY <1>1 DEF Load, Inv, TypeOK
<1>3. TypeOK'
    BY <1>1, <1>2 DEF Inv, TypeOK
<1> QED BY <1>1, <1>2, <1>3 DEF Inv, UniqueInRun

\* Inv holds in every reachable state of the allocator.
THEOREM InvAlways == Spec => []Inv
<1>1. Inv /\ [Next]_vars => Inv'
  <2> SUFFICES ASSUME Inv, [Next]_vars PROVE Inv'
      OBVIOUS
  <2>1. CASE Restart
      BY <2>1, InvRestart
  <2>2. ASSUME NEW t \in Threads, Alloc(t) PROVE Inv'
      BY <2>2, InvAlloc
  <2>3. ASSUME NEW t \in Threads, Commit(t) PROVE Inv'
      BY <2>3, InvCommit
  <2>4. ASSUME NEW t \in Threads, LoadCounter(t) PROVE Inv'
      BY <2>4, InvLoadCounter
  <2>5. ASSUME NEW t \in Threads, CommitFails(t) \/ Put(t) \/ PutFails(t) PROVE Inv'
      BY <2>5, InvReturn
  <2>6. CASE UNCHANGED vars
      BY <2>6 DEF vars, Inv, TypeOK, UniqueInRun
  <2> QED BY <2>1, <2>2, <2>3, <2>4, <2>5, <2>6 DEF Next
<1> QED BY InvInit, <1>1, PTL DEF Spec

\* InodeAllocator::alloc: between two restarts no number is given out twice.
THEOREM UniqueAlways == Spec => []UniqueInRun
<1>1. Inv => UniqueInRun
    BY DEF Inv
<1> QED BY InvAlways, <1>1, PTL

\* The counters and the local variables keep their types.
THEOREM TypesAlways == Spec => []TypeOK
<1>1. Inv => TypeOK
    BY DEF Inv
<1> QED BY InvAlways, <1>1, PTL

=============================================================================
