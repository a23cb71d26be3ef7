---------------------- MODULE DeltaHandlers_proofs ----------------------
(***************************************************************************)
(* The steps of a request that write rows or take the row lock preserve    *)
(* the invariant of delta compaction.                                      *)
(***************************************************************************)
EXTENDS DeltaRows_proofs

\* A new delta takes a sequence number above every committed, pending and
\* uncommitted one of this run of the process.
LEMMA InvPushDelta ==
    ASSUME Inv, NEW t \in Threads, PushDelta(t)
    PROVE  Inv'
<1> USE DEF Inv, store, worker, history
<1> DEFINE new == [seq |-> nextSeq, epoch |-> epoch, inc |-> Head(todo[t])]
<1>1. todo[t] \in Seq({-1, 0, 1}) /\ todo[t] # <<>>
  BY DEF PushDelta, LedgerInv, RowTypes
<1>2. /\ Head(todo[t]) \in {-1, 0, 1}
      /\ Tail(todo[t]) \in Seq({-1, 0, 1})
      /\ Len(todo[t]) # 1 => Tail(todo[t]) # <<>>
  <2> DEFINE q == todo[t]
  <2>1. q \in Seq({-1, 0, 1}) /\ q # <<>>
    BY <1>1
  <2> HIDE DEF q
  <2>2. Len(q) \in Nat /\ Len(q) # 0
    BY <2>1
  <2>3. Head(q) \in {-1, 0, 1} /\ Tail(q) \in Seq({-1, 0, 1})
    BY <2>1
  <2>4. Len(Tail(q)) = Len(q) - 1
    BY <2>1
  <2>5. Len(<<>>) = 0
    OBVIOUS
  <2>6. Len(q) # 1 => Tail(q) # <<>>
    BY <2>2, <2>4, <2>5
  <2> QED
    BY <2>3, <2>6 DEF q
<1>3. IsDelta(new)
  BY <1>2 DEF IsDelta, RowTypes
<1>4. /\ writes' = [writes EXCEPT ![t] = @ \cup {new}]
      /\ nextSeq' = nextSeq + 1
  BY SMTT(30) DEF PushDelta
<1>5. RowTypes'
  BY SMTT(30), <1>2, <1>3, <1>4 DEF RowTypes, PushDelta, IsFolded
<1>6. Id(new) \notin committed
  BY SMTT(30) DEF LedgerInv, Id, RowTypes
<1>7. LedgerInv'
  <2>1. \A d \in deltas' : Id(d) \in committed' /\ d.seq < nextSeq'
    BY DEF LedgerInv, PushDelta, RowTypes, IsDelta
  <2>2. \A i \in committed' : i[1] <= epoch' /\ (i[1] = epoch' => i[2] < nextSeq')
    BY SMTT(30) DEF LedgerInv, PushDelta, RowTypes
  <2>3. \A u \in Threads : InTxn(u)' => InTxn(u)
    BY DEF InTxn, PushDelta, RowTypes
  <2>4. ASSUME NEW u \in Threads, InTxn(u)', NEW d \in writes'[u]
        PROVE  /\ d.epoch = epoch' /\ d.seq < nextSeq'
               /\ Id(d) \notin committed'
               /\ \A e \in deltas' : e.seq # d.seq
    <3>1. CASE d \in writes[u]
      BY SMTT(30), <3>1, <2>3, <2>4 DEF LedgerInv, PushDelta, RowTypes, IsDelta
    <3>2. CASE d = new
      BY <3>2, <1>6 DEF LedgerInv, PushDelta, RowTypes, IsDelta
    <3> QED
      BY SMTT(30), <3>1, <3>2, <2>4, <1>4 DEF RowTypes
  <2>5. ASSUME NEW u \in Threads, InTxn(u)', NEW d \in writes'[u],
               NEW v \in Threads, InTxn(v)', NEW e \in writes'[v], d.seq = e.seq
        PROVE  u = v /\ d = e
    <3>1. \A w \in Threads : InTxn(w) => \A x \in writes[w] : x.seq < nextSeq /\ x.seq \in Nat
      BY DEF LedgerInv, RowTypes, IsDelta
    <3>2. \A w \in Threads : \A x \in writes'[w] : x \in writes[w] \/ (w = t /\ x = new)
      BY <1>4 DEF RowTypes
    <3>3. CASE d \in writes[u] /\ e \in writes[v]
      BY <3>3, <2>3, <2>5 DEF LedgerInv
    <3> QED
      BY SMTT(30), <3>1, <3>2, <3>3, <2>3, <2>5 DEF RowTypes
  <2>6. \A u \in Threads :
          /\ pc'[u] \notin {"push", "commit", "patch", "mark"} => writes'[u] = {}
          /\ pc'[u] = "push" => todo'[u] # <<>>
          /\ pc'[u] = "setCommit" => lock' = u /\ val'[u] = base'
    BY <1>1, <1>2 DEF LedgerInv, PushDelta, RowTypes
  <2>7. /\ deltas' = deltas /\ base' = base /\ lock' = lock
        /\ wpc' = wpc /\ wscan' = wscan /\ wval' = wval
    BY DEF PushDelta
  <2>8. /\ \A d, e \in deltas' : d.seq = e.seq => d = e
        /\ wpc' \in {"lock", "commit"} => wscan' \subseteq deltas'
        /\ wpc' = "commit" => lock' = Worker /\ wval' = base'
    BY SMTT(30), <2>7 DEF LedgerInv
  <2> HIDE DEF Inv, store, worker, history
  <2> QED
    BY <2>1, <2>2, <2>4, <2>5, <2>6, <2>8 DEF LedgerInv
<1>8. ExactlyOnce'
  BY DEF ExactlyOnce, PushDelta
<1> QED
  BY <1>5, <1>7, <1>8

\* A commit adds fresh rows only: it overwrites none and disturbs no batch of
\* another thread.
LEMMA InvCommit ==
    ASSUME Inv, NEW t \in Threads, Commit(t)
    PROVE  Inv'
<1> USE DEF Inv, memory, worker
<1> DEFINE W == writes[t]
<1>1. InTxn(t)
  BY DEF Commit, InTxn
<1>2. /\ \A d \in W : IsDelta(d) /\ d.epoch = epoch /\ d.seq < nextSeq /\ Id(d) \notin committed
      /\ \A d \in W : \A e \in deltas : e.seq # d.seq
  BY <1>1 DEF LedgerInv, RowTypes
<1>3. deltas' = deltas \cup W
  BY <1>2 DEF Commit, PutRows, Seqs
<1>4. committed' = committed \cup Ids(W) /\ UNCHANGED <<base, lock, nextSeq, epoch>>
  BY DEF Commit
<1>5. Ids(W) \subseteq Nat \X Nat
  BY SMTT(30), <1>2 DEF Ids, Id, IsDelta
<1>6. RowTypes'
  BY SMTT(30), <1>2, <1>3, <1>4, <1>5 DEF RowTypes, Commit, IsFolded
<1>7. LedgerInv'
  <2>1. \A d \in deltas' : Id(d) \in committed' /\ d.seq < nextSeq'
    BY <1>2, <1>3, <1>4 DEF LedgerInv, Ids
  <2>2. \A d, e \in deltas' : d.seq = e.seq => d = e
    BY SMTT(30), <1>1, <1>2, <1>3 DEF LedgerInv
  <2>3. \A i \in committed' : i[1] <= epoch' /\ (i[1] = epoch' => i[2] < nextSeq')
    BY SMTT(30), <1>2, <1>4 DEF LedgerInv, Ids, Id, RowTypes
  <2>4. \A u \in Threads : InTxn(u)' => InTxn(u) /\ u # t
    BY SMTT(30) DEF InTxn, Commit, RowTypes
  <2>5. ASSUME NEW u \in Threads, InTxn(u)', NEW d \in writes'[u]
        PROVE  /\ d.epoch = epoch' /\ d.seq < nextSeq'
               /\ Id(d) \notin committed'
               /\ \A e \in deltas' : e.seq # d.seq
               /\ \A v \in Threads : InTxn(v)' =>
                    \A e \in writes'[v] : d.seq = e.seq => u = v /\ d = e
    <3>1. writes' = writes /\ InTxn(u) /\ u # t
      BY SMTT(30), <2>4, <2>5 DEF Commit
    <3>2. \A e \in W : e.seq # d.seq
      BY <1>1, <3>1, <2>5 DEF LedgerInv
    <3>3. Id(d) \notin Ids(W)
      BY SMTT(30), <3>2 DEF Ids, Id
    <3> QED
      BY <1>3, <1>4, <2>4, <2>5, <3>1, <3>2, <3>3 DEF LedgerInv
  <2>6. \A u \in Threads :
          /\ pc'[u] \notin {"push", "commit", "patch", "mark"} => writes'[u] = {}
          /\ pc'[u] = "push" => todo'[u] # <<>>
          /\ pc'[u] = "setCommit" => lock' = u /\ val'[u] = base'
    BY SMTT(30) DEF LedgerInv, Commit, RowTypes
  <2>7. /\ wpc' \in {"lock", "commit"} => wscan' \subseteq deltas'
        /\ wpc' = "commit" => lock' = Worker /\ wval' = base'
    BY SMTT(30), <1>3 DEF LedgerInv, Commit
  <2> QED
    BY <2>1, <2>2, <2>3, <2>5, <2>6, <2>7 DEF LedgerInv
<1>8. ExactlyOnce'
  <2>1. Ids(deltas') = Ids(deltas) \cup Ids(W)
    BY SMTT(30), <1>3 DEF Ids
  <2>2. Ids(W) \cap DOMAIN base.folded = {}
    BY <1>2 DEF Ids, RowTypes, IsFolded
  <2> QED
    BY SMTT(30), <1>4, <2>1, <2>2 DEF ExactlyOnce
<1> QED
  BY <1>6, <1>7, <1>8

\* setattr locks the row, so what it writes back is what is stored.
LEMMA InvSetattr ==
    ASSUME Inv, NEW t \in Threads, SetLock(t) \/ SetCommit(t)
    PROVE  Inv'
<1> USE DEF Inv, memory, worker, history
<1>1. CASE SetLock(t)
  <2>1. RowTypes'
    BY <1>1 DEF RowTypes, SetLock, IsFolded
  <2>2. LedgerInv'
    <3>1. /\ UNCHANGED <<base, deltas, nextSeq, committed, epoch, writes, todo>>
          /\ UNCHANGED <<wpc, wscan, wval>>
          /\ lock = NoOwner /\ lock' = t
      BY <1>1 DEF SetLock
    <3>2. /\ pc[t] = "idle" /\ pc'[t] = "setCommit" /\ val'[t] = base
          /\ \A u \in Threads \ {t} : pc'[u] = pc[u] /\ val'[u] = val[u]
      BY <1>1 DEF SetLock, RowTypes
    <3>3. \A u \in Threads : InTxn(u)' <=> InTxn(u)
      BY <3>2 DEF InTxn
    <3>4. wpc # "commit" /\ \A u \in Threads : pc[u] # "setCommit"
      BY <3>1, ThreadsAssumption DEF LedgerInv
    <3>5. /\ \A d \in deltas' : Id(d) \in committed' /\ d.seq < nextSeq'
          /\ \A d, e \in deltas' : d.seq = e.seq => d = e
          /\ \A i \in committed' : i[1] <= epoch' /\ (i[1] = epoch' => i[2] < nextSeq')
      BY <3>1 DEF LedgerInv
    <3>6. ASSUME NEW u \in Threads
          PROVE  /\ pc'[u] \notin {"push", "commit", "patch", "mark"} => writes'[u] = {}
                 /\ pc'[u] = "push" => todo'[u] # <<>>
                 /\ pc'[u] = "setCommit" => lock' = u /\ val'[u] = base'
      BY <3>1, <3>2, <3>4 DEF LedgerInv
    <3>7. ASSUME NEW u \in Threads, InTxn(u)', NEW d \in writes'[u]
          PROVE  /\ d.epoch = epoch' /\ d.seq < nextSeq'
                 /\ Id(d) \notin committed'
                 /\ \A e \in deltas' : e.seq # d.seq
                 /\ \A v \in Threads : InTxn(v)' =>
                      \A e \in writes'[v] : d.seq = e.seq => u = v /\ d = e
      BY <3>1, <3>3, <3>7 DEF LedgerInv
    <3>8. /\ wpc' \in {"lock", "commit"} => wscan' \subseteq deltas'
          /\ wpc' = "commit" => lock' = Worker /\ wval' = base'
      BY <3>1, <3>4 DEF LedgerInv
    <3> HIDE DEF Inv, memory, worker, history
    <3> QED
      BY <3>5, <3>6, <3>7, <3>8 DEF LedgerInv
  <2>3. ExactlyOnce'
    BY ZenonT(30), <1>1 DEF ExactlyOnce, SetLock
  <2> QED
    BY SMTT(30), <2>1, <2>2, <2>3
<1>2. CASE SetCommit(t)
  <2>1. base' = base /\ lock = t
    BY ZenonT(30), <1>2 DEF SetCommit, LedgerInv
  <2>2. RowTypes'
    BY ZenonT(30), <1>2, <2>1 DEF RowTypes, SetCommit, IsFolded
  <2>3. LedgerInv'
    BY <1>2, <2>1, ThreadsAssumption DEF LedgerInv, SetCommit, InTxn, RowTypes
  <2>4. ExactlyOnce'
    BY ZenonT(30), <1>2, <2>1 DEF ExactlyOnce, SetCommit
  <2> QED
    BY <2>2, <2>3, <2>4
<1> QED
  BY <1>1, <1>2

=============================================================================
