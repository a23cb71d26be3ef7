---------------------- MODULE DeltaRows_proofs ----------------------
(***************************************************************************)
(* The invariant behind the theorems about delta compaction, facts about   *)
(* delta rows, what a step must show to preserve the ledger, and the steps *)
(* of a request that write no row.                                         *)
(***************************************************************************)
EXTENDS DeltaCompaction, WellFoundedInduction, SequenceTheorems, TLAPS

\* Every natural-number set that is not empty has a least element.
LEMMA LeastNatural ==
    ASSUME NEW S, S \subseteq Nat, S # {}
    PROVE  \E m \in S : \A n \in S : m <= n
<1>1. PICK m \in S : \A n \in S : ~(<<n, m>> \in OpToRel(<, Nat))
  BY NatLessThanWellFounded, WFMin, Zenon
<1>2. \A n \in S : ~(n < m)
  BY ZenonT(30), <1>1 DEF OpToRel
<1> QED
  BY <1>2

\* A set of rows whose keys are bounded has a row with the largest key, so
\* recover_seqs yields a counter above every key on disk.
LEMMA LastRowIsLast ==
    ASSUME NEW D, \A d \in D : IsDelta(d), D # {},
           NEW b \in Nat, \A d \in D : d.seq < b
    PROVE  LastRow(D) \in D /\ \A d \in D : d.seq <= LastRow(D).seq
<1> DEFINE Bounds == {n \in Nat : \A d \in D : d.seq <= n}
<1>1. b \in Bounds
  BY DEF IsDelta
<1>2. PICK m \in Bounds : \A n \in Bounds : m <= n
  BY ZenonT(30), <1>1, LeastNatural
<1>3. \E d \in D : d.seq = m
  <2>1. SUFFICES ASSUME \A d \in D : d.seq # m PROVE FALSE
    OBVIOUS
  <2>2. \A d \in D : d.seq \in Nat /\ d.seq <= m - 1
    BY <2>1, <1>2 DEF IsDelta
  <2>3. m - 1 \in Bounds
    BY <2>2
  <2> QED
    BY <1>2, <2>3
<1>4. \E d \in D : \A e \in D : e.seq <= d.seq
  BY <1>2, <1>3
<1> QED
  BY <1>4 DEF LastRow

Inv == RowTypes /\ LedgerInv /\ ExactlyOnce

\* The control states of a request thread.
Labels == {"idle", "push", "commit", "patch", "mark", "setCommit", "setCache",
           "loadBase", "loadScan", "loadPut"}

\* A new directory has no folded deltas.
LEMMA NewDirFolded == IsFolded(NewDir.folded)
BY DEF IsFolded, NewDir

\* A new directory satisfies the invariant.
LEMMA InvInit == Init => Inv
<1> SUFFICES ASSUME Init PROVE Inv
  OBVIOUS
<1>1. RowTypes
  BY ZenonT(30), NewDirFolded, EmptySeq DEF Init, RowTypes
<1>2. LedgerInv
  BY DEF Init, LedgerInv, InTxn
<1>3. ExactlyOnce
  BY DEF Init, ExactlyOnce
<1> QED
  BY <1>1, <1>2, <1>3 DEF Inv

\* batch_parent_deltas appends well-formed increments.
LEMMA ParentDeltasType ==
    ASSUME NEW k \in Namespace
    PROVE  ParentDeltas(k) \in Seq({-1, 0, 1}) /\ ParentDeltas(k) # <<>>
<1>1. CASE k = "mkdir"
  <2>1. ParentDeltas(k) = <<1, 0>>
    BY <1>1 DEF ParentDeltas
  <2> QED
    BY <2>1
<1>2. CASE k = "rmdir"
  <2>1. ParentDeltas(k) = <<-1, 0>>
    BY <1>2 DEF ParentDeltas
  <2> QED
    BY <2>1
<1>3. CASE k = "touch"
  <2>1. ParentDeltas(k) = <<0>>
    BY <1>3 DEF ParentDeltas
  <2> QED
    BY <2>1
<1> QED
  BY <1>1, <1>2, <1>3 DEF Namespace

\* Folding pending rows into a well-formed value gives a well-formed value.
LEMMA CountFoldType ==
    ASSUME NEW f, IsFolded(f), NEW D, Ids(D) \subseteq committed
    PROVE  IsFolded(CountFold(f, D))
BY DEF IsFolded, CountFold

\* What a step that leaves the threads alone has to show for the ledger: it adds no
\* row, writes or unlocks the inode row only when no setattr is about to, and keeps
\* what the worker relies on.
LEMMA LedgerStep ==
    ASSUME LedgerInv,
           deltas' \subseteq deltas,
           UNCHANGED <<nextSeq, committed, epoch>>,
           UNCHANGED <<pc, todo, writes, val>>,
           (\E u \in Threads : pc[u] = "setCommit") => UNCHANGED <<base, lock>>,
           wpc' \in {"lock", "commit"} => wscan' \subseteq deltas',
           wpc' = "commit" => lock' = Worker /\ wval' = base'
    PROVE  LedgerInv'
<1>1. \A u \in Threads : InTxn(u)' <=> InTxn(u)
  BY DEF InTxn
<1>2. /\ \A d \in deltas' : Id(d) \in committed' /\ d.seq < nextSeq'
      /\ \A d, e \in deltas' : d.seq = e.seq => d = e
      /\ \A i \in committed' : i[1] <= epoch' /\ (i[1] = epoch' => i[2] < nextSeq')
  BY SMTT(30) DEF LedgerInv
<1>3. ASSUME NEW u \in Threads
      PROVE  /\ pc'[u] \notin {"push", "commit", "patch", "mark"} => writes'[u] = {}
             /\ pc'[u] = "push" => todo'[u] # <<>>
             /\ pc'[u] = "setCommit" => lock' = u /\ val'[u] = base'
  BY SMTT(30) DEF LedgerInv
<1>4. ASSUME NEW u \in Threads, InTxn(u)', NEW d \in writes'[u]
      PROVE  /\ d.epoch = epoch' /\ d.seq < nextSeq'
             /\ Id(d) \notin committed'
             /\ \A e \in deltas' : e.seq # d.seq
             /\ \A v \in Threads : InTxn(v)' =>
                  \A e \in writes'[v] : d.seq = e.seq => u = v /\ d = e
  BY SMTT(30), <1>1, <1>4 DEF LedgerInv
<1> QED
  BY SMTT(30), <1>2, <1>3, <1>4 DEF LedgerInv, InTxn

\* A step that leaves alone all the ledger speaks of preserves it, unless it takes
\* the worker to the lock or the commit.
LEMMA LedgerFrame ==
    ASSUME LedgerInv,
           UNCHANGED <<base, deltas, lock, nextSeq, committed, epoch>>,
           UNCHANGED <<pc, todo, writes, val>>,
           wpc' \in {"lock", "commit"} => UNCHANGED <<wpc, wscan, wval>>
    PROVE  LedgerInv'
<1>1. /\ wpc' \in {"lock", "commit"} => wscan' \subseteq deltas'
      /\ wpc' = "commit" => lock' = Worker /\ wval' = base'
  BY DEF LedgerInv
<1>2. deltas' \subseteq deltas /\ UNCHANGED <<nextSeq, committed, epoch>>
  OBVIOUS
<1> QED
  BY <1>1, <1>2, LedgerStep

\* What a step of a thread that writes no row and takes no lock has to show: the
\* thread's variables keep their types, and it has nothing written, or what it has
\* written is committed and it is about to mark the directory.
LEMMA LocalStep ==
    ASSUME Inv, NEW t \in Threads,
           UNCHANGED <<base, deltas, lock, nextSeq, committed, epoch>>,
           UNCHANGED <<wpc, wscan, wval, flushing>>,
           dirty' \in BOOLEAN, txns' \in Nat,
           pc' \in [Threads -> Labels], kind' \in [Threads -> Kinds \cup {"none"}],
           todo' \in [Threads -> Seq({-1, 0, 1})],
           DOMAIN writes' = Threads, DOMAIN val' = Threads,
           \A u \in Threads \ {t} : /\ pc'[u] = pc[u] /\ todo'[u] = todo[u]
                                    /\ writes'[u] = writes[u] /\ val'[u] = val[u],
           pc'[t] \notin {"commit", "setCommit"},
           pc'[t] = "push" => todo'[t] # <<>>,
           writes'[t] = {} \/ (pc'[t] = "mark" /\ writes'[t] = writes[t]),
           IsFolded(val'[t].folded)
    PROVE  Inv'
<1>1. RowTypes'
  <2>1. \A u \in Threads : \A d \in writes'[u] : IsDelta(d)
    BY Zenon DEF Inv, RowTypes
  <2>2. \A u \in Threads : IsFolded(val'[u].folded)
    BY DEF Inv, RowTypes
  <2> QED
    BY <2>1, <2>2 DEF Inv, RowTypes, IsFolded, Labels
<1>2. LedgerInv'
  <2>1. ASSUME NEW u \in Threads
        PROVE  /\ pc'[u] \notin {"push", "commit", "patch", "mark"} => writes'[u] = {}
               /\ pc'[u] = "push" => todo'[u] # <<>>
               /\ pc'[u] = "setCommit" => lock' = u /\ val'[u] = base'
    BY DEF Inv, LedgerInv
  <2>2. ASSUME NEW u \in Threads, InTxn(u)', NEW d \in writes'[u]
        PROVE  u # t /\ InTxn(u) /\ d \in writes[u]
    BY <2>2 DEF InTxn
  <2>3. ASSUME NEW u \in Threads, InTxn(u)', NEW d \in writes'[u]
        PROVE  /\ d.epoch = epoch /\ d.seq < nextSeq
               /\ Id(d) \notin committed
               /\ \A e \in deltas : e.seq # d.seq
               /\ \A v \in Threads : InTxn(v)' =>
                    \A e \in writes'[v] : d.seq = e.seq => u = v /\ d = e
    BY <2>2, <2>3 DEF Inv, LedgerInv
  <2> QED
    BY <2>1, <2>3 DEF Inv, LedgerInv, InTxn
<1>3. ExactlyOnce'
  BY DEF Inv, ExactlyOnce
<1> QED
  BY <1>1, <1>2, <1>3 DEF Inv

\* A handler that returns leaves its local variables in their types.
LEMMA ReturnLocal ==
    ASSUME RowTypes, NEW t \in Threads, Return(t)
    PROVE  /\ pc' \in [Threads -> Labels] /\ kind' \in [Threads -> Kinds \cup {"none"}]
           /\ todo' \in [Threads -> Seq({-1, 0, 1})]
           /\ DOMAIN writes' = Threads /\ DOMAIN val' = Threads
           /\ \A u \in Threads \ {t} : /\ pc'[u] = pc[u] /\ todo'[u] = todo[u]
                                       /\ writes'[u] = writes[u] /\ val'[u] = val[u]
           /\ pc'[t] = "idle" /\ writes'[t] = {} /\ IsFolded(val'[t].folded)
<1>1. todo' \in [Threads -> Seq({-1, 0, 1})]
  BY EmptySeq DEF RowTypes, Return
<1>2. pc' \in [Threads -> Labels] /\ kind' \in [Threads -> Kinds \cup {"none"}]
  BY DEF RowTypes, Return, Labels
<1>3. val'[t].folded = NewDir.folded
  BY DEF RowTypes, Return
<1> QED
  BY <1>1, <1>2, <1>3, NewDirFolded DEF RowTypes, Return

\* Steps that read the store and change at most the cache, the dirty set and the
\* local variables of one thread.
LEMMA InvLocal ==
    ASSUME Inv, NEW t \in Threads,
           \/ \E k \in Namespace : BeginTxn(t, k)
           \/ CommitConflict(t) \/ PersistFails(t) \/ PatchCache(t) \/ MarkDirty(t)
           \/ LoadHit(t) \/ LoadMiss(t) \/ LoadBase(t) \/ LoadPut(t)
           \/ SetCache(t)
    PROVE  Inv'
<1> USE DEF store, memory, threads, worker, history
<1>1. CASE \E k \in Namespace : BeginTxn(t, k)
  <2> PICK k \in Namespace : BeginTxn(t, k)
    BY <1>1
  <2>1. ParentDeltas(k) \in Seq({-1, 0, 1}) /\ ParentDeltas(k) # <<>>
    BY ParentDeltasType
  <2>2. /\ pc' \in [Threads -> Labels] /\ kind' \in [Threads -> Kinds \cup {"none"}]
        /\ todo' \in [Threads -> Seq({-1, 0, 1})]
        /\ \A u \in Threads \ {t} : pc'[u] = pc[u] /\ todo'[u] = todo[u]
        /\ pc'[t] = "push" /\ todo'[t] # <<>>
        /\ dirty' \in BOOLEAN /\ txns' \in Nat
    BY <2>1 DEF Inv, RowTypes, BeginTxn, Labels, Kinds
  <2>3. writes[t] = {} /\ IsFolded(val[t].folded) /\ DOMAIN writes = Threads /\ DOMAIN val = Threads
    BY Zenon DEF Inv, RowTypes, LedgerInv, BeginTxn
  <2>4. /\ UNCHANGED <<base, deltas, lock, nextSeq, committed, epoch, writes, val>>
        /\ UNCHANGED <<wpc, wscan, wval, flushing>>
    BY DEF BeginTxn
  <2> QED
    BY <2>2, <2>3, <2>4, LocalStep
<1>2. CASE CommitConflict(t) \/ PersistFails(t) \/ MarkDirty(t) \/ LoadPut(t) \/ SetCache(t)
  <2>1. Return(t) /\ UNCHANGED <<base, deltas, lock, nextSeq, committed, epoch>>
    BY <1>2 DEF CommitConflict, PersistFails, MarkDirty, LoadPut, SetCache
  <2>2. UNCHANGED <<wpc, wscan, wval, flushing>> /\ txns' = txns /\ dirty' \in {dirty, TRUE}
    BY Zenon, <1>2 DEF CommitConflict, PersistFails, MarkDirty, LoadPut, SetCache
  <2>3. dirty \in BOOLEAN /\ txns \in Nat
    BY DEF Inv, RowTypes
  <2> QED
    BY Zenon, <2>1, <2>2, <2>3, ReturnLocal, LocalStep DEF Inv
<1>3. CASE PatchCache(t) \/ LoadMiss(t) \/ LoadBase(t)
  <2>1. PICK l \in {"mark", "loadBase", "loadScan"} :
            /\ pc' = [pc EXCEPT ![t] = l]
            /\ l = "mark" \/ pc[t] \in {"idle", "loadBase"}
    BY <1>3 DEF PatchCache, LoadMiss, LoadBase
  <2>2. /\ UNCHANGED <<base, deltas, lock, nextSeq, committed, epoch, dirty>>
        /\ UNCHANGED <<wpc, wscan, wval, flushing, kind, todo, writes>>
        /\ txns' \in {txns, txns + 1}
    BY <1>3 DEF PatchCache, LoadMiss, LoadBase
  <2>3. /\ DOMAIN val' = Threads /\ IsFolded(val'[t].folded)
        /\ \A u \in Threads \ {t} : val'[u] = val[u]
    BY <1>3 DEF PatchCache, LoadMiss, LoadBase, Inv, RowTypes
  <2>4. /\ pc' \in [Threads -> Labels] /\ pc'[t] = l
        /\ \A u \in Threads \ {t} : pc'[u] = pc[u]
    BY <2>1 DEF Inv, RowTypes, Labels
  <2>5. writes[t] = {} \/ l = "mark"
    BY <2>1 DEF Inv, LedgerInv
  <2>6. /\ dirty \in BOOLEAN /\ txns' \in Nat /\ DOMAIN writes = Threads
        /\ kind \in [Threads -> Kinds \cup {"none"}] /\ todo \in [Threads -> Seq({-1, 0, 1})]
    BY <2>2 DEF Inv, RowTypes
  <2> QED
    BY <2>2, <2>3, <2>4, <2>5, <2>6, LocalStep
<1>4. CASE LoadHit(t)
  <2>1. UNCHANGED vars
    BY <1>4 DEF LoadHit
  <2>2. RowTypes'
    BY Zenon, <2>1 DEF vars, Inv, RowTypes, IsFolded
  <2>3. LedgerInv'
    BY Zenon, <2>1, LedgerFrame DEF vars, Inv
  <2>4. ExactlyOnce'
    BY Zenon, <2>1 DEF vars, Inv, ExactlyOnce
  <2> QED
    BY <2>2, <2>3, <2>4 DEF Inv
<1> QED
  BY <1>1, <1>2, <1>3, <1>4

\* load_inode folds into a local value only.
LEMMA InvLoadScan ==
    ASSUME Inv, NEW t \in Threads, LoadScan(t)
    PROVE  Inv'
<1> USE DEF store, memory, worker, history
<1>1. Ids(deltas) \subseteq committed
  BY DEF Inv, LedgerInv, Ids
<1>2. IsFolded(CountFold(val[t].folded, deltas))
  BY <1>1, CountFoldType DEF Inv, RowTypes
<1>3. /\ DOMAIN val' = Threads /\ IsFolded(val'[t].folded)
      /\ \A u \in Threads \ {t} : val'[u] = val[u]
  BY <1>2 DEF LoadScan, Fold, Inv, RowTypes
<1>4. /\ pc' \in [Threads -> Labels] /\ pc'[t] = "loadPut"
      /\ \A u \in Threads \ {t} : pc'[u] = pc[u]
  BY DEF LoadScan, Inv, RowTypes, Labels
<1>5. /\ UNCHANGED <<base, deltas, lock, nextSeq, committed, epoch, dirty, txns>>
      /\ UNCHANGED <<wpc, wscan, wval, flushing, kind, todo, writes>>
  BY DEF LoadScan
<1>6. /\ dirty \in BOOLEAN /\ txns \in Nat /\ DOMAIN writes = Threads
      /\ kind \in [Threads -> Kinds \cup {"none"}] /\ todo \in [Threads -> Seq({-1, 0, 1})]
  BY DEF Inv, RowTypes
<1>7. writes[t] = {}
  BY DEF LoadScan, Inv, LedgerInv
<1> QED
  BY <1>3, <1>4, <1>5, <1>6, <1>7, LocalStep

=============================================================================
