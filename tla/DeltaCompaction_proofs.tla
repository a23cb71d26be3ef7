---------------------- MODULE DeltaCompaction_proofs ----------------------
(***************************************************************************)
(* Proof that compaction folds every committed delta into the inode row    *)
(* exactly once, for any number of threads, transactions and crashes.      *)
(***************************************************************************)
EXTENDS DeltaHandlers_proofs

\* Worker steps that leave the store alone.
LEMMA InvWorkerLocal ==
    ASSUME Inv,
           Drain \/ DrainAll \/ Count \/ Scan \/ LockTimeout \/ Invalidate \/ Evict
    PROVE  Inv'
<1> USE DEF Inv, store, threads, history, GiveUp
<1>1. CASE Drain \/ DrainAll \/ Evict
  <2>1. /\ UNCHANGED <<store, nextSeq, threads, wscan, wval, history>>
        /\ dirty' \in {dirty, FALSE} /\ flushing' \in {flushing, TRUE, FALSE}
        /\ wpc' \in {wpc, "count", "scan"}
    BY ZenonT(30), <1>1 DEF Drain, DrainAll, Evict, worker
  <2>2. RowTypes'
    BY ZenonT(30), <2>1 DEF RowTypes, IsFolded
  <2>3. LedgerInv'
    <3>1. /\ UNCHANGED <<base, deltas, lock, nextSeq, committed, epoch>>
          /\ UNCHANGED <<pc, todo, writes, val>>
          /\ wpc' \in {"lock", "commit"} => UNCHANGED <<wpc, wscan, wval>>
      BY <2>1
    <3> QED
      BY <3>1, LedgerFrame
  <2>4. ExactlyOnce'
    BY ZenonT(30), <2>1 DEF ExactlyOnce
  <2> QED
    BY SMTT(30), <2>2, <2>3, <2>4
<1>2. CASE Count
  <2>1. RowTypes'
    BY ZenonT(30), <1>2, NewDirFolded DEF RowTypes, Count, IsFolded
  <2>2. LedgerInv'
    <3>1. /\ UNCHANGED <<base, deltas, lock, nextSeq, committed, epoch>>
          /\ UNCHANGED <<pc, todo, writes, val>>
          /\ wpc' \in {"lock", "commit"} => UNCHANGED <<wpc, wscan, wval>>
      BY <1>2 DEF Count
    <3> QED
      BY <3>1, LedgerFrame
  <2>3. ExactlyOnce'
    BY <1>2 DEF ExactlyOnce, Count
  <2> QED
    BY <2>1, <2>2, <2>3
<1>3. CASE Scan
  <2>1. RowTypes'
    BY ZenonT(30), <1>3, NewDirFolded DEF RowTypes, Scan, IsFolded
  <2>2. LedgerInv'
    BY SMTT(30), <1>3 DEF LedgerInv, Scan, InTxn, RowTypes
  <2>3. ExactlyOnce'
    BY <1>3 DEF ExactlyOnce, Scan
  <2> QED
    BY <2>1, <2>2, <2>3
<1>4. CASE LockTimeout
  <2>1. RowTypes'
    BY SMTT(30), <1>4, NewDirFolded DEF RowTypes, LockTimeout, IsFolded
  <2>2. LedgerInv'
    <3>1. /\ UNCHANGED <<base, deltas, lock, nextSeq, committed, epoch>>
          /\ UNCHANGED <<pc, todo, writes, val>>
          /\ wpc' \in {"lock", "commit"} => UNCHANGED <<wpc, wscan, wval>>
      BY <1>4 DEF LockTimeout
    <3> QED
      BY <3>1, LedgerFrame
  <2>3. ExactlyOnce'
    BY SMTT(30), <1>4 DEF ExactlyOnce, LockTimeout
  <2> QED
    BY <2>1, <2>2, <2>3
<1>5. CASE Invalidate
  <2>1. RowTypes'
    BY SMTT(30), <1>5, NewDirFolded DEF RowTypes, Invalidate, IsFolded
  <2>2. LedgerInv'
    <3>1. /\ UNCHANGED <<base, deltas, lock, nextSeq, committed, epoch>>
          /\ UNCHANGED <<pc, todo, writes, val>>
          /\ wpc' \in {"lock", "commit"} => UNCHANGED <<wpc, wscan, wval>>
      BY <1>5 DEF Invalidate
    <3> QED
      BY <3>1, LedgerFrame
  <2>3. ExactlyOnce'
    BY <1>5 DEF ExactlyOnce, Invalidate
  <2> QED
    BY <2>1, <2>2, <2>3
<1> QED
  BY <1>1, <1>2, <1>3, <1>4, <1>5

\* force_compact_inode locks the row after its scan; the rows it scanned are still there.
LEMMA InvWorkerLock ==
    ASSUME Inv, LockBase \/ FoldConflict
    PROVE  Inv'
<1> USE DEF Inv, memory, threads, history, GiveUp
<1>1. CASE LockBase
  <2>1. RowTypes'
    BY SMTT(30), <1>1 DEF RowTypes, LockBase, IsFolded
  <2>2. LedgerInv'
    <3>1. /\ deltas' \subseteq deltas /\ UNCHANGED <<nextSeq, committed, epoch>>
          /\ UNCHANGED <<pc, todo, writes, val>>
      BY <1>1 DEF LockBase
    <3>2. ~\E u \in Threads : pc[u] = "setCommit"
      BY <1>1, ThreadsAssumption DEF LockBase, LedgerInv
    <3>3. /\ wpc' \in {"lock", "commit"} => wscan' \subseteq deltas'
          /\ wpc' = "commit" => lock' = Worker /\ wval' = base'
      BY <1>1 DEF LockBase, LedgerInv
    <3> HIDE DEF Inv, memory, threads, history, GiveUp
    <3>4. LedgerInv
      BY DEF Inv
    <3> QED
      BY <3>1, <3>2, <3>3, <3>4, LedgerStep
  <2>3. ExactlyOnce'
    BY SMTT(30), <1>1 DEF ExactlyOnce, LockBase
  <2> QED
    BY SMTT(30), <2>1, <2>2, <2>3
<1>2. CASE FoldConflict
  <2>1. RowTypes'
    BY SMTT(30), <1>2, NewDirFolded DEF RowTypes, FoldConflict, IsFolded
  <2>2. LedgerInv'
    <3>1. /\ deltas' \subseteq deltas /\ UNCHANGED <<nextSeq, committed, epoch>>
          /\ UNCHANGED <<pc, todo, writes, val>>
      BY <1>2 DEF FoldConflict
    <3>2. ~\E u \in Threads : pc[u] = "setCommit"
      BY <1>2, ThreadsAssumption DEF FoldConflict, LedgerInv
    <3>3. /\ wpc' \in {"lock", "commit"} => wscan' \subseteq deltas'
          /\ wpc' = "commit" => lock' = Worker /\ wval' = base'
      BY <1>2 DEF FoldConflict, LedgerInv
    <3> HIDE DEF Inv, memory, threads, history, GiveUp
    <3>4. LedgerInv
      BY DEF Inv
    <3> QED
      BY <3>1, <3>2, <3>3, <3>4, LedgerStep
  <2>3. ExactlyOnce'
    BY <1>2 DEF ExactlyOnce, FoldConflict
  <2> QED
    BY <2>1, <2>2, <2>3
<1> QED
  BY <1>1, <1>2

\* The rows the worker scanned are still there when it commits, none of them is
\* in the row it locked, and deleting by key removes those rows and no other.
LEMMA InvCommitFold ==
    ASSUME Inv, CommitFold
    PROVE  Inv'
<1> USE DEF Inv, memory, threads, history
<1>1. wscan \subseteq deltas /\ lock = Worker /\ wval = base
  BY SMTT(30) DEF CommitFold, LedgerInv
<1>2. deltas' = deltas \ wscan
  BY <1>1 DEF CommitFold, DeleteRows, Seqs, LedgerInv
<1>3. base'.folded = CountFold(base.folded, wscan)
  BY SMTT(30), <1>1 DEF CommitFold, Fold
<1>4. Ids(wscan) \subseteq committed
  BY SMTT(30), <1>1 DEF Ids, LedgerInv
<1>5. RowTypes'
  <2>1. IsFolded(base'.folded)
    BY ZenonT(30), <1>3, <1>4, CountFoldType DEF RowTypes
  <2> QED
    BY SMTT(30), <1>2, <2>1 DEF RowTypes, CommitFold, IsFolded
<1>6. LedgerInv'
  <2>1. /\ deltas' \subseteq deltas /\ UNCHANGED <<nextSeq, committed, epoch>>
        /\ UNCHANGED <<pc, todo, writes, val>>
        /\ wpc' = "invalidate"
    BY <1>2 DEF CommitFold
  <2>2. ~\E u \in Threads : pc[u] = "setCommit"
    BY <1>1, ThreadsAssumption DEF LedgerInv
  <2> HIDE DEF Inv, memory, threads, history
  <2>3. LedgerInv
    BY DEF Inv
  <2> QED
    BY <2>1, <2>2, <2>3, LedgerStep
<1>7. ExactlyOnce'
  <2>1. Ids(deltas) = Ids(deltas') \cup Ids(wscan)
    BY SMTT(30), <1>1, <1>2 DEF Ids
  <2>2. Ids(deltas') \cap Ids(wscan) = {}
    <3>1. ASSUME NEW d \in deltas', NEW e \in wscan, Id(d) = Id(e)
          PROVE  FALSE
      <4>1. d.seq = e.seq
        BY <3>1 DEF Id
      <4>2. d \in deltas /\ e \in deltas /\ d # e
        BY <1>1, <1>2
      <4> QED
        BY <4>1, <4>2 DEF LedgerInv
    <3> HIDE DEF Inv, memory, threads, history
    <3> QED
      BY <3>1 DEF Ids
  <2>3. committed' = committed
    BY DEF CommitFold
  <2>4. ASSUME NEW i \in committed
        PROVE  IF i \in Ids(deltas')
               THEN i \notin DOMAIN base'.folded
               ELSE i \in DOMAIN base'.folded /\ base'.folded[i] = 1
    BY <1>3, <2>1, <2>2 DEF ExactlyOnce, CountFold
  <2> QED
    BY <2>3, <2>4 DEF ExactlyOnce
<1> QED
  BY SMTT(30), <1>5, <1>6, <1>7

\* After a restart the recovered counter is above every key on disk, and the new
\* epoch makes later identities different from all earlier ones.
LEMMA InvCrash ==
    ASSUME Inv, Crash
    PROVE  Inv'
<1> USE DEF Inv
<1>1. RecoveredSeq \in Nat /\ \A d \in deltas : d.seq < RecoveredSeq
  <2>1. CASE deltas = {}
    BY SMTT(30), <2>1 DEF RecoveredSeq
  <2>2. CASE deltas # {}
    <3>1. /\ LastRow(deltas) \in deltas
          /\ \A d \in deltas : d.seq <= LastRow(deltas).seq
      BY ZenonT(30), <2>2, LastRowIsLast DEF RowTypes, LedgerInv
    <3> QED
      BY SMTT(30), <2>2, <3>1 DEF RecoveredSeq, RowTypes, IsDelta
  <2> QED
    BY <2>1, <2>2
<1>2. RowTypes'
  <2>1. <<>> \in Seq({-1, 0, 1})
    OBVIOUS
  <2>2. \A t \in Threads : IsFolded(val[t].folded)'
    BY NewDirFolded DEF Crash, IsFolded
  <2>3. IsFolded(base.folded)' /\ IsFolded(wval.folded)'
    BY NewDirFolded DEF RowTypes, Crash, IsFolded
  <2>4. todo' \in [Threads -> Seq({-1, 0, 1})]
    BY <2>1 DEF Crash
  <2>5. /\ kind' \in [Threads -> Kinds \cup {"none"}]
        /\ pc' \in [Threads -> {"idle", "push", "commit", "patch", "mark", "setCommit",
                                "setCache", "loadBase", "loadScan", "loadPut"}]
        /\ DOMAIN writes' = Threads /\ DOMAIN val' = Threads
        /\ \A t \in Threads : \A d \in writes'[t] : IsDelta(d)
    BY DEF Crash
  <2>6. /\ lock' = NoOwner /\ wpc' = "wait" /\ wscan' = {} /\ dirty' = FALSE
        /\ nextSeq' = RecoveredSeq /\ epoch' = epoch + 1
        /\ deltas' = deltas /\ flushing' = flushing /\ committed' = committed
        /\ txns' = txns
    BY SMTT(30) DEF Crash
  <2>7. nextSeq' \in Nat /\ epoch' \in Nat
    BY SMTT(30), <1>1, <2>6 DEF RowTypes
  <2> QED
    BY ZenonT(30), <2>2, <2>3, <2>4, <2>5, <2>6, <2>7 DEF RowTypes
<1>3. LedgerInv'
  <2>1. /\ deltas' = deltas /\ committed' = committed
        /\ nextSeq' = RecoveredSeq /\ epoch' = epoch + 1 /\ wpc' = "wait"
    BY DEF Crash
  <2>2. \A t \in Threads : pc'[t] = "idle" /\ writes'[t] = {}
    BY DEF Crash
  <2>3. \A d \in deltas' : Id(d)' \in committed' /\ d.seq < nextSeq'
    BY ZenonT(30), <1>1, <2>1 DEF LedgerInv, Id
  <2>4. \A d, e \in deltas' : d.seq = e.seq => d = e
    BY <2>1 DEF LedgerInv
  <2>5. \A i \in committed' : i[1] <= epoch' /\ (i[1] = epoch' => i[2] < nextSeq')
    <3>1. \A i \in committed : i[1] \in Nat /\ i[1] <= epoch /\ epoch \in Nat
      BY DEF LedgerInv, RowTypes
    <3> QED
      BY SMTT(30), <2>1, <3>1
  <2>6. \A t \in Threads : ~InTxn(t)'
    BY SMTT(30), <2>2 DEF InTxn
  <2> HIDE DEF Inv
  <2> QED
    BY <2>1, <2>2, <2>3, <2>4, <2>5, <2>6 DEF LedgerInv
<1>4. ExactlyOnce'
  BY DEF ExactlyOnce, Crash
<1> QED
  BY <1>2, <1>3, <1>4

\* The three parts of Inv are preserved by every step.
LEMMA InvNext == Inv /\ [Next]_vars => Inv'
<1> SUFFICES ASSUME Inv, [Next]_vars PROVE Inv'
  OBVIOUS
<1>1. CASE UNCHANGED vars
  <2>1. /\ UNCHANGED <<base, deltas, subdirs, lock, nextSeq, cache, dirty>>
        /\ UNCHANGED <<pc, kind, todo, writes, val>>
        /\ UNCHANGED <<wpc, wscan, wval, flushing, committed, epoch, txns>>
    BY SMTT(30), <1>1 DEF vars, store, memory, threads, worker, history
  <2>2. RowTypes'
    BY ZenonT(30), <2>1 DEF Inv, RowTypes, IsFolded
  <2>3. LedgerInv'
    BY <2>1, LedgerFrame DEF Inv
  <2>4. ExactlyOnce'
    BY <2>1 DEF Inv, ExactlyOnce
  <2> QED
    BY <2>2, <2>3, <2>4 DEF Inv
<1>2. ASSUME NEW t \in Threads, Thread(t) PROVE Inv'
  BY <1>2, InvLocal, InvLoadScan, InvPushDelta, InvCommit, InvSetattr DEF Thread, Continue
<1>3. CASE WorkerStep
  BY <1>3, InvWorkerLocal, InvWorkerLock, InvCommitFold DEF WorkerStep
<1>4. CASE DrainAll \/ LockTimeout \/ FoldConflict \/ Evict
  BY <1>4, InvWorkerLocal, InvWorkerLock
<1>5. CASE Crash
  BY <1>5, InvCrash
<1> QED
  BY <1>1, <1>2, <1>3, <1>4, <1>5 DEF Next

\* Types, the ledger and the exactly-once property hold in every reachable state.
THEOREM InvAlways == Spec => []Inv
BY InvInit, InvNext, PTL DEF Spec

\* Row, lock, batch and control-state types (RowTypes) are invariant, and only
\* committed deltas are ever counted in the inode row.
THEOREM TypesAlways == Spec => []RowTypes
<1>1. Inv => RowTypes
  BY DEF Inv
<1> QED
  BY <1>1, InvAlways, PTL

\* Compaction, setattr and crashes never lose or repeat a committed delta: each is
\* pending or was folded into the inode row exactly once (force_compact_inode).
THEOREM ExactlyOnceAlways == Spec => []ExactlyOnce
<1>1. Inv => ExactlyOnce
  BY DEF Inv
<1> QED
  BY <1>1, InvAlways, PTL

\* Fresh keys, scanned rows that stay in place and current row values under the
\* row lock (LedgerInv) are invariant.
THEOREM LedgerAlways == Spec => []LedgerInv
<1>1. Inv => LedgerInv
  BY DEF Inv
<1> QED
  BY <1>1, InvAlways, PTL

=============================================================================
