----------------------- MODULE CompactionFold_proofs -----------------------
(***************************************************************************)
(* Proofs about the compaction worker as the only compactor, for any       *)
(* number of handler threads, directories and delta rows: every delta is   *)
(* folded once and no directory is forgotten.                              *)
(***************************************************************************)
EXTENDS CompactionLoop_proofs

----------------------------------------------------------------------------
(* Folding *)

\* With one compactor every step folds a delta at most once, and none that is
\* still a row (force_compact_inode).
LEMMA FoldStep ==
    ASSUME Flushers = {}, TypeOK, NumbersInv, FoldInv, [Next]_vars
    PROVE  FoldInv'
<1> USE DEF store, shared, threads, workers, stopper
<1>1. ASSUME NEW t \in Threads, NEW d \in Dirs, Begin(t, d) PROVE FoldInv'
    <2>1. ASSUME NEW e \in Dirs, NEW i \in 1..MaxDeltas
          PROVE  Uncommitted(e, i)' <=> Uncommitted(e, i) \/ (e = d /\ i = count[d] + 1)
        BY <1>1 DEF Begin, Uncommitted, TypeOK
    <2>2. ASSUME NEW e \in alive', NEW i \in 1..MaxDeltas
          PROVE  folded'[e][i] =
                    IF i > count'[e] \/ i \in rows'[e] \/ Uncommitted(e, i)' THEN 0 ELSE 1
        <3>1. count' = [count EXCEPT ![d] = @ + 1] /\ UNCHANGED <<alive, rows, folded>>
            BY <1>1 DEF Begin
        <3>2. CASE e = d
            BY <2>1, <3>1, <3>2, Bounds DEF FoldInv, TypeOK
        <3>3. CASE e # d
            BY <2>1, <3>1, <3>3 DEF FoldInv, TypeOK
        <3> QED  BY <3>2, <3>3
    <2>3. cpc'[Loop] = "fold" /\ cur'[Loop] \in alive' => scan'[Loop] \subseteq rows'[cur'[Loop]]
        BY <1>1, Bounds DEF Begin, FoldInv, NumbersInv, TypeOK
    <2> QED  BY <2>2, <2>3 DEF FoldInv
<1>2. ASSUME NEW t \in Threads, NEW d \in Dirs, Remove(t, d) PROVE FoldInv'
    <2>1. ASSUME NEW e \in Dirs, NEW i \in 1..MaxDeltas
          PROVE  Uncommitted(e, i)' <=> Uncommitted(e, i)
        BY <1>2 DEF Remove, Uncommitted, TypeOK
    <2>2. ASSUME NEW e \in alive', NEW i \in 1..MaxDeltas
          PROVE  folded'[e][i] =
                    IF i > count'[e] \/ i \in rows'[e] \/ Uncommitted(e, i)' THEN 0 ELSE 1
        BY <1>2, <2>1, Bounds DEF Remove, FoldInv, TypeOK
    <2>3. cpc'[Loop] = "fold" /\ cur'[Loop] \in alive' => scan'[Loop] \subseteq rows'[cur'[Loop]]
        BY <1>2, Bounds DEF Remove, FoldInv, NumbersInv, TypeOK
    <2> QED  BY <2>2, <2>3 DEF FoldInv
<1>3. ASSUME NEW t \in Threads, Commit(t) PROVE FoldInv'
    <2>1. ASSUME NEW e \in alive, NEW i \in 1..MaxDeltas
          PROVE  Uncommitted(e, i)' <=> Uncommitted(e, i) /\ ~(e = dir[t] /\ i = num[t])
        BY <1>3 DEF Commit, Uncommitted, NumbersInv, TypeOK
    <2>2. ASSUME NEW e \in alive', NEW i \in 1..MaxDeltas
          PROVE  folded'[e][i] =
                    IF i > count'[e] \/ i \in rows'[e] \/ Uncommitted(e, i)' THEN 0 ELSE 1
        BY <1>3, <2>1, Bounds DEF Commit, FoldInv, NumbersInv, TypeOK, Uncommitted
    <2>3. cpc'[Loop] = "fold" /\ cur'[Loop] \in alive' => scan'[Loop] \subseteq rows'[cur'[Loop]]
        BY <1>3, Bounds DEF Commit, FoldInv, NumbersInv, TypeOK
    <2> QED  BY <2>2, <2>3 DEF FoldInv
<1>4. ASSUME NEW t \in Threads, Clear(t) PROVE FoldInv'
    <2>1. ASSUME NEW e \in Dirs, NEW i \in 1..MaxDeltas
          PROVE  Uncommitted(e, i)' <=> Uncommitted(e, i)
        BY <1>4 DEF Clear, Uncommitted, TypeOK
    <2>2. ASSUME NEW e \in alive', NEW i \in 1..MaxDeltas
          PROVE  folded'[e][i] =
                    IF i > count'[e] \/ i \in rows'[e] \/ Uncommitted(e, i)' THEN 0 ELSE 1
        BY <1>4, <2>1, Bounds DEF Clear, FoldInv, NumbersInv, TypeOK
    <2>3. cpc'[Loop] = "fold" /\ cur'[Loop] \in alive' => scan'[Loop] \subseteq rows'[cur'[Loop]]
        BY <1>4, Bounds DEF Clear, FoldInv, NumbersInv, TypeOK
    <2> QED  BY <2>2, <2>3 DEF FoldInv
<1>5. ASSUME NEW t \in Threads, Reset(t) PROVE FoldInv'
    <2>1. ASSUME NEW e \in Dirs, NEW i \in 1..MaxDeltas
          PROVE  Uncommitted(e, i)' <=> Uncommitted(e, i)
        BY <1>5 DEF Reset, Uncommitted, TypeOK
    <2>2. ASSUME NEW e \in alive', NEW i \in 1..MaxDeltas
          PROVE  folded'[e][i] =
                    IF i > count'[e] \/ i \in rows'[e] \/ Uncommitted(e, i)' THEN 0 ELSE 1
        BY <1>5, <2>1, Bounds DEF Reset, FoldInv, NumbersInv, TypeOK
    <2>3. cpc'[Loop] = "fold" /\ cur'[Loop] \in alive' => scan'[Loop] \subseteq rows'[cur'[Loop]]
        BY <1>5, Bounds DEF Reset, FoldInv, NumbersInv, TypeOK
    <2> QED  BY <2>2, <2>3 DEF FoldInv
<1>6. ASSUME NEW t \in Threads, PersistFails(t) PROVE FoldInv'
    <2>1. ASSUME NEW e \in Dirs, NEW i \in 1..MaxDeltas
          PROVE  Uncommitted(e, i)' <=> Uncommitted(e, i)
        BY <1>6 DEF PersistFails, Uncommitted, TypeOK
    <2>2. ASSUME NEW e \in alive', NEW i \in 1..MaxDeltas
          PROVE  folded'[e][i] =
                    IF i > count'[e] \/ i \in rows'[e] \/ Uncommitted(e, i)' THEN 0 ELSE 1
        BY <1>6, <2>1, Bounds DEF PersistFails, FoldInv, NumbersInv, TypeOK
    <2>3. cpc'[Loop] = "fold" /\ cur'[Loop] \in alive' => scan'[Loop] \subseteq rows'[cur'[Loop]]
        BY <1>6, Bounds DEF PersistFails, FoldInv, NumbersInv, TypeOK
    <2> QED  BY <2>2, <2>3 DEF FoldInv
<1>7. ASSUME NEW t \in Threads, Mark(t) PROVE FoldInv'
    <2>0. PICK l \in {"raise", "idle"} : pc' = [pc EXCEPT ![t] = l]
        BY <1>7, MarkEffect
    <2>1. ASSUME NEW e \in Dirs, NEW i \in 1..MaxDeltas
          PROVE  Uncommitted(e, i)' <=> Uncommitted(e, i)
        BY <1>7, <2>0 DEF Mark, Uncommitted, TypeOK
    <2>2. ASSUME NEW e \in alive', NEW i \in 1..MaxDeltas
          PROVE  folded'[e][i] =
                    IF i > count'[e] \/ i \in rows'[e] \/ Uncommitted(e, i)' THEN 0 ELSE 1
        BY <1>7, <2>1, <2>0, Bounds DEF Mark, FoldInv, TypeOK
    <2>3. cpc'[Loop] = "fold" /\ cur'[Loop] \in alive' => scan'[Loop] \subseteq rows'[cur'[Loop]]
        BY <1>7, <2>0, Bounds DEF Mark, FoldInv, NumbersInv, TypeOK
    <2> QED  BY <2>2, <2>3 DEF FoldInv
<1>8. ASSUME NEW t \in Threads, Raise(t) PROVE FoldInv'
    BY <1>8, Bounds DEF Raise, FoldInv, Uncommitted, NumbersInv, TypeOK, Compactors
<1>9. CASE Start
    BY <1>9, Bounds DEF Start, Goto, FoldInv, Uncommitted, NumbersInv, TypeOK, Compactors
<1>10. CASE Test
    BY <1>10, Bounds DEF Test, Goto, FoldInv, Uncommitted, NumbersInv, TypeOK, Compactors
<1>11. CASE Wait
    BY <1>11, Bounds DEF Wait, Goto, FoldInv, Uncommitted, NumbersInv, TypeOK, Compactors
<1>12. CASE Wake
    BY <1>12, Bounds DEF Wake, Goto, FoldInv, Uncommitted, NumbersInv, TypeOK, Compactors
<1>13. CASE Timeout
    BY <1>13, Bounds DEF Timeout, Goto, FoldInv, Uncommitted, NumbersInv, TypeOK, Compactors
<1>14. CASE Check
    BY <1>14, Bounds DEF Check, Goto, FoldInv, Uncommitted, NumbersInv, TypeOK, Compactors
<1>15. CASE Drain
    BY <1>15, Bounds DEF Drain, TakeAll, Goto, FoldInv, Uncommitted, NumbersInv,
       TypeOK, Compactors
<1>16. ASSUME NEW c \in Compactors, FlushAll(c) PROVE FoldInv'
    BY <1>16, Bounds DEF FlushAll, TakeAll, Goto, FoldInv, Uncommitted, NumbersInv,
       TypeOK, Compactors
<1>17. ASSUME NEW c \in Compactors, EndRound(c) PROVE FoldInv'
    BY <1>17, Bounds DEF EndRound, Goto, FoldInv, Uncommitted, NumbersInv, TypeOK,
       Compactors
<1>18. ASSUME NEW c \in Compactors, Count(c) PROVE FoldInv'
    BY <1>18, Bounds DEF Count, NotCompacted, Goto, FoldInv, Uncommitted, NumbersInv,
       TypeOK, Compactors
<1>19. ASSUME NEW c \in Compactors, Scan(c) PROVE FoldInv'
    BY <1>19, Bounds DEF Scan, NotCompacted, Goto, FoldInv, Uncommitted, NumbersInv,
       TypeOK, Compactors
<1>20. ASSUME NEW c \in Compactors, FoldIn(c) PROVE FoldInv'
    <2>1. ASSUME NEW e \in Dirs, NEW i \in 1..MaxDeltas
          PROVE  Uncommitted(e, i)' <=> Uncommitted(e, i)
        BY <1>20 DEF FoldIn, Uncommitted
    <2>0. c = Loop
        BY DEF Compactors
    <2>4. ASSUME NEW e \in alive, NEW i \in rows[e]
          PROVE  i <= count[e] /\ ~Uncommitted(e, i)
        BY Bounds DEF NumbersInv, Uncommitted, TypeOK
    <2>2. ASSUME NEW e \in alive', NEW i \in 1..MaxDeltas
          PROVE  folded'[e][i] =
                    IF i > count'[e] \/ i \in rows'[e] \/ Uncommitted(e, i)' THEN 0 ELSE 1
        BY <1>20, <2>0, <2>1, <2>4, Bounds DEF FoldIn, FoldedRows, FoldInv, NumbersInv, TypeOK, Compactors
    <2>3. cpc'[Loop] = "fold" /\ cur'[Loop] \in alive' => scan'[Loop] \subseteq rows'[cur'[Loop]]
        BY <1>20, <2>0, Bounds DEF FoldIn, FoldInv, NumbersInv, TypeOK, Goto, Compactors
    <2> QED  BY <2>2, <2>3 DEF FoldInv
<1>21. ASSUME NEW c \in Compactors, NoRow(c) PROVE FoldInv'
    BY <1>21, Bounds DEF NoRow, NotCompacted, Goto, FoldInv, Uncommitted, NumbersInv,
       TypeOK, Compactors
<1>22. ASSUME NEW c \in Compactors, Remark(c) PROVE FoldInv'
    BY <1>22, Bounds DEF Remark, Insert, Goto, FoldInv, Uncommitted, NumbersInv,
       TypeOK, Compactors
<1>23. ASSUME NEW c \in Compactors, RaiseSelf(c) PROVE FoldInv'
    BY <1>23, Bounds DEF RaiseSelf, Goto, FoldInv, Uncommitted, NumbersInv, TypeOK,
       Compactors
<1>24. ASSUME NEW c \in Compactors, NEW d \in Dirs, Pick(c, d) PROVE FoldInv'
    BY <1>24, Bounds DEF Pick, Goto, FoldInv, Uncommitted, NumbersInv, TypeOK, Compactors
<1>25. ASSUME NEW c \in Compactors, FoldFails(c) PROVE FoldInv'
    BY <1>25, Bounds DEF FoldFails, NotCompacted, Goto, FoldInv, Uncommitted,
       NumbersInv, TypeOK, Compactors
<1>26. CASE Stop
    BY <1>26, Bounds DEF Stop, FoldInv, Uncommitted, NumbersInv, TypeOK, Compactors
<1>27. CASE StopRaise
    BY <1>27, Bounds DEF StopRaise, FoldInv, Uncommitted, NumbersInv, TypeOK, Compactors
<1>28. CASE UNCHANGED vars
    BY <1>28 DEF vars, FoldInv, Uncommitted, NumbersInv, TypeOK, Compactors
<1> QED
    BY <1>1, <1>2, <1>3, <1>4, <1>5, <1>6, <1>7, <1>8, <1>9, <1>10, <1>11, <1>12,
       <1>13, <1>14, <1>15, <1>16, <1>17, <1>18, <1>19, <1>20, <1>21, <1>22, <1>23,
       <1>24, <1>25, <1>26, <1>27, <1>28 DEF Next, Continue, Compact

----------------------------------------------------------------------------
(* The dirty set *)

\* With one compactor every step keeps track of what a fold leaves behind
\* (drain, mark_dirty).
LEMMA TrackStep ==
    ASSUME Flushers = {}, TypeOK, NumbersInv, TrackInv, [Next]_vars
    PROVE  TrackInv'
<1> USE DEF store, shared, threads, workers, stopper
<1>1. ASSUME NEW t \in Threads, NEW d \in Dirs, Begin(t, d) PROVE TrackInv'
    BY <1>1, Bounds DEF Begin, TrackInv, Marks, TypeOK, Compactors
<1>2. ASSUME NEW t \in Threads, NEW d \in Dirs, Remove(t, d) PROVE TrackInv'
    BY <1>2, Bounds DEF Remove, TrackInv, Marks, TypeOK, Compactors
<1>3. ASSUME NEW t \in Threads, Commit(t) PROVE TrackInv'
    BY <1>3, Bounds DEF Commit, TrackInv, Marks, NumbersInv, TypeOK, Compactors
<1>4. ASSUME NEW t \in Threads, Clear(t) PROVE TrackInv'
    BY <1>4, Bounds DEF Clear, TrackInv, Marks, TypeOK, Compactors
<1>5. ASSUME NEW t \in Threads, Reset(t) PROVE TrackInv'
    BY <1>5, Bounds DEF Reset, TrackInv, Marks, TypeOK, Compactors
<1>6. ASSUME NEW t \in Threads, PersistFails(t) PROVE TrackInv'
    <2>1. /\ dir[t] \in Dirs /\ silent' = [silent EXCEPT ![dir[t]] = @ \cup {num[t]}]
          /\ pc' = [pc EXCEPT ![t] = "idle"] /\ dir' = [dir EXCEPT ![t] = NoDir]
          /\ num' = [num EXCEPT ![t] = 0] /\ UNCHANGED <<rows, dirty, workers>>
        BY <1>6 DEF PersistFails, NumbersInv
    <2>2. ASSUME NEW d \in Dirs, NEW i \in rows[d], i \in silent[d] \/ Marks(d, i)
          PROVE  i \in silent'[d] \/ Marks(d, i)'
        BY <2>1, <2>2 DEF Marks, TypeOK
    <2> QED  BY <2>1, <2>2, Bounds DEF TrackInv, TypeOK
<1>7. ASSUME NEW t \in Threads, Mark(t) PROVE TrackInv'
    <2>1. PICK l \in {"raise", "idle"} : pc' = [pc EXCEPT ![t] = l]
        BY <1>7, MarkEffect
    <2>2. /\ dirty' = dirty \cup {dir[t]} /\ dir' = [dir EXCEPT ![t] = NoDir]
          /\ num' = [num EXCEPT ![t] = 0] /\ UNCHANGED <<rows, silent, workers>>
        BY <1>7 DEF Mark, Insert
    <2>3. ASSUME NEW d, d # dir[t], NEW i, Marks(d, i)
          PROVE  Marks(d, i)'
        BY <2>1, <2>2, <2>3 DEF Marks, TypeOK
    <2> QED  BY <2>2, <2>3, Bounds DEF TrackInv, TypeOK
<1>8. ASSUME NEW t \in Threads, Raise(t) PROVE TrackInv'
    BY <1>8, Bounds DEF Raise, TrackInv, Marks, TypeOK, Compactors
<1>9. CASE Start
    BY <1>9, Bounds DEF Start, Goto, TrackInv, Marks, TypeOK, Compactors
<1>10. CASE Test
    BY <1>10, Bounds DEF Test, Goto, TrackInv, Marks, TypeOK, Compactors
<1>11. CASE Wait
    BY <1>11, Bounds DEF Wait, Goto, TrackInv, Marks, TypeOK, Compactors
<1>12. CASE Wake
    BY <1>12, Bounds DEF Wake, Goto, TrackInv, Marks, TypeOK, Compactors
<1>13. CASE Timeout
    BY <1>13, Bounds DEF Timeout, Goto, TrackInv, Marks, TypeOK, Compactors
<1>14. CASE Check
    BY <1>14, Bounds DEF Check, Goto, TrackInv, Marks, TypeOK, Compactors
<1>15. CASE Drain
    BY <1>15, Bounds DEF Drain, TakeAll, Goto, TrackInv, Marks, TypeOK, Compactors
<1>16. ASSUME NEW c \in Compactors, FlushAll(c) PROVE TrackInv'
    BY <1>16, Bounds DEF FlushAll, TakeAll, Goto, TrackInv, Marks, TypeOK, Compactors
<1>17. ASSUME NEW c \in Compactors, EndRound(c) PROVE TrackInv'
    BY <1>17, Bounds DEF EndRound, Goto, TrackInv, Marks, TypeOK, Compactors
<1>18. ASSUME NEW c \in Compactors, Count(c) PROVE TrackInv'
    BY <1>18, Bounds DEF Count, NotCompacted, Goto, TrackInv, Marks, TypeOK, Compactors
<1>19. ASSUME NEW c \in Compactors, Scan(c) PROVE TrackInv'
    BY <1>19, Bounds DEF Scan, NotCompacted, Goto, TrackInv, Marks, TypeOK, Compactors
<1>20. ASSUME NEW c \in Compactors, FoldIn(c) PROVE TrackInv'
    BY <1>20, Bounds DEF FoldIn, Goto, TrackInv, Marks, TypeOK, Compactors
<1>21. ASSUME NEW c \in Compactors, NoRow(c) PROVE TrackInv'
    BY <1>21, Bounds DEF NoRow, NotCompacted, Goto, TrackInv, Marks, TypeOK, Compactors
<1>22. ASSUME NEW c \in Compactors, Remark(c) PROVE TrackInv'
    BY <1>22, Bounds DEF Remark, Insert, Goto, TrackInv, Marks, TypeOK, Compactors
<1>23. ASSUME NEW c \in Compactors, RaiseSelf(c) PROVE TrackInv'
    BY <1>23, Bounds DEF RaiseSelf, Goto, TrackInv, Marks, TypeOK, Compactors
<1>24. ASSUME NEW c \in Compactors, NEW d \in Dirs, Pick(c, d) PROVE TrackInv'
    BY <1>24, Bounds DEF Pick, Goto, TrackInv, Marks, TypeOK, Compactors
<1>25. ASSUME NEW c \in Compactors, FoldFails(c) PROVE TrackInv'
    BY <1>25, Bounds DEF FoldFails, NotCompacted, Goto, TrackInv, Marks, TypeOK,
       Compactors
<1>26. CASE Stop
    BY <1>26, Bounds DEF Stop, TrackInv, Marks, TypeOK, Compactors
<1>27. CASE StopRaise
    BY <1>27, Bounds DEF StopRaise, TrackInv, Marks, TypeOK, Compactors
<1>28. CASE UNCHANGED vars
    BY <1>28 DEF vars, TrackInv, Marks, TypeOK, Compactors
<1> QED
    BY <1>1, <1>2, <1>3, <1>4, <1>5, <1>6, <1>7, <1>8, <1>9, <1>10, <1>11, <1>12,
       <1>13, <1>14, <1>15, <1>16, <1>17, <1>18, <1>19, <1>20, <1>21, <1>22, <1>23,
       <1>24, <1>25, <1>26, <1>27, <1>28 DEF Next, Continue, Compact

\* A step that touches neither rows nor handlers keeps track of them if it loses
\* no directory (drain, compact_dirty).
LEMMA PendingFrame ==
    ASSUME PendingInv, UNCHANGED <<rows, silent, threads>>,
           closing'[Loop] \/ (closing'[Loop] = closing[Loop] /\ \A d \in Dirs : Tracked(d) => Tracked(d)')
    PROVE  PendingInv'
<1>1. \A d \in Dirs : \A i \in rows[d] : Marks(d, i) => Marks(d, i)'
    BY DEF Marks, threads
<1> QED  BY <1>1 DEF PendingInv, Tracked

\* With one compactor no step loses a directory that has delta rows, until the
\* worker closes down (mark_dirty, drain, compact_dirty).
LEMMA PendingStep ==
    ASSUME Flushers = {}, TypeOK, NumbersInv, TrackInv, PendingInv, [Next]_vars
    PROVE  PendingInv'
<1> USE DEF store, shared, threads, workers, stopper
<1>1. ASSUME NEW t \in Threads, NEW d \in Dirs, Begin(t, d) PROVE PendingInv'
    BY <1>1, Bounds DEF Begin, PendingInv, Tracked, Marks, NumbersInv, TypeOK
<1>2. ASSUME NEW t \in Threads, NEW d \in Dirs, Remove(t, d) PROVE PendingInv'
    BY <1>2, Bounds DEF Remove, PendingInv, Tracked, Marks, NumbersInv, TypeOK
<1>3. ASSUME NEW t \in Threads, Commit(t) PROVE PendingInv'
    <2>1. /\ rows' = [rows EXCEPT ![dir[t]] = @ \cup {num[t]}] /\ dir[t] \in Dirs
          /\ silent' = [silent EXCEPT ![dir[t]] = @ \ {num[t]}]
          /\ pc[t] = "commit" /\ pc' = [pc EXCEPT ![t] = "mark"]
          /\ UNCHANGED <<dir, num, dirty, batch, cur, closing>>
        BY <1>3 DEF Commit, NumbersInv
    <2>2. pc'[t] = "mark" /\ \A u \in Threads \ {t} : pc'[u] = pc[u]
        BY <2>1 DEF TypeOK
    <2>3. Marks(dir[t], num[t])' /\ \A d \in Dirs : \A i \in rows[d] : Marks(d, i) => Marks(d, i)'
        BY <2>1, <2>2 DEF Marks
    <2>4. ASSUME NEW d \in Dirs, NEW i \in rows'[d], ~(d = dir[t] /\ i = num[t])
          PROVE  i \in rows[d] /\ (i \in silent[d] => i \in silent'[d])
        BY <2>1, <2>4 DEF TypeOK
    <2> QED  BY <2>1, <2>3, <2>4 DEF PendingInv, Tracked
<1>4. ASSUME NEW t \in Threads, Clear(t) PROVE PendingInv'
    BY <1>4, Bounds DEF Clear, PendingInv, Tracked, Marks, NumbersInv, TypeOK
<1>5. ASSUME NEW t \in Threads, Reset(t) PROVE PendingInv'
    BY <1>5, Bounds DEF Reset, PendingInv, Tracked, Marks, NumbersInv, TypeOK
<1>6. ASSUME NEW t \in Threads, PersistFails(t) PROVE PendingInv'
    <2>1. /\ dir[t] \in Dirs /\ silent' = [silent EXCEPT ![dir[t]] = @ \cup {num[t]}]
          /\ pc' = [pc EXCEPT ![t] = "idle"] /\ dir' = [dir EXCEPT ![t] = NoDir]
          /\ num' = [num EXCEPT ![t] = 0]
          /\ UNCHANGED <<rows, dirty, batch, cur, closing>>
        BY <1>6 DEF PersistFails, NumbersInv
    <2>2. ASSUME NEW d \in Dirs, NEW i \in rows[d], i \in silent[d] \/ Marks(d, i)
          PROVE  i \in silent'[d] \/ Marks(d, i)'
        BY <2>1, <2>2 DEF Marks, TypeOK
    <2> QED  BY <2>1, <2>2 DEF PendingInv, Tracked
<1>7. ASSUME NEW t \in Threads, Mark(t) PROVE PendingInv'
    <2>1. PICK l \in {"raise", "idle"} : pc' = [pc EXCEPT ![t] = l]
        BY <1>7, MarkEffect
    <2>2. /\ dirty' = dirty \cup {dir[t]} /\ dir' = [dir EXCEPT ![t] = NoDir]
          /\ num' = [num EXCEPT ![t] = 0] /\ UNCHANGED <<rows, silent, workers>>
        BY <1>7 DEF Mark, Insert
    <2>3. ASSUME NEW d, d # dir[t], NEW i, Marks(d, i)
          PROVE  Marks(d, i)'
        BY <2>1, <2>2, <2>3 DEF Marks, TypeOK
    <2> QED  BY <2>2, <2>3 DEF PendingInv, Tracked
<1>8. ASSUME NEW t \in Threads, Raise(t) PROVE PendingInv'
    BY <1>8, Bounds DEF Raise, PendingInv, Tracked, Marks, NumbersInv, TypeOK
<1>9. CASE Start
    BY <1>9, PendingFrame DEF Start, Tracked
<1>10. CASE Test
    BY <1>10, PendingFrame DEF Test, Tracked
<1>11. CASE Wait
    BY <1>11, PendingFrame DEF Wait, Tracked
<1>12. CASE Wake
    BY <1>12, PendingFrame DEF Wake, Tracked
<1>13. CASE Timeout
    BY <1>13, PendingFrame DEF Timeout, Tracked
<1>14. CASE Check
    BY <1>14, PendingFrame DEF Check, Tracked
<1>15. CASE Drain
    BY <1>15, PendingFrame, Bounds DEF Drain, TakeAll, Tracked, TrackInv, TypeOK
<1>16. ASSUME NEW c \in Compactors, FlushAll(c) PROVE PendingInv'
    BY <1>16, PendingFrame, Bounds DEF FlushAll, TypeOK, Compactors
<1>17. ASSUME NEW c \in Compactors, EndRound(c) PROVE PendingInv'
    BY <1>17, PendingFrame DEF EndRound, Tracked
<1>18. ASSUME NEW c \in Compactors, Count(c) PROVE PendingInv'
    BY <1>18, PendingFrame, Bounds DEF Count, NotCompacted, Tracked, TypeOK, Compactors
<1>19. ASSUME NEW c \in Compactors, Scan(c) PROVE PendingInv'
    BY <1>19, PendingFrame, Bounds DEF Scan, NotCompacted, Tracked, TypeOK, Compactors
<1>20. ASSUME NEW c \in Compactors, FoldIn(c) PROVE PendingInv'
    <2>1. c = Loop
        BY DEF Compactors
    <2>2. rows' = [rows EXCEPT ![cur[c]] = @ \ scan[c]] /\ cpc[c] = "fold" /\ cur[c] \in Dirs
        BY <1>20 DEF FoldIn, FoldedRows, TypeOK
    <2>3. UNCHANGED <<silent, closing, batch, dirty, pc, dir, num>> /\ cur' = [cur EXCEPT ![c] = NoDir]
        BY <1>20 DEF FoldIn
    <2> SUFFICES ASSUME ~closing[Loop], NEW d \in Dirs, NEW i \in rows'[d]
                 PROVE  d \in dirty \/ d \in batch[Loop] \/ i \in silent[d] \/ Marks(d, i)
        BY <2>3 DEF PendingInv, Tracked, Marks
    <2>4. CASE d = cur[Loop]
        <3>1. i \in rows[d] \ scan[Loop]
            BY <2>1, <2>2, <2>4 DEF TypeOK
        <3> QED  BY <2>1, <2>2, <2>4, <3>1 DEF TrackInv
    <2>5. CASE d # cur[Loop]
        <3>1. i \in rows[d]
            BY <2>1, <2>2, <2>5 DEF TypeOK
        <3> QED  BY <2>5, <3>1 DEF PendingInv, Tracked
    <2> QED  BY <2>4, <2>5
<1>21. ASSUME NEW c \in Compactors, NoRow(c) PROVE PendingInv'
    BY <1>21, PendingFrame, Bounds DEF NoRow, NotCompacted, Tracked, TypeOK, Compactors
<1>22. ASSUME NEW c \in Compactors, Remark(c) PROVE PendingInv'
    BY <1>22, PendingFrame, Bounds DEF Remark, Insert, Tracked, TypeOK, Compactors
<1>23. ASSUME NEW c \in Compactors, RaiseSelf(c) PROVE PendingInv'
    BY <1>23, PendingFrame DEF RaiseSelf, Tracked
<1>24. ASSUME NEW c \in Compactors, NEW d \in Dirs, Pick(c, d) PROVE PendingInv'
    <2>1. c = Loop
        BY DEF Compactors
    <2>2. cur[c] = NoDir /\ cur'[c] = d /\ batch'[c] = batch[c] \ {d}
        BY <1>24, <2>1 DEF Pick, TrackInv, TypeOK
    <2>3. UNCHANGED <<rows, silent, closing, dirty, pc, dir, num>>
        BY Zenon, <1>24 DEF Pick
    <2>4. \A e \in Dirs : Tracked(e) => Tracked(e)'
        BY <2>1, <2>2, <2>3, Bounds DEF Tracked
    <2> QED  BY <2>3, <2>4, PendingFrame
<1>25. ASSUME NEW c \in Compactors, FoldFails(c) PROVE PendingInv'
    BY <1>25, PendingFrame, Bounds DEF FoldFails, NotCompacted, Tracked, TypeOK, Compactors
<1>26. CASE Stop
    BY <1>26, PendingFrame DEF Stop, Tracked
<1>27. CASE StopRaise
    BY <1>27, PendingFrame DEF StopRaise, Tracked
<1>28. CASE UNCHANGED vars
    BY <1>28, PendingFrame DEF vars, Tracked
<1> QED
    BY <1>1, <1>2, <1>3, <1>4, <1>5, <1>6, <1>7, <1>8, <1>9, <1>10, <1>11, <1>12,
       <1>13, <1>14, <1>15, <1>16, <1>17, <1>18, <1>19, <1>20, <1>21, <1>22, <1>23,
       <1>24, <1>25, <1>26, <1>27, <1>28 DEF Next, Continue, Compact

----------------------------------------------------------------------------
(* Theorems *)

\* Nothing is pending, scanned or taken at the start (new).
LEMMA FoldInit == Init => FoldInv /\ TrackInv /\ PendingInv
BY Bounds, LoopAssumption DEF Init, FoldInv, TrackInv, PendingInv, Uncommitted

\* With the worker as the only compactor every committed delta of a directory
\* is a pending row or was folded exactly once (force_compact_inode).
THEOREM FoldsOnce == ASSUME Flushers = {} PROVE Spec => []FoldedOnce
<1>1. Init => FoldInv
    BY FoldInit
<1>2. TypeOK /\ NumbersInv /\ FoldInv /\ [Next]_vars => FoldInv'
    BY FoldStep
<1>3. TypeOK /\ FoldInv => FoldedOnce
    BY Bounds DEF FoldInv, FoldedOnce, TypeOK
<1> QED  BY <1>1, <1>2, <1>3, TypeCorrect, PTL DEF Spec

\* With the worker as the only compactor no directory with a delta row is
\* forgotten before the worker closes down, except for rows of an earlier run and
\* of handlers that failed between the commit and mark_dirty (mark_dirty, drain,
\* compact_dirty, the ? after maybe_persist).
THEOREM NothingForgotten == ASSUME Flushers = {} PROVE Spec => []PendingTracked
<1>1. Init => TrackInv /\ PendingInv
    BY FoldInit
<1>2. TypeOK /\ NumbersInv /\ TrackInv /\ PendingInv /\ [Next]_vars
        => TrackInv' /\ PendingInv'
    BY TrackStep, PendingStep
<1>3. PendingInv => PendingTracked
    BY DEF PendingInv, PendingTracked, Marks, Marking
<1> QED  BY <1>1, <1>2, <1>3, TypeCorrect, PTL DEF Spec

=============================================================================
