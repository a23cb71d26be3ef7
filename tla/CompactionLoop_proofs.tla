----------------------- MODULE CompactionLoop_proofs -----------------------
(***************************************************************************)
(* Proofs about the compaction worker, for any number of handler threads,  *)
(* directories, delta rows and compactors: no wake-up is lost.             *)
(***************************************************************************)
EXTENDS CompactionLoop, TLAPS

----------------------------------------------------------------------------
(* Types *)

\* The bounds are numbers and no directory is NoDir.
LEMMA Bounds ==
    /\ MaxDeltas \in Nat \ {0} /\ MaxStops \in Nat /\ MaxFails \in Nat
    /\ NoDir \notin Dirs
    /\ Loop \in Compactors
BY LoopAssumption DEF Compactors

\* The worker starts with nothing to do (new).
LEMMA TypeInit == Init => TypeOK
<1> SUFFICES ASSUME Init PROVE TypeOK
    OBVIOUS
<1>1. /\ folded \in [Dirs -> [1..MaxDeltas -> Nat]]
      /\ count \in [Dirs -> 0..MaxDeltas]
    BY Bounds DEF Init
<1>2. rows \in [Dirs -> SUBSET (1..MaxDeltas)] /\ silent \in [Dirs -> SUBSET (1..MaxDeltas)]
    BY <1>1, Bounds DEF Init
<1>3. num \in [Threads -> 0..MaxDeltas] /\ stops \in 0..MaxStops /\ fails \in 0..MaxFails
    BY Bounds DEF Init
<1>4. cpc \in [Compactors -> {"new", "flush"}]
    BY DEF Init
<1>5. \A c \in Compactors : cpc[c] \notin {"count", "scan", "fold", "mark"}
    BY <1>4
<1> QED  BY <1>1, <1>3, <1>4, <1>5, <1>2 DEF Init, TypeOK, Labels

\* Leaving a directory uncompacted keeps the types (compact_dirty, flush_all).
LEMMA NotCompactedTypes ==
    ASSUME TypeOK, NEW c \in Compactors, cpc[c] \in {"count", "scan", "fold"},
           NotCompacted(c)
    PROVE  /\ cpc' \in [Compactors -> Labels]
           /\ cur' \in [Compactors -> Dirs \cup {NoDir}]
           /\ scan' \in [Compactors -> SUBSET (1..MaxDeltas)]
           /\ \A x \in Compactors : cpc'[x] \in {"count", "scan", "fold", "mark"} => cur'[x] \in Dirs
<1>1. CASE closing[c]
    <2>1. /\ cpc' = [cpc EXCEPT ![c] = "next"]
          /\ cur' = [cur EXCEPT ![c] = NoDir]
          /\ scan' = [scan EXCEPT ![c] = {}]
        BY <1>1 DEF NotCompacted, Goto
    <2>2. cpc' \in [Compactors -> Labels]
        BY <2>1 DEF TypeOK, Labels
    <2>3. cur' \in [Compactors -> Dirs \cup {NoDir}] /\ scan' \in [Compactors -> SUBSET (1..MaxDeltas)]
        BY <2>1 DEF TypeOK
    <2>4. ASSUME NEW x \in Compactors, cpc'[x] \in {"count", "scan", "fold", "mark"}
          PROVE  cur'[x] \in Dirs
        BY <2>1, <2>4 DEF TypeOK
    <2> QED  BY <2>2, <2>3, <2>4
<1>2. CASE ~closing[c]
    <2>1. cpc' = [cpc EXCEPT ![c] = "mark"] /\ UNCHANGED <<cur, scan>>
        BY <1>2 DEF NotCompacted, Goto
    <2>2. cpc' \in [Compactors -> Labels]
        BY <2>1 DEF TypeOK, Labels
    <2>3. ASSUME NEW x \in Compactors, cpc'[x] \in {"count", "scan", "fold", "mark"}
          PROVE  cur'[x] \in Dirs
        BY <2>1, <2>3 DEF TypeOK
    <2> QED  BY <2>1, <2>2, <2>3 DEF TypeOK
<1> QED  BY <1>1, <1>2

\* After mark_dirty's insertion a handler raises the flag or is done.
LEMMA MarkEffect ==
    ASSUME NEW t \in Threads, Mark(t)
    PROVE  \E l \in {"raise", "idle"} : pc' = [pc EXCEPT ![t] = l]
<1>1. CASE dirty = {}
    BY <1>1 DEF Mark, Insert
<1>2. CASE dirty # {}
    BY <1>2 DEF Mark, Insert
<1> QED  BY <1>1, <1>2

\* Every step keeps the types (handlers, run_loop, flush_all and stop).
LEMMA TypeStep ==
    ASSUME TypeOK, NumbersInv, [Next]_vars
    PROVE  TypeOK'
<1> USE DEF store, shared, threads, workers, stopper
<1>1. ASSUME NEW t \in Threads, NEW d \in Dirs, Begin(t, d) PROVE TypeOK'
    BY <1>1, Bounds DEF Begin, TypeOK, Labels
<1>2. ASSUME NEW t \in Threads, NEW d \in Dirs, Remove(t, d) PROVE TypeOK'
    BY <1>2, Bounds DEF Remove, TypeOK, Labels
<1>3. ASSUME NEW t \in Threads, Commit(t) PROVE TypeOK'
    <2>1. dir[t] \in Dirs /\ num[t] \in 1..MaxDeltas
        BY <1>3 DEF Commit, NumbersInv
    <2>2. /\ rows' \in [Dirs -> SUBSET (1..MaxDeltas)]
          /\ silent' \in [Dirs -> SUBSET (1..MaxDeltas)]
        BY <1>3, <2>1 DEF Commit, TypeOK
    <2> QED  BY <1>3, <2>2 DEF Commit, TypeOK
<1>4. ASSUME NEW t \in Threads, Clear(t) PROVE TypeOK'
    BY <1>4, Bounds DEF Clear, TypeOK, Labels
<1>5. ASSUME NEW t \in Threads, Reset(t) PROVE TypeOK'
    <2>1. dir[t] \in Dirs /\ 0 \in 0..MaxDeltas
        BY <1>5, Bounds DEF Reset, NumbersInv
    <2>2. count' \in [Dirs -> 0..MaxDeltas]
        BY <1>5, <2>1 DEF Reset, TypeOK
    <2> QED  BY <1>5, <2>2 DEF Reset, TypeOK
<1>6. ASSUME NEW t \in Threads, PersistFails(t) PROVE TypeOK'
    <2>1. dir[t] \in Dirs /\ num[t] \in 1..MaxDeltas
        BY <1>6 DEF PersistFails, NumbersInv
    <2>2. silent' \in [Dirs -> SUBSET (1..MaxDeltas)]
        BY <1>6, <2>1 DEF PersistFails, TypeOK
    <2>3. num' \in [Threads -> 0..MaxDeltas] /\ fails' \in 0..MaxFails
        BY <1>6, Bounds DEF PersistFails, TypeOK
    <2> QED  BY <1>6, <2>2, <2>3 DEF PersistFails, TypeOK
<1>7. ASSUME NEW t \in Threads, Mark(t) PROVE TypeOK'
    <2>1. PICK l \in {"raise", "idle"} : pc' = [pc EXCEPT ![t] = l]
        BY <1>7, MarkEffect
    <2>2. dirty' \subseteq Dirs
        BY <1>7 DEF Mark, Insert, TypeOK, NumbersInv
    <2>3. num' \in [Threads -> 0..MaxDeltas]
        BY <1>7, Bounds DEF Mark, TypeOK
    <2> QED  BY <1>7, <2>1, <2>2, <2>3 DEF Mark, TypeOK
<1>8. ASSUME NEW t \in Threads, Raise(t) PROVE TypeOK'
    BY <1>8, Bounds DEF Raise, TypeOK, Labels
<1>9. CASE Start
    BY <1>9, Bounds DEF Start, Goto, TypeOK, Labels
<1>10. CASE Test
    BY <1>10, Bounds DEF Test, Goto, TypeOK, Labels
<1>11. CASE Wait
    BY Zenon, <1>11, Bounds DEF Wait, Goto, TypeOK, Labels
<1>12. CASE Wake
    BY Zenon, <1>12, Bounds DEF Wake, Goto, TypeOK, Labels
<1>13. CASE Timeout
    BY <1>13, Bounds DEF Timeout, Goto, TypeOK, Labels
<1>14. CASE Check
    BY <1>14, Bounds DEF Check, Goto, TypeOK, Labels
<1>15. CASE Drain
    BY <1>15, Bounds DEF Drain, TakeAll, Goto, TypeOK, Labels
<1>16. ASSUME NEW c \in Compactors, FlushAll(c) PROVE TypeOK'
    BY <1>16, Bounds DEF FlushAll, TakeAll, Goto, TypeOK, Labels
<1>17. ASSUME NEW c \in Compactors, EndRound(c) PROVE TypeOK'
    BY <1>17, Bounds DEF EndRound, Goto, TypeOK, Labels
<1>18. ASSUME NEW c \in Compactors, Count(c) PROVE TypeOK'
    <2>1. CASE Cardinality(rows[cur[c]]) < Threshold
        BY <1>18, <2>1, NotCompactedTypes DEF Count, TypeOK
    <2>2. CASE ~(Cardinality(rows[cur[c]]) < Threshold)
        BY Zenon, <1>18, <2>2 DEF Count, Goto, TypeOK, Labels
    <2> QED  BY <2>1, <2>2
<1>19. ASSUME NEW c \in Compactors, Scan(c) PROVE TypeOK'
    <2>1. CASE rows[cur[c]] = {}
        BY <1>19, <2>1, NotCompactedTypes DEF Scan, TypeOK
    <2>2. CASE ~(rows[cur[c]] = {})
        <3>1. /\ cpc[c] = "scan" /\ cpc' = [cpc EXCEPT ![c] = "fold"]
              /\ scan' = [scan EXCEPT ![c] = rows[cur[c]]]
              /\ UNCHANGED <<store, shared, threads, batch, cur, closing, stopper, fails>>
            BY <1>19, <2>2 DEF Scan, Goto
        <3>2. /\ cpc' \in [Compactors -> Labels]
              /\ scan' \in [Compactors -> SUBSET (1..MaxDeltas)]
            BY <3>1 DEF TypeOK, Labels
        <3>3. \A e \in Compactors : cpc'[e] \in {"count", "scan", "fold", "mark"} => cur'[e] \in Dirs
            BY <3>1 DEF TypeOK
        <3> QED  BY <3>1, <3>2, <3>3 DEF TypeOK
    <2> QED  BY <2>1, <2>2
<1>20. ASSUME NEW c \in Compactors, FoldIn(c) PROVE TypeOK'
    BY <1>20, Bounds DEF FoldIn, Goto, TypeOK, Labels
<1>21. ASSUME NEW c \in Compactors, NoRow(c) PROVE TypeOK'
    BY Zenon, <1>21, NotCompactedTypes, Bounds DEF NoRow, TypeOK
<1>22. ASSUME NEW c \in Compactors, Remark(c) PROVE TypeOK'
    <2>1. PICK l \in {"raise", "next"} : cpc' = [cpc EXCEPT ![c] = l]
        BY <1>22 DEF Remark, Insert, Goto
    <2>2. cpc' \in [Compactors -> Labels] /\ cpc'[c] = l
        BY <2>1 DEF TypeOK, Labels
    <2>3. dirty' = dirty \cup {cur[c]} /\ cur[c] \in Dirs
        BY <1>22 DEF Remark, Insert, TypeOK
    <2>4. cur' = [cur EXCEPT ![c] = NoDir] /\ scan' = [scan EXCEPT ![c] = {}]
        BY <1>22 DEF Remark
    <2>5. UNCHANGED <<store, flag, running, threads, batch, closing, stopper, fails>>
        BY <1>22 DEF Remark
    <2>6. \A e \in Compactors : cpc'[e] \in {"count", "scan", "fold", "mark"} => cur'[e] \in Dirs
        BY <2>1, <2>4 DEF TypeOK
    <2>7. /\ cur' \in [Compactors -> Dirs \cup {NoDir}]
          /\ scan' \in [Compactors -> SUBSET (1..MaxDeltas)]
        BY <2>4 DEF TypeOK
    <2> QED  BY <2>2, <2>3, <2>5, <2>6, <2>7 DEF TypeOK
<1>23. ASSUME NEW c \in Compactors, RaiseSelf(c) PROVE TypeOK'
    BY <1>23, Bounds DEF RaiseSelf, Goto, TypeOK, Labels
<1>24. ASSUME NEW c \in Compactors, NEW d \in Dirs, Pick(c, d) PROVE TypeOK'
    BY <1>24, Bounds DEF Pick, Goto, TypeOK, Labels
<1>25. ASSUME NEW c \in Compactors, FoldFails(c) PROVE TypeOK'
    <2>1. fails' \in 0..MaxFails
        BY <1>25, Bounds DEF FoldFails, TypeOK
    <2> QED  BY <1>25, <2>1, NotCompactedTypes DEF FoldFails, TypeOK
<1>26. CASE Stop
    <2>1. stops' \in 0..MaxStops
        BY <1>26, Bounds DEF Stop, TypeOK
    <2>2. running' = FALSE /\ spc' = "raise"
        BY <1>26 DEF Stop
    <2>3. UNCHANGED <<store, dirty, flag, threads, workers, fails>>
        BY <1>26 DEF Stop
    <2> QED  BY Zenon, <2>1, <2>2, <2>3 DEF TypeOK
<1>27. CASE StopRaise
    BY <1>27, Bounds DEF StopRaise, TypeOK, Labels
<1>28. CASE UNCHANGED vars
    BY <1>28 DEF vars, TypeOK, Labels
<1> QED
    BY <1>1, <1>2, <1>3, <1>4, <1>5, <1>6, <1>7, <1>8, <1>9, <1>10, <1>11, <1>12,
       <1>13, <1>14, <1>15, <1>16, <1>17, <1>18, <1>19, <1>20, <1>21, <1>22, <1>23,
       <1>24, <1>25, <1>26, <1>27, <1>28 DEF Next, Continue, Compact

\* Every step keeps the numbers of the deltas apart (next_seq, rmdir).
LEMMA NumbersStep ==
    ASSUME TypeOK, NumbersInv, [Next]_vars
    PROVE  NumbersInv'
<1> USE DEF store, shared, threads, workers, stopper
<1>1. ASSUME NEW t \in Threads, NEW d \in Dirs, Begin(t, d) PROVE NumbersInv'
    <2>1. \A e \in alive' : rows'[e] \subseteq 1..count'[e]
        BY <1>1, Bounds DEF Begin, TypeOK, NumbersInv
    <2>2. ASSUME NEW u \in Threads
          PROVE  /\ pc'[u] \in {"commit", "clear", "reset", "mark"} => dir'[u] \in Dirs
                 /\ pc'[u] \in {"clear", "reset"} => dir'[u] \notin alive'
                 /\ pc'[u] \in {"commit", "mark"} => num'[u] \in 1..MaxDeltas
                 /\ pc'[u] = "commit" /\ dir'[u] \in alive'
                        => num'[u] \in 1..count'[dir'[u]] \ rows'[dir'[u]]
        BY <1>1, Bounds DEF Begin, TypeOK, NumbersInv
    <2>3. ASSUME NEW u \in Threads, NEW v \in Threads, u # v, pc'[u] = "commit",
                 pc'[v] = "commit", dir'[u] = dir'[v], dir'[u] \in alive'
          PROVE  num'[u] # num'[v]
        <3>1. ASSUME NEW w \in Threads, w # t, pc[w] = "commit", dir[w] = d, d \in alive
              PROVE  num[w] # count[d] + 1
            BY <3>1, Bounds DEF TypeOK, NumbersInv
        <3>2. /\ num' = [num EXCEPT ![t] = count[d] + 1] /\ dir' = [dir EXCEPT ![t] = d]
              /\ pc' = [pc EXCEPT ![t] = "commit"] /\ alive' = alive
            BY <1>1 DEF Begin
        <3>3. CASE u = t
            BY <2>3, <3>1, <3>2, <3>3 DEF TypeOK
        <3>4. CASE v = t
            BY <2>3, <3>1, <3>2, <3>4 DEF TypeOK
        <3>5. CASE u # t /\ v # t
            BY <2>3, <3>2, <3>5 DEF TypeOK, NumbersInv
        <3> QED  BY <3>3, <3>4, <3>5
    <2> QED  BY <2>1, <2>2, <2>3 DEF NumbersInv
<1>2. ASSUME NEW t \in Threads, NEW d \in Dirs, Remove(t, d) PROVE NumbersInv'
    <2>1. \A e \in alive' : rows'[e] \subseteq 1..count'[e]
        BY <1>2, Bounds DEF Remove, TypeOK, NumbersInv
    <2>2. ASSUME NEW u \in Threads
          PROVE  /\ pc'[u] \in {"commit", "clear", "reset", "mark"} => dir'[u] \in Dirs
                 /\ pc'[u] \in {"clear", "reset"} => dir'[u] \notin alive'
                 /\ pc'[u] \in {"commit", "mark"} => num'[u] \in 1..MaxDeltas
                 /\ pc'[u] = "commit" /\ dir'[u] \in alive'
                        => num'[u] \in 1..count'[dir'[u]] \ rows'[dir'[u]]
        BY <1>2, Bounds DEF Remove, TypeOK, NumbersInv
    <2>3. ASSUME NEW u \in Threads, NEW v \in Threads, u # v, pc'[u] = "commit",
                 pc'[v] = "commit", dir'[u] = dir'[v], dir'[u] \in alive'
          PROVE  num'[u] # num'[v]
        BY <1>2, <2>3, Bounds DEF Remove, TypeOK, NumbersInv
    <2> QED  BY <2>1, <2>2, <2>3 DEF NumbersInv
<1>3. ASSUME NEW t \in Threads, Commit(t) PROVE NumbersInv'
    <2>1. \A e \in alive' : rows'[e] \subseteq 1..count'[e]
        BY <1>3, Bounds DEF Commit, TypeOK, NumbersInv
    <2>2. ASSUME NEW u \in Threads
          PROVE  /\ pc'[u] \in {"commit", "clear", "reset", "mark"} => dir'[u] \in Dirs
                 /\ pc'[u] \in {"clear", "reset"} => dir'[u] \notin alive'
                 /\ pc'[u] \in {"commit", "mark"} => num'[u] \in 1..MaxDeltas
                 /\ pc'[u] = "commit" /\ dir'[u] \in alive'
                        => num'[u] \in 1..count'[dir'[u]] \ rows'[dir'[u]]
        BY <1>3, Bounds DEF Commit, TypeOK, NumbersInv
    <2>3. ASSUME NEW u \in Threads, NEW v \in Threads, u # v, pc'[u] = "commit",
                 pc'[v] = "commit", dir'[u] = dir'[v], dir'[u] \in alive'
          PROVE  num'[u] # num'[v]
        BY <1>3, <2>3, Bounds DEF Commit, TypeOK, NumbersInv
    <2> QED  BY <2>1, <2>2, <2>3 DEF NumbersInv
<1>4. ASSUME NEW t \in Threads, Clear(t) PROVE NumbersInv'
    <2>1. \A e \in alive' : rows'[e] \subseteq 1..count'[e]
        BY <1>4, Bounds DEF Clear, TypeOK, NumbersInv
    <2>2. ASSUME NEW u \in Threads
          PROVE  /\ pc'[u] \in {"commit", "clear", "reset", "mark"} => dir'[u] \in Dirs
                 /\ pc'[u] \in {"clear", "reset"} => dir'[u] \notin alive'
                 /\ pc'[u] \in {"commit", "mark"} => num'[u] \in 1..MaxDeltas
                 /\ pc'[u] = "commit" /\ dir'[u] \in alive'
                        => num'[u] \in 1..count'[dir'[u]] \ rows'[dir'[u]]
        BY <1>4, Bounds DEF Clear, TypeOK, NumbersInv
    <2>3. ASSUME NEW u \in Threads, NEW v \in Threads, u # v, pc'[u] = "commit",
                 pc'[v] = "commit", dir'[u] = dir'[v], dir'[u] \in alive'
          PROVE  num'[u] # num'[v]
        BY <1>4, <2>3, Bounds DEF Clear, TypeOK, NumbersInv
    <2> QED  BY <2>1, <2>2, <2>3 DEF NumbersInv
<1>5. ASSUME NEW t \in Threads, Reset(t) PROVE NumbersInv'
    <2>1. \A e \in alive' : rows'[e] \subseteq 1..count'[e]
        BY <1>5, Bounds DEF Reset, TypeOK, NumbersInv
    <2>2. ASSUME NEW u \in Threads
          PROVE  /\ pc'[u] \in {"commit", "clear", "reset", "mark"} => dir'[u] \in Dirs
                 /\ pc'[u] \in {"clear", "reset"} => dir'[u] \notin alive'
                 /\ pc'[u] \in {"commit", "mark"} => num'[u] \in 1..MaxDeltas
                 /\ pc'[u] = "commit" /\ dir'[u] \in alive'
                        => num'[u] \in 1..count'[dir'[u]] \ rows'[dir'[u]]
        BY <1>5, Bounds DEF Reset, TypeOK, NumbersInv
    <2>3. ASSUME NEW u \in Threads, NEW v \in Threads, u # v, pc'[u] = "commit",
                 pc'[v] = "commit", dir'[u] = dir'[v], dir'[u] \in alive'
          PROVE  num'[u] # num'[v]
        BY <1>5, <2>3, Bounds DEF Reset, TypeOK, NumbersInv
    <2> QED  BY <2>1, <2>2, <2>3 DEF NumbersInv
<1>6. ASSUME NEW t \in Threads, PersistFails(t) PROVE NumbersInv'
    BY <1>6, Bounds DEF PersistFails, NumbersInv, TypeOK
<1>7. ASSUME NEW t \in Threads, Mark(t) PROVE NumbersInv'
    <2>1. PICK l \in {"raise", "idle"} : pc' = [pc EXCEPT ![t] = l]
        BY <1>7, MarkEffect
    <2> QED  BY <1>7, <2>1 DEF Mark, NumbersInv, TypeOK
<1>8. ASSUME NEW t \in Threads, Raise(t) PROVE NumbersInv'
    BY <1>8, Bounds DEF Raise, NumbersInv, TypeOK
<1>9. CASE Start
    BY Zenon, <1>9 DEF Start, NumbersInv
<1>10. CASE Test
    BY Zenon, <1>10 DEF Test, NumbersInv
<1>11. CASE Wait
    BY Zenon, <1>11 DEF Wait, NumbersInv
<1>12. CASE Wake
    BY Zenon, <1>12 DEF Wake, NumbersInv
<1>13. CASE Timeout
    BY Zenon, <1>13 DEF Timeout, NumbersInv
<1>14. CASE Check
    BY Zenon, <1>14 DEF Check, NumbersInv
<1>15. CASE Drain
    BY Zenon, <1>15 DEF Drain, NumbersInv
<1>16. ASSUME NEW c \in Compactors, FlushAll(c) PROVE NumbersInv'
    BY Zenon, <1>16 DEF FlushAll, NumbersInv
<1>17. ASSUME NEW c \in Compactors, EndRound(c) PROVE NumbersInv'
    BY Zenon, <1>17 DEF EndRound, NumbersInv
<1>18. ASSUME NEW c \in Compactors, Count(c) PROVE NumbersInv'
    <2>1. UNCHANGED <<store, threads>>
        BY <1>18 DEF Count
    <2> QED  BY Zenon, <2>1 DEF NumbersInv
<1>19. ASSUME NEW c \in Compactors, Scan(c) PROVE NumbersInv'
    <2>1. UNCHANGED <<store, threads>>
        BY <1>19 DEF Scan
    <2> QED  BY Zenon, <2>1 DEF NumbersInv
<1>20. ASSUME NEW c \in Compactors, FoldIn(c) PROVE NumbersInv'
    <2>1. \A e \in alive' : rows'[e] \subseteq 1..count'[e]
        BY <1>20, Bounds DEF FoldIn, TypeOK, NumbersInv
    <2>2. ASSUME NEW u \in Threads
          PROVE  /\ pc'[u] \in {"commit", "clear", "reset", "mark"} => dir'[u] \in Dirs
                 /\ pc'[u] \in {"clear", "reset"} => dir'[u] \notin alive'
                 /\ pc'[u] \in {"commit", "mark"} => num'[u] \in 1..MaxDeltas
                 /\ pc'[u] = "commit" /\ dir'[u] \in alive'
                        => num'[u] \in 1..count'[dir'[u]] \ rows'[dir'[u]]
        BY <1>20, Bounds DEF FoldIn, TypeOK, NumbersInv
    <2>3. ASSUME NEW u \in Threads, NEW v \in Threads, u # v, pc'[u] = "commit",
                 pc'[v] = "commit", dir'[u] = dir'[v], dir'[u] \in alive'
          PROVE  num'[u] # num'[v]
        BY <1>20, <2>3, Bounds DEF FoldIn, TypeOK, NumbersInv
    <2> QED  BY <2>1, <2>2, <2>3 DEF NumbersInv
<1>21. ASSUME NEW c \in Compactors, NoRow(c) PROVE NumbersInv'
    <2>1. UNCHANGED <<store, threads>>
        BY <1>21 DEF NoRow
    <2> QED  BY Zenon, <2>1 DEF NumbersInv
<1>22. ASSUME NEW c \in Compactors, Remark(c) PROVE NumbersInv'
    BY Zenon, <1>22 DEF Remark, NumbersInv
<1>23. ASSUME NEW c \in Compactors, RaiseSelf(c) PROVE NumbersInv'
    BY Zenon, <1>23 DEF RaiseSelf, NumbersInv
<1>24. ASSUME NEW c \in Compactors, NEW d \in Dirs, Pick(c, d) PROVE NumbersInv'
    BY Zenon, <1>24 DEF Pick, NumbersInv
<1>25. ASSUME NEW c \in Compactors, FoldFails(c) PROVE NumbersInv'
    <2>1. UNCHANGED <<store, threads>>
        BY <1>25 DEF FoldFails
    <2> QED  BY Zenon, <2>1 DEF NumbersInv
<1>26. CASE Stop
    BY Zenon, <1>26 DEF Stop, NumbersInv
<1>27. CASE StopRaise
    BY Zenon, <1>27 DEF StopRaise, NumbersInv
<1>28. CASE UNCHANGED vars
    BY Zenon, <1>28 DEF vars, NumbersInv
<1> QED
    BY <1>1, <1>2, <1>3, <1>4, <1>5, <1>6, <1>7, <1>8, <1>9, <1>10, <1>11, <1>12,
       <1>13, <1>14, <1>15, <1>16, <1>17, <1>18, <1>19, <1>20, <1>21, <1>22, <1>23,
       <1>24, <1>25, <1>26, <1>27, <1>28 DEF Next, Continue, Compact

----------------------------------------------------------------------------
(* Wake-ups *)

\* Every step keeps the flag up, or on its way up, while there is work and the
\* loop is not about to take it (mark_dirty, run_loop, stop).
LEMMA WakeStep ==
    ASSUME TypeOK, NumbersInv, WakeInv, [Next]_vars
    PROVE  WakeInv'
<1> USE DEF store, shared, threads, workers, stopper
<1>1. ASSUME NEW t \in Threads, NEW d \in Dirs, Begin(t, d) PROVE WakeInv'
    BY <1>1, Bounds DEF Begin, WakeInv, Raising, TypeOK
<1>2. ASSUME NEW t \in Threads, NEW d \in Dirs, Remove(t, d) PROVE WakeInv'
    BY <1>2, Bounds DEF Remove, WakeInv, Raising, TypeOK
<1>3. ASSUME NEW t \in Threads, Commit(t) PROVE WakeInv'
    BY <1>3, Bounds DEF Commit, WakeInv, Raising, TypeOK
<1>4. ASSUME NEW t \in Threads, Clear(t) PROVE WakeInv'
    BY <1>4, Bounds DEF Clear, WakeInv, Raising, TypeOK
<1>5. ASSUME NEW t \in Threads, Reset(t) PROVE WakeInv'
    BY <1>5, Bounds DEF Reset, WakeInv, Raising, TypeOK
<1>6. ASSUME NEW t \in Threads, PersistFails(t) PROVE WakeInv'
    BY <1>6, Bounds DEF PersistFails, WakeInv, Raising, TypeOK
<1>7. ASSUME NEW t \in Threads, Mark(t) PROVE WakeInv'
    BY <1>7, Bounds DEF Mark, Insert, WakeInv, Raising, TypeOK
<1>8. ASSUME NEW t \in Threads, Raise(t) PROVE WakeInv'
    BY <1>8, Bounds DEF Raise, WakeInv, Raising, TypeOK
<1>9. CASE Start
    BY <1>9, Bounds DEF Start, Goto, WakeInv, Raising, TypeOK
<1>10. CASE Test
    BY <1>10, Bounds DEF Test, Goto, WakeInv, Raising, TypeOK
<1>11. CASE Wait
    BY <1>11, Bounds DEF Wait, Goto, WakeInv, Raising, TypeOK
<1>12. CASE Wake
    BY <1>12, Bounds DEF Wake, Goto, WakeInv, Raising, TypeOK
<1>13. CASE Timeout
    BY <1>13, Bounds DEF Timeout, Goto, WakeInv, Raising, TypeOK
<1>14. CASE Check
    BY <1>14, Bounds DEF Check, Goto, WakeInv, Raising, TypeOK
<1>15. CASE Drain
    BY <1>15, Bounds DEF Drain, TakeAll, Goto, WakeInv, Raising, TypeOK
<1>16. ASSUME NEW c \in Compactors, FlushAll(c) PROVE WakeInv'
    BY <1>16, Bounds DEF FlushAll, TakeAll, Goto, WakeInv, Raising, TypeOK
<1>17. ASSUME NEW c \in Compactors, EndRound(c) PROVE WakeInv'
    BY <1>17, Bounds DEF EndRound, Goto, WakeInv, Raising, TypeOK
<1>18. ASSUME NEW c \in Compactors, Count(c) PROVE WakeInv'
    BY <1>18, Bounds DEF Count, NotCompacted, Goto, WakeInv, Raising, TypeOK
<1>19. ASSUME NEW c \in Compactors, Scan(c) PROVE WakeInv'
    BY <1>19, Bounds DEF Scan, NotCompacted, Goto, WakeInv, Raising, TypeOK
<1>20. ASSUME NEW c \in Compactors, FoldIn(c) PROVE WakeInv'
    BY <1>20, Bounds DEF FoldIn, Goto, WakeInv, Raising, TypeOK
<1>21. ASSUME NEW c \in Compactors, NoRow(c) PROVE WakeInv'
    BY <1>21, Bounds DEF NoRow, NotCompacted, Goto, WakeInv, Raising, TypeOK
<1>22. ASSUME NEW c \in Compactors, Remark(c) PROVE WakeInv'
    BY <1>22, Bounds DEF Remark, Insert, Goto, WakeInv, Raising, TypeOK
<1>23. ASSUME NEW c \in Compactors, RaiseSelf(c) PROVE WakeInv'
    BY <1>23, Bounds DEF RaiseSelf, Goto, WakeInv, Raising, TypeOK
<1>24. ASSUME NEW c \in Compactors, NEW d \in Dirs, Pick(c, d) PROVE WakeInv'
    BY <1>24, Bounds DEF Pick, Goto, WakeInv, Raising, TypeOK
<1>25. ASSUME NEW c \in Compactors, FoldFails(c) PROVE WakeInv'
    BY <1>25, Bounds DEF FoldFails, NotCompacted, Goto, WakeInv, Raising, TypeOK
<1>26. CASE Stop
    BY <1>26, Bounds DEF Stop, WakeInv, Raising, TypeOK
<1>27. CASE StopRaise
    BY <1>27, Bounds DEF StopRaise, WakeInv, Raising, TypeOK
<1>28. CASE UNCHANGED vars
    BY <1>28 DEF vars, WakeInv, Raising, TypeOK
<1> QED
    BY <1>1, <1>2, <1>3, <1>4, <1>5, <1>6, <1>7, <1>8, <1>9, <1>10, <1>11, <1>12,
       <1>13, <1>14, <1>15, <1>16, <1>17, <1>18, <1>19, <1>20, <1>21, <1>22, <1>23,
       <1>24, <1>25, <1>26, <1>27, <1>28 DEF Next, Continue, Compact

----------------------------------------------------------------------------
(* Theorems *)

\* The numbers and the flag are right at the start (new).
LEMMA WakeInit == Init => NumbersInv /\ WakeInv
BY Bounds, LoopAssumption DEF Init, NumbersInv, WakeInv

\* The types hold, and the deltas of a directory that exists keep numbers of their
\* own, in every behaviour: removals that clear the rows and set the counter of a
\* directory back under running transactions do not disturb the others (next_seq,
\* clear_deltas, handlers that fail after their commit).
THEOREM TypeCorrect == Spec => [](TypeOK /\ NumbersInv)
<1>1. Init => TypeOK /\ NumbersInv
    BY TypeInit, WakeInit
<1>2. TypeOK /\ NumbersInv /\ [Next]_vars => (TypeOK /\ NumbersInv)'
    BY TypeStep, NumbersStep
<1> QED  BY <1>1, <1>2, PTL DEF Spec

\* No wake-up is lost, whatever the number of handlers, compactors and calls of
\* stop (mark_dirty, run_loop): the flag's mutex and the set's need not be one.
THEOREM NoWakeupLost == Spec => []NoLostWakeup
<1>1. Init => WakeInv
    BY WakeInit
<1>2. TypeOK /\ NumbersInv /\ WakeInv /\ [Next]_vars => WakeInv'
    BY WakeStep
<1>3. WakeInv => NoLostWakeup
    BY DEF WakeInv, NoLostWakeup
<1> QED  BY <1>1, <1>2, <1>3, TypeCorrect, PTL DEF Spec

=============================================================================
