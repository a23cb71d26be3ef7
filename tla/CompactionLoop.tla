--------------------------- MODULE CompactionLoop ---------------------------
(***************************************************************************)
(* The dirty set, the wake-up flag and the life of the compaction worker   *)
(* of server/src/compaction.rs, over several directories.                  *)
(*                                                                         *)
(* A handler commits delta rows to a directory and then calls mark_dirty,  *)
(* which takes two mutexes one after the other: it inserts the directory   *)
(* into the dirty set and, if the set was empty, raises notify_flag.       *)
(* run_loop waits for the flag, clears it, takes the set out and compacts  *)
(* one directory after the other; a directory that is not compacted is     *)
(* marked dirty again by the loop itself.  stop clears running and raises  *)
(* the flag; the loop then leaves with a flush_all.                        *)
(*                                                                         *)
(* Rows nobody has marked are part of the model: create, mkdir and symlink *)
(* return before mark_dirty when storing the allocator's counter fails,    *)
(* and a server that starts marks nothing of what an earlier run left.     *)
(*                                                                         *)
(* Module DeltaCompaction has the rows, the locks and the cache of one     *)
(* directory; here a compaction is a scan and a later fold under the row   *)
(* lock, and a delta row is its number in the directory.                   *)
(***************************************************************************)
EXTENDS Naturals, FiniteSets

CONSTANTS
    Threads,     \* request handler threads
    Dirs,        \* directories
    Root,        \* the root directory, which is never removed
    Loop,        \* the thread in run_loop
    Flushers,    \* other callers of flush_all
    NoDir,       \* no directory
    Threshold,   \* CompactionConfig::delta_threshold
    MaxDeltas,   \* bound: delta rows appended to a directory
    MaxStops,    \* bound: calls of stop
    MaxFails,    \* bound: failed storage operations
    Left,        \* directories in which an earlier run left a delta row
    EarlyStop    \* may stop be called before run_loop is entered?

ASSUME LoopAssumption ==
    /\ Loop \notin Flushers
    /\ NoDir \notin Dirs
    /\ Root \in Dirs
    /\ Threshold \in Nat \ {0}
    /\ MaxDeltas \in Nat \ {0}
    /\ {MaxStops, MaxFails} \subseteq Nat
    /\ Left \subseteq Dirs
    /\ EarlyStop \in BOOLEAN

Compactors == {Loop} \cup Flushers

VARIABLES
    alive,    \* directories with an inode row
    rows,     \* delta rows of each directory
    silent,   \* history: deltas whose handler, or run, ended before mark_dirty
    folded,   \* history: how often each delta of a directory was folded
    count,    \* sequence numbers given out in each directory
    dirty,    \* the dirty set
    flag,     \* notify_flag
    running,  \* the running flag
    pc,       \* control state of each handler thread
    dir,      \* directory a handler thread works on
    num,      \* sequence number of its delta
    cpc,      \* control state of each compactor
    batch,    \* directories a compactor has taken out of the dirty set
    cur,      \* directory a compactor works on
    scan,     \* delta rows it has read
    closing,  \* is the compactor in flush_all rather than compact_dirty?
    spc,      \* control state of the thread that calls stop
    stops,    \* calls of stop so far
    fails     \* failed storage operations so far

store   == <<alive, rows, silent, folded, count>>
shared  == <<dirty, flag, running>>
threads == <<pc, dir, num>>
workers == <<cpc, batch, cur, scan, closing>>
stopper == <<spc, stops>>
vars    == <<store, shared, threads, workers, stopper, fails>>

----------------------------------------------------------------------------
(* Handlers and mark_dirty *)

\* A namespace transaction takes a sequence number in its parent directory.
\* Nobody asks whether the parent still exists.
Begin(t, d) ==
    /\ pc[t] = "idle"
    /\ count[d] < MaxDeltas
    /\ count' = [count EXCEPT ![d] = @ + 1]
    /\ num' = [num EXCEPT ![t] = count[d] + 1]
    /\ pc' = [pc EXCEPT ![t] = "commit"]
    /\ dir' = [dir EXCEPT ![t] = d]
    /\ UNCHANGED <<alive, rows, silent, folded, shared, workers, stopper, fails>>

\* It commits.
Commit(t) ==
    /\ pc[t] = "commit"
    /\ rows' = [rows EXCEPT ![dir[t]] = @ \cup {num[t]}]
    /\ silent' = [silent EXCEPT ![dir[t]] = @ \ {num[t]}]
    /\ pc' = [pc EXCEPT ![t] = "mark"]
    /\ UNCHANGED <<alive, folded, count, shared, dir, num, workers, stopper, fails>>

\* maybe_persist of a create, mkdir or symlink fails: the handler returns with an
\* error, the delta is committed and the directory is not marked.
PersistFails(t) ==
    /\ pc[t] = "mark"
    /\ fails < MaxFails
    /\ fails' = fails + 1
    /\ silent' = [silent EXCEPT ![dir[t]] = @ \cup {num[t]}]
    /\ pc' = [pc EXCEPT ![t] = "idle"]
    /\ dir' = [dir EXCEPT ![t] = NoDir]
    /\ num' = [num EXCEPT ![t] = 0]
    /\ UNCHANGED <<alive, rows, folded, count, shared, workers, stopper>>

\* The handler of an rmdir of d: it commits the removal of the row ...
Remove(t, d) ==
    /\ pc[t] = "idle"
    /\ d \in alive \ {Root}
    /\ alive' = alive \ {d}
    /\ pc' = [pc EXCEPT ![t] = "clear"]
    /\ dir' = [dir EXCEPT ![t] = d]
    /\ UNCHANGED <<rows, silent, folded, count, num, shared, workers, stopper, fails>>

\* ... and calls clear_deltas after that, which deletes the delta rows of d ...
Clear(t) ==
    /\ pc[t] = "clear"
    /\ rows' = [rows EXCEPT ![dir[t]] = {}]
    /\ silent' = [silent EXCEPT ![dir[t]] = {}]
    /\ pc' = [pc EXCEPT ![t] = "reset"]
    /\ UNCHANGED <<alive, folded, count, dir, num, shared, workers, stopper, fails>>

\* ... and sets its sequence counter back.
Reset(t) ==
    /\ pc[t] = "reset"
    /\ count' = [count EXCEPT ![dir[t]] = 0]
    /\ pc' = [pc EXCEPT ![t] = "idle"]
    /\ dir' = [dir EXCEPT ![t] = NoDir]
    /\ UNCHANGED <<alive, rows, silent, folded, num, shared, workers, stopper, fails>>

\* Mutant of Insert: the set is looked at after the insertion.
InsertThenTest(d, empty, nonempty) ==
    /\ dirty' = dirty \cup {d}
    /\ IF dirty' = {} THEN empty ELSE nonempty

\* First half of mark_dirty: who finds the set empty has to raise the flag.
Insert(d, empty, nonempty) ==
    /\ dirty' = dirty \cup {d}
    /\ IF dirty = {} THEN empty ELSE nonempty

Mark(t) ==
    /\ pc[t] = "mark"
    /\ Insert(dir[t], pc' = [pc EXCEPT ![t] = "raise"],
                      pc' = [pc EXCEPT ![t] = "idle"])
    /\ dir' = [dir EXCEPT ![t] = NoDir]
    /\ num' = [num EXCEPT ![t] = 0]
    /\ UNCHANGED <<store, flag, running, workers, stopper, fails>>

\* Second half of mark_dirty: flag and notify_one under the flag's mutex.
Raise(t) ==
    /\ pc[t] = "raise"
    /\ flag' = TRUE
    /\ pc' = [pc EXCEPT ![t] = "idle"]
    /\ UNCHANGED <<store, dirty, running, dir, num, workers, stopper, fails>>

----------------------------------------------------------------------------
(* run_loop *)

Goto(c, label) == cpc' = [cpc EXCEPT ![c] = label]

Start ==
    /\ cpc[Loop] = "new"
    /\ running' = TRUE
    /\ Goto(Loop, "test")
    /\ UNCHANGED <<store, dirty, flag, threads, batch, cur, scan, closing, stopper, fails>>

\* The condition of the while loop.
Test ==
    /\ cpc[Loop] = "test"
    /\ Goto(Loop, IF running THEN "wait" ELSE "flush")
    /\ UNCHANGED <<store, shared, threads, batch, cur, scan, closing, stopper, fails>>

\* Under the flag's mutex: go on if the flag is up, sleep otherwise.
Wait ==
    /\ cpc[Loop] = "wait"
    /\ Goto(Loop, IF flag THEN "check" ELSE "asleep")
    /\ flag' = FALSE
    /\ UNCHANGED <<store, dirty, running, threads, batch, cur, scan, closing, stopper, fails>>

\* Every notify_one comes with a raised flag, so the sleeper wakes when it is up.
Wake ==
    /\ cpc[Loop] = "asleep"
    /\ flag
    /\ flag' = FALSE
    /\ Goto(Loop, "check")
    /\ UNCHANGED <<store, dirty, running, threads, batch, cur, scan, closing, stopper, fails>>

\* interval_ms has passed, or the wait returns for no reason.
Timeout ==
    /\ cpc[Loop] = "asleep"
    /\ ~flag
    /\ Goto(Loop, "check")
    /\ UNCHANGED <<store, shared, threads, batch, cur, scan, closing, stopper, fails>>

\* The second test of running.
Check ==
    /\ cpc[Loop] = "check"
    /\ Goto(Loop, IF running THEN "drain" ELSE "flush")
    /\ UNCHANGED <<store, shared, threads, batch, cur, scan, closing, stopper, fails>>

\* compact_dirty and flush_all take the set out.
TakeAll(c) ==
    /\ batch' = [batch EXCEPT ![c] = dirty]
    /\ dirty' = {}
    /\ Goto(c, "next")

Drain ==
    /\ cpc[Loop] = "drain"
    /\ TakeAll(Loop)
    /\ UNCHANGED <<store, flag, running, threads, cur, scan, closing, stopper, fails>>

\* flush_all: the last thing run_loop does, or a call from elsewhere.
FlushAll(c) ==
    /\ cpc[c] = "flush"
    /\ TakeAll(c)
    /\ closing' = [closing EXCEPT ![c] = TRUE]
    /\ UNCHANGED <<store, flag, running, threads, cur, scan, stopper, fails>>

\* The for loop over the directories taken; scan_deltas or scan_deltas_with_keys.
Pick(c, d) ==
    /\ cpc[c] = "next"
    /\ d \in batch[c]
    /\ batch' = [batch EXCEPT ![c] = @ \ {d}]
    /\ cur' = [cur EXCEPT ![c] = d]
    /\ Goto(c, IF closing[c] THEN "scan" ELSE "count")
    /\ UNCHANGED <<store, shared, threads, scan, closing, stopper, fails>>

\* The round ends.
EndRound(c) ==
    /\ cpc[c] = "next"
    /\ batch[c] = {}
    /\ Goto(c, IF closing[c] THEN "done" ELSE "test")
    /\ UNCHANGED <<store, shared, threads, batch, cur, scan, closing, stopper, fails>>

----------------------------------------------------------------------------
(* One directory: compact_inode, force_compact_inode *)

\* Mutant of NotCompacted: compact_dirty forgets the directory, as flush_all does.
NotCompactedForgets(c) ==
    /\ Goto(c, "next")
    /\ cur' = [cur EXCEPT ![c] = NoDir]
    /\ scan' = [scan EXCEPT ![c] = {}]

\* Ok(false) or an error: compact_dirty marks the directory again, flush_all
\* goes on.
NotCompacted(c) ==
    IF closing[c]
    THEN /\ Goto(c, "next")
         /\ cur' = [cur EXCEPT ![c] = NoDir]
         /\ scan' = [scan EXCEPT ![c] = {}]
    ELSE Goto(c, "mark") /\ UNCHANGED <<cur, scan>>

\* Mutant of Count: a directory exactly at the threshold is not compacted.
CountAbove(c) ==
    /\ cpc[c] = "count"
    /\ IF Cardinality(rows[cur[c]]) <= Threshold
       THEN NotCompacted(c)
       ELSE Goto(c, "scan") /\ UNCHANGED <<cur, scan>>
    /\ UNCHANGED <<store, shared, threads, batch, closing, stopper, fails>>

\* compact_inode compares the number of rows with the threshold.
Count(c) ==
    /\ cpc[c] = "count"
    /\ IF Cardinality(rows[cur[c]]) < Threshold
       THEN NotCompacted(c)
       ELSE Goto(c, "scan") /\ UNCHANGED <<cur, scan>>
    /\ UNCHANGED <<store, shared, threads, batch, closing, stopper, fails>>

\* force_compact_inode reads the rows before it has the row lock ...
Scan(c) ==
    /\ cpc[c] = "scan"
    /\ IF rows[cur[c]] = {}
       THEN NotCompacted(c)
       ELSE /\ scan' = [scan EXCEPT ![c] = rows[cur[c]]]
            /\ Goto(c, "fold")
            /\ UNCHANGED cur
    /\ UNCHANGED <<store, shared, threads, batch, closing, stopper, fails>>

\* Mutant of FoldedRows: the rows are read again for the deletion.
FoldedRowsAll(c) == rows[cur[c]]

\* The rows a fold deletes: exactly the scanned ones.
FoldedRows(c) == scan[c]

\* ... folds what it read into the row under the lock and deletes these rows ...
FoldIn(c) ==
    /\ cpc[c] = "fold"
    /\ cur[c] \in alive
    /\ folded' = [folded EXCEPT ![cur[c]] =
                    [i \in DOMAIN @ |-> IF i \in scan[c] THEN @[i] + 1 ELSE @[i]]]
    /\ rows' = [rows EXCEPT ![cur[c]] = @ \ FoldedRows(c)]
    /\ Goto(c, "next")
    /\ cur' = [cur EXCEPT ![c] = NoDir]
    /\ scan' = [scan EXCEPT ![c] = {}]
    /\ UNCHANGED <<alive, silent, count, shared, threads, batch, closing, stopper, fails>>

\* ... or finds no row.
NoRow(c) ==
    /\ cpc[c] = "fold"
    /\ cur[c] \notin alive
    /\ NotCompacted(c)
    /\ UNCHANGED <<store, shared, threads, batch, closing, stopper, fails>>

\* Lock timeout, conflict or storage error.
FoldFails(c) ==
    /\ cpc[c] = "fold"
    /\ fails < MaxFails
    /\ fails' = fails + 1
    /\ NotCompacted(c)
    /\ UNCHANGED <<store, shared, threads, batch, closing, stopper>>

\* The worker's own mark_dirty, in its two halves.
Remark(c) ==
    /\ cpc[c] = "mark"
    /\ Insert(cur[c], Goto(c, "raise"), Goto(c, "next"))
    /\ cur' = [cur EXCEPT ![c] = NoDir]
    /\ scan' = [scan EXCEPT ![c] = {}]
    /\ UNCHANGED <<store, flag, running, threads, batch, closing, stopper, fails>>

RaiseSelf(c) ==
    /\ cpc[c] = "raise"
    /\ flag' = TRUE
    /\ Goto(c, "next")
    /\ UNCHANGED <<store, dirty, running, threads, batch, cur, scan, closing, stopper, fails>>

----------------------------------------------------------------------------
(* stop *)

Stop ==
    /\ spc = "idle"
    /\ stops < MaxStops
    /\ EarlyStop \/ cpc[Loop] # "new"
    /\ running' = FALSE
    /\ spc' = "raise"
    /\ stops' = stops + 1
    /\ UNCHANGED <<store, dirty, flag, threads, workers, fails>>

\* Mutant of StopRaise: stop leaves the flag alone.
StopRaiseNothing ==
    /\ spc = "raise"
    /\ spc' = "idle"
    /\ UNCHANGED <<store, shared, threads, workers, stops, fails>>

StopRaise ==
    /\ spc = "raise"
    /\ flag' = TRUE
    /\ spc' = "idle"
    /\ UNCHANGED <<store, dirty, running, threads, workers, stops, fails>>

----------------------------------------------------------------------------
\* recover_seqs has found the rows of an earlier run; mark_dirty has not.
Init ==
    /\ alive = Dirs
    /\ count = [d \in Dirs |-> IF d \in Left THEN 1 ELSE 0]
    /\ rows = [d \in Dirs |-> 1..count[d]]
    /\ silent = rows
    /\ folded = [d \in Dirs |-> [i \in 1..MaxDeltas |-> 0]]
    /\ dirty = {}
    /\ flag = FALSE
    /\ running = FALSE
    /\ pc = [t \in Threads |-> "idle"]
    /\ dir = [t \in Threads |-> NoDir]
    /\ num = [t \in Threads |-> 0]
    /\ cpc = [c \in Compactors |-> IF c = Loop THEN "new" ELSE "flush"]
    /\ batch = [c \in Compactors |-> {}]
    /\ cur = [c \in Compactors |-> NoDir]
    /\ scan = [c \in Compactors |-> {}]
    /\ closing = [c \in Compactors |-> FALSE]
    /\ spc = "idle"
    /\ stops = 0
    /\ fails = 0

\* A handler that has begun runs to its end.
Continue(t) == Commit(t) \/ Clear(t) \/ Reset(t) \/ Mark(t) \/ Raise(t)

Compact(c) ==
    \/ FlushAll(c) \/ EndRound(c)
    \/ Count(c) \/ Scan(c) \/ FoldIn(c) \/ NoRow(c) \/ Remark(c) \/ RaiseSelf(c)
    \/ \E d \in Dirs : Pick(c, d)

RunLoop == Start \/ Test \/ Wait \/ Wake \/ Check \/ Drain \/ Compact(Loop)

Next ==
    \/ \E t \in Threads :
          \/ \E d \in Dirs : Begin(t, d) \/ Remove(t, d)
          \/ Continue(t) \/ PersistFails(t)
    \/ Start \/ Test \/ Wait \/ Wake \/ Timeout \/ Check \/ Drain
    \/ \E c \in Compactors : Compact(c) \/ FoldFails(c)
    \/ Stop \/ StopRaise

Spec == Init /\ [][Next]_vars

\* Handlers, the worker thread and stop are scheduled.  Nothing is assumed of
\* the timeout: what has to happen happens without it.
Fairness ==
    /\ \A t \in Threads : WF_vars(Continue(t))
    /\ WF_vars(RunLoop)
    /\ \A c \in Flushers : WF_vars(Compact(c))
    /\ WF_vars(StopRaise)

FairSpec == Spec /\ Fairness

----------------------------------------------------------------------------
(* Properties *)

Labels == {"new", "test", "wait", "asleep", "check", "drain", "flush", "next",
           "count", "scan", "fold", "mark", "raise", "done"}

\* Every variable holds a value of its type, and a compactor that works on a
\* directory has one (drain, compact_inode).
TypeOK ==
    /\ alive \subseteq Dirs
    /\ rows \in [Dirs -> SUBSET (1..MaxDeltas)]
    /\ silent \in [Dirs -> SUBSET (1..MaxDeltas)]
    /\ folded \in [Dirs -> [1..MaxDeltas -> Nat]]
    /\ count \in [Dirs -> 0..MaxDeltas]
    /\ dirty \subseteq Dirs
    /\ flag \in BOOLEAN
    /\ running \in BOOLEAN
    /\ pc \in [Threads -> {"idle", "commit", "clear", "reset", "mark", "raise"}]
    /\ dir \in [Threads -> Dirs \cup {NoDir}]
    /\ num \in [Threads -> 0..MaxDeltas]
    /\ cpc \in [Compactors -> Labels]
    /\ batch \in [Compactors -> SUBSET Dirs]
    /\ cur \in [Compactors -> Dirs \cup {NoDir}]
    /\ scan \in [Compactors -> SUBSET (1..MaxDeltas)]
    /\ closing \in [Compactors -> BOOLEAN]
    /\ spc \in {"idle", "raise"}
    /\ stops \in 0..MaxStops
    /\ fails \in 0..MaxFails
    /\ \A c \in Compactors : cpc[c] \in {"count", "scan", "fold", "mark"} => cur[c] \in Dirs

\* Someone who found the dirty set empty is about to raise the flag.
Raising ==
    \/ \E t \in Threads : pc[t] = "raise"
    \/ \E c \in Compactors : cpc[c] = "raise"
    \/ spc = "raise"

\* No wake-up is lost: when the loop waits, or is about to, while the dirty set
\* holds something, the flag is up or on its way up.  The set and the flag have
\* a mutex each, so that anything may happen between the insertion, the raising,
\* the clearing and the draining (mark_dirty, run_loop).
NoLostWakeup ==
    dirty # {} /\ cpc[Loop] \in {"test", "wait", "asleep"} => flag \/ Raising

\* A handler is about to mark d.
Marking(d) == \E t \in Threads : pc[t] = "mark" /\ dir[t] = d

\* The dirty set or the worker has d.
Tracked(d) == d \in dirty \/ d \in batch[Loop] \/ d = cur[Loop]

\* As long as the loop is not closing down, a directory with a delta row is in
\* the dirty set, or a handler is about to put it there, or the worker has it
\* (drain and mark_dirty under interleaved appends, removals and failures).  The
\* only rows nobody may know of are those of an earlier run and those of a
\* handler that failed between its commit and mark_dirty.
PendingTracked ==
    ~closing[Loop] =>
        \A d \in Dirs : ~(rows[d] \subseteq silent[d]) =>
            Tracked(d) \/ Marking(d)

\* Delta i of directory d belongs to a transaction that has not committed.
Uncommitted(d, i) == \E t \in Threads : pc[t] = "commit" /\ dir[t] = d /\ num[t] = i

\* Every committed delta of a directory that exists is a pending row or was
\* folded into the inode row exactly once, although rows are scanned without a
\* lock and deltas with smaller numbers may arrive in between
\* (force_compact_inode).
FoldedOnce ==
    \A d \in alive : \A i \in 1..count[d] :
        folded[d][i] = IF i \in rows[d] \/ Uncommitted(d, i) THEN 0 ELSE 1

\* An existing directory has reached the threshold, not by unmarked rows alone.
Due(d) ==
    /\ running
    /\ d \in alive
    /\ Cardinality(rows[d]) >= Threshold
    /\ ~(rows[d] \subseteq silent[d])

\* A directory that has reached the threshold is compacted, removed, or the
\* worker is told to stop; the timeout is not needed for it (run_loop).  Rows
\* that were never marked count towards the threshold as soon as one is marked.
CatchesUp == \A d \in Dirs : Due(d) ~> ~Due(d)

\* A call of stop ends the loop, however it meets the tests of running and the
\* waiting (stop, run_loop).
StopEnds == stops > 0 ~> cpc[Loop] = "done"

\* The inductive form of NoLostWakeup: only between clearing the flag and taking
\* the set out may the flag be down with work in the set.
WakeInv ==
    dirty # {} /\ cpc[Loop] \notin {"check", "drain", "flush"} => flag \/ Raising

\* In a directory that exists, numbers given out and not committed are new, and no
\* two of them are alike.  In a removed one they are not: clear_deltas sets the
\* counter back while transactions hold numbers of it.
NumbersInv ==
    /\ \A d \in alive : rows[d] \subseteq 1..count[d]
    /\ \A t \in Threads :
          /\ pc[t] \in {"commit", "clear", "reset", "mark"} => dir[t] \in Dirs
          /\ pc[t] \in {"clear", "reset"} => dir[t] \notin alive
          /\ pc[t] \in {"commit", "mark"} => num[t] \in 1..MaxDeltas
          /\ pc[t] = "commit" /\ dir[t] \in alive => num[t] \in 1..count[dir[t]] \ rows[dir[t]]
    /\ \A t, u \in Threads :
          t # u /\ pc[t] = "commit" /\ pc[u] = "commit" /\ dir[t] = dir[u] /\ dir[t] \in alive
            => num[t] # num[u]

\* The inductive form of FoldedOnce: numbers not given out are not folded, and
\* what the only compactor has scanned is still there.
FoldInv ==
    /\ \A d \in alive : \A i \in 1..MaxDeltas :
          folded[d][i] = IF i > count[d] \/ i \in rows[d] \/ Uncommitted(d, i) THEN 0 ELSE 1
    /\ cpc[Loop] = "fold" /\ cur[Loop] \in alive => scan[Loop] \subseteq rows[cur[Loop]]

\* The handler of delta i of d is about to mark d.
Marks(d, i) == \E t \in Threads : pc[t] = "mark" /\ dir[t] = d /\ num[t] = i

\* What a fold leaves behind is marked, row by row, and the worker forgets neither
\* its batch nor its directory.
TrackInv ==
    /\ cpc[Loop] \notin {"count", "scan", "fold", "mark"} => cur[Loop] = NoDir
    /\ cpc[Loop] \in {"new", "test", "wait", "asleep", "check", "drain"} => batch[Loop] = {}
    /\ cpc[Loop] = "fold" /\ ~closing[Loop] /\ cur[Loop] \notin dirty =>
          \A i \in rows[cur[Loop]] : i \in scan[Loop] \cup silent[cur[Loop]] \/ Marks(cur[Loop], i)

\* The inductive form of PendingTracked: of a directory that neither the dirty set
\* nor the worker holds, every row has a handler of its own that will mark it.
PendingInv ==
    ~closing[Loop] =>
        \A d \in Dirs :
            Tracked(d) \/ \A i \in rows[d] : i \in silent[d] \/ Marks(d, i)

\* compaction.rs: the Condvar wakes the loop "when new dirty inodes are
\* registered, avoiding unnecessary polling".  When handlers are quiet and the
\* worker has had its turn, the loop sleeps.
LoopSleeps ==
    <>[](\A t \in Threads : pc[t] = "idle") =>
        []<>(cpc[Loop] \in {"asleep", "done"})

\* A directory that is removed leaves the dirty set for good (rmdir,
\* compact_dirty).
DirtyExists == \A d \in Dirs : d \notin alive ~> [](d \notin dirty)

\* A flush_all that is over leaves no marked row behind that was there when it
\* began, unless it is marked for the next round (flush_all).
FlushTracked ==
    (\A c \in Compactors : cpc[c] \in {"asleep", "done"}) /\ (\A t \in Threads : pc[t] = "idle") =>
        \A d \in alive : ~(rows[d] \subseteq silent[d]) => d \in dirty

=============================================================================
