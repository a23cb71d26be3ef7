--------------------------- MODULE VfsData_proofs ---------------------------
(***************************************************************************)
(* Proofs about the backing file of the data server, for any files, any    *)
(* region size, any callers and all faults.                                *)
(***************************************************************************)
EXTENDS VfsData, TLAPS

\* The regions of two files have no block in common (absolute_offset).
LEMMA RegionsDisjoint ==
    ASSUME NEW f \in Files, NEW g \in Files,
           NEW b \in 0..(MaxFileSize - 1), NEW c \in 0..(MaxFileSize - 1),
           Block(f, b) = Block(g, c)
    PROVE  f = g /\ b = c
<1>1. /\ f \in Nat /\ g \in Nat /\ MaxFileSize \in Nat \ {0}
      /\ b \in Nat /\ c \in Nat /\ b < MaxFileSize /\ c < MaxFileSize
    BY ConstantsAssumption
<1>2. f * MaxFileSize + b = g * MaxFileSize + c
    BY DEF Block
<1>3. ASSUME NEW x \in Nat, NEW y \in Nat, x < y
      PROVE  x * MaxFileSize + MaxFileSize <= y * MaxFileSize
    <2>1. PICK d \in Nat : y = x + 1 + d
        <3>1. y - x - 1 \in Nat /\ y = x + 1 + (y - x - 1)  BY <1>3
        <3> QED  BY <3>1
    <2>2. y * MaxFileSize = x * MaxFileSize + MaxFileSize + d * MaxFileSize
        BY <2>1, <1>1
    <2>3. d * MaxFileSize \in Nat /\ x * MaxFileSize \in Nat
        BY <1>1
    <2> QED  BY <2>2, <2>3, <1>1
<1>4. f * MaxFileSize \in Nat /\ g * MaxFileSize \in Nat
    BY <1>1
<1>5. ~(f < g)
    BY <1>1, <1>2, <1>3, <1>4
<1>6. ~(g < f)
    BY <1>1, <1>2, <1>3, <1>4
<1>7. f = g
    BY <1>1, <1>5, <1>6
<1> QED  BY <1>1, <1>2, <1>4, <1>7

\* The part of a write that fits ends within the region (write_at).
LEMMA FitsInside ==
    ASSUME NEW b \in 0..(MaxFileSize - 1), NEW n \in 1..MaxFileSize
    PROVE  Fits(b, n) \in Nat /\ b + Fits(b, n) <= MaxFileSize
<1>1. MaxFileSize \in Nat /\ n \in Nat /\ MaxFileSize - b \in Nat
    BY ConstantsAssumption
<1>2. \E x \in {n, MaxFileSize - b} : \A y \in {n, MaxFileSize - b} : x <= y
    BY <1>1
<1>3. /\ Fits(b, n) \in {n, MaxFileSize - b}
      /\ \A y \in {n, MaxFileSize - b} : Fits(b, n) <= y
    BY <1>2 DEF Fits, Min
<1> QED  BY <1>1, <1>3

\* No region leaks into another one at the start.
LEMMA IsolatedInit == Init => Isolated
BY DEF Init, Isolated

\* A write stays inside the region of its file, even when it is cut short.
LEMMA IsolatedWrite ==
    ASSUME Isolated,
           NEW t \in Threads, NEW f \in Files,
           NEW b \in 0..(MaxFileSize - 1), NEW n \in 1..MaxFileSize,
           WriteData(t, f, b, n)
    PROVE  Isolated'
<1> DEFINE k == Fits(b, n)
<1>1. k \in Nat /\ b + k <= MaxFileSize
    BY FitsInside
<1>2. PICK j \in 0..k : disk' = Pwrite(f, b, j, <<f, ops + 1>>)
    <2>1. \E j \in (IF "short" \in Faults THEN 0..k ELSE {k}) :
              disk' = Pwrite(f, b, j, <<f, ops + 1>>)
        BY DEF WriteData
    <2> QED  BY <1>1, <2>1
<1> HIDE DEF k
<1> SUFFICES ASSUME NEW a \in Addresses, disk'[a] # Hole
             PROVE  \E g \in Files, c \in 0..(MaxFileSize - 1) :
                        a = Block(g, c) /\ disk'[a][1] = g
    BY DEF Isolated
<1>3. CASE a \in Block(f, b)..(Block(f, b) + j - 1)
    <2>1. disk'[a][1] = f
        BY <1>2, <1>3 DEF Pwrite
    <2>2. /\ MaxFileSize \in Nat /\ f * MaxFileSize \in Nat /\ b \in Nat
          /\ a \in Int
        BY <1>3, ConstantsAssumption DEF Block
    <2>3. a - f * MaxFileSize \in 0..(MaxFileSize - 1)
        BY <1>1, <1>2, <1>3, <2>2 DEF Block
    <2>4. a = Block(f, a - f * MaxFileSize)
        BY <2>2 DEF Block
    <2> QED  BY <2>1, <2>3, <2>4
<1>4. CASE a \notin Block(f, b)..(Block(f, b) + j - 1)
    <2>1. disk'[a] = disk[a]
        BY <1>2, <1>4 DEF Pwrite
    <2> QED  BY <2>1 DEF Isolated
<1> QED  BY <1>3, <1>4

\* The zero-fill of a truncate only adds holes.
LEMMA IsolatedZero ==
    ASSUME Isolated, NEW t \in Threads, ZeroChunk(t)
    PROVE  Isolated'
<1>1. CASE disk' = disk
    BY <1>1 DEF Isolated
<1>2. CASE disk' = Pwrite(loc[t].f, loc[t].pos, 1, Hole)
    <2>1. \A a \in Addresses : disk'[a] = Hole \/ disk'[a] = disk[a]
        BY <1>2 DEF Pwrite
    <2> QED  BY <2>1 DEF Isolated
<1> QED  BY <1>1, <1>2 DEF ZeroChunk

\* Every other step leaves the backing file alone.
LEMMA IsolatedNext == Isolated /\ [Next]_vars => Isolated'
<1> SUFFICES ASSUME Isolated, [Next]_vars
             PROVE  Isolated'
    OBVIOUS
<1>1. ASSUME NEW t \in Threads, NEW f \in Files, Request(t, f)
      PROVE  Isolated'
    <2>1. CASE \E b \in 0..(MaxFileSize - 1), n \in 1..MaxFileSize : WriteData(t, f, b, n)
        BY <2>1, IsolatedWrite
    <2>2. CASE disk' = disk
        BY <2>2 DEF Isolated
    <2> QED  BY <1>1, <2>1, <2>2
             DEF Request, Setattr, Fallocate, Open, FlushSkip, FlushMarked, Fsync, Close, data
<1>2. ASSUME NEW t \in Threads, Step(t)
      PROVE  Isolated'
    <2>1. CASE ZeroChunk(t)
        BY <2>1, IsolatedZero
    <2>2. CASE disk' = disk
        BY <2>2 DEF Isolated
    <2> QED  BY <1>2, <2>1, <2>2
             DEF Step, Report, ReportFails, Mark, TruncateRefused, FallocateSet, OpenTrunc,
                 OpenHandle, Sync, SyncFails, data
<1>3. CASE \E f \in Files : Release(f) \/ WalWriteback(f)
    BY <1>3 DEF Release, WalWriteback, data, Isolated
<1>4. CASE UNCHANGED vars
    BY <1>4 DEF vars, Isolated
<1> QED  BY <1>1, <1>2, <1>3, <1>4 DEF Next

\* RawDiskDataStore: a block that holds data holds a write to the file in
\* whose region it lies, in every reachable state.
THEOREM IsolatedAlways == Spec => []Isolated
BY IsolatedInit, IsolatedNext, PTL DEF Spec

\* DataServer: what a read of a file returns was written to this file.
THEOREM ReadsOwnAlways ==
    Spec => [](\A f \in Files, b \in 0..(MaxFileSize - 1) :
                   ReadAt(f, b) # Hole => ReadAt(f, b)[1] = f)
<1>1. ASSUME Isolated,
             NEW f \in Files, NEW b \in 0..(MaxFileSize - 1), ReadAt(f, b) # Hole
      PROVE  ReadAt(f, b)[1] = f
    <2>1. Block(f, b) \in Addresses
        BY DEF Addresses, Regions
    <2>2. PICK g \in Files, c \in 0..(MaxFileSize - 1) :
              Block(f, b) = Block(g, c) /\ disk[Block(f, b)][1] = g
        BY <1>1, <2>1 DEF Isolated, ReadAt
    <2>3. f = g
        BY <2>2, RegionsDisjoint
    <2> QED  BY <2>2, <2>3 DEF ReadAt
<1>2. Isolated => \A f \in Files, b \in 0..(MaxFileSize - 1) :
                      ReadAt(f, b) # Hole => ReadAt(f, b)[1] = f
    BY <1>1
<1> QED  BY IsolatedAlways, <1>2, PTL

=============================================================================
