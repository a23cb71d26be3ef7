----------------------------- MODULE RocksStore -----------------------------
(***************************************************************************)
(* storage/src/rocks.rs: the column families as maps from byte strings to  *)
(* byte strings, the write batch as a pessimistic transaction (row locks,  *)
(* writes of its own that only it sees, one atomic commit), the per-inode  *)
(* sequence counters of the delta store in memory, clear_deltas, and a     *)
(* restart that recovers the counters by a scan.  It is composed with      *)
(* module InodeAllocator: a creating batch takes its inode number from the *)
(* allocator, and the persisted counter is a row of the inodes family.     *)
(*                                                                         *)
(* Callers push any operation; a creating batch puts the row of its new    *)
(* inode.  The server's own batches are in module MetadataServer.          *)
(***************************************************************************)
EXTENDS Encoding, InodeAllocator

CONSTANTS
    Names,       \* file names, as byte strings
    MaxSeq,      \* bound: delta sequence numbers
    MaxPushes,   \* bound: operations pushed
    Mixes        \* bound: sets of kinds of keys; a behaviour writes those of one

Root   == 1
Inodes == 1..MaxInode
Families == {"inodes", "dir_entries", "delta_entries", "system"}

ASSUME StoreAssumption ==
    /\ MaxInode + 1 < Base ^ Width /\ MaxSeq < Base ^ Width
    /\ \A n \in Names : n # <<>> /\ \A j \in 1..Len(n) : n[j] \in 0..Base - 1

VARIABLES
    cf,      \* column family -> (key -> value)
    seqs,    \* RocksDeltaStore::seqs: inode -> next sequence number, where present
    ops,     \* each thread's transaction: its writes, the last one of each key
    at,      \* control state of each thread in the store
    job,     \* clear_deltas: the inode and the keys the scan found
    cleared, \* history: inodes clear_deltas was called for since the start
    mix,     \* the kinds of keys this behaviour writes
    pushes   \* operations pushed so far

allocator == <<next, persisted, pc, mine, val, run, before, restarts>>
store     == <<cf, seqs>>
txns      == <<ops, at, job>>
storeVars == <<allocator, store, txns, cleared, mix, pushes>>

----------------------------------------------------------------------------
(* Rows.  A value is a byte string; Gone marks a deletion in a batch.        *)

Gone   == <<>>
RowOf  == <<1>>     \* a serialized inode, data location, symlink target, delta
NoJob  == [inode |-> 0, keys |-> {}]

Get(f, key) == IF key \in DOMAIN f THEN f[key] ELSE Gone
Put1(f, key, v) ==
    IF v = Gone THEN [k \in DOMAIN f \ {key} |-> f[k]]
    ELSE [k \in DOMAIN f \cup {key} |-> IF k = key THEN v ELSE f[k]]

\* A column family with the writes of a batch.
Written(f, writes) ==
    LET value(k) == IF \E w \in writes : w.key = k
                    THEN (CHOOSE w \in writes : w.key = k).value ELSE f[k]
    IN [k \in {l \in DOMAIN f \cup {w.key : w \in writes} : value(l) # Gone} |-> value(k)]

\* What thread t's transaction reads: its own writes over the committed rows.
View(t) == [f \in Families |-> Written(cf[f], {w \in ops[t] : w.cf = f})]

\* prefix_iterator_cf from the prefix on, left at the first key without it.
Prefixed(f, prefix) ==
    LET from == {k \in DOMAIN f : ~Below(k, prefix)} IN
    {k \in from : \A l \in from : ~Below(k, l) => IsPrefix(prefix, l)}

\* A set of keys in iteration order.
InOrder(S) ==
    [j \in 1..Cardinality(S) |->
        CHOOSE k \in S : Cardinality({l \in S : Below(l, k)}) = j - 1]

list_dir(p) ==
    LET keys == InOrder(Prefixed(cf.dir_entries, dir_entry_prefix(p))) IN
    [j \in DOMAIN keys |-> [name  |-> extract_child_name(keys[j]),
                            entry |-> decode_dir_value(cf.dir_entries[keys[j]])]]

scan_delta_keys(i) == InOrder(Prefixed(cf.delta_entries, delta_prefix(i)))

\* scan_prefix, as fsck calls it.
scan_prefix(prefix) == InOrder(Prefixed(cf.inodes, prefix))

\* In the transaction, so that its own writes count.
is_dir_empty(t, p) == Prefixed(View(t).dir_entries, dir_entry_prefix(p)) = {}

----------------------------------------------------------------------------
(* Where a logical key lives: the families push chooses.                     *)

Place(k) ==
    CASE k[1] = "inode"    -> <<"inodes", encode_inode_key(k[2])>>
      [] k[1] = "location" -> <<"inodes", encode_data_location_key(k[2])>>
      [] k[1] = "symlink"  -> <<"inodes", encode_symlink_key(k[2])>>
      [] k[1] = "entry"    -> <<"dir_entries", encode_dir_entry_key(k[2], k[3])>>
      [] k[1] = "delta"    -> <<"delta_entries", encode_delta_key(k[2], k[3])>>
      [] k[1] = "counter"  -> <<"inodes", NEXT_INODE_KEY>>

Keys == ({"inode", "location", "symlink"} \X Inodes)
        \cup ({"entry"} \X Inodes \X Names)
        \cup ({"delta"} \X Inodes \X (0..MaxSeq))
        \cup {<<"counter">>}

Places == {[key |-> k, cf |-> Place(k)[1], bytes |-> Place(k)[2]] : k \in Keys}

\* The logical map the rows stand for, as a set of pairs.
MapOf(families) ==
    {<<p.key, families[p.cf][p.bytes]>> : p \in {q \in Places : q.bytes \in DOMAIN families[q.cf]}}

KeysOf(map) == {p[1] : p \in map}

\* Inodes with a row, and those a batch may name: its own new one too.
Rows     == {i \in Inodes : encode_inode_key(i) \in DOMAIN cf.inodes}
Named(t) == Rows \cup ({mine[t]} \ {0})

\* The row locks of a transaction; get_for_update is in module MetadataServer.
Held(t) == {<<w.cf, w.key>> : w \in ops[t]}

\* Mutant of Free: put_cf does not look at the lock.
FreeAlways(t, place) == TRUE

Free(t, place) == \A u \in Threads \ {t} : place \notin Held(u)

----------------------------------------------------------------------------
(* The write batch                                                           *)

\* The handler leaves the store: locks and unwritten operations are gone.
Leave(t) ==
    /\ ops' = [ops EXCEPT ![t] = {}]
    /\ at' = [at EXCEPT ![t] = "idle"]
    /\ job' = [job EXCEPT ![t] = NoJob]

\* A creating handler also takes its number before it pushes.
begin_write(t) ==
    /\ at[t] = "idle" /\ pc[t] = "idle"
    /\ at' = [at EXCEPT ![t] = "open"]
    /\ Alloc(t) \/ UNCHANGED allocator
    /\ UNCHANGED <<store, ops, job, cleared, mix, pushes>>

\* The row lock is taken, or held already; the write is kept aside.
PushTo(t, kind, place, v) ==
    /\ at[t] = "open"
    /\ kind \in mix
    /\ pushes < MaxPushes
    /\ Free(t, place)
    /\ pushes' = pushes + 1
    /\ ops' = [ops EXCEPT ![t] =
            {w \in @ : <<w.cf, w.key>> # place} \cup {[cf |-> place[1], key |-> place[2], value |-> v]}]
    /\ UNCHANGED <<allocator, cf, at, job, cleared, mix>>

Push(t, k, v) == PushTo(t, k[1], Place(k), v)

\* PutInode, PutDataLocation, PutSymlink of a new inode.  Rewriting a row that
\* is there would change nothing the model tells apart.
PushRow(t) ==
    /\ mine[t] # 0
    /\ \E kind \in {"inode", "location", "symlink"} : Push(t, <<kind, mine[t]>>, RowOf)
    /\ UNCHANGED seqs

\* DeleteInode, DeleteDataLocation, DeleteSymlink, DeleteDirEntry of what the
\* transaction read; a creating handler deletes nothing.
PushDelete(t) ==
    /\ at[t] = "open" /\ mine[t] = 0
    /\ \E k \in KeysOf(MapOf(cf)) :
          /\ k[1] \in {"inode", "location", "symlink", "entry"} /\ k # <<"inode", Root>>
          /\ Place(k) \notin Held(t)
          /\ Push(t, k, Gone)
    /\ UNCHANGED seqs

\* PutDirEntry; an inode keeps its kind.
PushEntry(t) ==
    /\ \E p \in Rows, n \in Names, c \in Named(t) \ {Root} :
          Push(t, <<"entry", p, n>>, encode_dir_value(c, c % 2))
    /\ UNCHANGED seqs

\* DeleteDelta, of a row that scan_deltas_with_keys found.
PushDeleteDelta(t) ==
    /\ \E key \in DOMAIN cf.delta_entries : PushTo(t, "delta", <<"delta_entries", key>>, Gone)
    /\ UNCHANGED seqs

next_seq(i) == IF i \in DOMAIN seqs THEN seqs[i] ELSE 0

\* PutDelta under the next sequence number (batch_parent_deltas).  The parent
\* is a number the client was once given: nothing checks that its row is there.
PushDelta(t, i) ==
    /\ i \in {Root} \cup run \cup before
    /\ next_seq(i) <= MaxSeq
    /\ Push(t, <<"delta", i, next_seq(i)>>, RowOf)
    /\ seqs' = [j \in DOMAIN seqs \cup {i} |-> IF j = i THEN next_seq(i) + 1 ELSE seqs[j]]

\* The inodes whose row the batch deletes (unlink, rmdir, release, rename) or
\* whose entry it replaces (rename): the handler calls clear_deltas for them.
Unlinked(t) ==
    LET deleted  == {i \in Inodes : [cf |-> "inodes", key |-> encode_inode_key(i), value |-> Gone] \in ops[t]}
        replaced == {w \in ops[t] : w.cf = "dir_entries" /\ w.value # Gone /\ w.key \in DOMAIN cf.dir_entries}
    IN deleted \cup {decode_dir_value(cf.dir_entries[w.key]).inode : w \in replaced}

\* After the commit: clear_deltas, or the end of the transaction.  The server's
\* batches unlink one inode.
Committed(t) ==
    IF mine[t] # 0 \/ Unlinked(t) = {} THEN Leave(t)
    ELSE /\ ops' = [ops EXCEPT ![t] = {}]
         /\ at' = [at EXCEPT ![t] = "scan"]
         /\ \E i \in Unlinked(t) : job' = [job EXCEPT ![t].inode = i]

\* Mutant of CommitBatch: only the inode rows are written with the commit.
CommitBatchPartial(t) ==
    /\ at[t] = "open" /\ ops[t] # {}
    /\ \/ pc[t] = "commit" /\ Commit(t)
       \/ pc[t] = "idle" /\ UNCHANGED allocator
    /\ cf' = [cf EXCEPT !.inodes = View(t).inodes]
    /\ Committed(t)
    /\ UNCHANGED <<seqs, cleared, mix, pushes>>

\* One atomic write; a creating batch holds the row of its inode.
CommitBatch(t) ==
    /\ at[t] = "open" /\ ops[t] # {}
    /\ \/ /\ pc[t] = "commit"
          /\ Get(View(t).inodes, encode_inode_key(mine[t])) # Gone
          /\ Commit(t)
       \/ pc[t] = "idle" /\ UNCHANGED allocator
    /\ cf' = View(t)
    /\ Committed(t)
    /\ UNCHANGED <<seqs, cleared, mix, pushes>>

\* The batch is dropped: an early return, a conflict or a lock timeout, or the
\* panic of a push that timed out.
DropBatch(t) ==
    /\ at[t] = "open"
    /\ \/ pc[t] = "commit" /\ CommitFails(t)
       \/ pc[t] = "idle" /\ UNCHANGED allocator
    /\ Leave(t)
    /\ UNCHANGED <<store, cleared, mix, pushes>>

----------------------------------------------------------------------------
(* maybe_persist, clear_deltas, restart                                      *)

maybe_persist(t) ==
    \/ LoadCounter(t) /\ UNCHANGED <<store, txns, cleared, mix, pushes>>
    \/ PutFails(t) /\ UNCHANGED <<store, txns, cleared, mix, pushes>>
    \/ /\ Put(t)
       /\ cf' = [cf EXCEPT !.inodes = Put1(@, NEXT_INODE_KEY, ToBe(val[t]))]
       /\ UNCHANGED <<seqs, txns, cleared, mix, pushes>>

\* InodeAllocator::load on the stored row.
LoadedCounter ==
    LET row == Get(cf.inodes, NEXT_INODE_KEY) IN
    IF row = Gone THEN FIRST_ALLOC_INODE ELSE FromBe(row)

\* clear_deltas, right after the commit that unlinked the inode: the scan, which
\* waits for nobody.
ClearScan(t) ==
    /\ at[t] = "scan"
    /\ at' = [at EXCEPT ![t] = "clear"]
    /\ job' = [job EXCEPT ![t].keys = Prefixed(cf.delta_entries, delta_prefix(job[t].inode))]
    /\ cleared' = cleared \cup {job[t].inode}
    /\ UNCHANGED <<allocator, store, ops, mix, pushes>>

\* The deletions in one write, which waits for row locks like a transaction.
ClearWrite(t) ==
    /\ at[t] = "clear"
    /\ \A key \in job[t].keys : Free(t, <<"delta_entries", key>>)
    /\ cf' = [cf EXCEPT !.delta_entries = [k \in DOMAIN @ \ job[t].keys |-> @[k]]]
    /\ at' = [at EXCEPT ![t] = "reset"]
    /\ UNCHANGED <<allocator, seqs, ops, job, cleared, mix, pushes>>

\* The write timed out: nothing is deleted, the counter stays.
ClearFails(t) ==
    /\ at[t] = "clear"
    /\ \E key \in job[t].keys : ~Free(t, <<"delta_entries", key>>)
    /\ Leave(t)
    /\ UNCHANGED <<allocator, store, cleared, mix, pushes>>

\* The counter starts again at zero, whatever was given out meanwhile.
ClearReset(t) ==
    /\ at[t] = "reset"
    /\ seqs' = [i \in DOMAIN seqs |-> IF i = job[t].inode THEN 0 ELSE seqs[i]]
    /\ Leave(t)
    /\ UNCHANGED <<allocator, cf, cleared, mix, pushes>>

StoredSeqs(i) ==
    {decode_delta_key(k).seq : k \in {l \in DOMAIN cf.delta_entries : decode_delta_key(l).inode = i}}

WithDeltas == {decode_delta_key(k).inode : k \in DOMAIN cf.delta_entries}

\* Mutant of recover_seqs: the counter is set to the largest number in use.
recover_seqs_last == [i \in WithDeltas |-> Max(StoredSeqs(i))]

recover_seqs == [i \in WithDeltas |-> Max(StoredSeqs(i)) + 1]

\* The process stops; the store and the server are opened again.
Reopen ==
    /\ Restart
    /\ seqs' = recover_seqs
    /\ ops' = [t \in Threads |-> {}]
    /\ at' = [t \in Threads |-> "idle"]
    /\ job' = [t \in Threads |-> NoJob]
    /\ cleared' = {}
    /\ UNCHANGED <<cf, mix, pushes>>

----------------------------------------------------------------------------

\* The store after one mkdir in the root: its rows, and its delta.
FirstDir == FIRST_ALLOC_INODE
Counter0 == IF (FirstDir + 1) % Interval = 0 THEN FirstDir + 1 ELSE Absent
Map0 ==
    {<< <<"inode", Root>>, RowOf >>, << <<"inode", FirstDir>>, RowOf >>,
     << <<"entry", Root, CHOOSE n \in Names : TRUE>>, encode_dir_value(FirstDir, 0) >>,
     << <<"delta", Root, 0>>, RowOf >>}
    \cup (IF Counter0 = Absent THEN {} ELSE {<< <<"counter">>, ToBe(Counter0) >>})

StoreInit ==
    /\ next = FirstDir + 1
    /\ persisted = Counter0
    /\ pc = [t \in Threads |-> "idle"]
    /\ mine = [t \in Threads |-> 0]
    /\ val = [t \in Threads |-> 0]
    /\ run = {FirstDir}
    /\ before = {}
    /\ restarts = 0
    /\ cf = [f \in Families |-> Written(<<>>,
                {[key |-> Place(p[1])[2], value |-> p[2]] : p \in {q \in Map0 : Place(q[1])[1] = f}})]
    /\ seqs = [i \in {Root} |-> 1]
    /\ ops = [t \in Threads |-> {}]
    /\ at = [t \in Threads |-> "idle"]
    /\ job = [t \in Threads |-> NoJob]
    /\ cleared = {}
    /\ mix \in Mixes
    /\ pushes = 0

StoreNext ==
    \/ Reopen
    \/ \E t \in Threads :
          \/ begin_write(t)
          \/ PushRow(t) \/ PushDelete(t) \/ PushEntry(t) \/ PushDeleteDelta(t)
          \/ CommitBatch(t) \/ DropBatch(t) \/ maybe_persist(t)
          \/ ClearScan(t) \/ ClearWrite(t) \/ ClearFails(t) \/ ClearReset(t)
          \/ \E i \in Inodes : PushDelta(t, i)

StoreSpec == StoreInit /\ [][StoreNext]_storeVars

----------------------------------------------------------------------------
(* Properties *)

\* The allocator's types hold, rows are in their families under well-formed
\* keys, a transaction holds the lock of everything it writes, and a lock has
\* one owner.
StoreTypeOK ==
    /\ TypeOK
    /\ DOMAIN cf = Families
    /\ \A f \in Families : \A k \in DOMAIN cf[f] :
          cf[f][k] # Gone /\ \E l \in Keys : Place(l) = <<f, k>>
    /\ DOMAIN seqs \subseteq Inodes /\ \A i \in DOMAIN seqs : seqs[i] \in 0..MaxSeq + 1
    /\ \A t \in Threads :
          /\ at[t] \in {"idle", "open", "scan", "clear", "reset"}
          /\ Cardinality(Held(t)) = Cardinality(ops[t])
          /\ \A u \in Threads \ {t} : Held(t) \cap Held(u) = {}
    /\ cleared \subseteq Inodes /\ mix \in Mixes /\ pushes \in 0..MaxPushes

\* The logical writes of an open batch.
BatchOf(t) ==
    UNION {{<<p.key, w.value>> : p \in {q \in Places : q.cf = w.cf /\ q.bytes = w.key}} : w \in ops[t]}

Map == INSTANCE AtomicMap WITH
    map <- MapOf(cf), batch <- [t \in Threads |-> BatchOf(t)],
    Deleted <- Gone

\* Byte strings in four shared column families implement a map from logical
\* keys with atomic, isolated batches: no two keys of different kind or inode
\* meet, and a restart loses nothing that was committed.
ImplementsMap == Map!Spec

\* Scans return exactly what they are for, in order: list_dir the entries of
\* that directory by name, scan_deltas the rows of that inode by sequence
\* number, fsck's scan the inode rows, is_dir_empty what the transaction itself
\* sees; and the counter row decodes to the value that was stored.
ScansExact ==
    LET map  == MapOf(cf)
        keys == KeysOf(map)
    IN
    /\ \A p \in Inodes :
          LET l == list_dir(p) IN
          /\ {l[j].name : j \in DOMAIN l} = {n \in Names : <<"entry", p, n>> \in keys}
          /\ \A j \in DOMAIN l :
                /\ << <<"entry", p, l[j].name>>, encode_dir_value(l[j].entry.inode, l[j].entry.mode) >> \in map
                /\ \A k \in 1..j - 1 : Below(l[k].name, l[j].name)
    /\ \A i \in Inodes :
          LET rows == scan_delta_keys(i)
              seq(j) == decode_delta_key(rows[j]).seq
          IN
          /\ {seq(j) : j \in DOMAIN rows} = {n \in 0..MaxSeq : <<"delta", i, n>> \in keys}
          /\ \A j \in DOMAIN rows : \A k \in 1..j - 1 : seq(k) < seq(j)
    /\ ToSet(scan_prefix(<<INODE_KEY_PREFIX>>)) =
          {encode_inode_key(i) : i \in {j \in Inodes : <<"inode", j>> \in keys}}
    /\ \A t \in Threads : at[t] = "open" =>
          LET seen == KeysOf(MapOf(View(t))) IN
          \A p \in Inodes : is_dir_empty(t, p) <=> \A n \in Names : <<"entry", p, n>> \notin seen
    /\ LoadedCounter = IF persisted = Absent THEN FIRST_ALLOC_INODE ELSE persisted

\* Writes of deltas of inode i in open batches.
Pending(i) ==
    {w \in UNION {ops[t] : t \in Threads} :
        w.cf = "delta_entries" /\ IsPrefix(delta_prefix(i), w.key) /\ w.value # Gone}

\* Every delta of inode i, stored or in an open batch, has a number below the
\* counter, and a batch holds no number that is stored.
Fresh(i) ==
    /\ \A n \in StoredSeqs(i) : n < next_seq(i)
    /\ \A w \in Pending(i) :
          decode_delta_key(w.key).seq < next_seq(i) /\ w.key \notin DOMAIN cf.delta_entries

\* next_seq gives out a number once as long as its row lives, through restarts
\* (recover_seqs), dropped batches and compaction: unless clear_deltas was
\* called for the inode itself since the start, no delta is overwritten.
SeqsFresh == \A i \in Inodes \ cleared : Fresh(i)

\* The same of an inode that clear_deltas is called for, once its call is over.
\* The code does not promise it: a create in the removed directory may still
\* hold a number when ClearReset starts again at zero.
ClearedFresh ==
    \A i \in cleared : (\A t \in Threads : job[t].inode # i) => Fresh(i)

\* A new inode starts without deltas of an earlier owner of its number.
NothingInherited ==
    \A t \in Threads : pc[t] = "commit" => mine[t] \notin WithDeltas

=============================================================================
