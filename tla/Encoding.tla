------------------------------ MODULE Encoding ------------------------------
(***************************************************************************)
(* The keys and values of storage/src/encoding.rs as byte strings, and the *)
(* order RocksDB keeps them in.  A number is Width digits of base Base     *)
(* (eight bytes in the code), so that order, prefixes and collisions of    *)
(* keys are those of the code on a smaller alphabet.                       *)
(***************************************************************************)
EXTENDS Integers, SequencesExt

CONSTANTS
    Base,   \* number of byte values, 256
    Width   \* bytes of an encoded number, 8

ASSUME EncodingAssumption == Base \in Nat \ {0, 1} /\ Width \in Nat \ {0}

INODE_KEY_PREFIX         == 73     \* b'I'
DIR_ENTRY_KEY_PREFIX     == 68     \* b'D'
DELTA_KEY_PREFIX         == 88     \* b'X'
DATA_LOCATION_KEY_PREFIX == 76     \* b'L'
SYMLINK_KEY_PREFIX       == 83     \* b'S'
NEXT_INODE_KEY           == <<110>>  \* b"next_inode", by its first byte

Bytes ==
    [n \in 0..Base ^ Width - 1 |-> [j \in 1..Width |-> (n \div Base ^ (Width - j)) % Base]]

ToBe(n)   == Bytes[n]
FromBe(b) == FoldLeft(LAMBDA n, d : n * Base + d, 0, b)

\* The comparator of RocksDB: bytewise, a proper prefix comes first.
Below(a, b) ==
    \E j \in 1..Len(b) :
        /\ j - 1 <= Len(a)
        /\ \A i \in 1..j - 1 : a[i] = b[i]
        /\ j > Len(a) \/ a[j] < b[j]

encode_inode_key(i)         == <<INODE_KEY_PREFIX>> \o ToBe(i)
encode_dir_entry_key(p, n)  == <<DIR_ENTRY_KEY_PREFIX>> \o ToBe(p) \o n
encode_delta_key(i, seq)    == <<DELTA_KEY_PREFIX>> \o ToBe(i) \o ToBe(seq)
encode_data_location_key(i) == <<DATA_LOCATION_KEY_PREFIX>> \o ToBe(i)
encode_symlink_key(i)       == <<SYMLINK_KEY_PREFIX>> \o ToBe(i)

\* Mutant of dir_entry_prefix: the last byte of the parent is missing.
dir_entry_prefix_short(p) == <<DIR_ENTRY_KEY_PREFIX>> \o Front(ToBe(p))

dir_entry_prefix(p) == <<DIR_ENTRY_KEY_PREFIX>> \o ToBe(p)
delta_prefix(i)     == <<DELTA_KEY_PREFIX>> \o ToBe(i)

extract_child_name(key) == SubSeq(key, Width + 2, Len(key))

\* The inode and the sequence number of a delta key.
decode_delta_key(key) ==
    [inode |-> FromBe(SubSeq(key, 2, Width + 1)),
     seq   |-> FromBe(SubSeq(key, Width + 2, 2 * Width + 1))]

\* A directory entry's value: inode and mode.
encode_dir_value(i, mode) == ToBe(i) \o <<mode>>
decode_dir_value(v) == [inode |-> FromBe(SubSeq(v, 1, Width)), mode |-> v[Width + 1]]

=============================================================================
