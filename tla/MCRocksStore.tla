---------------------------- MODULE MCRocksStore ----------------------------
(***************************************************************************)
(* Instances of RocksStore for TLC: three-digit numbers of base two, and   *)
(* names made of the same digits, one of them a prefix of the other.       *)
(***************************************************************************)
EXTENDS RocksStore

TwoNames == {<<1>>, <<1, 0>>}

\* Directory trees, and delta logs.
TreesAndDeltas == {{"inode", "entry", "location", "symlink"}, {"inode", "delta"}}

\* Handler threads are alike.
ThreadSymmetry == Permutations(Threads)

=============================================================================
