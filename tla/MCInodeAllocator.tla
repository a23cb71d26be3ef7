-------------------------- MODULE MCInodeAllocator --------------------------
(***************************************************************************)
(* Instances of InodeAllocator for TLC.                                    *)
(***************************************************************************)
EXTENDS InodeAllocator, TLC

\* Handler threads are alike.
ThreadSymmetry == Permutations(Threads)

=============================================================================
