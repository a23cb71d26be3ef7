----------------------------- MODULE MCVfsData -----------------------------
(***************************************************************************)
(* Instances of VfsData for TLC.                                           *)
(***************************************************************************)
EXTENDS VfsData, TLC

\* Callers are alike.
ThreadSymmetry == Permutations(Threads)

=============================================================================
