-------------------------- MODULE MCCompactionLoop --------------------------
(***************************************************************************)
(* Instances of CompactionLoop for TLC.                                    *)
(***************************************************************************)
EXTENDS CompactionLoop, TLC

\* Handler threads are alike (safety runs only).
LoopSymmetry == Permutations(Threads)

=============================================================================
