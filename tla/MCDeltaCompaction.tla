------------------------ MODULE MCDeltaCompaction ------------------------
(* Small instances of DeltaCompaction for TLC. *)
EXTENDS DeltaCompaction, TLC

\* Request threads are interchangeable in safety runs.
ThreadSymmetry == Permutations(Threads)

=============================================================================
