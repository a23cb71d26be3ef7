---------------------------- MODULE LinkCount ----------------------------
(***************************************************************************)
(* What the delta machinery promises about one directory: its link count   *)
(* is a counter that starts at two, that a mkdir below the directory       *)
(* raises by one and an rmdir lowers by one, and nothing else changes.     *)
(***************************************************************************)
EXTENDS Integers

VARIABLE nlink

Init == nlink = 2

Mkdir == nlink' = nlink + 1

Rmdir == nlink > 2 /\ nlink' = nlink - 1

Next == Mkdir \/ Rmdir

Spec == Init /\ [][Next]_nlink

=============================================================================
