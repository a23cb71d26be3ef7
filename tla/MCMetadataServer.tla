-------------------------- MODULE MCMetadataServer --------------------------
(***************************************************************************)
(* Instances of MetadataServer for TLC: the starting trees.                *)
(***************************************************************************)
EXTENDS MetadataServer, TLC

Dir(i)  == [ino |-> i, kind |-> "dir"]
File(i) == [ino |-> i, kind |-> "file"]

\* A directory /a and a file /b.
DirAndFile == <<1, "a">> :> Dir(2) @@ <<1, "b">> :> File(3)

\* Two directories.
TwoDirs == <<1, "a">> :> Dir(2) @@ <<1, "b">> :> Dir(3)

\* A directory inside a directory, and a file there with two names.
Nested == <<1, "a">> :> Dir(2) @@ <<2, "a">> :> Dir(3)
          @@ <<2, "b">> :> File(4) @@ <<1, "b">> :> File(4)

\* One file.
OneFile == <<1, "a">> :> File(2)

\* Handler threads are alike.
ThreadSymmetry == Permutations(Threads)

=============================================================================
