--------------------------- MODULE MCReadWatcher ---------------------------
(***************************************************************************)
(* A few directories for ReadWatcher: the .cfg files give every constant   *)
(* its value.                                                              *)
(***************************************************************************)
EXTENDS ReadWatcher, TLC

\* Inodes are interchangeable.
Symmetric == Permutations(Inodes)
=============================================================================
