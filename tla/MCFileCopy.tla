----------------------------- MODULE MCFileCopy -----------------------------
(* FileCopy on small instances; the bounds are in the .cfg files.          *)
EXTENDS FileCopy, TLC

Symmetric == Permutations(Job) \cup Permutations(Terminal) \cup Permutations(Key)
=============================================================================
