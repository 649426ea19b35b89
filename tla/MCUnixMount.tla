----------------------------- MODULE MCUnixMount -----------------------------
(* Instances of UnixMount for TLC.                                         *)
EXTENDS UnixMount, TLC

\* Processes that dismount are interchangeable (safety runs only).
Symmetric == Permutations(Dismounter)
=============================================================================
