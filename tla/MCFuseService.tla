---------------------------- MODULE MCFuseService ----------------------------
(* Instances of FuseService for TLC.                                       *)
EXTENDS FuseService, TLC

CONSTANTS t1, t2

Threads == {t1, t2}
Symmetry == Permutations(Thread)
=============================================================================
