---------------------------- MODULE MCCoreService ----------------------------
(* Instances of CoreService for TLC.                                       *)
EXTENDS CoreService
=============================================================================
