--------------------------- MODULE MCVolumeHeaders ---------------------------
(* Instances of VolumeHeaders for TLC.                                     *)
EXTENDS VolumeHeaders, TLC

CONSTANTS p1, p2, p3

Symmetry == Permutations(Password)
=============================================================================
