------------------------ MODULE MCInPlaceEncryption ------------------------
(* Instances of InPlaceEncryption for TLC.                                 *)
EXTENDS InPlaceEncryption

AllButUndo == {"header", "verify", "read", "write", "update", "primary"}
DuringEncryption == {"header", "read", "write", "update", "primary"}
=============================================================================
