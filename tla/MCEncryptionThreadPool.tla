----------------------- MODULE MCEncryptionThreadPool -----------------------
(* Instances of EncryptionThreadPool for TLC.                              *)
EXTENDS EncryptionThreadPool, TLC

\* Callers are interchangeable, and so are workers (safety runs only).
Symmetric == Permutations(Caller) \cup Permutations(Worker)

=============================================================================
