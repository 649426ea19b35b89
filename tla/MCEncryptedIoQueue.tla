------------------------- MODULE MCEncryptedIoQueue -------------------------
(* The I/O queue of Driver/EncryptedIoQueue.c with the requests that TLC   *)
(* chooses from.                                                           *)
EXTENDS EncryptedIoQueue, TLC

Op(op, offset, length) == [op |-> op, offset |-> offset, length |-> length]
\* a write of two fragments, one to the protected block, and one that ends
\* behind the volume
VolumeRequests == {Op("write", 0, 2), Op("write", 2, 1), Op("write", 2, 2), Op("read", 0, 1)}
\* requests that cross the end of the encrypted area, and a misaligned read
DriveRequests == {Op("write", 0, 3), Op("read", 0, 1), Op("read", 1, 1), Op("misaligned", 1, 1)}
\* requests that cross both ends of a remapped area, as one fragment
RemappedRequests == {Op("write", 0, 3), Op("read", 0, 3)}
Symmetric == Permutations(Irp)
=============================================================================
