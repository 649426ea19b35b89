------------------------- MODULE DataUnitTransform -------------------------
(***************************************************************************)
(* What EncryptionMode::EncryptSectors and DecryptSectors promise to their *)
(* callers (Volume::ReadSectors, Volume::WriteSectors, the FUSE service,   *)
(* the volume creator): a caller lends a buffer of data units to the       *)
(* encryption service; while the request is being worked on, the service   *)
(* transforms the units, each of them at most once and each with its own   *)
(* data unit number; the request then ends, with an exception exactly when *)
(* some unit was left untransformed, and from that moment the service does *)
(* not touch the buffer again.                                             *)
(*                                                                         *)
(* How many threads do the work, and in which order, is left open.  The    *)
(* thread pool of module EncryptionThreadPool implements this module.      *)
(***************************************************************************)
EXTENDS Naturals, Sequences

CONSTANTS
  Caller,       \* the threads that call DoWork
  UnitCounts,   \* the numbers of sectors a request may have
  SectorUnits   \* data units (512 bytes) per sector

VARIABLES
  status,       \* status[c]: "idle", "working" or "done" (about to return)
  buffer,       \* buffer[c][u]: the data unit numbers unit u was transformed with
  error         \* error[c]: the request of c ends with an exception

avars == <<status, buffer, error>>

NoData == [u \in {} |-> <<>>]

AInit ==
  /\ status = [c \in Caller |-> "idle"]
  /\ buffer = [c \in Caller |-> NoData]
  /\ error  = [c \in Caller |-> FALSE]

\* The caller hands over a buffer of n sectors.
ABegin(c) ==
  /\ status[c] = "idle"
  /\ status' = [status EXCEPT ![c] = "working"]
  /\ \E n \in UnitCounts :
       buffer' = [buffer EXCEPT ![c] = [u \in 0 .. n * SectorUnits - 1 |-> <<>>]]
  /\ UNCHANGED error

\* A run of untransformed units is transformed, each with its own number.
ATransform(c) ==
  /\ status[c] = "working"
  /\ \E lo \in DOMAIN buffer[c], hi \in DOMAIN buffer[c] :
       /\ lo <= hi
       /\ \A u \in lo .. hi : buffer[c][u] = <<>>
       /\ buffer' = [buffer EXCEPT ![c] =
            [u \in DOMAIN buffer[c] |-> IF u \in lo .. hi THEN <<u>> ELSE buffer[c][u]]]
  /\ UNCHANGED <<status, error>>

\* The request ends; the outcome tells whether every unit was transformed.
AFinish(c) ==
  /\ status[c] = "working"
  /\ status' = [status EXCEPT ![c] = "done"]
  /\ error'  = [error EXCEPT ![c] = \E u \in DOMAIN buffer[c] : buffer[c][u] = <<>>]
  /\ UNCHANGED buffer

\* The caller has its buffer back.
AReturn(c) ==
  /\ status[c] = "done"
  /\ status' = [status EXCEPT ![c] = "idle"]
  /\ buffer' = [buffer EXCEPT ![c] = NoData]
  /\ error'  = [error EXCEPT ![c] = FALSE]

ANext == \E c \in Caller : ABegin(c) \/ ATransform(c) \/ AFinish(c) \/ AReturn(c)

ASpec == AInit /\ [][ANext]_avars

=============================================================================
