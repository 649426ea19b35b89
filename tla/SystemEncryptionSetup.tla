------------------------ MODULE SystemEncryptionSetup ------------------------
(***************************************************************************)
(* Driver/DriveFilter.c: encryption and decryption of the system drive     *)
(* while Windows runs from it.                                             *)
(*                                                                         *)
(* SetupThreadProc moves the end of the encrypted area of the drive block  *)
(* by block.  It holds the encrypted I/O queue while it rewrites a block,  *)
(* and lets it run in between: then the system reads and writes every unit *)
(* below the end through the cipher and every other one as it is.  The     *)
(* volume header on the drive records the end of the area; it is saved     *)
(* after every HeaderUpdateThreshold units and when the thread ends.  A    *)
(* restart (MountDrive) believes the header.                               *)
(*                                                                         *)
(* Requests to the driver are served one at a time under                   *)
(* RootDeviceControlMutex.  An abort waits for the thread with the mutex   *)
(* in its hands; the thread needs the mutex to dismount a decrypted drive. *)
(*                                                                         *)
(* Units are counted from ConfiguredEncryptedAreaStart.                    *)
(***************************************************************************)
EXTENDS Integers, FiniteSets

CONSTANTS
  Size,                  \* units of the configured area
  BlockSize,             \* TC_ENCRYPTION_SETUP_IO_BLOCK_SIZE
  HeaderUpdateThreshold, \* TC_ENCRYPTION_SETUP_HEADER_UPDATE_THRESHOLD
  WipePasses,            \* GetWipePassCount, 0 for TC_WIPE_NONE
  Faults,                \* the operations that may fail
  MaxFaults,             \* how many of them fail
  MaxCrashes             \* crashes of the system

ASSUME SetupAssumption ==
  /\ Size \in Nat \ {0} /\ BlockSize \in Nat \ {0}
  /\ HeaderUpdateThreshold \in Nat \ {0} /\ WipePasses \in Nat
  /\ Faults \subseteq {"memory", "read", "write", "undo", "save"}
  /\ MaxFaults \in Nat /\ MaxCrashes \in Nat

Unit == 0 .. Size - 1
None == -1               \* EncryptedAreaStart = EncryptedAreaEnd = -1

VARIABLES
  disk,        \* what is stored in each unit: "plain", "cipher", or "garbled"
               \* (wiped, or encrypted or decrypted once too often)
  header,      \* volume header on the drive: EncryptedAreaLength, None if erased
  encrypted,   \* EncryptedAreaEnd + 1 - EncryptedAreaStart of the queue, or None
  configured,  \* ConfiguredEncryptedAreaEnd # -1
  mounted,     \* DriveMounted
  held,        \* the queue is held (EncryptedIoQueueIsSuspended)
  mode,        \* SetupRequest.SetupMode
  pc,          \* control state of the setup thread, "ended" without one
  offset, block,           \* offset, setupBlockSize
  buf,         \* the block as it was read
  wipePass,
  sinceUpdate, updateRequired,  \* bytesWrittenSinceHeaderUpdate, headerUpdateRequired
  result,      \* SetupResult: "success" or "error"
  abort,       \* EncryptionSetupThreadAbortRequested
  mutex,       \* who owns RootDeviceControlMutex: "free", "request" or "setup"
  waiting,     \* the request is AbortBootEncryptionSetup, waiting for the thread
  faults, crashes,
  lost,        \* history: units no longer readable after a crash or a failed undo
  saveFailed   \* history: the last attempt to save the header failed

drive   == <<disk, header>>
driver  == <<encrypted, configured, mounted, held>>
locals  == <<offset, block, buf, wipePass, sinceUpdate, updateRequired>>
thread  == <<mode, pc, locals, result>>
request == <<abort, mutex, waiting>>
history == <<faults, crashes, lost, saveFailed>>
vars    == <<drive, driver, thread, request, history>>

\* How a unit is stored when the first n units are encrypted.
Stored(n, u) == IF u < n THEN "cipher" ELSE "plain"

\* Encryption of what is stored in a unit, and its decryption.
Transformed(content) ==
  CASE mode = "encrypt" /\ content = "plain"  -> "cipher"
    [] mode = "decrypt" /\ content = "cipher" -> "plain"
    [] OTHER -> "garbled"

NoBlock == [u \in {} |-> "plain"]

Init ==
  /\ disk = [u \in Unit |-> "plain"] /\ header = 0
  /\ encrypted = None /\ configured = TRUE /\ mounted = TRUE /\ held = FALSE
  /\ mode = "encrypt" /\ pc = "ended" /\ offset = 0 /\ block = BlockSize
  /\ buf = NoBlock /\ wipePass = 0 /\ sinceUpdate = 0 /\ updateRequired = FALSE
  /\ result = "success"
  /\ abort = FALSE /\ mutex = "free" /\ waiting = FALSE
  /\ faults = 0 /\ crashes = 0 /\ lost = {} /\ saveFailed = FALSE

-----------------------------------------------------------------------------
(* The device.                                                             *)

Current == offset .. offset + block - 1

\* The drive after the units of part took the contents given.
Written(part, content) == [u \in Unit |-> IF u \in part THEN content[u] ELSE disk[u]]

Fails(operation) == operation \in Faults /\ faults < MaxFaults /\ faults' = faults + 1

\* A write to the system drive goes through the queue: not while it is held.
SystemWrite(u) ==
  /\ ~held
  /\ disk' = [disk EXCEPT ![u] = Stored(encrypted, u)]
  /\ lost' = lost \ {u}
  /\ UNCHANGED <<header, driver, thread, request, faults, crashes, saveFailed>>

-----------------------------------------------------------------------------
(* Requests to the root device.                                            *)

\* StartBootEncryptionSetup.  A thread that ended is waited for first.
StartSetup(m) ==
  /\ mutex = "free" /\ pc = "ended" /\ mounted
  /\ mode' = m /\ abort' = FALSE /\ pc' = "start"
  /\ UNCHANGED <<drive, driver, locals, result, mutex, waiting, history>>

\* AbortBootEncryptionSetup, by the user, at hibernation or at shutdown: it
\* keeps the mutex until the thread has ended.
RequestAbort ==
  /\ mutex = "free" /\ pc # "ended"
  /\ mutex' = "request" /\ waiting' = TRUE /\ abort' = TRUE
  /\ UNCHANGED <<drive, driver, thread, history>>

\* Any other request takes the mutex for a while.
OtherRequest ==
  /\ mutex = "free" /\ mutex' = "request"
  /\ UNCHANGED <<drive, driver, thread, abort, waiting, history>>

RequestDone ==
  /\ mutex = "request" /\ (waiting => pc = "ended")
  /\ mutex' = "free" /\ waiting' = FALSE
  /\ UNCHANGED <<drive, driver, thread, abort, history>>

-----------------------------------------------------------------------------
(* The setup thread.                                                       *)

\* Its variables start anew; without the header key or a buffer it gives up.
Start ==
  /\ pc = "start"
  /\ result' = "error"
  /\ \/ pc' = "first" /\ UNCHANGED faults
     \/ Fails("memory") /\ pc' = "ended"
  /\ UNCHANGED <<drive, driver, mode, locals, request, crashes, lost, saveFailed>>

\* The hold timed out and an abort was requested meanwhile.
HoldAborted ==
  /\ pc \in {"first", "hold"} /\ abort
  /\ result' = "success" /\ pc' = "cleanup"
  /\ UNCHANGED <<drive, driver, mode, locals, request, history>>

NothingToDo == encrypted = (IF mode = "encrypt" THEN Size ELSE None)

\* With the queue held: start, resume, or find that nothing is to be done.
FirstHold ==
  /\ pc = "first"
  /\ IF NothingToDo
     THEN /\ held' = TRUE /\ pc' = "cleanup"
          /\ result' = IF mode = "decrypt" THEN "success" ELSE "error"
          /\ UNCHANGED offset
     ELSE /\ offset' = IF encrypted = None THEN 0 ELSE encrypted
          /\ pc' = "loop" /\ UNCHANGED <<held, result>>
  /\ UNCHANGED <<drive, encrypted, configured, mounted, mode, block, buf, wipePass,
                 sinceUpdate, updateRequired, request, history>>

\* The last block is as long as what is left.
NextSize ==
  IF mode = "encrypt"
  THEN IF offset + block > Size THEN Size - offset ELSE block
  ELSE IF offset - block < 0 THEN offset ELSE block

\* The head of the loop: an abort, the next block, or the end.
NextBlock ==
  /\ pc = "loop"
  /\ LET b == NextSize
     IN IF abort \/ b = 0
        THEN result' = "success" /\ pc' = "cleanup" /\ UNCHANGED <<offset, block>>
        ELSE /\ block' = b /\ offset' = IF mode = "encrypt" THEN offset ELSE offset - b
             /\ pc' = "hold" /\ UNCHANGED result
  /\ UNCHANGED <<drive, driver, mode, buf, wipePass, sinceUpdate, updateRequired,
                 request, history>>

Hold ==
  /\ pc = "hold" /\ held' = TRUE /\ pc' = "read"
  /\ UNCHANGED <<drive, encrypted, configured, mounted, mode, locals, result, request, history>>

AfterRead == IF mode = "encrypt" /\ WipePasses > 0 THEN "wipe" ELSE "write"

ReadBlock ==
  /\ pc = "read"
  /\ buf' = [u \in Current |-> disk[u]] /\ wipePass' = 1 /\ pc' = AfterRead
  /\ UNCHANGED <<drive, driver, mode, offset, block, sinceUpdate, updateRequired,
                 result, request, history>>

\* Unreadable sectors, if the request says so: zeroed on the drive before they
\* are encrypted; replaced in the buffer before they are decrypted.
ReadSkipping(bad) ==
  /\ pc = "read" /\ Fails("read") /\ bad # {}
  /\ disk' = IF mode = "encrypt" THEN [u \in Unit |-> IF u \in bad THEN "plain" ELSE disk[u]]
             ELSE disk
  /\ buf' = [u \in Current |-> IF u \notin bad THEN disk[u]
                               ELSE IF mode = "encrypt" THEN "plain" ELSE "cipher"]
  /\ lost' = lost \ bad
  /\ wipePass' = 1 /\ pc' = AfterRead
  /\ UNCHANGED <<header, driver, mode, offset, block, sinceUpdate, updateRequired,
                 result, request, crashes, saveFailed>>

ReadFails ==
  /\ pc = "read" /\ Fails("read") /\ result' = "error" /\ pc' = "cleanup"
  /\ UNCHANGED <<drive, driver, mode, locals, request, crashes, lost, saveFailed>>

\* What the thread writes over the block: a wipe pattern, then the new contents.
Output ==
  IF pc = "wipe" THEN [u \in Current |-> "garbled"]
  ELSE [u \in Current |-> Transformed(buf[u])]

NextPass == wipePass + 1

WipeBlock ==
  /\ pc = "wipe" /\ disk' = Written(Current, Output)
  /\ wipePass' = NextPass
  /\ pc' = IF wipePass' <= WipePasses THEN "wipe" ELSE "write"
  /\ UNCHANGED <<header, driver, mode, offset, block, buf, sinceUpdate,
                 updateRequired, result, request, history>>

\* Units encrypted once the block is done: EncryptedAreaEnd = offset - 1.
AfterBlock == IF mode = "encrypt" THEN offset + block ELSE offset

MutantSaveDue(written) == written = HeaderUpdateThreshold
SaveDue(written) == written >= HeaderUpdateThreshold

WriteBlock ==
  /\ pc = "write" /\ disk' = Written(Current, Output)
  /\ offset' = AfterBlock /\ encrypted' = AfterBlock
  /\ updateRequired' = TRUE /\ held' = FALSE
  /\ sinceUpdate' = sinceUpdate + block
  /\ pc' = IF SaveDue(sinceUpdate') THEN "save" ELSE "loop"
  /\ buf' = NoBlock
  /\ UNCHANGED <<header, configured, mounted, mode, block, wipePass, result,
                 request, history>>

\* A write that failed in part is undone: the buffer is transformed back and
\* written, which is the block as it was read.
MutantRestored == [u \in Current |-> Transformed(buf[u])]
Restored == buf

WriteFails(part) ==
  /\ pc \in {"wipe", "write"} /\ Fails("write")
  /\ disk' = Written(part, Output) /\ result' = "error" /\ pc' = "undo"
  /\ UNCHANGED <<header, driver, mode, locals, request, crashes, lost, saveFailed>>

UndoWrite ==
  /\ pc = "undo" /\ disk' = Written(Current, Restored) /\ pc' = "cleanup"
  /\ UNCHANGED <<header, driver, mode, locals, result, request, history>>

UndoFails(part) ==
  /\ pc = "undo" /\ Fails("undo")
  /\ disk' = Written(part, Restored)
  /\ lost' = lost \union {u \in Current : disk'[u] # Stored(encrypted, u)}
  /\ pc' = "cleanup"
  /\ UNCHANGED <<header, driver, mode, locals, result, request, crashes, saveFailed>>

\* SaveDriveVolumeHeader: without an encrypted unit a decryption erases the
\* header, an encryption writes it back as it is.
MutantSaved ==
  IF mode = "decrypt" THEN None ELSE IF encrypted > 0 THEN encrypted ELSE header

Saved ==
  IF encrypted > 0 THEN encrypted ELSE IF mode = "decrypt" THEN None ELSE header

SaveDriveVolumeHeader ==
  \/ header' = Saved /\ saveFailed' = FALSE /\ UNCHANGED faults
  \/ Fails("save") /\ saveFailed' = TRUE /\ UNCHANGED header

\* After HeaderUpdateThreshold units; a failure only trips an assertion.
SaveInLoop ==
  /\ pc = "save" /\ SaveDriveVolumeHeader
  /\ updateRequired' = FALSE /\ sinceUpdate' = 0 /\ pc' = "loop"
  /\ UNCHANGED <<disk, driver, mode, offset, block, buf, wipePass, result, request,
                 crashes, lost>>

AllDecrypted == mode = "decrypt" /\ encrypted <= 0

Cleanup ==
  /\ pc = "cleanup" /\ held' = FALSE
  /\ pc' = IF AllDecrypted THEN "clear" ELSE "final"
  /\ UNCHANGED <<drive, encrypted, configured, mounted, mode, locals, result, request, history>>

\* All decrypted: with the queue held once more, no area is left.
ClearArea ==
  /\ pc = "clear"
  /\ configured' = FALSE /\ encrypted' = None /\ updateRequired' = TRUE
  /\ pc' = "final"
  /\ UNCHANGED <<drive, mounted, held, mode, offset, block, buf, wipePass,
                 sinceUpdate, result, request, history>>

\* The local variables of the thread are gone with it.
Exit ==
  IF pc' # "ended" THEN UNCHANGED locals
  ELSE /\ offset' = 0 /\ block' = BlockSize /\ buf' = NoBlock /\ wipePass' = 0
       /\ sinceUpdate' = 0 /\ updateRequired' = FALSE

AfterFinalSave ==
  IF mode = "decrypt" /\ ~configured /\ mounted THEN "dismount" ELSE "ended"

MutantFinalSaveDue == updateRequired /\ result = "success"
FinalSaveDue == updateRequired

FinalSave ==
  /\ pc = "final"
  /\ IF FinalSaveDue
     THEN SaveDriveVolumeHeader /\ result' = IF saveFailed' THEN "error" ELSE result
     ELSE UNCHANGED <<header, saveFailed, faults, result>>
  /\ pc' = AfterFinalSave
  /\ Exit
  /\ UNCHANGED <<disk, driver, mode, request, crashes, lost>>

\* RootDeviceControlMutexAcquireNoWait in a loop, until it succeeds or an abort
\* is requested, whose sender has the mutex.
MutantTriedOnce ==
  mutex' = IF mutex = "free" THEN "setup" ELSE mutex

MutantTriedForever ==
  mutex = "free" /\ mutex' = "setup"

MutexTried ==
  \/ mutex = "free" /\ mutex' = "setup"
  \/ abort /\ UNCHANGED mutex

AcquireMutex ==
  /\ pc = "dismount" /\ MutexTried
  /\ pc' = "close"
  /\ UNCHANGED <<drive, driver, mode, locals, result, abort, waiting, history>>

\* DismountDrive destroys the keys.
Dismount ==
  /\ pc = "close" /\ mounted' = FALSE
  /\ mutex' = IF abort THEN mutex ELSE "free"
  /\ pc' = "ended" /\ Exit
  /\ UNCHANGED <<drive, encrypted, configured, held, mode, result, abort, waiting,
                 history>>

ThreadStep ==
  \/ Start \/ HoldAborted \/ FirstHold \/ NextBlock \/ Hold
  \/ ReadBlock \/ ReadFails \/ \E bad \in SUBSET Current : ReadSkipping(bad)
  \/ WipeBlock \/ WriteBlock \/ \E part \in SUBSET Current : WriteFails(part)
  \/ UndoWrite \/ \E part \in SUBSET Current : UndoFails(part)
  \/ SaveInLoop \/ Cleanup \/ ClearArea \/ FinalSave \/ AcquireMutex \/ Dismount

-----------------------------------------------------------------------------
(* The system stops, by itself or after a shutdown, and starts again.      *)

\* The block being written when the power fails.
Interrupted == IF pc \in {"wipe", "write"} THEN Current ELSE {}

\* MountDrive: the area is the one of the header; without a header that opens
\* the drive is not mounted and everything on it read as it is.
MountDrive ==
  /\ encrypted' = IF header > 0 THEN header ELSE None
  /\ configured' = (header # None) /\ mounted' = (header # None) /\ held' = FALSE
  /\ pc' = "ended" /\ abort' = FALSE /\ mutex' = "free" /\ waiting' = FALSE
  /\ lost' = lost \union {u \in Unit : disk'[u] # Stored(encrypted', u)}
  /\ saveFailed' = FALSE
  /\ Exit /\ UNCHANGED <<header, mode, result, faults>>

\* A power failure or a crash of the system, perhaps in the middle of a write.
Crash(part) ==
  /\ crashes < MaxCrashes /\ crashes' = crashes + 1
  /\ disk' = Written(part, Output)
  /\ MountDrive

\* A shutdown aborts the setup first (IRP_MJ_SHUTDOWN).
Restart ==
  /\ pc = "ended" /\ mutex = "free"
  /\ UNCHANGED <<disk, crashes>> /\ MountDrive

Next ==
  \/ ThreadStep
  \/ \E m \in {"encrypt", "decrypt"} : StartSetup(m)
  \/ RequestAbort \/ OtherRequest \/ RequestDone
  \/ \E u \in Unit : SystemWrite(u)
  \/ \E part \in SUBSET Interrupted : Crash(part)
  \/ Restart

\* The thread runs and requests end; the queue becomes idle now and then, so that
\* a hold succeeds or its time out sees the abort.
Fairness == WF_vars(ThreadStep) /\ WF_vars(RequestDone)

Spec == Init /\ [][Next]_vars /\ Fairness

-----------------------------------------------------------------------------
(* Properties.                                                             *)

Contents == {"plain", "cipher", "garbled"}

\* Every variable has a value of its kind.
TypeOK ==
  /\ disk \in [Unit -> Contents] /\ header \in None .. Size
  /\ encrypted \in None .. Size /\ configured \in BOOLEAN
  /\ mounted \in BOOLEAN /\ held \in BOOLEAN
  /\ mode \in {"encrypt", "decrypt"}
  /\ pc \in {"start", "first", "loop", "hold", "read", "wipe", "write", "undo",
             "save", "cleanup", "clear", "final", "dismount", "close", "ended"}
  /\ offset \in 0 .. Size /\ block \in 0 .. BlockSize
  /\ pc \in {"hold", "read", "wipe", "write", "undo"} => Current \subseteq Unit
  /\ pc \in {"wipe", "write", "undo"} => buf \in [Current -> Contents]
  /\ wipePass \in 0 .. WipePasses + 1
  /\ sinceUpdate \in Nat /\ updateRequired \in BOOLEAN
  /\ result \in {"success", "error"}
  /\ abort \in BOOLEAN /\ mutex \in {"free", "request", "setup"}
  /\ waiting \in BOOLEAN
  /\ faults \in Nat /\ crashes \in Nat /\ lost \subseteq Unit
  /\ saveFailed \in BOOLEAN

\* Whenever the queue lets the system read, every unit is stored the way the
\* queue takes it to be stored, whatever failed and was undone before.
LiveReadable == ~held => \A u \in Unit \ lost : disk[u] = Stored(encrypted, u)

\* The header holds the only copy of the key: it is erased only when nothing is
\* encrypted any more.
ErasedMeansPlain == header = None => \A u \in Unit \ lost : disk[u] = "plain"

\* A crash at this moment makes no more units unreadable than are rewritten
\* between two saves of the header.
CrashLossBounded ==
  ~saveFailed =>
    Cardinality({u \in Unit \ lost : disk[u] # Stored(header, u)})
      <= HeaderUpdateThreshold + BlockSize - 1

\* A thread that ended, by itself, by an abort or by an error, left a header that
\* tells how far it came, unless saving it was what failed.
HeaderTellsArea == header = encrypted \/ (encrypted = None /\ header = 0)
EndedMeansSaved == pc = "ended" /\ ~saveFailed => HeaderTellsArea

\* The drive is dismounted while no request is served but the abort that waits
\* for it, and the thread releases the mutex just when it is its owner.
DismountExclusive ==
  /\ pc = "close" => mutex = IF abort THEN "request" ELSE "setup"
  /\ mutex = "setup" => pc = "close"
  /\ pc = "close" /\ mutex = "request" => waiting

\* The setup always comes to an end: a thread that encrypts ends, and an abort, which
\* waits with the mutex in its hands for a thread that may want the mutex, comes back.
SetupEnds == /\ (pc = "start" /\ mode = "encrypt") ~> (pc = "ended")
             /\ waiting ~> ~waiting
=============================================================================
