-------------------------- MODULE InPlaceEncryption --------------------------
(***************************************************************************)
(* Format/InPlace.c: encryption of an NTFS partition in place.             *)
(*                                                                         *)
(* EncryptPartitionInPlaceBegin shrinks the file system, writes the backup *)
(* header behind it and conceals the first sectors of the file system.     *)
(* EncryptPartitionInPlaceResume then works from the end of the partition  *)
(* to its beginning: it reads a chunk of plaintext and writes its          *)
(* ciphertext DataOffset blocks further up, because the primary header     *)
(* will need the room at the beginning.  A chunk larger than DataOffset    *)
(* thus overwrites part of its own plaintext.  The backup header records   *)
(* how far the work has come; it is updated every HeaderUpdateInterval     *)
(* blocks and at the end of a call.  The wizard (Format/Tcformat.c) calls  *)
(* both functions, pauses them, and may be left and started again.         *)
(*                                                                         *)
(* A block of the model is a data unit of the partition.  A write of one   *)
(* header is atomic (one sector); a chunk may be written in part.          *)
(***************************************************************************)
EXTENDS Integers, FiniteSets

CONSTANTS
  VolumeSize,           \* blocks of the shrunk file system
  DataOffset,           \* TC_VOLUME_DATA_OFFSET: blocks before the data area
  MaxChunk,             \* TC_MAX_NONSYS_INPLACE_ENC_WORK_CHUNK_SIZE
  ConcealSize,          \* TC_INITIAL_NTFS_CONCEAL_PORTION_SIZE
  HeaderUpdateInterval, \* TC_NONSYS_INPLACE_ENC_HEADER_UPDATE_INTERVAL
  WipePasses,           \* GetWipePassCount, 0 for TC_WIPE_NONE
  Faults,               \* the operations on the device that may fail
  MaxFaults,            \* how many fail in one call of Begin or Resume
  MayCrash,             \* the system or the wizard may crash
  MayExit               \* the user may leave the wizard between two calls

ASSUME InPlaceAssumption ==
  /\ VolumeSize \in Nat \ {0} /\ MaxChunk \in Nat \ {0}
  /\ HeaderUpdateInterval \in Nat \ {0} /\ WipePasses \in Nat
  /\ DataOffset \in Nat \ {0} /\ ConcealSize \in 1 .. DataOffset
  /\ ConcealSize <= VolumeSize
  /\ Faults \subseteq {"header", "verify", "conceal", "read", "write", "undo",
                       "update", "primary"}
  /\ MaxFaults \in Nat /\ MayCrash \in BOOLEAN /\ MayExit \in BOOLEAN

Block == 0 .. DataOffset + VolumeSize - 1
Clear == -1                 \* unit of a block that is not encrypted
Lost == -1                  \* origin of a block with no data of the file system
Zeroed == -2                \* origin of an unreadable sector that was zeroed

VARIABLES
  disk,          \* disk[p]: the unit p is encrypted with, the file system block
                 \* its data comes from, and whether that is still concealed
  backupHeader,  \* the backup header on the partition
  primaryHeader, \* the primary header has been written
  pending,       \* the count in the configuration file
  wizard,        \* "new", "resumed" (bInPlaceEncNonSysResumed) or "finished"
  pc,            \* control state of the transform thread, "idle" without one
  area,          \* EncryptedAreaStart and Length of masterCryptoInfo
  remaining,     \* remainingBytes
  sinceUpdate,   \* lastHeaderUpdateDistance
  buf,           \* the chunk in memory, before its encryption (which undoing a
                 \* failed write reverses exactly: unitNo is not changed)
  wipePass, changed, pausing,  \* wipePass, bEncryptedAreaSizeChanged, bPause
  faults         \* failures of this call so far

partition  == <<disk, backupHeader, primaryHeader>>
progress   == <<area, remaining, sinceUpdate, changed>>
vars == <<partition, pending, wizard, pc, progress, buf, wipePass, pausing, faults>>

Plain(p) == [unit |-> Clear, of |-> p, concealed |-> FALSE]
Junk == [unit |-> Clear, of |-> Lost, concealed |-> FALSE]
NoArea == [start |-> 0, length |-> 0]
NoBuffer == [i \in {} |-> Junk]
InitialArea == [start |-> DataOffset + VolumeSize, length |-> 0]

FileSystemIntact == \A p \in 0 .. VolumeSize - 1 : disk[p] = Plain(p)

Init ==
  /\ disk = [p \in Block |-> IF p < VolumeSize THEN Plain(p) ELSE Junk]
  /\ backupHeader = [valid |-> FALSE, area |-> NoArea] /\ primaryHeader = FALSE
  /\ pending = 0 /\ wizard = "new" /\ pc = "idle"
  /\ area = NoArea /\ remaining = 0 /\ sinceUpdate = 0 /\ buf = NoBuffer
  /\ wipePass = 0 /\ changed = FALSE /\ pausing = FALSE /\ faults = 0

-----------------------------------------------------------------------------
(* The device.                                                             *)

Fails(operation) == operation \in Faults /\ faults < MaxFaults /\ faults' = faults + 1
Succeeds == UNCHANGED faults

\* The disk after the blocks of content numbered by part were written at "at".
Written(at, content, part) ==
  [p \in Block |-> IF p - at \in part THEN content[p - at] ELSE disk[p]]

Conceal(b) == [b EXCEPT !.concealed = ~@]

\* EncryptDataUnits: encrypting what is encrypted already leaves no data.
Encrypted(b, unitNo) ==
  IF b.unit = Clear THEN [b EXCEPT !.unit = unitNo] ELSE [Junk EXCEPT !.unit = unitNo]

Return == /\ pc' = "idle" /\ area' = NoArea /\ remaining' = 0 /\ sinceUpdate' = 0
          /\ buf' = NoBuffer /\ wipePass' = 0 /\ changed' = FALSE /\ pausing' = FALSE

-----------------------------------------------------------------------------
(* EncryptPartitionInPlaceBegin.                                           *)

\* The file system is shrunk and dismounted; the backup header is written.
WriteBackupHeader ==
  /\ pc = "idle" /\ wizard = "new" /\ FileSystemIntact
  /\ backupHeader' = [valid |-> TRUE, area |-> InitialArea]
  /\ pc' = "verify" /\ faults' = 0
  /\ UNCHANGED <<disk, primaryHeader, pending, wizard, progress, buf, wipePass, pausing>>

\* Begin fails when the header, or random data around it, cannot be written.
BackupHeaderFails ==
  /\ pc = "idle" /\ wizard = "new" /\ FileSystemIntact
  /\ "header" \in Faults /\ MaxFaults > 0 /\ faults' = 0
  /\ backupHeader' \in {backupHeader, [valid |-> FALSE, area |-> NoArea],
                        [valid |-> TRUE, area |-> InitialArea]}
  /\ UNCHANGED <<disk, primaryHeader, pending, wizard, pc, progress, buf, wipePass, pausing>>

\* OpenBackupHeader on what was just written
VerifyBackupHeader ==
  /\ pc = "verify"
  /\ \/ Succeeds /\ pc' = "conceal"
     \/ Fails("verify") /\ pc' = "idle"
  /\ UNCHANGED <<partition, pending, wizard, progress, buf, wipePass, pausing>>

Concealed(part) == [p \in Block |-> IF p \in part THEN Conceal(disk[p]) ELSE disk[p]]

\* A failed write of the modified sectors is undone until that succeeds.
ConcealNTFS ==
  /\ pc = "conceal"
  /\ \/ /\ Succeeds /\ disk' = Concealed(0 .. ConcealSize - 1) /\ pc' = "register"
     \/ /\ Fails("conceal")
        /\ \E part \in SUBSET (0 .. ConcealSize - 1) : disk' = Concealed(part)
        /\ pc' = "unconceal"
  /\ UNCHANGED <<backupHeader, primaryHeader, pending, wizard, progress, buf, wipePass, pausing>>

UndoConceal ==
  /\ pc = "unconceal" /\ pc' = "idle"
  /\ disk' = [p \in Block |-> IF p < ConcealSize THEN Plain(p) ELSE disk[p]]
  /\ UNCHANGED <<backupHeader, primaryHeader, pending, wizard, progress, buf, wipePass,
                 pausing, faults>>

\* SaveNonSysInPlaceEncSettings (1); the thread goes on with Resume.
RegisterPending ==
  /\ pc = "register" /\ pc' = "open" /\ pending' = pending + 1
  /\ UNCHANGED <<partition, wizard, progress, buf, wipePass, pausing, faults>>

-----------------------------------------------------------------------------
(* EncryptPartitionInPlaceResume.                                          *)

\* The scan of the wizard for volumes whose encryption was interrupted.
Deferred == backupHeader.valid /\ backupHeader.area.length # VolumeSize

\* The user resumes: the volume the wizard has, or one that the scan finds.
ResumeRequested ==
  /\ pc = "idle" /\ wizard \in {"new", "resumed"}
  /\ wizard = "resumed" \/ Deferred

\* a resumed call that has nothing left to encrypt returns
MutantAfterOpen(left) ==
  IF left > 0 THEN "read" ELSE IF pc = "check" THEN "final" ELSE "close"
AfterOpen(left) == IF left > 0 THEN "read" ELSE "final"

OpenResume ==
  /\ pc = "open" \/ ResumeRequested
  /\ backupHeader.valid
  /\ wizard' = "resumed" /\ faults' = 0
  /\ area' = backupHeader.area
  /\ remaining' = VolumeSize - backupHeader.area.length
  /\ sinceUpdate' = 0 /\ changed' = FALSE
  /\ pc' = AfterOpen(remaining')
  /\ UNCHANGED <<partition, pending, buf, wipePass, pausing>>

ChunkSize == IF remaining < MaxChunk THEN remaining ELSE MaxChunk
Chunk == 0 .. ChunkSize - 1
Source == area.start - ChunkSize - DataOffset      \* where the chunk is read
Target == area.start - ChunkSize                   \* where it is written
UnitNo == remaining - ChunkSize + DataOffset

\* The part of the chunk that ConcealNTFS modified is restored in memory.
\* the mutant: the concealed part is expected in one chunk, the last one
MutantRevealed(i) == LET b == disk[Source + i]
                     IN IF Source = 0 /\ i < ConcealSize THEN Conceal(b) ELSE b
Revealed(i) == LET b == disk[Source + i]
               IN IF remaining - ChunkSize + i < ConcealSize THEN Conceal(b) ELSE b

Ciphertext == [i \in Chunk |-> Encrypted(buf[i], UnitNo + i)]
WipePattern == [i \in Chunk |-> Junk]

ReadChunk ==
  /\ pc = "read" /\ Succeeds
  /\ buf' = [i \in Chunk |-> Revealed(i)]
  /\ pc' = IF WipePasses > 0 THEN "wipe" ELSE "write"
  /\ UNCHANGED <<partition, pending, wizard, progress, wipePass, pausing>>

\* A read error ends the call, or unreadable sectors are zeroed and the chunk
\* is read again (ZeroUnreadableSectors, which may fail as well).
ReadFails ==
  /\ pc = "read" /\ Fails("read")
  /\ \E bad \in SUBSET Chunk :
       disk' = Written(Source, [i \in Chunk |->
                 [disk[Source + i] EXCEPT !.of = Zeroed]], bad)
  /\ pc' \in {"read", "close"}
  /\ UNCHANGED <<backupHeader, primaryHeader, pending, wizard, progress, buf, wipePass, pausing>>

\* The target is overwritten with a wipe pattern before the ciphertext.
WipeChunk ==
  /\ pc = "wipe" /\ Succeeds
  /\ disk' = Written(Target, WipePattern, Chunk)
  /\ IF wipePass + 1 < WipePasses THEN wipePass' = wipePass + 1 /\ pc' = "wipe"
                                  ELSE wipePass' = 0 /\ pc' = "write"
  /\ UNCHANGED <<backupHeader, primaryHeader, pending, wizard, progress, buf, pausing>>

\* the mutant: every chunk is taken to have the maximal size
MutantAreaAfter == [start |-> area.start - MaxChunk, length |-> area.length + MaxChunk]
AreaAfter == [start |-> Target, length |-> area.length + ChunkSize]

WriteChunk ==
  /\ pc = "write" /\ Succeeds
  /\ disk' = Written(Target, Ciphertext, Chunk)
  /\ area' = AreaAfter
  /\ remaining' = remaining - ChunkSize
  /\ sinceUpdate' = sinceUpdate + ChunkSize /\ changed' = TRUE /\ buf' = NoBuffer
  /\ pc' = IF sinceUpdate' >= HeaderUpdateInterval THEN "interval" ELSE "check"
  /\ UNCHANGED <<backupHeader, primaryHeader, pending, wizard, wipePass, pausing>>

\* A wipe pass or the ciphertext was written in part only.
WriteFails ==
  /\ pc \in {"wipe", "write"} /\ Fails("write")
  /\ \E part \in SUBSET Chunk :
       disk' = Written(Target, IF pc = "wipe" THEN WipePattern ELSE Ciphertext, part)
  /\ pc' = IF ChunkSize > DataOffset THEN "undo" ELSE "close"
  /\ UNCHANGED <<backupHeader, primaryHeader, pending, wizard, progress, buf, wipePass, pausing>>

\* The plaintext that the write destroyed: blocks DataOffset .. of the chunk
Overwritten == DataOffset .. ChunkSize - 1

\* It is written back from memory; whether that succeeds is not looked at.
UndoWrite ==
  /\ pc = "undo" /\ pc' = "close"
  /\ \/ Succeeds /\ disk' = Written(Target - DataOffset, buf, Overwritten)
     \/ /\ Fails("undo")
        /\ \E part \in SUBSET Overwritten : disk' = Written(Target - DataOffset, buf, part)
  /\ UNCHANGED <<backupHeader, primaryHeader, pending, wizard, progress, buf, wipePass, pausing>>

\* FastVolumeHeaderUpdate
HeaderUpdate == Succeeds /\ backupHeader' = [valid |-> TRUE, area |-> area]
HeaderUpdateFails == Fails("update") /\ UNCHANGED backupHeader

IntervalUpdate ==
  /\ pc = "interval"
  /\ \/ HeaderUpdate /\ sinceUpdate' = 0 /\ pc' = "check"
     \/ HeaderUpdateFails /\ UNCHANGED sinceUpdate /\ pc' = "close"
  /\ UNCHANGED <<disk, primaryHeader, pending, wizard, area, remaining, changed, buf,
                 wipePass, pausing>>

\* bVolTransformThreadCancel is looked at after every chunk, the last one too.
CheckPause ==
  /\ pc = "check"
  /\ pausing' \in BOOLEAN
  /\ pc' = IF pausing' THEN "final" ELSE AfterOpen(remaining)
  /\ UNCHANGED <<partition, pending, wizard, progress, buf, wipePass, faults>>

\* the mutant: a pause is taken for the end of the work
MutantAfterFinal == "primary"
AfterFinal == IF pausing THEN "close" ELSE "primary"

FinalUpdate ==
  /\ pc = "final"
  /\ \/ HeaderUpdate /\ pc' = AfterFinal
     \/ HeaderUpdateFails /\ pc' = "close"
  /\ UNCHANGED <<disk, primaryHeader, pending, wizard, progress, buf, wipePass, pausing>>

\* The primary header and random data fill the blocks before the data area;
\* only then SaveNonSysInPlaceEncSettings (-1).
WritePrimaryHeader ==
  /\ pc = "primary" /\ pc' = "close"
  /\ \/ /\ Succeeds /\ disk' = [p \in Block |-> IF p < DataOffset THEN Junk ELSE disk[p]]
        /\ primaryHeader' = TRUE /\ wizard' = "finished"
        /\ pending' = IF pending > 0 THEN pending - 1 ELSE 0
     \/ /\ Fails("primary") /\ UNCHANGED <<pending, wizard>>
        /\ \E part \in SUBSET (0 .. DataOffset - 1) :
             /\ disk' = [p \in Block |-> IF p \in part THEN Junk ELSE disk[p]]
             /\ primaryHeader' = (primaryHeader \/ 0 \in part)
  /\ UNCHANGED <<backupHeader, progress, buf, wipePass, pausing>>

\* closing_seq; the result of its header update is not looked at.
Close ==
  /\ pc = "close"
  /\ IF changed THEN HeaderUpdate \/ HeaderUpdateFails
                ELSE Succeeds /\ UNCHANGED backupHeader
  /\ Return
  /\ UNCHANGED <<disk, primaryHeader, pending, wizard>>

-----------------------------------------------------------------------------
(* The wizard.                                                             *)

\* Left between two calls (the button Defer pauses first), started again
LeaveWizard ==
  /\ pc = "idle" /\ wizard # "new" /\ wizard' = "new"
  /\ MayExit \/ wizard = "finished"
  /\ UNCHANGED <<partition, pending, pc, progress, buf, wipePass, pausing, faults>>

\* Everything in memory is gone; a crash inside a write is a failed write
\* followed by a crash.
Crash ==
  /\ MayCrash /\ pc # "idle"
  /\ Return /\ wizard' = "new"
  /\ UNCHANGED <<partition, pending, faults>>

Begin == \/ WriteBackupHeader \/ BackupHeaderFails \/ VerifyBackupHeader
         \/ ConcealNTFS \/ UndoConceal \/ RegisterPending
Resume == \/ OpenResume \/ ReadChunk \/ ReadFails \/ WipeChunk \/ WriteChunk \/ WriteFails
          \/ UndoWrite \/ IntervalUpdate \/ CheckPause \/ FinalUpdate
          \/ WritePrimaryHeader \/ Close
Next == Begin \/ Resume \/ LeaveWizard \/ Crash

Spec == Init /\ [][Next]_vars

\* The thread is scheduled; the user resumes what the wizard shows as paused or
\* failed; and an operation that is tried again and again succeeds some time.
Fairness ==
  /\ WF_vars(pc # "idle" /\ (Begin \/ Resume)) /\ WF_vars(OpenResume)
  /\ SF_vars(ReadChunk) /\ SF_vars(WriteChunk)
  /\ \A pass \in 0 .. WipePasses - 1 : SF_vars(wipePass = pass /\ WipeChunk)
  /\ SF_vars(FinalUpdate /\ Succeeds) /\ SF_vars(WritePrimaryHeader /\ Succeeds)
FairSpec == Spec /\ Fairness

-----------------------------------------------------------------------------
(* Properties.                                                             *)

Area == [start : DataOffset .. DataOffset + VolumeSize, length : 0 .. VolumeSize]

\* Every variable has the values its declaration names; no size, counter or
\* offset leaves the partition.
TypeOK ==
  /\ disk \in [Block -> [unit : Block \cup {Clear}, concealed : BOOLEAN,
                        of : 0 .. VolumeSize - 1 \cup {Lost, Zeroed}]]
  /\ backupHeader \in [valid : BOOLEAN, area : Area \cup {NoArea}]
  /\ primaryHeader \in BOOLEAN /\ changed \in BOOLEAN /\ pausing \in BOOLEAN
  /\ pending \in Nat /\ wizard \in {"new", "resumed", "finished"}
  /\ pc \in {"idle", "verify", "conceal", "unconceal", "register", "open", "read", "wipe",
             "write", "undo", "interval", "check", "final", "primary", "close"}
  /\ area \in Area \cup {NoArea} /\ remaining \in 0 .. VolumeSize
  /\ sinceUpdate \in 0 .. HeaderUpdateInterval + MaxChunk
  /\ DOMAIN buf \in {{}, Chunk} /\ wipePass \in 0 .. WipePasses /\ faults \in 0 .. MaxFaults

Holds(b, p) == b.of \in {p, Zeroed}

\* With "start" as the boundary, every block of the file system can be read.
ConvertedFrom(start) ==
  \A p \in 0 .. VolumeSize - 1 :
    IF p + DataOffset >= start
      THEN LET b == disk[p + DataOffset]
           IN b.unit = p + DataOffset /\ Holds(b, p) /\ ~b.concealed
      ELSE disk[p].unit = Clear /\ Holds(disk[p], p) /\ disk[p].concealed = (p < ConcealSize)

\* Whenever no call is in progress, each block of the user's file system is
\* where the backup header says, encrypted with its own unit number or still
\* plain, whatever was paused, failed, was undone or was tried again before;
\* or the file system was not touched (InPlace.c:561).
DataRecoverable ==
  pc = "idle" => \/ FileSystemIntact
                 \/ /\ backupHeader.valid
                    /\ backupHeader.area.start + backupHeader.area.length
                          = DataOffset + VolumeSize
                    /\ ConvertedFrom(backupHeader.area.start)

\* The backup header never claims more than was written: at every moment, so
\* also when the system crashes, the area it names is encrypted, each block
\* with its own unit (InPlace.c:930-946).
HeaderNeverAhead ==
  backupHeader.valid =>
    \A p \in backupHeader.area.start .. DataOffset + VolumeSize - 1 : disk[p].unit = p

\* The primary header, which lies where plaintext was, is only written when the
\* whole volume is encrypted, and when the wizard reports the end no plaintext
\* is left anywhere (InPlace.c:964-1015).
FinishedMeansEncrypted ==
  /\ primaryHeader \/ wizard = "finished" =>
       \A p \in DataOffset .. DataOffset + VolumeSize - 1 : disk[p].unit = p
  /\ wizard = "finished" =>
       /\ primaryHeader /\ backupHeader.area.length = VolumeSize
       /\ \A p \in Block : disk[p].unit = Clear => disk[p].of = Lost

\* An encryption that was registered is finished in the end, through any number
\* of pauses and of operations that fail.
EncryptionFinishes == pending > 0 ~> wizard = "finished"
=============================================================================
