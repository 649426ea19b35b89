----------------------- MODULE InPlaceEncryption_proof -----------------------
(***************************************************************************)
(* Proofs about InPlaceEncryption, for every size of the volume, of its    *)
(* chunks and of the room before the data area, with any number of faults, *)
(* pauses, crashes and calls; what can be recovered between two calls with *)
(* one fault in each of them and no crash.                                 *)
(***************************************************************************)
EXTENDS InPlaceEncryption, TLAPS

BlockType == [unit : Int, of : Int, concealed : BOOLEAN]
AreaType == [start : Int, length : Int]

Beginning == {"verify", "conceal", "unconceal", "register"}
Working == {"read", "wipe", "write", "undo"}
Resuming == Working \cup {"interval", "check", "final", "primary", "close"}

\* An area ends with the partition.
AtEnd(a) == a.length \in 0 .. VolumeSize /\ a.start = DataOffset + VolumeSize - a.length
EncryptedFrom(start) == \A p \in Block : p >= start => disk[p].unit = p

StoredInv == /\ disk \in [Block -> BlockType] /\ area \in AreaType
             /\ backupHeader \in [valid : BOOLEAN, area : AreaType]
HeaderInv == backupHeader.valid =>
               AtEnd(backupHeader.area) /\ EncryptedFrom(backupHeader.area.start)
\* In a call of Resume the area in memory is ahead of the one in the header,
\* and what it names is encrypted.
WorkInv == pc \in Resuming =>
             /\ backupHeader.valid /\ area.start <= backupHeader.area.start
             /\ AtEnd(area) /\ EncryptedFrom(area.start)
             /\ remaining = VolumeSize - area.length
ChunkInv == /\ pc \in Working => remaining > 0
            /\ pc \in {"wipe", "write", "undo"} => buf \in [Chunk -> BlockType]
FinalInv == /\ pc = "final" /\ ~pausing => remaining = 0
            /\ pc = "primary" => remaining = 0 /\ backupHeader.area.length = VolumeSize
BeginInv == /\ pc \in Beginning => backupHeader.area = InitialArea /\ ~primaryHeader
            /\ pc \in Beginning \cup {"open"} => wizard = "new"
PrimaryInv == primaryHeader =>
                /\ backupHeader.valid /\ backupHeader.area.length = VolumeSize
                /\ disk[0] # Plain(0)
FinishedInv == wizard = "finished" =>
                 /\ pc \in {"close", "idle"} /\ primaryHeader
                 /\ \A p \in 0 .. DataOffset - 1 : disk[p] = Junk

IInv == /\ StoredInv /\ HeaderInv /\ WorkInv /\ ChunkInv /\ FinalInv /\ BeginInv
        /\ PrimaryInv /\ FinishedInv

-----------------------------------------------------------------------------
(* The constants, and what the operators of the module return.             *)

LEMMA Constants ==
  /\ VolumeSize \in Nat \ {0} /\ MaxChunk \in Nat \ {0} /\ DataOffset \in Nat \ {0}
  /\ ConcealSize \in Nat /\ ConcealSize <= DataOffset /\ ConcealSize <= VolumeSize
  /\ Block = 0 .. DataOffset + VolumeSize - 1
BY InPlaceAssumption DEF InPlaceAssumption, Block

LEMMA PlainType == \A p \in Block : Plain(p) \in BlockType
BY Constants DEF Plain, BlockType, Clear

LEMMA JunkType == Junk \in BlockType /\ Junk # Plain(0)
BY DEF Junk, Plain, BlockType, Clear, Lost

LEMMA ConcealType == \A b \in BlockType : Conceal(b) \in BlockType /\ Conceal(b).unit = b.unit
BY DEF Conceal, BlockType

LEMMA ZeroedType == \A b \in BlockType : [b EXCEPT !.of = Zeroed] \in BlockType
BY DEF BlockType, Zeroed

LEMMA EncryptedType ==
  \A b \in BlockType, u \in Int : Encrypted(b, u) \in BlockType /\ Encrypted(b, u).unit = u
<1> SUFFICES ASSUME NEW b \in BlockType, NEW u \in Int
             PROVE  Encrypted(b, u) \in BlockType /\ Encrypted(b, u).unit = u
  OBVIOUS
<1>1. CASE b.unit = Clear
  BY <1>1 DEF Encrypted, BlockType
<1>2. CASE b.unit # Clear
  BY <1>2, JunkType DEF Encrypted, BlockType
<1> QED
  BY <1>1, <1>2

LEMMA InitIInv == Init => IInv
<1> SUFFICES ASSUME Init PROVE IInv
  OBVIOUS
<1>1. StoredInv
  <2>1. disk \in [Block -> BlockType]
    BY PlainType, JunkType DEF Init
  <2> QED
    BY <2>1 DEF Init, StoredInv, NoArea, AreaType
<1>2. HeaderInv /\ WorkInv /\ ChunkInv /\ FinalInv /\ BeginInv /\ PrimaryInv /\ FinishedInv
  BY DEF Init, HeaderInv, WorkInv, ChunkInv, FinalInv, BeginInv, PrimaryInv, FinishedInv,
         Resuming, Working, Beginning
<1> QED
  BY <1>1, <1>2 DEF IInv

-----------------------------------------------------------------------------
(* Begin.                                                                  *)

LEMMA BeginStep == ASSUME IInv, Begin PROVE IInv'
<1> USE Constants DEF IInv
<1>1. CASE WriteBackupHeader
  <2> USE <1>1 DEF WriteBackupHeader, InitialArea
  <2>1. ~primaryHeader
    BY DEF PrimaryInv, FileSystemIntact
  <2>2. StoredInv'
    BY DEF StoredInv, AreaType, progress
  <2>3. HeaderInv'
    BY DEF HeaderInv, AtEnd, EncryptedFrom
  <2>4. WorkInv' /\ ChunkInv' /\ FinalInv'
    BY DEF WorkInv, ChunkInv, FinalInv, Resuming, Working
  <2>5. BeginInv' /\ PrimaryInv' /\ FinishedInv'
    BY <2>1 DEF BeginInv, PrimaryInv, FinishedInv
  <2> QED
    BY <2>2, <2>3, <2>4, <2>5
<1>2. CASE BackupHeaderFails
  <2> USE <1>2 DEF BackupHeaderFails, InitialArea, NoArea
  <2>1. ~primaryHeader
    BY DEF PrimaryInv, FileSystemIntact
  <2>2. StoredInv'
    <3>1. InitialArea \in AreaType /\ NoArea \in AreaType
      BY DEF AreaType
    <3>2. /\ [valid |-> FALSE, area |-> NoArea] \in [valid : BOOLEAN, area : AreaType]
          /\ [valid |-> TRUE, area |-> InitialArea] \in [valid : BOOLEAN, area : AreaType]
      BY <3>1
    <3>3. backupHeader' \in [valid : BOOLEAN, area : AreaType]
      BY <3>2 DEF StoredInv
    <3> QED
      BY <3>3 DEF StoredInv, progress
  <2>3. HeaderInv'
    BY DEF HeaderInv, AtEnd, EncryptedFrom
  <2>4. WorkInv' /\ ChunkInv' /\ FinalInv'
    BY DEF WorkInv, ChunkInv, FinalInv, Resuming, Working
  <2>5. BeginInv' /\ PrimaryInv' /\ FinishedInv'
    BY <2>1 DEF BeginInv, PrimaryInv, FinishedInv, Beginning
  <2> QED
    BY <2>2, <2>3, <2>4, <2>5
<1>3. CASE VerifyBackupHeader
  BY <1>3 DEF VerifyBackupHeader, partition, progress, StoredInv, HeaderInv, EncryptedFrom,
              WorkInv, ChunkInv, FinalInv, BeginInv, PrimaryInv, FinishedInv,
              Resuming, Working, Beginning
<1>4. CASE ConcealNTFS
  <2> USE <1>4 DEF ConcealNTFS
  <2>1. /\ disk' \in [Block -> BlockType] /\ \A p \in Block : disk'[p].unit = disk[p].unit
    BY ConcealType DEF Concealed, StoredInv
  <2>2. StoredInv'
    BY <2>1 DEF StoredInv, progress
  <2>3. HeaderInv'
    BY <2>1 DEF HeaderInv, EncryptedFrom
  <2>4. WorkInv' /\ ChunkInv' /\ FinalInv'
    BY DEF WorkInv, ChunkInv, FinalInv, Resuming, Working
  <2>5. BeginInv' /\ PrimaryInv' /\ FinishedInv'
    BY DEF BeginInv, PrimaryInv, FinishedInv, Beginning
  <2> QED
    BY <2>2, <2>3, <2>4, <2>5
<1>5. CASE UndoConceal
  <2> USE <1>5 DEF UndoConceal
  <2>1. disk' \in [Block -> BlockType] /\ \A p \in Block : p >= ConcealSize => disk'[p] = disk[p]
    BY PlainType DEF StoredInv
  <2>2. StoredInv'
    BY <2>1 DEF StoredInv, progress
  <2>3. HeaderInv'
    BY <2>1 DEF HeaderInv, BeginInv, Beginning, InitialArea, AtEnd, EncryptedFrom
  <2>4. WorkInv' /\ ChunkInv' /\ FinalInv'
    BY DEF WorkInv, ChunkInv, FinalInv, Resuming, Working
  <2>5. BeginInv' /\ PrimaryInv' /\ FinishedInv'
    BY DEF BeginInv, PrimaryInv, FinishedInv, Beginning
  <2> QED
    BY <2>2, <2>3, <2>4, <2>5
<1>6. CASE RegisterPending
  BY <1>6 DEF RegisterPending, partition, progress, StoredInv, HeaderInv, EncryptedFrom,
              WorkInv, ChunkInv, FinalInv, BeginInv, PrimaryInv, FinishedInv,
              Resuming, Working, Beginning
<1> QED
  BY <1>1, <1>2, <1>3, <1>4, <1>5, <1>6 DEF Begin

-----------------------------------------------------------------------------
(* The wizard and crashes.                                                 *)

LEMMA WizardStep == ASSUME IInv, LeaveWizard \/ Crash PROVE IInv'
<1> USE DEF IInv, partition, progress
<1>1. CASE LeaveWizard
  BY <1>1 DEF LeaveWizard, StoredInv, HeaderInv, EncryptedFrom, WorkInv, ChunkInv, FinalInv,
              BeginInv, PrimaryInv, FinishedInv, Resuming, Working, Beginning
<1>2. CASE Crash
  <2> USE <1>2 DEF Crash, Return
  <2>1. StoredInv' /\ HeaderInv' /\ PrimaryInv'
    BY DEF StoredInv, AreaType, NoArea, HeaderInv, EncryptedFrom, PrimaryInv
  <2>2. WorkInv' /\ ChunkInv' /\ FinalInv' /\ BeginInv' /\ FinishedInv'
    BY DEF WorkInv, ChunkInv, FinalInv, BeginInv, FinishedInv, Resuming, Working, Beginning
  <2> QED
    BY <2>1, <2>2
<1> QED
  BY <1>1, <1>2

-----------------------------------------------------------------------------
(* Resume.                                                                 *)

\* A chunk lies below the area, and its unit numbers are its addresses.
LEMMA ChunkPlace ==
  ASSUME IInv, pc \in Working
  PROVE  /\ ChunkSize \in 1 .. remaining /\ Chunk = 0 .. ChunkSize - 1
         /\ remaining \in 1 .. VolumeSize
         /\ area.start = DataOffset + remaining
         /\ Target = DataOffset + remaining - ChunkSize /\ UnitNo = Target
         /\ Source = remaining - ChunkSize
BY Constants
  DEF IInv, ChunkInv, WorkInv, AtEnd, StoredInv, AreaType, Working, Resuming, ChunkSize,
   Chunk, Target, UnitNo, Source

\* What holds after a step of a call of Resume that keeps the headers, the area
\* and the encrypted blocks.
LEMMA WorkStep ==
  ASSUME IInv, pc \in Resuming, pc' \in Resuming, ChunkInv', FinalInv',
         disk' \in [Block -> BlockType],
         \A p \in Block : p >= area.start => disk'[p] = disk[p],
         disk'[0] = disk[0] \/ ~primaryHeader,
         UNCHANGED <<backupHeader, primaryHeader, wizard, area, remaining>>,
         wizard # "finished"
  PROVE  IInv'
<1> USE Constants DEF IInv
<1>1. StoredInv'
  BY DEF StoredInv
<1>2. HeaderInv'
  <2>1. backupHeader.area.start \in Int /\ area.start \in Int
    BY DEF StoredInv, AreaType
  <2>2. \A p \in Block : p >= backupHeader.area.start => p >= area.start
    BY <2>1 DEF WorkInv
  <2>3. \A p \in Block : p >= backupHeader.area.start => disk'[p].unit = disk[p].unit
    BY <2>2
  <2> QED
    BY <2>3 DEF HeaderInv, EncryptedFrom, AtEnd
<1>3. WorkInv'
  BY DEF WorkInv, EncryptedFrom
<1>4. BeginInv' /\ PrimaryInv'
  BY DEF BeginInv, PrimaryInv, Beginning, Resuming, Working
<1>5. FinishedInv'
  BY DEF FinishedInv
<1> QED
  BY <1>1, <1>2, <1>3, <1>4, <1>5

\* The chunk is read, wiped over, and undone; the header keeps its area.
LEMMA ReadStep == ASSUME IInv, ReadChunk \/ ReadFails \/ WipeChunk \/ WriteFails \/ UndoWrite
                  PROVE  IInv'
<1> USE Constants DEF IInv, progress, partition
<1>1. pc \in Working /\ pc \in Resuming /\ wizard # "finished"
  BY
    DEF ReadChunk, ReadFails, WipeChunk, WriteFails, UndoWrite, Working, Resuming,
        FinishedInv
<1>2. UNCHANGED <<backupHeader, primaryHeader, wizard, area, remaining>>
  BY DEF ReadChunk, ReadFails, WipeChunk, WriteFails, UndoWrite
<1>3. /\ ChunkSize \in 1 .. remaining /\ Chunk = 0 .. ChunkSize - 1
      /\ remaining \in 1 .. VolumeSize /\ area.start = DataOffset + remaining
      /\ Target = DataOffset + remaining - ChunkSize /\ UnitNo = Target
      /\ Source = remaining - ChunkSize
  BY <1>1, ChunkPlace
<1>4. ChunkSize' = ChunkSize /\ Chunk' = Chunk
  BY <1>2 DEF ChunkSize, Chunk
<1>5. disk \in [Block -> BlockType] /\ ~primaryHeader
  BY <1>1, <1>3 DEF StoredInv, AreaType, PrimaryInv, HeaderInv, WorkInv, AtEnd
<1>6. \A i \in Chunk : Source + i \in Block /\ Target + i \in Block /\ disk[Source + i] \in BlockType
  BY <1>3, <1>5
\* what is left to show of each step
<1>7. ASSUME pc' \in Resuming, ChunkInv', FinalInv', disk' \in [Block -> BlockType],
             \A p \in Block : p >= area.start => disk'[p] = disk[p]
      PROVE  IInv'
  BY <1>1, <1>2, <1>5, <1>7, WorkStep
<1>8. CASE ReadChunk
  <2> USE <1>8 DEF ReadChunk
  <2>1. buf' \in [Chunk -> BlockType]
    BY <1>6, ConcealType DEF Revealed
  <2>2. ChunkInv' /\ FinalInv' /\ pc' \in Resuming
    BY <1>2, <1>3, <1>4, <2>1 DEF ChunkInv, FinalInv, Resuming, Working
  <2> QED
    BY <1>5, <1>7, <2>2
\* a write of blocks that lie below the area
<1>9. ASSUME NEW at \in Int, NEW content, NEW part, part \subseteq Int,
             \A i \in part : content[i] \in BlockType, \A i \in part : at + i < area.start
      PROVE  /\ Written(at, content, part) \in [Block -> BlockType]
             /\ \A p \in Block : p >= area.start => Written(at, content, part)[p] = disk[p]
  <2>1. Written(at, content, part) \in [Block -> BlockType]
    BY <1>5, <1>9 DEF Written
  <2>2. \A p \in Block : Written(at, content, part)[p] =
                         IF p - at \in part THEN content[p - at] ELSE disk[p]
    BY DEF Written
  <2>3. \A p \in Block : p - at \in part => p < area.start
    BY <1>9
  <2>4. area.start \in Int /\ Block \subseteq Int
    BY <1>3
  <2>5. ASSUME NEW p \in Block, p >= area.start PROVE Written(at, content, part)[p] = disk[p]
    <3>1. p - at \notin part
      BY <2>3, <2>4, <2>5
    <3> QED
      BY <2>2, <3>1
  <2> QED
    BY <2>1, <2>5
<1>10. CASE ReadFails
  <2>1. PICK bad \in SUBSET Chunk : disk' = Written(Source, [i \in Chunk |->
          [disk[Source + i] EXCEPT !.of = Zeroed]], bad)
    BY <1>10 DEF ReadFails
  <2> DEFINE content == [i \in Chunk |-> [disk[Source + i] EXCEPT !.of = Zeroed]]
  <2>2. \A i \in bad : content[i] \in BlockType
    BY <1>6, ZeroedType
  <2>3. \A i \in bad : Source + i < area.start
    BY <1>3
  <2>4. Source \in Int /\ bad \subseteq Int /\ disk' = Written(Source, content, bad)
    BY <1>3, <2>1
  <2> HIDE DEF content
  <2>5. /\ Written(Source, content, bad) \in [Block -> BlockType]
        /\ \A p \in Block : p >= area.start => Written(Source, content, bad)[p] = disk[p]
    BY ONLY <1>9, <2>2, <2>3, <2>4
  <2>6. ChunkInv' /\ FinalInv' /\ pc' \in Resuming
    BY <1>2, <1>3, <1>4, <1>10 DEF ReadFails, ChunkInv, FinalInv, Resuming, Working
  <2> QED
    BY <1>7, <2>4, <2>5, <2>6
<1>11. ASSUME pc \in {"wipe", "write"}
       PROVE  \A i \in Chunk : WipePattern[i] \in BlockType /\ Ciphertext[i] \in BlockType
  <2>1. \A i \in Chunk : buf[i] \in BlockType /\ UnitNo + i \in Int
    BY <1>3, <1>11 DEF ChunkInv
  <2> QED
    BY <2>1, JunkType, EncryptedType DEF WipePattern, Ciphertext
<1>12. \A i \in Chunk : Target + i < area.start
  BY <1>3
<1>13. CASE WipeChunk
  <2> USE <1>13 DEF WipeChunk
  <2>1. Target \in Int /\ Chunk \subseteq Int /\ \A i \in Chunk : WipePattern[i] \in BlockType
    BY <1>3, <1>11
  <2>2. /\ Written(Target, WipePattern, Chunk) \in [Block -> BlockType]
        /\ \A p \in Block : p >= area.start => Written(Target, WipePattern, Chunk)[p] = disk[p]
    BY ONLY <1>9, <1>12, <2>1
  <2>3. ChunkInv' /\ FinalInv' /\ pc' \in Resuming
    BY <1>2, <1>3, <1>4 DEF ChunkInv, FinalInv, Resuming, Working
  <2> QED
    BY <1>7, <2>3, <2>2
<1>14. CASE WriteFails
  <2>1. PICK part \in SUBSET Chunk : disk' = Written(Target,
          IF pc = "wipe" THEN WipePattern ELSE Ciphertext, part)
    BY <1>14 DEF WriteFails
  <2>2. PICK content : /\ disk' = Written(Target, content, part)
                       /\ \A i \in Chunk : content[i] \in BlockType
    <3>1. pc \in {"wipe", "write"}
      BY <1>14 DEF WriteFails
    <3>2. CASE pc = "wipe"
      BY <1>11, <2>1, <3>1, <3>2
    <3>3. CASE pc # "wipe"
      BY <1>11, <2>1, <3>1, <3>3
    <3> QED
      BY <3>2, <3>3
  <2>3. /\ Target \in Int /\ part \subseteq Int
        /\ \A i \in part : content[i] \in BlockType
        /\ \A i \in part : Target + i < area.start
    BY <1>3, <1>12, <2>2
  <2>4. /\ Written(Target, content, part) \in [Block -> BlockType]
        /\ \A p \in Block : p >= area.start => Written(Target, content, part)[p] = disk[p]
    BY ONLY <1>9, <2>3
  <2>5. ChunkInv' /\ FinalInv' /\ pc' \in Resuming
    BY <1>2, <1>3, <1>4, <1>14 DEF WriteFails, ChunkInv, FinalInv, Resuming, Working
  <2> QED
    BY <1>7, <2>2, <2>4, <2>5
<1>15. CASE UndoWrite
  <2> USE <1>15 DEF UndoWrite
  <2>1. \A i \in Overwritten : /\ i \in Chunk /\ i \in Int
                               /\ buf[i] \in BlockType
                               /\ Target - DataOffset + i < area.start
    BY <1>3 DEF Overwritten, ChunkInv
  <2>2. PICK part \in SUBSET Overwritten : disk' = Written(Target - DataOffset, buf, part)
    OBVIOUS
  <2>3. Target - DataOffset \in Int
    BY <1>3
  <2>4. /\ part \subseteq Int /\ \A i \in part : buf[i] \in BlockType
        /\ \A i \in part : Target - DataOffset + i < area.start
    BY <2>1
  <2>5. /\ Written(Target - DataOffset, buf, part) \in [Block -> BlockType]
        /\ \A p \in Block : p >= area.start =>
             Written(Target - DataOffset, buf, part)[p] = disk[p]
    BY ONLY <1>9, <2>3, <2>4
  <2>6. ChunkInv' /\ FinalInv' /\ pc' \in Resuming
    BY <1>2, <1>3, <1>4 DEF ChunkInv, FinalInv, Resuming, Working
  <2> QED
    BY <1>7, <2>2, <2>5, <2>6
<1> QED
  BY <1>8, <1>10, <1>13, <1>14, <1>15

\* The ciphertext of a chunk extends the area downwards, each block with its
\* own unit number.
LEMMA WriteStep == ASSUME IInv, WriteChunk PROVE IInv'
<1> USE Constants DEF IInv
<1>1. /\ pc \in Working /\ pc \in Resuming /\ wizard # "finished"
      /\ pc = "write" /\ pc' \in {"interval", "check"}
      /\ disk' = Written(Target, Ciphertext, Chunk)
      /\ area' = [start |-> Target, length |-> area.length + ChunkSize]
      /\ remaining' = remaining - ChunkSize
      /\ UNCHANGED <<backupHeader, primaryHeader, wizard>>
  BY DEF WriteChunk, AreaAfter, Working, Resuming, FinishedInv
<1>2. /\ ChunkSize \in 1 .. remaining /\ Chunk = 0 .. ChunkSize - 1
      /\ remaining \in 1 .. VolumeSize /\ area.start = DataOffset + remaining
      /\ Target = DataOffset + remaining - ChunkSize /\ UnitNo = Target
  BY <1>1, ChunkPlace
<1>3. /\ disk \in [Block -> BlockType] /\ ~primaryHeader
      /\ AtEnd(area) /\ EncryptedFrom(area.start) /\ remaining = VolumeSize - area.length
      /\ backupHeader.valid /\ backupHeader.area \in AreaType /\ area \in AreaType
      /\ AtEnd(backupHeader.area) /\ area.start <= backupHeader.area.start
  BY <1>1, <1>2 DEF StoredInv, PrimaryInv, HeaderInv, WorkInv, AtEnd
<1>4. \A i \in Chunk : Ciphertext[i] \in BlockType /\ Ciphertext[i].unit = Target + i
  <2>1. \A i \in Chunk : buf[i] \in BlockType /\ UnitNo + i \in Int
    BY <1>1, <1>2 DEF ChunkInv
  <2> QED
    BY <1>2, <2>1, EncryptedType DEF Ciphertext
<1>5. /\ disk' \in [Block -> BlockType]
      /\ \A p \in Block : disk'[p] = IF p - Target \in Chunk THEN Ciphertext[p - Target]
                                                             ELSE disk[p]
  BY <1>1, <1>2, <1>3, <1>4 DEF Written
<1>6. \A p \in Block : p >= area.start => disk'[p] = disk[p]
  BY <1>2, <1>5
<1>7. \A p \in Block : p >= Target => disk'[p].unit = p
  <2> TAKE p \in Block
  <2>1. CASE p >= area.start
    BY <1>3, <1>6, <2>1 DEF EncryptedFrom
  <2>2. CASE p >= Target /\ p < area.start
    <3>1. p - Target \in Chunk /\ Target + (p - Target) = p
      BY <1>2, <2>2
    <3> QED
      BY <1>4, <1>5, <3>1
  <2> QED
    BY <1>2, <2>1, <2>2
<1>8. /\ area.start \in Int /\ area.length \in Int /\ backupHeader.area.start \in Int
      /\ Target \in Int /\ ChunkSize \in Int
  <2>1. area.start \in Int /\ area.length \in Int /\ backupHeader.area.start \in Int
    BY <1>3 DEF AreaType
  <2> QED
    BY <1>2, <2>1
<1>9. StoredInv'
  <2>1. area' \in AreaType
    BY <1>1, <1>8 DEF AreaType
  <2> QED
    BY <1>1, <1>5, <2>1 DEF StoredInv
<1>10. HeaderInv'
  <2>1. \A p \in Block : p >= backupHeader.area.start => p >= area.start
    BY <1>3, <1>8
  <2>2. \A p \in Block : p >= backupHeader.area.start => disk'[p] = disk[p]
    BY <1>6, <2>1
  <2> QED
    BY <1>1, <1>3, <2>2 DEF HeaderInv, EncryptedFrom, AtEnd
<1>11. WorkInv'
  <2>1. area'.start = Target /\ area'.length = area.length + ChunkSize
    BY <1>1
  <2>2. area.length = VolumeSize - remaining
    BY <1>2, <1>3, <1>8
  <2>3. /\ area'.length \in 0 .. VolumeSize
        /\ area'.start = DataOffset + VolumeSize - area'.length
        /\ remaining' = VolumeSize - area'.length
        /\ area'.start <= backupHeader.area.start
    <3>1. area'.length = VolumeSize - remaining + ChunkSize
      BY <1>2, <1>8, <2>1, <2>2
    <3>2. area'.start = DataOffset + remaining - ChunkSize /\ remaining' = remaining - ChunkSize
      BY <1>1, <1>2, <2>1
    <3>3. area'.start <= area.start
      BY <1>2, <3>2
    <3>4. area'.start <= backupHeader.area.start
      <4>1. area'.start \in Int /\ area.start \in Int /\ backupHeader.area.start \in Int
        BY <1>8, <2>1
      <4>2. area.start <= backupHeader.area.start
        BY <1>3
      <4> QED
        BY ONLY <3>3, <4>1, <4>2
    <3> QED
      BY <1>2, <3>1, <3>2, <3>4
  <2>4. EncryptedFrom(area.start)'
    BY <1>7, <2>1 DEF EncryptedFrom
  <2> QED
    BY <1>1, <1>3, <2>3, <2>4 DEF WorkInv, AtEnd
<1>12. ChunkInv' /\ FinalInv' /\ BeginInv' /\ PrimaryInv' /\ FinishedInv'
  BY <1>1, <1>3
    DEF ChunkInv, FinalInv, BeginInv, PrimaryInv, FinishedInv, Working, Beginning
<1> QED
  BY <1>9, <1>10, <1>11, <1>12

\* What the backup header is after an update that may have failed.
LEMMA UpdatedHeader ==
  ASSUME IInv, pc \in Resuming, HeaderUpdate \/ UNCHANGED backupHeader,
         UNCHANGED <<disk, primaryHeader>>
  PROVE  /\ backupHeader' \in [valid : BOOLEAN, area : AreaType] /\ backupHeader'.valid
         /\ area.start <= backupHeader'.area.start
         /\ HeaderInv' /\ PrimaryInv'
<1> USE Constants DEF IInv
<1>1. /\ AtEnd(area) /\ EncryptedFrom(area.start) /\ area \in AreaType
      /\ backupHeader \in [valid : BOOLEAN, area : AreaType] /\ backupHeader.valid
      /\ AtEnd(backupHeader.area) /\ EncryptedFrom(backupHeader.area.start)
      /\ area.start <= backupHeader.area.start
  BY DEF StoredInv, WorkInv, HeaderInv
<1>2. CASE HeaderUpdate
  <2>1. backupHeader' = [valid |-> TRUE, area |-> area]
    BY <1>2 DEF HeaderUpdate
  <2>2. HeaderInv'
    BY <1>1, <2>1 DEF HeaderInv, AtEnd, EncryptedFrom
  <2>3. primaryHeader => area.length = VolumeSize
    BY <1>1 DEF PrimaryInv, AtEnd, AreaType
  <2>4. PrimaryInv'
    BY <2>1, <2>3 DEF PrimaryInv
  <2> QED
    BY <1>1, <2>1, <2>2, <2>4 DEF AreaType
<1>3. CASE UNCHANGED backupHeader
  BY <1>1, <1>3 DEF HeaderInv, PrimaryInv, EncryptedFrom, AtEnd
<1> QED
  BY <1>2, <1>3

LEMMA HeaderStep == ASSUME IInv, IntervalUpdate \/ FinalUpdate \/ Close PROVE IInv'
<1> USE DEF IInv, progress
<1>1. /\ pc \in Resuming /\ (HeaderUpdate \/ UNCHANGED backupHeader)
      /\ UNCHANGED <<disk, primaryHeader, wizard>>
  BY DEF IntervalUpdate, FinalUpdate, Close, HeaderUpdateFails, Resuming
<1>2. /\ backupHeader' \in [valid : BOOLEAN, area : AreaType] /\ backupHeader'.valid
      /\ area.start <= backupHeader'.area.start /\ HeaderInv' /\ PrimaryInv'
  BY <1>1, UpdatedHeader
<1>3. CASE IntervalUpdate \/ FinalUpdate
  <2>1. /\ UNCHANGED <<area, remaining>> /\ wizard # "finished"
        /\ pc' \in {"check", "primary", "close"}
    BY <1>3 DEF IntervalUpdate, FinalUpdate, FinishedInv, AfterFinal
  <2>2. StoredInv' /\ WorkInv'
    BY <1>1, <1>2, <2>1 DEF StoredInv, WorkInv, AtEnd, EncryptedFrom
  <2>3. pc' = "primary" => remaining = 0 /\ backupHeader'.area.length = VolumeSize
    <3>1. ASSUME pc' = "primary"
          PROVE  FinalUpdate /\ HeaderUpdate /\ ~pausing
      BY <1>3, <3>1 DEF IntervalUpdate, FinalUpdate, AfterFinal
    <3>2. ASSUME pc' = "primary" PROVE remaining = 0 /\ backupHeader'.area = area
      BY <3>1, <3>2 DEF FinalUpdate, HeaderUpdate, FinalInv
    <3>3. remaining = 0 => area.length = VolumeSize
      BY <1>1, Constants DEF WorkInv, AtEnd
    <3> QED
      BY <3>2, <3>3
  <2>4. ChunkInv' /\ FinalInv'
    BY <2>1, <2>3 DEF ChunkInv, FinalInv, Working
  <2>5. BeginInv' /\ FinishedInv'
    BY <1>1, <2>1 DEF BeginInv, FinishedInv, Beginning
  <2> QED
    BY <1>2, <2>2, <2>4, <2>5
<1>4. CASE Close
  <2>1. pc' = "idle" /\ area' = NoArea
    BY <1>4 DEF Close, Return
  <2>2. StoredInv'
    BY <1>1, <1>2, <2>1 DEF StoredInv, NoArea, AreaType
  <2>3. WorkInv' /\ ChunkInv' /\ FinalInv' /\ BeginInv' /\ FinishedInv'
    BY <1>1, <2>1 DEF WorkInv, ChunkInv, FinalInv, BeginInv, FinishedInv,
                      Resuming, Working, Beginning
  <2> QED
    BY <1>2, <2>2, <2>3
<1> QED
  BY <1>3, <1>4

LEMMA ControlStep == ASSUME IInv, OpenResume \/ CheckPause PROVE IInv'
<1> USE Constants DEF IInv, partition, progress, AfterOpen
<1>1. CASE OpenResume
  <2> USE <1>1 DEF OpenResume
  <2>1. /\ pc' \in {"read", "final"} /\ remaining' \in Nat
        /\ pc' = "read" => remaining' > 0
        /\ pc' = "final" => remaining' = 0
    BY DEF HeaderInv, AtEnd
  <2>2. StoredInv' /\ HeaderInv'
    BY DEF StoredInv, HeaderInv, EncryptedFrom
  <2>3. WorkInv'
    BY DEF WorkInv, HeaderInv, EncryptedFrom, StoredInv, AreaType
  <2>4. ChunkInv' /\ FinalInv'
    BY <2>1 DEF ChunkInv, FinalInv, Working
  <2>5. BeginInv' /\ PrimaryInv' /\ FinishedInv'
    BY <2>1 DEF BeginInv, PrimaryInv, FinishedInv, Beginning
  <2> QED
    BY <2>2, <2>3, <2>4, <2>5
<1>2. CASE CheckPause
  <2> USE <1>2 DEF CheckPause
  <2>1. pc \in Resuming /\ wizard # "finished" /\ remaining \in Nat
    BY DEF Resuming, FinishedInv, WorkInv, AtEnd
  <2>2. /\ pc' \in {"read", "final"}
        /\ pc' = "read" => remaining > 0
        /\ pc' = "final" /\ ~pausing' => remaining = 0
    BY <2>1
  <2>3. ChunkInv' /\ FinalInv' /\ pc' \in Resuming
    BY <2>2 DEF ChunkInv, FinalInv, Working, Resuming
  <2> QED
    BY <2>1, <2>3, WorkStep DEF StoredInv
<1> QED
  BY <1>1, <1>2

\* The primary header is written over blocks that lie below the data area, at a
\* moment when the whole data area is encrypted.
LEMMA PrimaryStep == ASSUME IInv, WritePrimaryHeader PROVE IInv'
<1> USE Constants DEF IInv, progress, WritePrimaryHeader
<1>1. /\ pc \in Resuming /\ pc' = "close" /\ wizard # "finished"
      /\ UNCHANGED <<backupHeader, area, remaining>>
  BY DEF Resuming, FinishedInv
<1>2. /\ backupHeader.valid /\ backupHeader.area.length = VolumeSize
      /\ backupHeader.area.start = DataOffset /\ area.start = DataOffset
  <2>1. backupHeader.valid /\ backupHeader.area.length = VolumeSize /\ remaining = 0
    BY <1>1 DEF FinalInv, WorkInv
  <2>2. area.length = VolumeSize
    BY <1>1, <2>1 DEF WorkInv, AtEnd
  <2> QED
    BY <1>1, <2>1, <2>2 DEF WorkInv, HeaderInv, AtEnd
<1>3. /\ disk' \in [Block -> BlockType]
      /\ \A p \in Block : p >= DataOffset => disk'[p] = disk[p]
      /\ primaryHeader' => disk'[0] # Plain(0)
  <2>1. PICK part \in SUBSET (0 .. DataOffset - 1) :
          /\ disk' = [p \in Block |-> IF p \in part THEN Junk ELSE disk[p]]
          /\ primaryHeader' => primaryHeader \/ 0 \in part
    <3>1. 0 \in 0 .. DataOffset - 1 /\ 0 .. DataOffset - 1 = {p \in Block : p < DataOffset}
      OBVIOUS
    <3>2. CASE disk' = [p \in Block |-> IF p < DataOffset THEN Junk ELSE disk[p]]
      <4>1. disk' = [p \in Block |-> IF p \in 0 .. DataOffset - 1 THEN Junk ELSE disk[p]]
        BY <3>1, <3>2
      <4> QED
        BY <3>1, <4>1
    <3> QED
      BY <3>2
  <2>2. 0 \in Block /\ disk \in [Block -> BlockType]
    BY DEF StoredInv
  <2>3. primaryHeader => disk[0] # Plain(0)
    BY DEF PrimaryInv
  <2> QED
    BY <2>1, <2>2, <2>3, JunkType
<1>4. StoredInv' /\ HeaderInv'
  BY <1>1, <1>2, <1>3 DEF StoredInv, HeaderInv, EncryptedFrom, AtEnd
<1>5. WorkInv'
  BY <1>1, <1>2, <1>3 DEF WorkInv, EncryptedFrom, AtEnd, Resuming
<1>6. ChunkInv' /\ FinalInv' /\ BeginInv' /\ PrimaryInv'
  BY <1>1, <1>2, <1>3 DEF ChunkInv, FinalInv, BeginInv, PrimaryInv, Working, Beginning
<1>7. FinishedInv'
  BY <1>1 DEF FinishedInv
<1> QED
  BY <1>4, <1>5, <1>6, <1>7

-----------------------------------------------------------------------------
(* The theorems.                                                           *)

LEMMA IInvStep == IInv /\ [Next]_vars => IInv'
<1> SUFFICES ASSUME IInv, [Next]_vars PROVE IInv'
  OBVIOUS
<1>1. CASE Begin
  BY <1>1, BeginStep
<1>2. CASE Resume
  BY <1>2, ReadStep, WriteStep, HeaderStep, ControlStep, PrimaryStep DEF Resume
<1>3. CASE LeaveWizard \/ Crash
  BY <1>3, WizardStep
<1>4. CASE UNCHANGED vars
  BY <1>4 DEF vars, partition, progress, IInv, StoredInv, HeaderInv, EncryptedFrom, WorkInv,
              AtEnd, ChunkInv, Chunk, ChunkSize, FinalInv, BeginInv, PrimaryInv, FinishedInv
<1> QED
  BY <1>1, <1>2, <1>3, <1>4 DEF Next

LEMMA IInvSafety == IInv => HeaderNeverAhead /\ FinishedMeansEncrypted
<1> USE Constants DEF IInv
<1> SUFFICES ASSUME IInv PROVE HeaderNeverAhead /\ FinishedMeansEncrypted
  OBVIOUS
<1>1. ASSUME backupHeader.valid
      PROVE  /\ \A p \in backupHeader.area.start .. DataOffset + VolumeSize - 1 :
                  p \in Block /\ disk[p].unit = p
             /\ backupHeader.area.length = VolumeSize => backupHeader.area.start = DataOffset
  BY <1>1 DEF HeaderInv, AtEnd, EncryptedFrom
<1>2. ASSUME primaryHeader
      PROVE  \A p \in DataOffset .. DataOffset + VolumeSize - 1 : disk[p].unit = p
  BY <1>1, <1>2 DEF PrimaryInv
<1>3. ASSUME wizard = "finished"
      PROVE  /\ primaryHeader /\ backupHeader.area.length = VolumeSize
             /\ \A p \in Block : disk[p].unit = Clear => disk[p].of = Lost
  <2>1. primaryHeader /\ backupHeader.area.length = VolumeSize
    BY <1>3 DEF FinishedInv, PrimaryInv
  <2>2. \A p \in 0 .. DataOffset - 1 : disk[p].of = Lost
    BY <1>3 DEF FinishedInv, Junk
  <2>3. \A p \in DataOffset .. DataOffset + VolumeSize - 1 : disk[p].unit # Clear
    BY <1>2, <2>1 DEF Clear
  <2> QED
    BY <2>1, <2>2, <2>3
<1> QED
  BY <1>1, <1>2, <1>3 DEF HeaderNeverAhead, FinishedMeansEncrypted

\* The backup header on the partition never claims more than is encrypted: in
\* every state, whatever call failed, was paused or was cut off by a crash, each
\* block of the area that it names is encrypted with its own unit number
\* (EncryptPartitionInPlaceResume and FastVolumeHeaderUpdate, Format/InPlace.c).
THEOREM HeaderSafe == Spec => []HeaderNeverAhead
<1>1. Spec => []IInv
  BY InitIInv, IInvStep, PTL DEF Spec
<1> QED
  BY <1>1, IInvSafety, PTL

\* The primary header, which overwrites what was plaintext, is on the partition
\* only when the whole data area is encrypted, and when the wizard reports the
\* end no plaintext is left outside it (the end of EncryptPartitionInPlaceResume
\* in Format/InPlace.c).
THEOREM FinishedSafe == Spec => []FinishedMeansEncrypted
<1>1. Spec => []IInv
  BY InitIInv, IInvStep, PTL DEF Spec
<1> QED
  BY <1>1, IInvSafety, PTL

-----------------------------------------------------------------------------
(* What can be recovered between two calls, when of the operations of a    *)
(* call at most one fails and none of them is one of Begin.                *)

OneFault == /\ MaxFaults <= 1 /\ ~MayCrash
            /\ Faults \subseteq {"read", "write", "undo", "update", "primary"}

Overwriting == {"wipe", "write", "undo"}
StoredAt(p) == /\ disk[p + DataOffset].unit = p + DataOffset
               /\ Holds(disk[p + DataOffset], p) /\ ~disk[p + DataOffset].concealed
PlainAt(p) == disk[p].unit = Clear /\ Holds(disk[p], p) /\ disk[p].concealed = (p < ConcealSize)

\* All but the plaintext of the chunk that its ciphertext may have overwritten.
ConvertedBut(start, from) ==
  \A p \in 0 .. VolumeSize - 1 :
    /\ p + DataOffset >= start => StoredAt(p)
    /\ p + DataOffset < start /\ p < from => PlainAt(p)

\* While a chunk is written, it is in memory.
LoadedInv ==
  pc \in Overwriting =>
    \A i \in Chunk : buf[i].unit = Clear /\ Holds(buf[i], Source + i) /\ ~buf[i].concealed
DataInv ==
  /\ pc \in {"verify", "conceal"} => FileSystemIntact /\ backupHeader.valid
  /\ pc = "idle" => FileSystemIntact \/ backupHeader.valid
  /\ (pc = "idle" /\ backupHeader.valid) \/ pc \in {"register", "open"} =>
       backupHeader.valid /\ ConvertedFrom(backupHeader.area.start)
  /\ pc \in Resuming \ Overwriting => ConvertedFrom(area.start)
  /\ pc \in Overwriting => ConvertedBut(area.start, Target)

\* Where the header may be behind the area, the failure of this call has been.
FaultInv ==
  /\ faults \in Nat /\ pc # "unconceal"
  /\ (pc \in Resuming /\ ~changed) \/ pc = "primary" => backupHeader.area = area
  /\ pc = "undo" => faults > 0
  /\ pc = "close" => faults > 0 \/ backupHeader.area = area
RInv == IInv /\ LoadedInv /\ DataInv /\ FaultInv

LEMMA ConvertedIs ==
  ASSUME NEW start \in Int
  PROVE  ConvertedFrom(start) <=>
           \A p \in 0 .. VolumeSize - 1 :
             /\ p + DataOffset >= start => StoredAt(p)
             /\ p + DataOffset < start => PlainAt(p)
<1>1. \A p \in 0 .. VolumeSize - 1 : p + DataOffset \in Int
  BY Constants
<1> QED
  BY <1>1 DEF ConvertedFrom, StoredAt, PlainAt

LEMMA ConcealFlips ==
  \A b \in BlockType : /\ Conceal(b).unit = b.unit /\ Conceal(b).of = b.of
                       /\ Conceal(b).concealed = ~b.concealed
BY DEF Conceal, BlockType

LEMMA FaultOnce ==
  ASSUME OneFault, NEW operation, Fails(operation), faults \in Nat
  PROVE  faults = 0 /\ faults' = 1
         /\ operation \in {"read", "write", "undo", "update", "primary"}
BY InPlaceAssumption DEF OneFault, Fails

LEMMA RInvInit == OneFault /\ Init => RInv
<1> SUFFICES ASSUME OneFault, Init PROVE RInv
  OBVIOUS
<1>1. FileSystemIntact
  BY Constants DEF Init, FileSystemIntact
<1>2. LoadedInv /\ DataInv /\ FaultInv
  BY <1>1 DEF Init, LoadedInv, DataInv, FaultInv, Overwriting, Resuming, Working
<1> QED
  BY <1>2, InitIInv DEF RInv

LEMMA BeginData ==
  ASSUME OneFault, RInv, Begin
  PROVE  LoadedInv' /\ DataInv' /\ FaultInv'
<1> USE DEF RInv
<1>1. faults \in Nat /\ pc # "unconceal"
  BY DEF FaultInv
<1>2. CASE WriteBackupHeader
  <2>1. FileSystemIntact' /\ pc' = "verify" /\ backupHeader'.valid /\ faults' = 0
    BY <1>2 DEF WriteBackupHeader, FileSystemIntact
  <2> QED
    BY <2>1 DEF LoadedInv, DataInv, FaultInv, Overwriting, Resuming, Working
<1>3. CASE BackupHeaderFails
  BY <1>3 DEF BackupHeaderFails, OneFault
<1>4. CASE VerifyBackupHeader
  <2>1. ~Fails("verify")
    BY <1>1, FaultOnce
  <2>2. FileSystemIntact' /\ pc' = "conceal" /\ backupHeader'.valid /\ faults' = faults
    BY <1>4, <2>1 DEF VerifyBackupHeader, Succeeds, partition, DataInv, FileSystemIntact
  <2> QED
    BY <1>1, <2>2 DEF LoadedInv, DataInv, FaultInv, Overwriting, Resuming, Working
<1>5. CASE ConcealNTFS
  <2>1. ~Fails("conceal")
    BY <1>1, FaultOnce
  <2>2. /\ FileSystemIntact /\ backupHeader.valid /\ backupHeader.area = InitialArea
        /\ backupHeader' = backupHeader /\ pc' = "register" /\ faults' = faults
        /\ disk' = Concealed(0 .. ConcealSize - 1)
    BY <1>5, <2>1 DEF ConcealNTFS, Succeeds, IInv, BeginInv, Beginning, DataInv
  <2>3. ASSUME NEW p \in 0 .. VolumeSize - 1
        PROVE  PlainAt(p)' /\ p + DataOffset < DataOffset + VolumeSize
    <3>1. p \in Block /\ p \in Int /\ disk[p] = Plain(p) /\ DataOffset \in Int /\ VolumeSize \in Int
          /\ p < VolumeSize /\ ConcealSize \in Int /\ p >= 0
      BY <2>2, Constants DEF FileSystemIntact
    <3>2. disk'[p] = IF p < ConcealSize THEN Conceal(Plain(p)) ELSE Plain(p)
      BY <2>2, <3>1 DEF Concealed
    <3>3. disk'[p].unit = Clear /\ disk'[p].of = p /\ disk'[p].concealed = (p < ConcealSize)
      <4>1. /\ Plain(p) \in BlockType /\ Plain(p).unit = Clear /\ Plain(p).of = p
            /\ Plain(p).concealed = FALSE
        BY <3>1, PlainType DEF Plain
      <4>2. CASE p < ConcealSize
        BY <3>2, <4>1, <4>2, ConcealFlips
      <4>3. CASE ~(p < ConcealSize)
        <5>1. disk'[p] = Plain(p) /\ (p < ConcealSize) = FALSE
          BY <3>2, <4>3
        <5> QED
          BY <4>1, <5>1
      <4> QED
        BY <4>2, <4>3
    <3> QED
      BY <3>1, <3>3 DEF PlainAt, Holds
  <2>4. ConvertedFrom(DataOffset + VolumeSize)'
    <3>1. DataOffset + VolumeSize \in Int /\ \A p \in 0 .. VolumeSize - 1 : p + DataOffset \in Int
      BY Constants
    <3>2. \A p \in 0 .. VolumeSize - 1 : ~(p + DataOffset >= DataOffset + VolumeSize)
      BY <2>3, <3>1
    <3> QED
      BY <2>3, <3>2 DEF ConvertedFrom, PlainAt, Holds
  <2>5. backupHeader'.valid /\ backupHeader'.area.start = DataOffset + VolumeSize
    BY <2>2 DEF InitialArea
  <2>6. ConvertedFrom(backupHeader.area.start)'
    BY <2>4, <2>5 DEF ConvertedFrom
  <2> QED
    BY <1>1, <2>2, <2>5, <2>6
      DEF LoadedInv, DataInv, FaultInv, Overwriting, Resuming, Working
<1>6. CASE UndoConceal
  BY <1>1, <1>6 DEF UndoConceal
<1>7. CASE RegisterPending
  <2>1. pc = "register" /\ pc' = "open" /\ UNCHANGED <<disk, backupHeader, faults>>
    BY <1>7 DEF RegisterPending, partition
  <2>2. backupHeader'.valid /\ ConvertedFrom(backupHeader.area.start)'
    BY <2>1 DEF DataInv, ConvertedFrom
  <2> QED
    BY <1>1, <2>1, <2>2 DEF LoadedInv, DataInv, FaultInv, Overwriting, Resuming, Working
<1> QED
  BY <1>2, <1>3, <1>4, <1>5, <1>6, <1>7 DEF Begin

\* What holds after a step of a call of Resume that ends outside of a write.
LEMMA BetweenWrites ==
  ASSUME pc' \in Resuming \ Overwriting, ConvertedFrom(area.start)'
  PROVE  LoadedInv' /\ DataInv'
BY DEF LoadedInv, DataInv, Resuming, Working, Overwriting

\* ... and of one that ends within it.
LEMMA WithinWrite ==
  ASSUME RInv, pc' \in Overwriting, pc \in Overwriting, ConvertedBut(area.start, Target)',
         UNCHANGED <<buf, area, remaining>>
  PROVE  LoadedInv' /\ DataInv'
<1>1. Chunk' = Chunk /\ Source' = Source
  BY DEF Chunk, ChunkSize, Source
<1>2. LoadedInv'
  BY <1>1 DEF RInv, LoadedInv, Holds
<1> QED
  BY <1>2 DEF DataInv, Overwriting, Resuming, Working

\* A chunk, as numbers.
LEMMA ChunkNumbers ==
  ASSUME IInv, pc \in Working
  PROVE  /\ ChunkSize \in Int /\ remaining \in Int /\ Source \in Int /\ Target \in Int
         /\ area.start \in Int /\ DataOffset \in Int /\ VolumeSize \in Int /\ ConcealSize \in Int
         /\ 1 <= ChunkSize /\ ChunkSize <= remaining /\ remaining <= VolumeSize
         /\ 1 <= DataOffset /\ ConcealSize <= DataOffset
         /\ Chunk = 0 .. ChunkSize - 1 /\ Source = remaining - ChunkSize
         /\ Target = Source + DataOffset /\ UnitNo = Target
         /\ area.start = DataOffset + remaining
BY ChunkPlace, Constants

\* What is written over the target of a chunk leaves the rest as it is.
LEMMA TargetWritten ==
  ASSUME IInv, pc \in Working, ConvertedBut(area.start, Target), NEW content,
         NEW part \in SUBSET Chunk, disk' = Written(Target, content, part),
         UNCHANGED <<area, remaining>>
  PROVE  ConvertedBut(area.start, Target)'
<1> USE ChunkNumbers
<1>1. Target' = Target
  BY DEF Target, ChunkSize
<1>2. ASSUME NEW q \in Block, q < Target \/ q >= area.start
      PROVE  disk'[q] = disk[q]
  <2>1. q \in Int
    BY Constants
  <2>2. q - Target \notin Chunk
    BY <1>2, <2>1
  <2> QED
    BY <2>2 DEF Written
<1>3. ASSUME NEW p \in 0 .. VolumeSize - 1
      PROVE  p \in Block /\ p + DataOffset \in Block
  BY Constants
<1>4. ASSUME NEW p \in 0 .. VolumeSize - 1, p + DataOffset >= area.start
      PROVE  StoredAt(p)'
  <2>1. disk'[p + DataOffset] = disk[p + DataOffset]
    BY <1>2, <1>3, <1>4
  <2> QED
    BY <1>4, <2>1 DEF ConvertedBut, StoredAt, Holds
<1>5. ASSUME NEW p \in 0 .. VolumeSize - 1, p + DataOffset < area.start, p < Target
      PROVE  PlainAt(p)'
  <2>1. disk'[p] = disk[p]
    BY <1>2, <1>3, <1>5
  <2> QED
    BY <1>5, <2>1 DEF ConvertedBut, PlainAt, Holds
<1> QED
  BY <1>1, <1>4, <1>5 DEF ConvertedBut

LEMMA ReadData ==
  ASSUME OneFault, RInv, ReadChunk
  PROVE  LoadedInv' /\ DataInv' /\ FaultInv'
<1> USE DEF RInv
<1>1. /\ pc = "read" /\ pc' \in {"wipe", "write"} /\ buf' = [i \in Chunk |-> Revealed(i)]
      /\ UNCHANGED <<disk, backupHeader, area, remaining, changed, faults>>
  BY DEF ReadChunk, Succeeds, partition, progress
<1>2. pc \in Working /\ ConvertedFrom(area.start)
  BY <1>1 DEF Working, DataInv, Resuming, Overwriting
<1>3. /\ ChunkSize \in Int /\ remaining \in Int /\ Source \in Int /\ Target \in Int
      /\ area.start \in Int /\ DataOffset \in Int /\ VolumeSize \in Int /\ ConcealSize \in Int
      /\ 1 <= ChunkSize /\ ChunkSize <= remaining /\ remaining <= VolumeSize
      /\ Chunk = 0 .. ChunkSize - 1 /\ Source = remaining - ChunkSize
      /\ area.start = DataOffset + remaining
  BY <1>2, ChunkNumbers
<1>4. Chunk' = Chunk /\ Source' = Source /\ Target' = Target
  BY <1>1 DEF Chunk, ChunkSize, Source, Target
<1>5. \A p \in 0 .. VolumeSize - 1 : /\ p + DataOffset >= area.start => StoredAt(p)
                                     /\ p + DataOffset < area.start => PlainAt(p)
  BY <1>2, <1>3, ConvertedIs
<1>6. ASSUME NEW i \in Chunk
      PROVE  /\ buf'[i].unit = Clear /\ buf'[i].of \in {Source + i, Zeroed}
             /\ ~buf'[i].concealed
  <2>1. PICK p : p = Source + i
    OBVIOUS
  <2>2. p \in 0 .. VolumeSize - 1 /\ p + DataOffset < area.start
    BY <1>3, <2>1
  <2>3. PlainAt(p) /\ p \in Block
    BY <1>5, <2>2, Constants
  <2>4. disk[p] \in BlockType
    BY <2>3 DEF IInv, StoredInv
  <2>5. buf'[i] = IF p < ConcealSize THEN Conceal(disk[p]) ELSE disk[p]
    BY <1>1, <1>3, <2>1 DEF Revealed
  <2>6. /\ disk[p].unit = Clear /\ disk[p].of \in {p, Zeroed}
        /\ disk[p].concealed = (p < ConcealSize)
    BY <2>3 DEF PlainAt, Holds
  <2>7. CASE p < ConcealSize
    BY <2>1, <2>4, <2>5, <2>6, <2>7 DEF Conceal, BlockType
  <2>8. CASE ~(p < ConcealSize)
    BY <2>1, <2>5, <2>6, <2>8
  <2> QED
    BY <2>7, <2>8
<1>7. LoadedInv'
  BY <1>4, <1>6 DEF LoadedInv, Holds
<1>8. ConvertedBut(area.start, Target)'
  BY <1>1, <1>4, <1>5 DEF ConvertedBut, StoredAt, PlainAt
<1>9. DataInv'
  BY <1>1, <1>8 DEF DataInv, Overwriting, Resuming, Working
<1>10. FaultInv'
  BY <1>1 DEF FaultInv, Resuming, Working
<1> QED
  BY <1>7, <1>9, <1>10

LEMMA ReadFailsData ==
  ASSUME OneFault, RInv, ReadFails
  PROVE  LoadedInv' /\ DataInv' /\ FaultInv'
<1> USE DEF RInv
<1>1. /\ pc = "read" /\ pc' \in {"read", "close"}
      /\ UNCHANGED <<backupHeader, area, remaining, changed>>
  BY DEF ReadFails, progress
<1>2. pc \in Working /\ ConvertedFrom(area.start)
  BY <1>1 DEF Working, DataInv, Resuming, Overwriting
<1>3. /\ ChunkSize \in Int /\ remaining \in Int /\ Source \in Int
      /\ area.start \in Int /\ DataOffset \in Int /\ VolumeSize \in Int
      /\ 1 <= ChunkSize /\ ChunkSize <= remaining /\ remaining <= VolumeSize /\ 1 <= DataOffset
      /\ Chunk = 0 .. ChunkSize - 1 /\ Source = remaining - ChunkSize
      /\ area.start = DataOffset + remaining
  BY <1>2, ChunkNumbers
<1>4. PICK bad \in SUBSET Chunk :
        disk' = Written(Source, [i \in Chunk |-> [disk[Source + i] EXCEPT !.of = Zeroed]], bad)
  BY DEF ReadFails
<1>5. ASSUME NEW q \in Block
      PROVE  disk'[q] = disk[q] \/ (q < remaining /\ disk'[q] = [disk[q] EXCEPT !.of = Zeroed])
  <2>1. q \in Int
    BY Constants
  <2>2. CASE q - Source \notin bad
    BY <1>4, <2>2 DEF Written
  <2>3. CASE q - Source \in bad
    <3>1. q - Source \in Chunk /\ Source + (q - Source) = q /\ q < remaining
      BY <1>3, <2>1, <2>3
    <3>2. disk'[q] = [disk[Source + (q - Source)] EXCEPT !.of = Zeroed]
      BY <1>4, <2>3, <3>1 DEF Written
    <3> QED
      BY <3>1, <3>2
  <2> QED
    BY <2>2, <2>3
<1>6. \A p \in 0 .. VolumeSize - 1 : /\ p + DataOffset >= area.start => StoredAt(p)
                                     /\ p + DataOffset < area.start => PlainAt(p)
  BY <1>2, <1>3, ConvertedIs
<1>7. ASSUME NEW p \in 0 .. VolumeSize - 1, p + DataOffset >= area.start
      PROVE  StoredAt(p)'
  <2>1. p + DataOffset \in Block /\ ~(p + DataOffset < remaining)
    BY <1>3, <1>7, Constants
  <2>2. disk'[p + DataOffset] = disk[p + DataOffset]
    BY <1>5, <2>1
  <2> QED
    BY <1>6, <1>7, <2>2 DEF StoredAt, Holds
<1>8. ASSUME NEW p \in 0 .. VolumeSize - 1, p + DataOffset < area.start
      PROVE  PlainAt(p)'
  <2>1. p \in Block
    BY Constants
  <2>2. disk[p] \in BlockType
    BY <2>1 DEF IInv, StoredInv
  <2>3. PlainAt(p)
    BY <1>6, <1>8
  <2>4. CASE disk'[p] = disk[p]
    BY <2>3, <2>4 DEF PlainAt, Holds
  <2>5. CASE disk'[p] = [disk[p] EXCEPT !.of = Zeroed]
    BY <2>2, <2>3, <2>5 DEF PlainAt, Holds, BlockType
  <2> QED
    BY <1>5, <2>1, <2>4, <2>5
<1>9. ConvertedFrom(area.start)'
  BY <1>1, <1>3, <1>7, <1>8 DEF ConvertedFrom, StoredAt, PlainAt, Holds
<1>10. LoadedInv' /\ DataInv'
  BY <1>1, <1>9, BetweenWrites DEF Resuming, Working, Overwriting
<1>11. faults' = 1
  BY FaultOnce DEF ReadFails, FaultInv
<1>12. FaultInv'
  BY <1>1, <1>11 DEF FaultInv, Resuming, Working
<1> QED
  BY <1>10, <1>12

\* A wipe pass, and a write that fails: the blocks below the target are there,
\* and a chunk that fits in front of the data area has not lost any.
LEMMA WipeData ==
  ASSUME OneFault, RInv, WipeChunk \/ WriteFails
  PROVE  LoadedInv' /\ DataInv' /\ FaultInv'
<1> USE DEF RInv
<1>1. /\ pc \in Overwriting /\ pc \in Working
      /\ UNCHANGED <<backupHeader, area, remaining, changed, buf>>
  BY DEF WipeChunk, WriteFails, progress, Overwriting, Working
<1>2. ConvertedBut(area.start, Target)
  BY <1>1 DEF DataInv
<1>3. ConvertedBut(area.start, Target)'
  <2>1. CASE WipeChunk
    <3>1. disk' = Written(Target, WipePattern, Chunk)
      BY <2>1 DEF WipeChunk
    <3> QED
      BY <1>1, <1>2, <3>1, TargetWritten
  <2>2. CASE WriteFails
    <3>1. PICK part \in SUBSET Chunk : disk' = Written(Target,
            IF pc = "wipe" THEN WipePattern ELSE Ciphertext, part)
      BY <2>2 DEF WriteFails
    <3>2. CASE pc = "wipe"
      <4>1. disk' = Written(Target, WipePattern, part)
        BY <3>1, <3>2
      <4> QED
        BY <1>1, <1>2, <4>1, TargetWritten
    <3>3. CASE pc # "wipe"
      <4>1. disk' = Written(Target, Ciphertext, part)
        BY <3>1, <3>3
      <4> QED
        BY <1>1, <1>2, <4>1, TargetWritten
    <3> QED
      BY <3>2, <3>3
  <2> QED
    BY <2>1, <2>2
<1>4. CASE WipeChunk
  <2>1. pc' \in Overwriting /\ faults' = faults /\ pc' \notin {"undo", "close"}
    BY <1>4 DEF WipeChunk, Succeeds, Overwriting
  <2>2. LoadedInv' /\ DataInv'
    BY <1>1, <1>3, <2>1, WithinWrite
  <2>3. FaultInv'
    BY <1>1, <2>1 DEF FaultInv, Resuming, Working, Overwriting
  <2> QED
    BY <2>2, <2>3
<1>5. CASE WriteFails
  <2>1. faults' = 1
    BY <1>5, FaultOnce DEF WriteFails, FaultInv
  <2>2. FaultInv'
    BY <1>1, <1>5, <2>1 DEF WriteFails, FaultInv, Resuming, Working, Overwriting
  <2>3. CASE ChunkSize > DataOffset
    <3>1. pc' \in Overwriting
      BY <1>5, <2>3 DEF WriteFails, Overwriting
    <3> QED
      BY <1>1, <1>3, <2>2, <3>1, WithinWrite
  <2>4. CASE ~(ChunkSize > DataOffset)
    <3>1. pc' = "close"
      BY <1>5, <2>4 DEF WriteFails
    <3>2. /\ Target' \in Int /\ area'.start \in Int /\ DataOffset \in Int /\ remaining \in Int
          /\ Target' >= remaining /\ area'.start = DataOffset + remaining
      <4>1. Target' = Target
        BY <1>1 DEF Target, ChunkSize
      <4> QED
        BY <1>1, <2>4, <4>1, ChunkNumbers
    <3>3. \A p \in 0 .. VolumeSize - 1 : p \in Int
      BY Constants
    <3>4. \A p \in 0 .. VolumeSize - 1 :
            /\ p + DataOffset >= area'.start => StoredAt(p)'
            /\ p + DataOffset < area'.start => PlainAt(p)'
      BY <1>3, <3>2, <3>3 DEF ConvertedBut
    <3>5. ConvertedFrom(area.start)'
      BY <3>2, <3>3, <3>4 DEF ConvertedFrom, StoredAt, PlainAt, Holds
    <3> QED
      BY <2>2, <3>1, <3>5, BetweenWrites DEF Resuming, Working, Overwriting
  <2> QED
    BY <2>3, <2>4
<1> QED
  BY <1>4, <1>5

\* Undoing a write brings back the plaintext that it may have destroyed.
LEMMA UndoData ==
  ASSUME OneFault, RInv, UndoWrite
  PROVE  LoadedInv' /\ DataInv' /\ FaultInv'
<1> USE DEF RInv
<1>1. /\ pc = "undo" /\ pc' = "close"
      /\ UNCHANGED <<backupHeader, area, remaining, changed>>
  BY DEF UndoWrite, progress
<1>2. pc \in Working /\ pc \in Overwriting /\ faults > 0 /\ faults \in Nat
  BY <1>1 DEF Working, Overwriting, FaultInv
<1>3. ~Fails("undo")
  BY <1>2, FaultOnce
<1>4. disk' = Written(Target - DataOffset, buf, Overwritten) /\ faults' = faults
  BY <1>3 DEF UndoWrite, Succeeds
<1>5. /\ ChunkSize \in Int /\ remaining \in Int /\ Source \in Int /\ Target \in Int
      /\ area.start \in Int /\ DataOffset \in Int /\ VolumeSize \in Int /\ ConcealSize \in Int
      /\ 1 <= ChunkSize /\ ChunkSize <= remaining /\ remaining <= VolumeSize
      /\ 1 <= DataOffset /\ ConcealSize <= DataOffset
      /\ Chunk = 0 .. ChunkSize - 1 /\ Source = remaining - ChunkSize
      /\ Target = Source + DataOffset /\ area.start = DataOffset + remaining
  BY <1>2, ChunkNumbers
<1>6. \A q \in Block : disk'[q] = IF q - Source \in DataOffset .. ChunkSize - 1
                                    THEN buf[q - Source] ELSE disk[q]
  <2>1. Target - DataOffset = Source
    BY <1>5
  <2> QED
    BY <1>4, <2>1 DEF Written, Overwritten
<1>7. ConvertedBut(area.start, Target)
  BY <1>2 DEF DataInv
<1>8. ASSUME NEW p \in 0 .. VolumeSize - 1, p + DataOffset >= area.start
      PROVE  StoredAt(p)'
  <2>0. PICK q : q = p + DataOffset
    OBVIOUS
  <2>1. q \in Block /\ q - Source \notin DataOffset .. ChunkSize - 1
    BY <1>5, <1>8, <2>0, Constants
  <2>2. disk'[p + DataOffset] = disk[p + DataOffset]
    BY <1>6, <2>0, <2>1
  <2> QED
    BY <1>7, <1>8, <2>2 DEF ConvertedBut, StoredAt, Holds
<1>9. ASSUME NEW p \in 0 .. VolumeSize - 1, p + DataOffset < area.start
      PROVE  PlainAt(p)'
  <2>1. p \in Block /\ p \in Int /\ p >= 0
    BY Constants
  <2>2. CASE p - Source \in DataOffset .. ChunkSize - 1
    <3>1. p - Source \in Chunk /\ Source + (p - Source) = p /\ ~(p < ConcealSize)
      BY <1>5, <2>1, <2>2
    <3>2. buf[p - Source].unit = Clear /\ Holds(buf[p - Source], p) /\ ~buf[p - Source].concealed
      BY <1>2, <3>1 DEF LoadedInv
    <3>3. buf[p - Source] \in BlockType
      BY <1>1, <3>1 DEF IInv, ChunkInv
    <3> QED
      BY <1>6, <2>1, <2>2, <3>1, <3>2, <3>3 DEF PlainAt, Holds, BlockType
  <2>3. CASE p - Source \notin DataOffset .. ChunkSize - 1
    <3>1. p < Target
      BY <1>5, <1>9, <2>1, <2>3
    <3>2. PlainAt(p) /\ disk'[p] = disk[p]
      BY <1>6, <1>7, <1>9, <2>1, <2>3, <3>1 DEF ConvertedBut
    <3> QED
      BY <3>2 DEF PlainAt, Holds
  <2> QED
    BY <2>2, <2>3
<1>10. ConvertedFrom(area.start)'
  BY <1>1, <1>5, <1>8, <1>9 DEF ConvertedFrom, StoredAt, PlainAt, Holds
<1>11. LoadedInv' /\ DataInv'
  BY <1>1, <1>10, BetweenWrites DEF Resuming, Working, Overwriting
<1>12. FaultInv'
  BY <1>1, <1>2, <1>4 DEF FaultInv, Resuming, Working
<1> QED
  BY <1>11, <1>12

\* The ciphertext of a chunk that was written takes the place of its plaintext.
LEMMA WriteData ==
  ASSUME OneFault, RInv, WriteChunk
  PROVE  LoadedInv' /\ DataInv' /\ FaultInv'
<1> USE DEF RInv
<1>1. /\ pc = "write" /\ pc' \in {"interval", "check"} /\ changed' /\ faults' = faults
      /\ area'.start = Target /\ disk' = Written(Target, Ciphertext, Chunk)
      /\ backupHeader' = backupHeader
  BY DEF WriteChunk, Succeeds, AreaAfter
<1>2. pc \in Working /\ pc \in Overwriting
  BY <1>1 DEF Working, Overwriting
<1>3. /\ ChunkSize \in Int /\ remaining \in Int /\ Source \in Int /\ Target \in Int
      /\ area.start \in Int /\ DataOffset \in Int /\ VolumeSize \in Int
      /\ 1 <= ChunkSize /\ ChunkSize <= remaining /\ remaining <= VolumeSize /\ 1 <= DataOffset
      /\ Chunk = 0 .. ChunkSize - 1 /\ Source = remaining - ChunkSize
      /\ Target = Source + DataOffset /\ UnitNo = Target /\ area.start = DataOffset + remaining
  BY <1>2, ChunkNumbers
<1>4. \A q \in Block : disk'[q] = IF q - Target \in Chunk THEN Ciphertext[q - Target] ELSE disk[q]
  BY <1>1 DEF Written
<1>5. ConvertedBut(area.start, Target)
  BY <1>2 DEF DataInv
<1>6. ASSUME NEW p \in 0 .. VolumeSize - 1, p + DataOffset >= Target
      PROVE  StoredAt(p)'
  <2>0. PICK q : q = p + DataOffset
    OBVIOUS
  <2>1. q \in Block /\ p \in Int
    BY <1>3, <2>0, Constants
  <2>2. CASE p < remaining
    <3>1. p - Source \in Chunk /\ q - Target = p - Source /\ Source + (p - Source) = p
          /\ UnitNo + (p - Source) = q
      BY <1>3, <1>6, <2>0, <2>1, <2>2
    <3>2. /\ buf[p - Source] \in BlockType /\ buf[p - Source].unit = Clear
          /\ Holds(buf[p - Source], p) /\ ~buf[p - Source].concealed
      BY <1>1, <1>2, <3>1 DEF IInv, ChunkInv, LoadedInv
    <3>3. Ciphertext[p - Source] = [buf[p - Source] EXCEPT !.unit = q]
      BY <3>1, <3>2 DEF Ciphertext, Encrypted
    <3>4. disk'[q] = Ciphertext[p - Source]
      BY <1>4, <2>1, <3>1
    <3> QED
      BY <2>0, <3>2, <3>3, <3>4 DEF StoredAt, Holds, BlockType
  <2>3. CASE ~(p < remaining)
    <3>1. q - Target \notin Chunk /\ p + DataOffset >= area.start
      BY <1>3, <2>0, <2>1, <2>3
    <3>2. StoredAt(p)
      BY <1>5, <3>1 DEF ConvertedBut
    <3>3. disk'[p + DataOffset] = disk[p + DataOffset]
      BY <1>4, <2>0, <2>1, <3>1
    <3> QED
      BY <3>2, <3>3 DEF StoredAt, Holds
  <2> QED
    BY <2>2, <2>3
<1>7. ASSUME NEW p \in 0 .. VolumeSize - 1, p + DataOffset < Target
      PROVE  PlainAt(p)'
  <2>1. /\ p \in Block /\ p - Target \notin Chunk /\ p < Target
        /\ p + DataOffset < area.start
    BY <1>3, <1>7, Constants
  <2>2. PlainAt(p) /\ disk'[p] = disk[p]
    BY <1>4, <1>5, <2>1 DEF ConvertedBut
  <2> QED
    BY <2>2 DEF PlainAt, Holds
<1>8. ConvertedFrom(area.start)'
  BY <1>1, <1>3, <1>6, <1>7 DEF ConvertedFrom, StoredAt, PlainAt, Holds
<1>9. LoadedInv' /\ DataInv'
  BY <1>1, <1>8, BetweenWrites DEF Resuming, Working, Overwriting
<1>10. FaultInv'
  BY <1>1 DEF FaultInv
<1> QED
  BY <1>9, <1>10

\* The header that a call leaves behind names the area it has come to.
LEMMA UpdateData ==
  ASSUME OneFault, RInv, IntervalUpdate \/ FinalUpdate \/ Close
  PROVE  LoadedInv' /\ DataInv' /\ FaultInv'
<1> USE DEF RInv
<1>1. /\ pc \in Resuming \ Overwriting /\ pc \in Resuming /\ disk' = disk /\ faults \in Nat
      /\ ConvertedFrom(area.start) /\ backupHeader.valid
  BY
    DEF IntervalUpdate, FinalUpdate, Close, progress, Resuming, Working, Overwriting,
        FaultInv,
         DataInv, IInv, WorkInv
<1>2. ASSUME HeaderUpdateFails
      PROVE  faults = 0 /\ faults' = 1 /\ backupHeader' = backupHeader
  BY <1>1, <1>2, FaultOnce DEF HeaderUpdateFails
<1>3. ASSUME HeaderUpdate
      PROVE  faults' = faults /\ backupHeader'.valid /\ backupHeader'.area = area
  BY <1>3 DEF HeaderUpdate, Succeeds
<1>4. CASE IntervalUpdate \/ FinalUpdate
  <2>1. /\ UNCHANGED <<area, changed>> /\ (HeaderUpdate \/ HeaderUpdateFails)
        /\ pc' \in {"check", "close", "primary"}
        /\ HeaderUpdateFails => pc' = "close" \/ HeaderUpdate
    BY <1>4 DEF IntervalUpdate, FinalUpdate, AfterFinal, progress
  <2>2. ConvertedFrom(area.start)'
    BY <1>1, <2>1 DEF ConvertedFrom, Holds
  <2>3. LoadedInv' /\ DataInv'
    BY <2>1, <2>2, BetweenWrites DEF Resuming, Working, Overwriting
  <2>4. FaultInv'
    <3>1. CASE HeaderUpdate
      BY <1>1, <1>3, <2>1, <3>1 DEF FaultInv
    <3>2. CASE ~HeaderUpdate
      BY <1>1, <1>2, <2>1, <3>2 DEF FaultInv
    <3> QED
      BY <3>1, <3>2
  <2> QED
    BY <2>3, <2>4
<1>5. CASE Close
  <2>1. pc = "close" /\ pc' = "idle"
    BY <1>5 DEF Close, Return
  <2>2. backupHeader'.valid /\ backupHeader'.area = area /\ faults' \in Nat
    <3>1. CASE ~changed
      BY <1>1, <1>5, <2>1, <3>1 DEF Close, Succeeds, FaultInv
    <3>2. CASE changed /\ HeaderUpdate
      BY <1>1, <1>3, <3>2
    <3>3. CASE changed /\ HeaderUpdateFails
      BY <1>1, <1>2, <2>1, <3>3 DEF FaultInv
    <3> QED
      BY <1>5, <3>1, <3>2, <3>3 DEF Close
  <2>3. ConvertedFrom(backupHeader.area.start)'
    BY <1>1, <2>2 DEF ConvertedFrom, Holds
  <2> QED
    BY <2>1, <2>2, <2>3 DEF LoadedInv, DataInv, FaultInv, Overwriting, Resuming, Working
<1> QED
  BY <1>4, <1>5

LEMMA ControlData ==
  ASSUME OneFault, RInv, OpenResume \/ CheckPause
  PROVE  LoadedInv' /\ DataInv' /\ FaultInv'
<1> USE DEF RInv
<1>1. CASE OpenResume
  <2>1. /\ pc \in {"open", "idle"} /\ backupHeader.valid /\ pc' \in {"read", "final"}
        /\ area' = backupHeader.area /\ faults' = 0
        /\ UNCHANGED <<disk, backupHeader>>
    BY <1>1 DEF OpenResume, ResumeRequested, AfterOpen, partition
  <2>2. ConvertedFrom(area.start)'
    BY <2>1 DEF DataInv, ConvertedFrom, Holds
  <2>3. LoadedInv' /\ DataInv'
    BY <2>1, <2>2, BetweenWrites DEF Resuming, Working, Overwriting
  <2> QED
    BY <2>1, <2>3 DEF FaultInv
<1>2. CASE CheckPause
  <2>1. /\ pc = "check" /\ pc' \in {"read", "final"}
        /\ UNCHANGED <<disk, area, backupHeader, changed, faults>>
    BY <1>2 DEF CheckPause, AfterOpen, partition, progress
  <2>2. ConvertedFrom(area.start)'
    BY <2>1 DEF DataInv, ConvertedFrom, Holds, Resuming, Working, Overwriting
  <2>3. LoadedInv' /\ DataInv'
    BY <2>1, <2>2, BetweenWrites DEF Resuming, Working, Overwriting
  <2> QED
    BY <2>1, <2>3 DEF FaultInv, Resuming
<1> QED
  BY <1>1, <1>2

LEMMA PrimaryData ==
  ASSUME OneFault, RInv, WritePrimaryHeader
  PROVE  LoadedInv' /\ DataInv' /\ FaultInv'
<1> USE DEF RInv
<1>1. /\ pc = "primary" /\ pc' = "close" /\ backupHeader.area = area
      /\ UNCHANGED <<area, backupHeader>> /\ faults' \in Nat
  BY FaultOnce DEF WritePrimaryHeader, progress, FaultInv, Succeeds
<1>2. area.start = DataOffset /\ ConvertedFrom(area.start) /\ DataOffset \in Int
  BY <1>1, Constants
    DEF IInv, FinalInv, WorkInv, AtEnd, DataInv, Resuming, Working, Overwriting
<1>3. \A q \in Block : ~(q < DataOffset) => disk'[q] = disk[q]
  BY <1>1, <1>2, Constants DEF WritePrimaryHeader
<1>4. ASSUME NEW p \in 0 .. VolumeSize - 1
      PROVE  StoredAt(p)' /\ p + DataOffset >= area.start /\ p + DataOffset \in Int
  <2>1. p + DataOffset \in Block /\ p + DataOffset >= DataOffset /\ ~(p + DataOffset < DataOffset)
        /\ p + DataOffset \in Int
    BY Constants
  <2>2. StoredAt(p)
    BY <1>2, <2>1, ConvertedIs
  <2>3. disk'[p + DataOffset] = disk[p + DataOffset]
    BY <1>3, <2>1
  <2> QED
    BY <1>2, <2>1, <2>2, <2>3 DEF StoredAt, Holds
<1>5. ConvertedFrom(area.start)'
  BY <1>1, <1>4 DEF ConvertedFrom, StoredAt, Holds
<1>6. LoadedInv' /\ DataInv'
  BY <1>1, <1>5, BetweenWrites DEF Resuming, Working, Overwriting
<1> QED
  BY <1>1, <1>6 DEF FaultInv

LEMMA RInvStep == OneFault /\ RInv /\ [Next]_vars => RInv'
<1> SUFFICES ASSUME OneFault, RInv, [Next]_vars PROVE RInv'
  OBVIOUS
<1>1. IInv'
  BY IInvStep DEF RInv
<1>2. LoadedInv' /\ DataInv' /\ FaultInv'
  <2>1. CASE Begin
    BY <2>1, BeginData
  <2>2. CASE Resume
    BY <2>2, ReadData, ReadFailsData, WipeData, UndoData, WriteData, UpdateData,
       ControlData,
       PrimaryData DEF Resume
  <2>3. CASE LeaveWizard
    <3>1. pc = "idle" /\ pc' = "idle" /\ UNCHANGED <<disk, backupHeader, faults>>
      BY <2>3 DEF LeaveWizard, partition
    <3> QED
      BY <3>1
        DEF RInv, LoadedInv, DataInv, FaultInv, ConvertedFrom, Holds, FileSystemIntact,
                  Overwriting, Resuming, Working
  <2>4. CASE Crash
    BY <2>4 DEF Crash, OneFault
  <2>5. CASE UNCHANGED vars
    BY <2>5
      DEF vars, partition, progress, RInv, LoadedInv, DataInv, FaultInv, ConvertedFrom,
                ConvertedBut, StoredAt, PlainAt, Holds, FileSystemIntact, Chunk, ChunkSize, Source,
                Target
  <2> QED
    BY <2>1, <2>2, <2>3, <2>4, <2>5 DEF Next
<1> QED
  BY <1>1, <1>2 DEF RInv

\* Between two calls every block of the user's file system is where the backup
\* header says, through any number of pauses, of calls and of calls in which one
\* operation on the device failed; the chunk that a failed write has destroyed
\* in part is brought back, or was not touched because it is not larger than the
\* room before the data area (the labels of EncryptPartitionInPlaceResume in
\* Format/InPlace.c).  With two failures in one call, a crash, or a failure in
\* Begin it need not be: see the README.
THEOREM DataSafe == ASSUME OneFault PROVE Spec => []DataRecoverable
<1>1. RInv => DataRecoverable
  BY Constants DEF RInv, IInv, HeaderInv, AtEnd, DataInv, DataRecoverable
<1>2. Init => RInv
  BY RInvInit
<1>3. RInv /\ [Next]_vars => RInv'
  BY RInvStep
<1> QED
  BY <1>1, <1>2, <1>3, PTL DEF Spec
=============================================================================
