--------------------- MODULE SystemEncryptionSetup_proof ---------------------
(***************************************************************************)
(* Proofs about SystemEncryptionSetup, for every size of the drive and of  *)
(* the block, every interval between saves of the header, any number of    *)
(* wipe passes, failures and crashes.                                      *)
(***************************************************************************)
EXTENDS SystemEncryptionSetup, FiniteSetTheorems, TLAPS

Rewriting == {"wipe", "write", "undo"}
InBlock == {"hold", "read"} \union Rewriting

\* The flags and the control state.
ControlInv ==
  /\ configured \in BOOLEAN /\ mounted \in BOOLEAN /\ held \in BOOLEAN
  /\ mode \in {"encrypt", "decrypt"}
  /\ pc \in {"start", "first", "loop", "hold", "read", "wipe", "write", "undo",
             "save", "cleanup", "clear", "final", "dismount", "close", "ended"}
  /\ updateRequired \in BOOLEAN /\ result \in {"success", "error"}
  /\ abort \in BOOLEAN /\ mutex \in {"free", "request", "setup"}
  /\ waiting \in BOOLEAN /\ saveFailed \in BOOLEAN

\* The numbers.
CountInv ==
  /\ header \in None .. Size /\ encrypted \in None .. Size
  /\ wipePass \in 0 .. WipePasses + 1
  /\ pc = "wipe" => wipePass \in 1 .. WipePasses
  /\ sinceUpdate \in Nat /\ faults \in Nat /\ crashes \in Nat

\* A block has units, and at work it lies in the configured area.
BlockInv ==
  /\ offset \in 0 .. Size /\ block \in 1 .. BlockSize
  /\ pc \in InBlock => offset + block <= Size

\* What is stored and what is in the buffer.
DataInv ==
  /\ disk \in [Unit -> Contents] /\ lost \subseteq Unit
  /\ pc \in Rewriting => buf \in [Current -> Contents]

\* Where the thread stands is where the encrypted area ends, except that a
\* decryption is a block below it while it works on that block.
AtEnd == offset = encrypted \/ (mode = "encrypt" /\ encrypted = None /\ offset = 0)

PosInv ==
  /\ pc \in {"loop", "save"} => AtEnd
  /\ pc \in InBlock => IF mode = "encrypt" THEN AtEnd ELSE encrypted = offset + block
  /\ pc \in {"read"} \union Rewriting => held
  /\ pc = "clear" => mode = "decrypt" /\ encrypted <= 0
  /\ pc = "final" /\ mode = "decrypt" => encrypted > 0 \/ (encrypted = None /\ ~configured)
  /\ mode = "encrypt" \/ pc \in {"start", "first", "final", "dismount", "close", "ended"}
       => encrypted # 0

\* A unit is stored as the queue takes it to be; of the block that is being
\* rewritten the buffer has the contents that were.
DiskInv ==
  \A u \in Unit \ lost :
    IF pc \in Rewriting /\ u \in Current
    THEN buf[u] = Stored(encrypted, u)
    ELSE disk[u] = Stored(encrypted, u)

\* The header is erased by a decryption that has no block left, and nothing can
\* start after it.
EraseInv ==
  header = None =>
    /\ encrypted \in {None, 0}
    /\ pc = "ended" => ~mounted
    /\ pc # "ended" =>
         mode = "decrypt" /\ pc \in {"loop", "cleanup", "clear", "final", "dismount", "close"}

\* What the header does not tell yet the thread knows it has to save.
TellsInv ==
  /\ \/ HeaderTellsArea \/ saveFailed \/ updateRequired
     \/ pc \in {"loop", "cleanup", "clear"} /\ mode = "decrypt" /\ encrypted = 0
  /\ pc \in {"start", "first", "dismount", "close", "ended"} =>
       HeaderTellsArea \/ saveFailed
  /\ pc \in {"start", "first", "ended"} => ~updateRequired
  /\ pc = "save" => encrypted # None
  /\ mode = "encrypt" /\ updateRequired => encrypted > 0

\* An abort holds the mutex until the thread has ended.
MutexInv ==
  /\ DismountExclusive
  /\ waiting => mutex = "request"
  /\ abort /\ pc # "ended" => waiting

\* The area the header tells of and the one that is encrypted are apart by no
\* more than the thread has counted since it saved the header, and it saves it
\* with the block that reaches the threshold.
Length(area) == IF area > 0 THEN area ELSE 0

UpdateInv ==
  /\ sinceUpdate < HeaderUpdateThreshold + IF pc = "save" THEN BlockSize ELSE 0
  /\ ~saveFailed => IF mode = "encrypt"
                    THEN Length(encrypted) - Length(header) \in 0 .. sinceUpdate
                    ELSE Length(header) - Length(encrypted) \in 0 .. sinceUpdate

IInv ==
  /\ ControlInv /\ CountInv /\ BlockInv /\ DataInv
  /\ PosInv /\ DiskInv /\ EraseInv /\ TellsInv /\ MutexInv
  /\ UpdateInv

-----------------------------------------------------------------------------
(* The initial state and the steps.                                        *)

LEMMA InitInv == Init => IInv
<1>1. Init => UpdateInv
  BY SetupAssumption DEF Init, UpdateInv, Length, None
<1>2. QED
  BY SetupAssumption, <1>1
        DEF Init, IInv, ControlInv, CountInv, BlockInv, DataInv, PosInv, DiskInv,
            EraseInv, TellsInv, MutexInv, AtEnd,
            InBlock, Rewriting, DismountExclusive, HeaderTellsArea, Stored, Unit, None,
            Contents, NoBlock

\* A block at work lies in the configured area.
LEMMA CurrentInUnit == SetupAssumption /\ BlockInv /\ pc \in InBlock => Current \subseteq Unit
BY DEF SetupAssumption, BlockInv, Current, Unit

\* A part of the drive is written with what has the right kind.
LEMMA WrittenType ==
  ASSUME disk \in [Unit -> Contents], NEW part, NEW content \in [Current -> Contents],
         part \subseteq Current
  PROVE  Written(part, content) \in [Unit -> Contents]
BY DEF Written

\* Encryption and decryption of the contents of a unit give contents.
LEMMA OutputType ==
  buf \in [Current -> Contents] => Output \in [Current -> Contents]
BY DEF Output, Transformed, Contents

\* No step gives a flag or the control state another value.
LEMMA ControlStep ==
  ControlInv
    /\ [Next]_vars => ControlInv'
<1> SUFFICES ASSUME ControlInv, [Next]_vars PROVE ControlInv'
  OBVIOUS
<1> USE SetupAssumption
     DEF ControlInv, vars, drive, driver, locals, thread, request, history
<1>1. CASE Start
  BY <1>1 DEF Start, Fails
<1>2. CASE HoldAborted
  BY <1>2 DEF HoldAborted
<1>3. CASE FirstHold
  BY <1>3 DEF FirstHold, NothingToDo
<1>4. CASE NextBlock
  BY <1>4 DEF NextBlock, NextSize
<1>5. CASE Hold
  BY <1>5 DEF Hold
<1>6. CASE ReadBlock
  BY <1>6 DEF ReadBlock, AfterRead
<1>7. CASE ReadFails
  BY <1>7 DEF ReadFails, Fails
<1>8. CASE \E bad \in SUBSET Current : ReadSkipping(bad)
  BY <1>8 DEF ReadSkipping, AfterRead, Fails
<1>9. CASE WipeBlock
  BY <1>9 DEF WipeBlock, NextPass, Output, Written
<1>10. CASE WriteBlock
  BY <1>10 DEF WriteBlock, AfterBlock, SaveDue, Output, Written
<1>11. CASE \E part \in SUBSET Current : WriteFails(part)
  BY <1>11 DEF WriteFails, Fails, Output, Written
<1>12. CASE UndoWrite
  BY <1>12 DEF UndoWrite, Restored, Written
<1>13. CASE \E part \in SUBSET Current : UndoFails(part)
  BY <1>13 DEF UndoFails, Fails, Restored, Written
<1>14. CASE SaveInLoop
  BY <1>14 DEF SaveInLoop, SaveDriveVolumeHeader, Saved, Fails
<1>15. CASE Cleanup
  BY <1>15 DEF Cleanup, AllDecrypted
<1>16. CASE ClearArea
  BY <1>16 DEF ClearArea
<1>17. CASE FinalSave
  BY <1>17
       DEF FinalSave, FinalSaveDue, SaveDriveVolumeHeader, Saved, Fails,
           AfterFinalSave, Exit
<1>18. CASE AcquireMutex
  BY <1>18 DEF AcquireMutex, MutexTried
<1>19. CASE Dismount
  BY <1>19 DEF Dismount, Exit
<1>20. CASE \E m \in {"encrypt", "decrypt"} : StartSetup(m)
  BY <1>20 DEF StartSetup
<1>21. CASE RequestAbort
  BY <1>21 DEF RequestAbort
<1>22. CASE OtherRequest
  BY <1>22 DEF OtherRequest
<1>23. CASE RequestDone
  BY <1>23 DEF RequestDone
<1>24. CASE \E u \in Unit : SystemWrite(u)
  BY <1>24 DEF SystemWrite
<1>25. CASE \E part \in SUBSET Interrupted : Crash(part)
  BY <1>25 DEF Crash, MountDrive, Exit, Interrupted, Written, Output
<1>26. CASE Restart
  BY <1>26 DEF Restart, MountDrive, Exit
<1>27. CASE UNCHANGED vars
  BY <1>27
<1> QED BY <1>1, <1>2, <1>3, <1>4, <1>5, <1>6, <1>7, <1>8, <1>9, <1>10, <1>11, <1>12,
       <1>13, <1>14, <1>15, <1>16, <1>17, <1>18, <1>19, <1>20, <1>21, <1>22, <1>23,
       <1>24, <1>25, <1>26, <1>27
            DEF Next, ThreadStep

\* The numbers stay numbers.
LEMMA CountStep ==
  ControlInv /\ CountInv /\ BlockInv
    /\ [Next]_vars => CountInv'
<1> SUFFICES ASSUME ControlInv /\ CountInv /\ BlockInv, [Next]_vars PROVE CountInv'
  OBVIOUS
<1> USE SetupAssumption
     DEF ControlInv, CountInv, BlockInv, InBlock, Rewriting, None, vars, drive, driver,
         locals, thread, request, history
<1>1. CASE Start
  BY <1>1 DEF Start, Fails
<1>2. CASE HoldAborted
  BY <1>2 DEF HoldAborted
<1>3. CASE FirstHold
  BY <1>3 DEF FirstHold, NothingToDo
<1>4. CASE NextBlock
  BY <1>4 DEF NextBlock, NextSize
<1>5. CASE Hold
  BY <1>5 DEF Hold
<1>6. CASE ReadBlock
  BY <1>6 DEF ReadBlock, AfterRead
<1>7. CASE ReadFails
  BY <1>7 DEF ReadFails, Fails
<1>8. CASE \E bad \in SUBSET Current : ReadSkipping(bad)
  BY <1>8 DEF ReadSkipping, AfterRead, Fails
<1>9. CASE WipeBlock
  BY <1>9 DEF WipeBlock, NextPass, Output, Written
<1>10. CASE WriteBlock
  BY <1>10 DEF WriteBlock, AfterBlock, SaveDue, Output, Written
<1>11. CASE \E part \in SUBSET Current : WriteFails(part)
  BY <1>11 DEF WriteFails, Fails, Output, Written
<1>12. CASE UndoWrite
  BY <1>12 DEF UndoWrite, Restored, Written
<1>13. CASE \E part \in SUBSET Current : UndoFails(part)
  BY <1>13 DEF UndoFails, Fails, Restored, Written
<1>14. CASE SaveInLoop
  BY <1>14 DEF SaveInLoop, SaveDriveVolumeHeader, Saved, Fails
<1>15. CASE Cleanup
  BY <1>15 DEF Cleanup, AllDecrypted
<1>16. CASE ClearArea
  BY <1>16 DEF ClearArea
<1>17. CASE FinalSave
  BY <1>17
       DEF FinalSave, FinalSaveDue, SaveDriveVolumeHeader, Saved, Fails,
           AfterFinalSave, Exit
<1>18. CASE AcquireMutex
  BY <1>18 DEF AcquireMutex, MutexTried
<1>19. CASE Dismount
  BY <1>19 DEF Dismount, Exit
<1>20. CASE \E m \in {"encrypt", "decrypt"} : StartSetup(m)
  BY <1>20 DEF StartSetup
<1>21. CASE RequestAbort
  BY <1>21 DEF RequestAbort
<1>22. CASE OtherRequest
  BY <1>22 DEF OtherRequest
<1>23. CASE RequestDone
  BY <1>23 DEF RequestDone
<1>24. CASE \E u \in Unit : SystemWrite(u)
  BY <1>24 DEF SystemWrite
<1>25. CASE \E part \in SUBSET Interrupted : Crash(part)
  BY <1>25 DEF Crash, MountDrive, Exit, Interrupted, Written, Output
<1>26. CASE Restart
  BY <1>26 DEF Restart, MountDrive, Exit
<1>27. CASE UNCHANGED vars
  BY <1>27
<1> QED BY <1>1, <1>2, <1>3, <1>4, <1>5, <1>6, <1>7, <1>8, <1>9, <1>10, <1>11, <1>12,
       <1>13, <1>14, <1>15, <1>16, <1>17, <1>18, <1>19, <1>20, <1>21, <1>22, <1>23,
       <1>24, <1>25, <1>26, <1>27
            DEF Next, ThreadStep

\* The thread works on blocks of the configured area.
LEMMA BlockStep ==
  ControlInv /\ CountInv /\ BlockInv /\ PosInv
    /\ [Next]_vars => BlockInv'
<1> SUFFICES ASSUME ControlInv /\ CountInv /\ BlockInv /\ PosInv, [Next]_vars
     PROVE BlockInv'
  OBVIOUS
<1> USE SetupAssumption
     DEF ControlInv, CountInv, BlockInv, PosInv, AtEnd, InBlock, Rewriting, None, vars,
         drive, driver, locals, thread, request, history
<1>1. CASE Start
  BY <1>1 DEF Start, Fails
<1>2. CASE HoldAborted
  BY <1>2 DEF HoldAborted
<1>3. CASE FirstHold
  BY <1>3 DEF FirstHold, NothingToDo
<1>4. CASE NextBlock
  BY <1>4 DEF NextBlock, NextSize
<1>5. CASE Hold
  BY <1>5 DEF Hold
<1>6. CASE ReadBlock
  BY <1>6 DEF ReadBlock, AfterRead
<1>7. CASE ReadFails
  BY <1>7 DEF ReadFails, Fails
<1>8. CASE \E bad \in SUBSET Current : ReadSkipping(bad)
  BY <1>8 DEF ReadSkipping, AfterRead, Fails
<1>9. CASE WipeBlock
  BY <1>9 DEF WipeBlock, NextPass, Output, Written
<1>10. CASE WriteBlock
  BY <1>10 DEF WriteBlock, AfterBlock, SaveDue, Output, Written
<1>11. CASE \E part \in SUBSET Current : WriteFails(part)
  BY <1>11 DEF WriteFails, Fails, Output, Written
<1>12. CASE UndoWrite
  BY <1>12 DEF UndoWrite, Restored, Written
<1>13. CASE \E part \in SUBSET Current : UndoFails(part)
  BY <1>13 DEF UndoFails, Fails, Restored, Written
<1>14. CASE SaveInLoop
  BY <1>14 DEF SaveInLoop, SaveDriveVolumeHeader, Saved, Fails
<1>15. CASE Cleanup
  BY <1>15 DEF Cleanup, AllDecrypted
<1>16. CASE ClearArea
  BY <1>16 DEF ClearArea
<1>17. CASE FinalSave
  BY <1>17
       DEF FinalSave, FinalSaveDue, SaveDriveVolumeHeader, Saved, Fails,
           AfterFinalSave, Exit
<1>18. CASE AcquireMutex
  BY <1>18 DEF AcquireMutex, MutexTried
<1>19. CASE Dismount
  BY <1>19 DEF Dismount, Exit
<1>20. CASE \E m \in {"encrypt", "decrypt"} : StartSetup(m)
  BY <1>20 DEF StartSetup
<1>21. CASE RequestAbort
  BY <1>21 DEF RequestAbort
<1>22. CASE OtherRequest
  BY <1>22 DEF OtherRequest
<1>23. CASE RequestDone
  BY <1>23 DEF RequestDone
<1>24. CASE \E u \in Unit : SystemWrite(u)
  BY <1>24 DEF SystemWrite
<1>25. CASE \E part \in SUBSET Interrupted : Crash(part)
  BY <1>25 DEF Crash, MountDrive, Exit, Interrupted, Written, Output
<1>26. CASE Restart
  BY <1>26 DEF Restart, MountDrive, Exit
<1>27. CASE UNCHANGED vars
  BY <1>27
<1> QED BY <1>1, <1>2, <1>3, <1>4, <1>5, <1>6, <1>7, <1>8, <1>9, <1>10, <1>11, <1>12,
       <1>13, <1>14, <1>15, <1>16, <1>17, <1>18, <1>19, <1>20, <1>21, <1>22, <1>23,
       <1>24, <1>25, <1>26, <1>27
            DEF Next, ThreadStep

\* What is stored and what is in the buffer keeps to its kind.
LEMMA DataStep ==
  ControlInv /\ CountInv /\ BlockInv /\ DataInv
    /\ [Next]_vars => DataInv'
<1> SUFFICES ASSUME ControlInv /\ CountInv /\ BlockInv /\ DataInv, [Next]_vars
     PROVE DataInv'
  OBVIOUS
<1> USE SetupAssumption
     DEF ControlInv, CountInv, BlockInv, DataInv, InBlock, Rewriting, Contents, vars,
         drive, driver, locals, thread, request, history
<1>1. CASE Start
  BY <1>1 DEF Start, Fails
<1>2. CASE HoldAborted
  BY <1>2 DEF HoldAborted
<1>3. CASE FirstHold
  BY <1>3 DEF FirstHold, NothingToDo
<1>4. CASE NextBlock
  BY <1>4 DEF NextBlock, NextSize
<1>5. CASE Hold
  BY <1>5 DEF Hold
<1>6. CASE ReadBlock
  <2>1. Current \subseteq Unit /\ Current' = Current
    BY <1>6, CurrentInUnit DEF ReadBlock, Current, InBlock
  <2> QED BY <1>6, <2>1 DEF ReadBlock
<1>7. CASE ReadFails
  BY <1>7 DEF ReadFails, Fails
<1>8. CASE \E bad \in SUBSET Current : ReadSkipping(bad)
  <2>1. PICK bad \in SUBSET Current : ReadSkipping(bad)
    BY <1>8
  <2>2. Current \subseteq Unit /\ Current' = Current
    BY <2>1, CurrentInUnit DEF ReadSkipping, Current, InBlock
  <2> QED BY <2>1, <2>2 DEF ReadSkipping
<1>9. CASE WipeBlock
  <2>1. Current' = Current
    BY <1>9 DEF WipeBlock, Current
  <2>2. disk' \in [Unit -> Contents]
    BY <1>9, WrittenType, OutputType DEF WipeBlock
  <2> QED BY <1>9, <2>1, <2>2 DEF WipeBlock
<1>10. CASE WriteBlock
  <2>1. disk' \in [Unit -> Contents]
    BY <1>10, WrittenType, OutputType DEF WriteBlock
  <2> QED BY <1>10, <2>1 DEF WriteBlock
<1>11. CASE \E part \in SUBSET Current : WriteFails(part)
  <2>1. PICK part \in SUBSET Current : WriteFails(part)
    BY <1>11
  <2>2. Current' = Current
    BY <2>1 DEF WriteFails, Current
  <2>3. disk' \in [Unit -> Contents]
    BY <2>1, WrittenType, OutputType DEF WriteFails
  <2> QED BY <2>1, <2>2, <2>3 DEF WriteFails
<1>12. CASE UndoWrite
  BY <1>12 DEF UndoWrite, Restored, Written
<1>13. CASE \E part \in SUBSET Current : UndoFails(part)
  <2>1. PICK part \in SUBSET Current : UndoFails(part)
    BY <1>13
  <2>2. disk' \in [Unit -> Contents]
    BY <2>1, WrittenType DEF UndoFails, Restored
  <2>3. lost' \subseteq Unit
    BY <2>1, CurrentInUnit DEF UndoFails, InBlock
  <2> QED BY <2>1, <2>2, <2>3 DEF UndoFails
<1>14. CASE SaveInLoop
  BY <1>14 DEF SaveInLoop, SaveDriveVolumeHeader, Saved, Fails
<1>15. CASE Cleanup
  BY <1>15 DEF Cleanup, AllDecrypted
<1>16. CASE ClearArea
  BY <1>16 DEF ClearArea
<1>17. CASE FinalSave
  BY <1>17
       DEF FinalSave, FinalSaveDue, SaveDriveVolumeHeader, Saved, Fails,
           AfterFinalSave, Exit
<1>18. CASE AcquireMutex
  BY <1>18 DEF AcquireMutex, MutexTried
<1>19. CASE Dismount
  BY <1>19 DEF Dismount, Exit
<1>20. CASE \E m \in {"encrypt", "decrypt"} : StartSetup(m)
  BY <1>20 DEF StartSetup
<1>21. CASE RequestAbort
  BY <1>21 DEF RequestAbort, Current
<1>22. CASE OtherRequest
  BY <1>22 DEF OtherRequest, Current
<1>23. CASE RequestDone
  BY <1>23 DEF RequestDone, Current
<1>24. CASE \E u \in Unit : SystemWrite(u)
  BY <1>24 DEF SystemWrite, Current, Stored
<1>25. CASE \E part \in SUBSET Interrupted : Crash(part)
  <2>1. PICK part \in SUBSET Interrupted : Crash(part)
    BY <1>25
  <2>2. CASE pc \in {"wipe", "write"}
    <3>1. disk' \in [Unit -> Contents]
      BY <2>1, <2>2, WrittenType, OutputType DEF Crash, Interrupted
    <3> QED BY <2>1, <3>1 DEF Crash, MountDrive
  <2>3. CASE pc \notin {"wipe", "write"}
    <3>1. disk' = disk
      BY <2>1, <2>3 DEF Crash, Interrupted, Written
    <3> QED BY <2>1, <3>1 DEF Crash, MountDrive
  <2> QED BY <2>2, <2>3
<1>26. CASE Restart
  BY <1>26 DEF Restart, MountDrive, Exit
<1>27. CASE UNCHANGED vars
  BY <1>27 DEF Current
<1> QED BY <1>1, <1>2, <1>3, <1>4, <1>5, <1>6, <1>7, <1>8, <1>9, <1>10, <1>11, <1>12,
       <1>13, <1>14, <1>15, <1>16, <1>17, <1>18, <1>19, <1>20, <1>21, <1>22, <1>23,
       <1>24, <1>25, <1>26, <1>27
            DEF Next, ThreadStep

\* The thread stays where the encrypted area ends.
LEMMA PosStep ==
  ControlInv /\ CountInv /\ BlockInv /\ PosInv
    /\ [Next]_vars => PosInv'
<1> SUFFICES ASSUME ControlInv /\ CountInv /\ BlockInv /\ PosInv, [Next]_vars
     PROVE PosInv'
  OBVIOUS
<1> USE SetupAssumption
     DEF ControlInv, CountInv, BlockInv, PosInv, AtEnd, InBlock, Rewriting, None, vars,
         drive, driver, locals, thread, request, history
<1>1. CASE Start
  BY <1>1 DEF Start, Fails
<1>2. CASE HoldAborted
  BY <1>2 DEF HoldAborted
<1>3. CASE FirstHold
  BY <1>3 DEF FirstHold, NothingToDo
<1>4. CASE NextBlock
  BY <1>4 DEF NextBlock, NextSize
<1>5. CASE Hold
  BY <1>5 DEF Hold
<1>6. CASE ReadBlock
  BY <1>6 DEF ReadBlock, AfterRead
<1>7. CASE ReadFails
  BY <1>7 DEF ReadFails, Fails
<1>8. CASE \E bad \in SUBSET Current : ReadSkipping(bad)
  BY <1>8 DEF ReadSkipping, AfterRead, Fails
<1>9. CASE WipeBlock
  BY <1>9 DEF WipeBlock, NextPass, Output, Written
<1>10. CASE WriteBlock
  BY <1>10 DEF WriteBlock, AfterBlock, SaveDue, Output, Written
<1>11. CASE \E part \in SUBSET Current : WriteFails(part)
  BY <1>11 DEF WriteFails, Fails, Output, Written
<1>12. CASE UndoWrite
  BY <1>12 DEF UndoWrite, Restored, Written
<1>13. CASE \E part \in SUBSET Current : UndoFails(part)
  BY <1>13 DEF UndoFails, Fails, Restored, Written
<1>14. CASE SaveInLoop
  BY <1>14 DEF SaveInLoop, SaveDriveVolumeHeader, Saved, Fails
<1>15. CASE Cleanup
  BY <1>15 DEF Cleanup, AllDecrypted
<1>16. CASE ClearArea
  BY <1>16 DEF ClearArea
<1>17. CASE FinalSave
  BY <1>17
       DEF FinalSave, FinalSaveDue, SaveDriveVolumeHeader, Saved, Fails,
           AfterFinalSave, Exit
<1>18. CASE AcquireMutex
  BY <1>18 DEF AcquireMutex, MutexTried
<1>19. CASE Dismount
  BY <1>19 DEF Dismount, Exit
<1>20. CASE \E m \in {"encrypt", "decrypt"} : StartSetup(m)
  BY <1>20 DEF StartSetup
<1>21. CASE RequestAbort
  BY <1>21 DEF RequestAbort
<1>22. CASE OtherRequest
  BY <1>22 DEF OtherRequest
<1>23. CASE RequestDone
  BY <1>23 DEF RequestDone
<1>24. CASE \E u \in Unit : SystemWrite(u)
  BY <1>24 DEF SystemWrite
<1>25. CASE \E part \in SUBSET Interrupted : Crash(part)
  BY <1>25 DEF Crash, MountDrive, Exit, Interrupted, Written, Output
<1>26. CASE Restart
  BY <1>26 DEF Restart, MountDrive, Exit
<1>27. CASE UNCHANGED vars
  BY <1>27
<1> QED BY <1>1, <1>2, <1>3, <1>4, <1>5, <1>6, <1>7, <1>8, <1>9, <1>10, <1>11, <1>12,
       <1>13, <1>14, <1>15, <1>16, <1>17, <1>18, <1>19, <1>20, <1>21, <1>22, <1>23,
       <1>24, <1>25, <1>26, <1>27
            DEF Next, ThreadStep

\* Every unit that can be read is stored as the queue takes it to be.
LEMMA DiskStep ==
  ControlInv /\ CountInv /\ BlockInv /\ DataInv /\ PosInv /\ DiskInv
    /\ [Next]_vars => DiskInv'
<1> SUFFICES ASSUME ControlInv /\ CountInv /\ BlockInv /\ DataInv /\ PosInv /\ DiskInv,
     [Next]_vars
     PROVE DiskInv'
  OBVIOUS
<1> USE SetupAssumption
     DEF ControlInv, CountInv, BlockInv, DataInv, PosInv, DiskInv, AtEnd, InBlock,
         Rewriting, Current, Unit, None, Contents, Stored, vars, drive, driver, locals,
         thread, request, history
<1>1. CASE Start
  BY <1>1 DEF Start, Fails
<1>2. CASE HoldAborted
  BY <1>2 DEF HoldAborted
<1>3. CASE FirstHold
  BY <1>3 DEF FirstHold, NothingToDo
<1>4. CASE NextBlock
  BY <1>4 DEF NextBlock, NextSize
<1>5. CASE Hold
  BY <1>5 DEF Hold
<1>6. CASE ReadBlock
  BY <1>6 DEF ReadBlock, AfterRead
<1>7. CASE ReadFails
  BY <1>7 DEF ReadFails, Fails
<1>8. CASE \E bad \in SUBSET Current : ReadSkipping(bad)
  BY <1>8 DEF ReadSkipping, AfterRead, Fails
<1>9. CASE WipeBlock
  BY <1>9 DEF WipeBlock, NextPass, Output, Written
<1>10. CASE WriteBlock
  <2>1. ASSUME mode = "encrypt", NEW u \in Unit \ lost
       PROVE disk'[u] = Stored(encrypted', u)
    <3>1. CASE u \in Current
      <4>1. Output[u] = Transformed(buf[u]) /\ buf[u] = "plain"
        BY <1>10, <2>1, <3>1 DEF WriteBlock, Output
      <4>2. disk'[u] = "cipher"
        BY <1>10, <2>1, <3>1, <4>1 DEF WriteBlock, Written, Transformed
      <4> QED BY <1>10, <2>1, <3>1, <4>2 DEF WriteBlock, AfterBlock
    <3>2. CASE u \notin Current
      <4>1. disk'[u] = Stored(encrypted, u)
        BY <1>10, <3>2 DEF WriteBlock, Written
      <4> QED BY <1>10, <2>1, <3>2, <4>1 DEF WriteBlock, AfterBlock
    <3> QED BY <3>1, <3>2
  <2>2. ASSUME mode = "decrypt", NEW u \in Unit \ lost
       PROVE disk'[u] = Stored(encrypted', u)
    <3>1. CASE u \in Current
      <4>1. Output[u] = Transformed(buf[u]) /\ buf[u] = "cipher"
        BY <1>10, <2>2, <3>1 DEF WriteBlock, Output
      <4>2. disk'[u] = "plain"
        BY <1>10, <2>2, <3>1, <4>1 DEF WriteBlock, Written, Transformed
      <4> QED BY <1>10, <2>2, <3>1, <4>2 DEF WriteBlock, AfterBlock
    <3>2. CASE u \notin Current
      <4>1. disk'[u] = Stored(encrypted, u)
        BY <1>10, <3>2 DEF WriteBlock, Written
      <4> QED BY <1>10, <2>2, <3>2, <4>1 DEF WriteBlock, AfterBlock
    <3> QED BY <3>1, <3>2
  <2>3. \A u \in Unit \ lost : disk'[u] = Stored(encrypted', u)
    BY <2>1, <2>2
  <2> QED BY <1>10, <2>3 DEF WriteBlock
<1>11. CASE \E part \in SUBSET Current : WriteFails(part)
  BY <1>11 DEF WriteFails, Fails, Output, Written
<1>12. CASE UndoWrite
  BY <1>12 DEF UndoWrite, Restored, Written
<1>13. CASE \E part \in SUBSET Current : UndoFails(part)
  BY <1>13 DEF UndoFails, Fails, Restored, Written
<1>14. CASE SaveInLoop
  BY <1>14 DEF SaveInLoop, SaveDriveVolumeHeader, Saved, Fails
<1>15. CASE Cleanup
  BY <1>15 DEF Cleanup, AllDecrypted
<1>16. CASE ClearArea
  BY <1>16 DEF ClearArea
<1>17. CASE FinalSave
  BY <1>17
       DEF FinalSave, FinalSaveDue, SaveDriveVolumeHeader, Saved, Fails,
           AfterFinalSave, Exit
<1>18. CASE AcquireMutex
  BY <1>18 DEF AcquireMutex, MutexTried
<1>19. CASE Dismount
  BY <1>19 DEF Dismount, Exit
<1>20. CASE \E m \in {"encrypt", "decrypt"} : StartSetup(m)
  BY <1>20 DEF StartSetup
<1>21. CASE RequestAbort
  BY <1>21 DEF RequestAbort
<1>22. CASE OtherRequest
  BY <1>22 DEF OtherRequest
<1>23. CASE RequestDone
  BY <1>23 DEF RequestDone
<1>24. CASE \E u \in Unit : SystemWrite(u)
  BY <1>24 DEF SystemWrite
<1>25. CASE \E part \in SUBSET Interrupted : Crash(part)
  BY <1>25 DEF Crash, MountDrive, Exit, Interrupted, Written, Output
<1>26. CASE Restart
  BY <1>26 DEF Restart, MountDrive, Exit
<1>27. CASE UNCHANGED vars
  BY <1>27
<1> QED BY <1>1, <1>2, <1>3, <1>4, <1>5, <1>6, <1>7, <1>8, <1>9, <1>10, <1>11, <1>12,
       <1>13, <1>14, <1>15, <1>16, <1>17, <1>18, <1>19, <1>20, <1>21, <1>22, <1>23,
       <1>24, <1>25, <1>26, <1>27
            DEF Next, ThreadStep

\* A header is erased only by a decryption that is through.
LEMMA EraseStep ==
  ControlInv /\ CountInv /\ BlockInv /\ PosInv /\ EraseInv
    /\ [Next]_vars => EraseInv'
<1> SUFFICES ASSUME ControlInv /\ CountInv /\ BlockInv /\ PosInv /\ EraseInv,
     [Next]_vars
     PROVE EraseInv'
  OBVIOUS
<1> USE SetupAssumption
     DEF ControlInv, CountInv, BlockInv, PosInv, EraseInv, AtEnd, InBlock, Rewriting,
         None, vars, drive, driver, locals, thread, request, history
<1>1. CASE Start
  BY <1>1 DEF Start, Fails
<1>2. CASE HoldAborted
  BY <1>2 DEF HoldAborted
<1>3. CASE FirstHold
  BY <1>3 DEF FirstHold, NothingToDo
<1>4. CASE NextBlock
  BY <1>4 DEF NextBlock, NextSize
<1>5. CASE Hold
  BY <1>5 DEF Hold
<1>6. CASE ReadBlock
  BY <1>6 DEF ReadBlock, AfterRead
<1>7. CASE ReadFails
  BY <1>7 DEF ReadFails, Fails
<1>8. CASE \E bad \in SUBSET Current : ReadSkipping(bad)
  BY <1>8 DEF ReadSkipping, AfterRead, Fails
<1>9. CASE WipeBlock
  BY <1>9 DEF WipeBlock, NextPass, Output, Written
<1>10. CASE WriteBlock
  BY <1>10 DEF WriteBlock, AfterBlock, SaveDue, Output, Written
<1>11. CASE \E part \in SUBSET Current : WriteFails(part)
  BY <1>11 DEF WriteFails, Fails, Output, Written
<1>12. CASE UndoWrite
  BY <1>12 DEF UndoWrite, Restored, Written
<1>13. CASE \E part \in SUBSET Current : UndoFails(part)
  BY <1>13 DEF UndoFails, Fails, Restored, Written
<1>14. CASE SaveInLoop
  BY <1>14 DEF SaveInLoop, SaveDriveVolumeHeader, Saved, Fails
<1>15. CASE Cleanup
  BY <1>15 DEF Cleanup, AllDecrypted
<1>16. CASE ClearArea
  BY <1>16 DEF ClearArea
<1>17. CASE FinalSave
  BY <1>17
       DEF FinalSave, FinalSaveDue, SaveDriveVolumeHeader, Saved, Fails,
           AfterFinalSave, Exit
<1>18. CASE AcquireMutex
  BY <1>18 DEF AcquireMutex, MutexTried
<1>19. CASE Dismount
  BY <1>19 DEF Dismount, Exit
<1>20. CASE \E m \in {"encrypt", "decrypt"} : StartSetup(m)
  BY <1>20 DEF StartSetup
<1>21. CASE RequestAbort
  BY <1>21 DEF RequestAbort
<1>22. CASE OtherRequest
  BY <1>22 DEF OtherRequest
<1>23. CASE RequestDone
  BY <1>23 DEF RequestDone
<1>24. CASE \E u \in Unit : SystemWrite(u)
  BY <1>24 DEF SystemWrite
<1>25. CASE \E part \in SUBSET Interrupted : Crash(part)
  BY <1>25 DEF Crash, MountDrive, Exit, Interrupted, Written, Output
<1>26. CASE Restart
  BY <1>26 DEF Restart, MountDrive, Exit
<1>27. CASE UNCHANGED vars
  BY <1>27
<1> QED BY <1>1, <1>2, <1>3, <1>4, <1>5, <1>6, <1>7, <1>8, <1>9, <1>10, <1>11, <1>12,
       <1>13, <1>14, <1>15, <1>16, <1>17, <1>18, <1>19, <1>20, <1>21, <1>22, <1>23,
       <1>24, <1>25, <1>26, <1>27
            DEF Next, ThreadStep

\* What the header does not tell is going to be saved.
LEMMA TellsStep ==
  ControlInv /\ CountInv /\ BlockInv /\ PosInv /\ EraseInv /\ TellsInv
    /\ [Next]_vars => TellsInv'
<1> SUFFICES ASSUME ControlInv /\ CountInv /\ BlockInv /\ PosInv /\ EraseInv /\ TellsInv, [Next]_vars
     PROVE TellsInv'
  OBVIOUS
<1> USE SetupAssumption
     DEF ControlInv, CountInv, BlockInv, PosInv, EraseInv, TellsInv, HeaderTellsArea,
         AtEnd, InBlock, Rewriting, None, vars, drive, driver, locals, thread, request,
         history
<1>1. CASE Start
  BY <1>1 DEF Start, Fails
<1>2. CASE HoldAborted
  BY <1>2 DEF HoldAborted
<1>3. CASE FirstHold
  BY <1>3 DEF FirstHold, NothingToDo
<1>4. CASE NextBlock
  BY <1>4 DEF NextBlock, NextSize
<1>5. CASE Hold
  BY <1>5 DEF Hold
<1>6. CASE ReadBlock
  BY <1>6 DEF ReadBlock, AfterRead
<1>7. CASE ReadFails
  BY <1>7 DEF ReadFails, Fails
<1>8. CASE \E bad \in SUBSET Current : ReadSkipping(bad)
  BY <1>8 DEF ReadSkipping, AfterRead, Fails
<1>9. CASE WipeBlock
  BY <1>9 DEF WipeBlock, NextPass, Output, Written
<1>10. CASE WriteBlock
  BY <1>10 DEF WriteBlock, AfterBlock, SaveDue, Output, Written
<1>11. CASE \E part \in SUBSET Current : WriteFails(part)
  BY <1>11 DEF WriteFails, Fails, Output, Written
<1>12. CASE UndoWrite
  BY <1>12 DEF UndoWrite, Restored, Written
<1>13. CASE \E part \in SUBSET Current : UndoFails(part)
  BY <1>13 DEF UndoFails, Fails, Restored, Written
<1>14. CASE SaveInLoop
  BY <1>14 DEF SaveInLoop, SaveDriveVolumeHeader, Saved, Fails
<1>15. CASE Cleanup
  BY <1>15 DEF Cleanup, AllDecrypted
<1>16. CASE ClearArea
  BY <1>16 DEF ClearArea
<1>17. CASE FinalSave
  BY <1>17
       DEF FinalSave, FinalSaveDue, SaveDriveVolumeHeader, Saved, Fails,
           AfterFinalSave, Exit
<1>18. CASE AcquireMutex
  BY <1>18 DEF AcquireMutex, MutexTried
<1>19. CASE Dismount
  BY <1>19 DEF Dismount, Exit
<1>20. CASE \E m \in {"encrypt", "decrypt"} : StartSetup(m)
  BY <1>20 DEF StartSetup
<1>21. CASE RequestAbort
  BY <1>21 DEF RequestAbort
<1>22. CASE OtherRequest
  BY <1>22 DEF OtherRequest
<1>23. CASE RequestDone
  BY <1>23 DEF RequestDone
<1>24. CASE \E u \in Unit : SystemWrite(u)
  BY <1>24 DEF SystemWrite
<1>25. CASE \E part \in SUBSET Interrupted : Crash(part)
  BY <1>25 DEF Crash, MountDrive, Exit, Interrupted, Written, Output
<1>26. CASE Restart
  BY <1>26 DEF Restart, MountDrive, Exit
<1>27. CASE UNCHANGED vars
  BY <1>27
<1> QED BY <1>1, <1>2, <1>3, <1>4, <1>5, <1>6, <1>7, <1>8, <1>9, <1>10, <1>11, <1>12,
       <1>13, <1>14, <1>15, <1>16, <1>17, <1>18, <1>19, <1>20, <1>21, <1>22, <1>23,
       <1>24, <1>25, <1>26, <1>27
            DEF Next, ThreadStep

\* The mutex is with the abort, the thread or another request.
LEMMA MutexStep ==
  ControlInv /\ CountInv /\ MutexInv
    /\ [Next]_vars => MutexInv'
<1> SUFFICES ASSUME ControlInv /\ CountInv /\ MutexInv, [Next]_vars PROVE MutexInv'
  OBVIOUS
<1> USE SetupAssumption
     DEF ControlInv, CountInv, MutexInv, DismountExclusive, vars, drive, driver,
         locals, thread, request, history
<1>1. CASE Start
  BY <1>1 DEF Start, Fails
<1>2. CASE HoldAborted
  BY <1>2 DEF HoldAborted
<1>3. CASE FirstHold
  BY <1>3 DEF FirstHold, NothingToDo
<1>4. CASE NextBlock
  BY <1>4 DEF NextBlock, NextSize
<1>5. CASE Hold
  BY <1>5 DEF Hold
<1>6. CASE ReadBlock
  BY <1>6 DEF ReadBlock, AfterRead
<1>7. CASE ReadFails
  BY <1>7 DEF ReadFails, Fails
<1>8. CASE \E bad \in SUBSET Current : ReadSkipping(bad)
  BY <1>8 DEF ReadSkipping, AfterRead, Fails
<1>9. CASE WipeBlock
  BY <1>9 DEF WipeBlock, NextPass, Output, Written
<1>10. CASE WriteBlock
  BY <1>10 DEF WriteBlock, AfterBlock, SaveDue, Output, Written
<1>11. CASE \E part \in SUBSET Current : WriteFails(part)
  BY <1>11 DEF WriteFails, Fails, Output, Written
<1>12. CASE UndoWrite
  BY <1>12 DEF UndoWrite, Restored, Written
<1>13. CASE \E part \in SUBSET Current : UndoFails(part)
  BY <1>13 DEF UndoFails, Fails, Restored, Written
<1>14. CASE SaveInLoop
  BY <1>14 DEF SaveInLoop, SaveDriveVolumeHeader, Saved, Fails
<1>15. CASE Cleanup
  BY <1>15 DEF Cleanup, AllDecrypted
<1>16. CASE ClearArea
  BY <1>16 DEF ClearArea
<1>17. CASE FinalSave
  BY <1>17
       DEF FinalSave, FinalSaveDue, SaveDriveVolumeHeader, Saved, Fails,
           AfterFinalSave, Exit
<1>18. CASE AcquireMutex
  BY <1>18 DEF AcquireMutex, MutexTried
<1>19. CASE Dismount
  BY <1>19 DEF Dismount, Exit
<1>20. CASE \E m \in {"encrypt", "decrypt"} : StartSetup(m)
  BY <1>20 DEF StartSetup
<1>21. CASE RequestAbort
  BY <1>21 DEF RequestAbort
<1>22. CASE OtherRequest
  BY <1>22 DEF OtherRequest
<1>23. CASE RequestDone
  BY <1>23 DEF RequestDone
<1>24. CASE \E u \in Unit : SystemWrite(u)
  BY <1>24 DEF SystemWrite
<1>25. CASE \E part \in SUBSET Interrupted : Crash(part)
  BY <1>25 DEF Crash, MountDrive, Exit, Interrupted, Written, Output
<1>26. CASE Restart
  BY <1>26 DEF Restart, MountDrive, Exit
<1>27. CASE UNCHANGED vars
  BY <1>27
<1> QED BY <1>1, <1>2, <1>3, <1>4, <1>5, <1>6, <1>7, <1>8, <1>9, <1>10, <1>11, <1>12,
       <1>13, <1>14, <1>15, <1>16, <1>17, <1>18, <1>19, <1>20, <1>21, <1>22, <1>23,
       <1>24, <1>25, <1>26, <1>27
            DEF Next, ThreadStep

\* The header never falls behind by more than is counted.
LEMMA UpdateStep ==
  ControlInv /\ CountInv /\ BlockInv /\ PosInv /\ EraseInv /\ TellsInv /\ UpdateInv
    /\ [Next]_vars => UpdateInv'
<1> SUFFICES ASSUME ControlInv /\ CountInv /\ BlockInv /\ PosInv /\ EraseInv /\ TellsInv /\ UpdateInv, [Next]_vars
     PROVE UpdateInv'
  OBVIOUS
<1> USE SetupAssumption
     DEF ControlInv, CountInv, BlockInv, PosInv, EraseInv, TellsInv, UpdateInv, Length, HeaderTellsArea,
         AtEnd, InBlock, Rewriting, None, vars, drive, driver, locals, thread, request,
         history
<1>1. CASE Start
  BY <1>1 DEF Start, Fails
<1>2. CASE HoldAborted
  BY <1>2 DEF HoldAborted
<1>3. CASE FirstHold
  BY <1>3 DEF FirstHold, NothingToDo
<1>4. CASE NextBlock
  BY <1>4 DEF NextBlock, NextSize
<1>5. CASE Hold
  BY <1>5 DEF Hold
<1>6. CASE ReadBlock
  BY <1>6 DEF ReadBlock, AfterRead
<1>7. CASE ReadFails
  BY <1>7 DEF ReadFails, Fails
<1>8. CASE \E bad \in SUBSET Current : ReadSkipping(bad)
  BY <1>8 DEF ReadSkipping, AfterRead, Fails
<1>9. CASE WipeBlock
  BY <1>9 DEF WipeBlock, NextPass, Output, Written
<1>10. CASE WriteBlock
  BY <1>10 DEF WriteBlock, AfterBlock, SaveDue, Output, Written
<1>11. CASE \E part \in SUBSET Current : WriteFails(part)
  BY <1>11 DEF WriteFails, Fails, Output, Written
<1>12. CASE UndoWrite
  BY <1>12 DEF UndoWrite, Restored, Written
<1>13. CASE \E part \in SUBSET Current : UndoFails(part)
  BY <1>13 DEF UndoFails, Fails, Restored, Written
<1>14. CASE SaveInLoop
  BY <1>14 DEF SaveInLoop, SaveDriveVolumeHeader, Saved, Fails
<1>15. CASE Cleanup
  BY <1>15 DEF Cleanup, AllDecrypted
<1>16. CASE ClearArea
  BY <1>16 DEF ClearArea
<1>17. CASE FinalSave
  BY <1>17
       DEF FinalSave, FinalSaveDue, SaveDriveVolumeHeader, Saved, Fails,
           AfterFinalSave, Exit
<1>18. CASE AcquireMutex
  BY <1>18 DEF AcquireMutex, MutexTried
<1>19. CASE Dismount
  BY <1>19 DEF Dismount, Exit
<1>20. CASE \E m \in {"encrypt", "decrypt"} : StartSetup(m)
  BY <1>20 DEF StartSetup
<1>21. CASE RequestAbort
  BY <1>21 DEF RequestAbort
<1>22. CASE OtherRequest
  BY <1>22 DEF OtherRequest
<1>23. CASE RequestDone
  BY <1>23 DEF RequestDone
<1>24. CASE \E u \in Unit : SystemWrite(u)
  BY <1>24 DEF SystemWrite
<1>25. CASE \E part \in SUBSET Interrupted : Crash(part)
  BY <1>25 DEF Crash, MountDrive, Exit, Interrupted, Written, Output
<1>26. CASE Restart
  BY <1>26 DEF Restart, MountDrive, Exit
<1>27. CASE UNCHANGED vars
  BY <1>27
<1> QED BY <1>1, <1>2, <1>3, <1>4, <1>5, <1>6, <1>7, <1>8, <1>9, <1>10, <1>11, <1>12,
       <1>13, <1>14, <1>15, <1>16, <1>17, <1>18, <1>19, <1>20, <1>21, <1>22, <1>23,
       <1>24, <1>25, <1>26, <1>27
            DEF Next, ThreadStep

-----------------------------------------------------------------------------
(* The theorems.                                                           *)

LEMMA Invariant == Spec => []IInv
<1>1. IInv /\ [Next]_vars => IInv'
  BY ControlStep, CountStep, BlockStep, DataStep, PosStep, DiskStep, EraseStep,
     TellsStep, MutexStep, UpdateStep
       DEF IInv
<1> QED BY InitInv, <1>1, PTL DEF Spec

\* Every variable of the driver and its setup thread keeps to its kind.
THEOREM TypeCorrect == Spec => []TypeOK
<1>1. IInv => TypeOK
  BY SetupAssumption
    
          DEF IInv, ControlInv, CountInv, BlockInv, DataInv, TypeOK, Current, Unit,
              InBlock, Rewriting, Contents
<1> QED BY <1>1, Invariant, PTL

\* While the queue runs, the system that runs from the drive reads back what it
\* stored: each unit is encrypted just when it lies below the end of the
\* encrypted area, also after a write of the setup thread failed and was undone.
THEOREM LiveSafe == Spec => []LiveReadable
<1>1. IInv => LiveReadable
  BY DEF IInv, PosInv, DiskInv, LiveReadable, Rewriting
<1> QED BY <1>1, Invariant, PTL

\* The header, with the only copy of the key, is erased when nothing that could
\* be read is encrypted.
THEOREM EraseSafe == Spec => []ErasedMeansPlain
<1>1. IInv => ErasedMeansPlain
  BY DEF IInv, DiskInv, EraseInv, ErasedMeansPlain, Rewriting, Stored, Unit, None
<1> QED BY <1>1, Invariant, PTL

\* A setup thread that ended left a header that tells how far it came.
THEOREM SavedWhenEnded == Spec => []EndedMeansSaved
<1>1. IInv => EndedMeansSaved
  BY DEF IInv, TellsInv, EndedMeansSaved
<1> QED BY <1>1, Invariant, PTL

\* No other request is served while the thread dismounts the drive.
THEOREM DismountSafe == Spec => []DismountExclusive
<1>1. IInv => DismountExclusive
  BY DEF IInv, MutexInv
<1> QED BY <1>1, Invariant, PTL

Unsaved == sinceUpdate + IF pc \in Rewriting THEN BlockSize ELSE 0

\* The units that a crash would leave unreadable lie between the end of the area
\* the header tells of and the end of the block at work.
LEMMA UnsavedUnits ==
  ASSUME IInv, ~saveFailed,
         NEW u \in Unit \ lost, disk[u] # Stored(header, u)
  PROVE  IF mode = "encrypt"
         THEN u \in Length(header) .. Length(header) + Unsaved - 1
         ELSE u \in Length(header) - Unsaved .. Length(header) - 1
<1> USE DEF None
<1>1. /\ header \in Int /\ encrypted \in Int /\ u \in Nat /\ offset \in Nat
      /\ block \in 1 .. BlockSize /\ BlockSize \in Nat \ {0} /\ sinceUpdate \in Nat
      /\ mode \in {"encrypt", "decrypt"}
  BY SetupAssumption DEF IInv, ControlInv, CountInv, BlockInv, Unit
<1>2. Stored(encrypted, u) # Stored(header, u) \/ (pc \in Rewriting /\ u \in Current)
  BY DEF IInv, DiskInv
<1>3. CASE pc \in Rewriting /\ u \in Current
  <2>1. u >= offset /\ u < offset + block
    BY <1>1, <1>3 DEF Current
  <2>2. IF mode = "encrypt" THEN AtEnd ELSE encrypted = offset + block
    BY <1>3 DEF IInv, PosInv, InBlock
  <2>3. Unsaved = sinceUpdate + BlockSize
    BY <1>3 DEF Unsaved
  <2>4. CASE mode = "encrypt"
    <3>1. Length(encrypted) = offset
      BY <1>1, <2>2, <2>4 DEF AtEnd, Length
    <3>2. offset - Length(header) \in 0 .. sinceUpdate /\ Length(header) \in Int
      BY <1>1, <3>1, <2>4 DEF IInv, UpdateInv, Length
    <3> HIDE DEF None
    <3>3. QED  BY <1>1, <2>1, <2>3, <2>4, <3>2
  <2>5. CASE mode # "encrypt"
    <3>1. Length(encrypted) = offset + block
      BY <1>1, <2>2, <2>5 DEF Length
    <3>2. Length(header) - (offset + block) \in 0 .. sinceUpdate /\ Length(header) \in Int
      BY <1>1, <3>1, <2>5 DEF IInv, UpdateInv, Length
    <3>3. QED  BY <1>1, <2>1, <2>3, <2>5, <3>2
  <2>6. QED  BY <2>4, <2>5
<1>4. CASE Stored(encrypted, u) # Stored(header, u)
  BY <1>1, <1>4 DEF IInv, UpdateInv, Length, Stored, Unsaved
<1>5. QED  BY <1>2, <1>3, <1>4

\* A crash makes no more units unreadable than are rewritten between two saves
\* of the header, a block that was begun included.
THEOREM LossBounded == Spec => []CrashLossBounded
<1>1. ASSUME IInv  PROVE CrashLossBounded
  <2> DEFINE loss == {u \in Unit \ lost : disk[u] # Stored(header, u)}
             first == IF mode = "encrypt" THEN Length(header)
                      ELSE Length(header) - Unsaved
             last == IF mode = "encrypt" THEN Length(header) + Unsaved - 1
                     ELSE Length(header) - 1
  <2> SUFFICES ASSUME ~saveFailed
               PROVE  Cardinality(loss) <= HeaderUpdateThreshold + BlockSize - 1
    BY DEF CrashLossBounded
  <2>1. /\ header \in Int /\ sinceUpdate \in Nat /\ BlockSize \in Nat \ {0}
        /\ HeaderUpdateThreshold \in Nat \ {0} /\ Length(header) \in Int
    BY <1>1, SetupAssumption DEF IInv, CountInv, None, Length
  <2>2. Unsaved \in Nat /\ Unsaved <= HeaderUpdateThreshold + BlockSize - 1
    BY <1>1, <2>1 DEF IInv, UpdateInv, Unsaved, Rewriting
  <2>3. first \in Int /\ last \in Int /\ last - first + 1 = Unsaved
    BY <2>1, <2>2
  <2>4. loss \subseteq first .. last
    BY <1>1, UnsavedUnits
  <2> HIDE DEF first, last
  <2>5. IsFiniteSet(first .. last) /\ Cardinality(first .. last) = Unsaved
    BY <2>2, <2>3, FS_Interval
  <2>6. IsFiniteSet(loss) /\ Cardinality(loss) <= Unsaved
    BY <2>4, <2>5, FS_Subset
  <2>7. Cardinality(loss) \in Nat
    BY <2>6, FS_CardinalityType
  <2> HIDE DEF loss
  <2>8. Cardinality(loss) <= HeaderUpdateThreshold + BlockSize - 1
    BY <2>1, <2>2, <2>6, <2>7
  <2>9. QED  BY <2>8 DEF loss
<1> QED BY <1>1, Invariant, PTL
=============================================================================
