---------------------------- MODULE VolumeHeaders ----------------------------
(***************************************************************************)
(* Everything of the Unix port that writes a volume header:                *)
(* Core/VolumeCreator.cpp with the wizard that starts and aborts it,       *)
(* CoreBase::ChangePassword over Volume::ReEncryptHeader, and the backup   *)
(* and restoring of headers in Main/TextUserInterface.cpp.                 *)
(*                                                                         *)
(* A header is the only place that holds the data key, so one that opens   *)
(* must exist at every moment, and after a change of the password no       *)
(* header may open with the old one.                                       *)
(*                                                                         *)
(* The host is a sequence of blocks of the size of a header.  What a       *)
(* process reads (file) reaches the medium (disk) with a flush; a crash    *)
(* leaves of each header block that was not flushed the old content, the   *)
(* new one or neither.  Passwords stand for passwords with keyfiles, keys  *)
(* for data keys.  A header backup is written to another medium.           *)
(***************************************************************************)
EXTENDS Integers, FiniteSets

CONSTANTS
  Blocks,           \* size of the host
  FatBlocks,        \* blocks a new file system writes
  FillBlocks,       \* File::GetOptimalWriteSize
  Passes,           \* SecureWipePassCount
  Password,
  MaxOperations,
  MaxFailures       \* writes and flushes that fail, and crashes

ASSUME HeadersAssumption ==
  /\ Blocks \in Nat /\ Blocks > 6
  /\ FatBlocks \in 1 .. Blocks - 6 /\ FillBlocks \in Nat \ {0}
  /\ Passes \in Nat \ {0}
  /\ MaxOperations \in Nat /\ MaxFailures \in Nat
  /\ Cardinality(Password) >= 2

Block == 0 .. Blocks - 1
Type == {"normal", "hidden"}
Key == 0 .. MaxOperations + 2       \* 0 for blocks that hold no key

Slot == {0, 1, Blocks - 2, Blocks - 1}     \* where a header can be

VARIABLES
  file,        \* content of each block as a process reads it
  disk,        \* content of each block on the medium
  dirty,       \* blocks written since the last flush
  overwritten, \* history: times a header was flushed in this operation
  op,          \* the operation that runs
  pc,          \* its control state, "idle" when none runs
  creator,     \* state of the VolumeCreator and its thread
  wizard,      \* AbortConfirmationPending and CreationAborted
  backup,      \* header backup file: the two headers
  promise,     \* history: what the user was promised of the volume of each type
  report,      \* history: the last thing the user was told
  operations, failures

host == <<file, disk, dirty, overwritten>>
counters == <<operations, failures>>
vars == <<host, op, pc, creator, wizard, backup, promise, report, counters>>

-----------------------------------------------------------------------------
(* Blocks and headers.                                                     *)

Plain(kind, key) ==
  [kind |-> kind, key |-> key, type |-> "normal", layout |-> "V2", password |-> "none"]
Absent == Plain("absent", 0)        \* behind the end of a new file
Noise == Plain("noise", 0)          \* random data
Torn == Plain("torn", 0)            \* a write that did not complete
Data(key) == Plain("data", key)     \* sectors encrypted with a data key
Header(t, layout, key, password) ==
  [kind |-> "header", key |-> key, type |-> t, layout |-> layout, password |-> password]

\* GetHeaderOffset and GetBackupHeaderOffset of the layouts.
MutantPlace(t, layout, isBackup) ==
  IF layout = "V1" THEN IF t = "normal" THEN 0 ELSE Blocks - 1
  ELSE IF isBackup THEN Blocks - 2
  ELSE IF t = "normal" THEN 0 ELSE 1
Place(t, layout, isBackup) ==
  IF layout = "V1" THEN IF t = "normal" THEN 0 ELSE Blocks - 1
  ELSE IF isBackup THEN IF t = "normal" THEN Blocks - 2 ELSE Blocks - 1
  ELSE IF t = "normal" THEN 0 ELSE 1

HasBackupHeader(layout) == layout = "V2"

\* The header of a type and layout, where it is looked for, opens.
Found(t, layout, isBackup, password) ==
  LET header == file[Place(t, layout, isBackup)]
  IN  /\ header.kind = "header" /\ header.type = t
      /\ header.layout = layout /\ header.password = password
      /\ isBackup => HasBackupHeader(layout)

\* Volume::Open: the type and layout that a password opens; normal volumes are
\* tried first, and a V1 volume without backup headers.
Openings(password, isBackup) ==
  LET found(t) == {l \in {"V1", "V2"} : Found(t, l, isBackup, password)}
  IN  IF found("normal") # {} THEN {<<"normal", l>> : l \in found("normal")}
      ELSE {<<"hidden", l>> : l \in {l \in found("hidden") : "V2" \in found("hidden") => l = "V2"}}

-----------------------------------------------------------------------------
(* Hosts to begin with: without a volume, or with one that was created     *)
(* and maybe has a hidden volume in it and its headers in a backup file.   *)

NoPromise == [key |-> 0, layout |-> "V2", passwords |-> {}, fromBackup |-> FALSE]
Promise(key, layout, passwords) ==
  [key |-> key, layout |-> layout, passwords |-> passwords, fromBackup |-> FALSE]

HostWith(layout, hiddenToo, password) ==
  [b \in Block |->
     IF b \in {Place("normal", layout, i) : i \in BOOLEAN}
     THEN Header("normal", layout, 1, password["normal"])
     ELSE IF hiddenToo /\ b \in {Place("hidden", layout, i) : i \in BOOLEAN}
     THEN Header("hidden", layout, 2, password["hidden"])
     ELSE IF b \in Slot /\ layout = "V2" THEN Noise ELSE Data(1)]

NoBackup == [t \in Type |-> Noise]
NoCreator == [pos |-> 0, abort |-> FALSE, exception |-> FALSE, inProgress |-> FALSE]
NoWizard == [pending |-> FALSE, aborted |-> FALSE]
NoOperation == [kind |-> "none", type |-> "normal", layout |-> "V2", key |-> 0, size |-> 0,
                password |-> "none", quick |-> FALSE, hosted |-> "device",
                fat |-> FALSE, pass |-> 0, second |-> FALSE]

Init ==
  /\ \/ /\ file = [b \in Block |-> Plain("noise", 0)]
        /\ promise = [t \in Type |-> NoPromise]
     \/ \E layout \in {"V1", "V2"}, hiddenToo \in BOOLEAN, p \in [Type -> Password] :
          /\ file = HostWith(layout, hiddenToo, p)
          /\ promise = [t \in Type |->
               IF t = "normal" THEN Promise(1, layout, {p[t]})
               ELSE IF hiddenToo THEN Promise(2, layout, {p[t]}) ELSE NoPromise]
          /\ p["normal"] # p["hidden"]
  /\ backup \in {NoBackup} \union
       (IF promise = [t \in Type |-> NoPromise] THEN {}
        ELSE {[t \in Type |-> file[Place(t, promise["normal"].layout, FALSE)]]})
  /\ disk = file /\ dirty = {} /\ overwritten = [b \in Slot |-> 0]
  /\ op = NoOperation /\ pc = "idle"
  /\ creator = NoCreator /\ wizard = NoWizard
  /\ report = NoOperation
  /\ operations = 0 /\ failures = 0

-----------------------------------------------------------------------------
(* Writing and flushing, and how an operation ends.                        *)

CanStart == pc = "idle" /\ operations < MaxOperations

Put(blocks, content) ==
  /\ file' = [b \in Block |-> IF b \in blocks THEN content ELSE file[b]]
  /\ dirty' = dirty \union blocks
  /\ UNCHANGED <<disk, overwritten>>

\* File::Write throws; the block may be damaged.
PutFails(b) ==
  /\ failures < MaxFailures /\ failures' = failures + 1
  /\ \/ UNCHANGED <<file, dirty>>
     \/ b \in Slot /\ file' = [file EXCEPT ![b] = Torn] /\ dirty' = dirty \union {b}
  /\ UNCHANGED <<disk, overwritten>>

\* File::Flush
Flush ==
  /\ disk' = file /\ dirty' = {}
  /\ overwritten' = [b \in Slot |-> overwritten[b] + IF b \in dirty THEN 1 ELSE 0]
  /\ UNCHANGED file

FlushFails ==
  failures < MaxFailures /\ failures' = failures + 1 /\ UNCHANGED host

Begin(operation, state) ==
  /\ op' = operation /\ pc' = state
  /\ operations' = operations + 1
  /\ report' = NoOperation
  /\ UNCHANGED failures

End(outcome) == op' = NoOperation /\ pc' = "idle" /\ report' = outcome

-----------------------------------------------------------------------------
(* VolumeCreator.                                                          *)

\* The data area of the new volume; a hidden one leaves a block free behind it.
DataStart(o) == IF o.type = "normal" THEN 2 ELSE Blocks - 2 - o.size
DataEnd(o) == IF o.type = "normal" THEN Blocks - 2 ELSE Blocks - 3

\* What the wizard and the text interface let a user choose.  A hidden volume is
\* always made quickly, a file never.
Creations ==
  {o \in [kind : {"create"}, type : Type, layout : {"V2"}, key : {operations + 3},
          size : 0 .. Blocks - 4, password : Password, quick : BOOLEAN,
          hosted : {"file", "device"}, fat : BOOLEAN,
          pass : {0}, second : {FALSE}] :
     /\ IF o.type = "normal" THEN o.size = 0 /\ (o.hosted = "file" => ~o.quick)
        ELSE /\ o.size > 1 /\ o.quick /\ o.hosted = "device"
             /\ promise["normal"] # NoPromise /\ promise["normal"].layout = "V2"
     /\ o.fat => DataStart(o) + FatBlocks <= DataEnd(o)}

StartCreation(o) ==
  /\ CanStart /\ Begin(o, "header")
  /\ file' = [b \in Block |-> IF o.hosted = "file" THEN Absent ELSE file[b]]
  /\ disk' = [b \in Block |-> IF o.hosted = "file" THEN Absent ELSE disk[b]]
  /\ dirty' = (IF o.hosted = "file" THEN {} ELSE dirty)
  /\ overwritten' = [b \in Slot |-> 0]
  /\ promise' = [t \in Type |->
                   IF o.type = "normal" \/ t = "hidden" THEN NoPromise ELSE promise[t]]
  /\ creator' = [NoCreator EXCEPT !.pos = Place(o.type, "V2", FALSE)]
  /\ wizard' = NoWizard
  /\ UNCHANGED backup

\* The block at the file position is written, and the next step of the thread or
\* of CreateVolume follows.
PutNext(content, next) ==
  /\ Put({creator.pos}, content)
  /\ creator' = [creator EXCEPT !.pos = @ + 1]
  /\ pc' = next
  /\ UNCHANGED <<op, wizard, backup, promise, report, counters>>

NewHeader == Header(op.type, "V2", op.key, op.password)

CreateVolumeHeader ==
  /\ pc = "header"
  /\ PutNext(NewHeader, IF op.type = "normal" THEN "noise" ELSE "start")

CreateVolumeNoise == pc = "noise" /\ PutNext(Noise, "start")

AfterFormat(o) == IF o.quick THEN "check" ELSE "fill"

StartThread ==
  /\ pc = "start"
  /\ creator' = [NoCreator EXCEPT !.inProgress = TRUE, !.pos = DataStart(op)]
  /\ pc' = IF op.fat THEN "format" ELSE AfterFormat(op)
  /\ UNCHANGED <<host, op, wizard, backup, promise, report, counters>>

\* FatFormatter::Format, that goes on until it is told of an abort
Format ==
  /\ pc = "format"
  /\ \E n \in 0 .. FatBlocks :
       /\ n < FatBlocks => creator.abort
       /\ Put(creator.pos .. creator.pos + n - 1, Data(op.key))
       /\ creator' = [creator EXCEPT !.pos = @ + n]
  /\ pc' = AfterFormat(op)
  /\ UNCHANGED <<op, wizard, backup, promise, report, counters>>

FillLength(pos, end) == IF pos + FillBlocks > end THEN end - pos ELSE FillBlocks

Fill ==
  /\ pc = "fill"
  /\ IF ~creator.abort /\ creator.pos < DataEnd(op)
     THEN LET n == FillLength(creator.pos, DataEnd(op))
          IN  /\ Put(creator.pos .. creator.pos + n - 1, Data(op.key))
              /\ creator' = [creator EXCEPT !.pos = @ + n]
              /\ pc' = pc
     ELSE pc' = "check" /\ UNCHANGED <<host, creator>>
  /\ UNCHANGED <<op, wizard, backup, promise, report, counters>>

Check ==
  /\ pc = "check"
  /\ pc' = IF creator.abort THEN "close" ELSE "backup"
  /\ UNCHANGED <<host, op, creator, wizard, backup, promise, report, counters>>

\* The backup header of a volume made slowly follows its last data.
BackupPosition(o) ==
  IF o.quick \/ o.type = "hidden" THEN Place(o.type, "V2", TRUE) ELSE creator.pos

CreateBackupHeader ==
  /\ pc = "backup"
  /\ Put({BackupPosition(op)}, NewHeader)
  /\ creator' = [creator EXCEPT !.pos = BackupPosition(op) + 1]
  /\ pc' = IF op.type = "normal" THEN "backupNoise" ELSE "flush"
  /\ UNCHANGED <<op, wizard, backup, promise, report, counters>>

CreateBackupNoise == pc = "backupNoise" /\ PutNext(Noise, "flush")

FlushVolume ==
  /\ pc = "flush" /\ Flush /\ pc' = "close"
  /\ UNCHANGED <<op, creator, wizard, backup, promise, report, counters>>

\* A write or the flush throws: CreateVolume ends, or the thread stores it.
CreationFails ==
  /\ \/ pc \in {"header", "noise", "format", "backupNoise"} /\ PutFails(creator.pos)
     \/ pc = "fill" /\ ~creator.abort /\ creator.pos < DataEnd(op) /\ PutFails(creator.pos)
     \/ pc = "backup" /\ PutFails(BackupPosition(op))
     \/ pc = "flush" /\ FlushFails
  /\ creator' = [creator EXCEPT !.exception = TRUE]
  /\ pc' = IF creator.inProgress THEN "close" ELSE "finished"
  /\ UNCHANGED <<op, wizard, backup, promise, report, operations>>

EndThread ==
  /\ pc = "close" /\ pc' = "finished"
  /\ creator' = [creator EXCEPT !.inProgress = FALSE]
  /\ UNCHANGED <<host, op, wizard, backup, promise, report, counters>>

-----------------------------------------------------------------------------
(* VolumeCreationWizard, and the loop of the text interface that waits and *)
(* cannot abort.                                                           *)

Working == op.kind = "create" /\ (creator.inProgress \/ pc = "finished")

\* OnAbortButtonClick, and OnProgressTimer that asks for confirmation; the thread
\* goes on meanwhile.
AskAbort ==
  /\ Working /\ ~wizard.pending
  /\ wizard' = [wizard EXCEPT !.pending = TRUE]
  /\ UNCHANGED <<host, op, pc, creator, backup, promise, report, counters>>

MutantConfirmed(yes) == [NoWizard EXCEPT !.aborted = wizard.aborted]
Confirmed(yes) == [NoWizard EXCEPT !.aborted = wizard.aborted \/ yes]

AnswerAbort(yes) ==
  /\ wizard.pending
  /\ wizard' = Confirmed(yes)
  /\ creator' = [creator EXCEPT !.abort = @ \/ yes]
  /\ UNCHANGED <<host, op, pc, backup, promise, report, counters>>

Created == ~creator.exception /\ ~wizard.aborted

\* OnVolumeCreatorFinished or CheckResult: the user is told; the wizard, not the
\* text interface, deletes the file of a volume that was not created.
FinishCreation ==
  /\ pc = "finished" /\ ~wizard.pending
  /\ End(IF Created THEN op ELSE NoOperation)
  /\ promise' = IF Created
                THEN [promise EXCEPT ![op.type] = Promise(op.key, "V2", {op.password})]
                ELSE promise
  /\ \/ /\ ~Created /\ op.type = "normal" /\ op.hosted = "file"
        /\ file' = [b \in Block |-> Absent] /\ disk' = [b \in Block |-> Absent]
        /\ dirty' = {} /\ UNCHANGED overwritten
     \/ (Created \/ op.hosted = "device" \/ ~wizard.aborted) /\ UNCHANGED host
  /\ creator' = NoCreator /\ wizard' = NoWizard
  /\ UNCHANGED <<backup, counters>>

-----------------------------------------------------------------------------
(* CoreBase::ChangePassword.                                               *)

\* A password is added to those the user knows for the volume.
Promised(t, key, password, fromBackup) ==
  IF promise[t].key # key THEN promise
  ELSE [promise EXCEPT ![t].passwords = @ \union {password},
                       ![t].fromBackup = @ \/ fromBackup]

OperationOn(kind, t, layout, isBackup, password) ==
  [NoOperation EXCEPT !.kind = kind, !.type = t, !.layout = layout, !.password = password,
                      !.key = file[Place(t, layout, isBackup)].key, !.pass = 1]

StartChange(password, newPassword) ==
  /\ CanStart
  /\ \E o \in Openings(password, FALSE) :
       /\ Begin(OperationOn("change", o[1], o[2], FALSE, newPassword), "reEncrypt")
       /\ promise' = Promised(o[1], file[Place(o[1], o[2], FALSE)].key, newPassword, FALSE)
  /\ overwritten' = [b \in Slot |-> 0]
  /\ UNCHANGED <<file, disk, dirty, creator, wizard, backup>>

HeaderOfOperation == Header(op.type, op.layout, op.key, op.password)
PlaceOfOperation == Place(op.type, op.layout, op.second)

\* Volume::ReEncryptHeader, with a new salt
ReEncryptHeader ==
  /\ pc = "reEncrypt"
  /\ Put({PlaceOfOperation}, HeaderOfOperation)
  /\ pc' = "sync"
  /\ UNCHANGED <<op, creator, wizard, backup, promise, report, counters>>

\* What is left to do after a pass: another one, the backup header, or nothing.
AfterPass(o) ==
  IF o.pass < Passes THEN [o EXCEPT !.pass = @ + 1]
  ELSE IF HasBackupHeader(o.layout) /\ ~o.second THEN [o EXCEPT !.pass = 1, !.second = TRUE]
  ELSE [o EXCEPT !.kind = "none"]

MutantFlushHeader == pc = "sync" /\ UNCHANGED host
FlushHeader == pc = "sync" /\ Flush

ChangePass ==
  /\ FlushHeader
  /\ IF AfterPass(op).kind = "none"
     THEN /\ End(op)
          /\ promise' = [promise EXCEPT ![op.type] =
               IF @.key = op.key THEN Promise(op.key, op.layout, {op.password}) ELSE @]
     ELSE op' = AfterPass(op) /\ pc' = "reEncrypt" /\ UNCHANGED <<promise, report>>
  /\ UNCHANGED <<creator, wizard, backup, counters>>

-----------------------------------------------------------------------------
(* TextUserInterface: header backups.                                      *)

\* BackupVolumeHeaders opens the normal volume, and the hidden one if the user
\* says that there is one; the file keeps their headers or random data.
BackupVolumeHeaders(password, hiddenPassword, hiddenToo) ==
  /\ CanStart
  /\ \E layout \in {"V1", "V2"} :
       /\ Found("normal", layout, FALSE, password)
       /\ hiddenToo => Found("hidden", layout, FALSE, hiddenPassword)
       /\ backup' = [t \in Type |->
            IF t = "normal" \/ hiddenToo THEN file[Place(t, layout, FALSE)] ELSE Noise]
  /\ backup = NoBackup
  /\ operations' = operations + 1 /\ report' = NoOperation
  /\ UNCHANGED <<host, op, pc, creator, wizard, promise, failures>>

\* RestoreVolumeHeaders: the volume is opened with its backup header.
StartRestoreInternal(password) ==
  /\ CanStart
  /\ \E o \in Openings(password, TRUE) :
       Begin(OperationOn("internal", o[1], o[2], TRUE, password), "restore")
  /\ UNCHANGED <<host, creator, wizard, backup, promise>>

\* RestoreVolumeHeaders: the password opens one of the headers of the file.
StartRestoreExternal(password) ==
  /\ CanStart
  /\ \E t \in Type :
       LET h == backup[t]
       IN  /\ h.kind = "header" /\ h.password = password
           /\ t = "hidden" => backup["normal"].password # password
           /\ Begin([NoOperation EXCEPT !.kind = "external", !.type = t, !.layout = h.layout,
                                        !.password = password, !.key = h.key], "restore")
           /\ promise' = IF promise[t].key = h.key THEN Promised(t, h.key, password, TRUE)
                         ELSE [promise EXCEPT ![t] = NoPromise]
  /\ UNCHANGED <<host, creator, wizard, backup>>

AlsoBackup(o) == o.kind = "external" /\ HasBackupHeader(o.layout) /\ ~o.second

RestoreVolumeHeader ==
  /\ pc = "restore"
  /\ Put({PlaceOfOperation}, HeaderOfOperation)
  /\ IF AlsoBackup(op) THEN op' = [op EXCEPT !.second = TRUE] /\ UNCHANGED <<pc, report>>
     ELSE End(op)
  /\ UNCHANGED <<creator, wizard, backup, promise, counters>>

\* A write or a flush throws: the operation is given up.
HeaderWriteFails ==
  /\ \/ pc \in {"reEncrypt", "restore"} /\ PutFails(PlaceOfOperation)
     \/ pc = "sync" /\ FlushFails
  /\ End(NoOperation)
  /\ UNCHANGED <<creator, wizard, backup, promise, operations>>

-----------------------------------------------------------------------------
\* The system goes down and comes up again: of a header block that was not
\* flushed the old content is left, the new one or neither; other blocks are lost.
Crash ==
  /\ failures < MaxFailures /\ failures' = failures + 1
  /\ \E left \in [dirty \intersect Slot -> {"old", "new", "torn"}] :
       file' = [b \in Block |->
         IF b \notin dirty THEN file[b]
         ELSE IF b \notin Slot \/ left[b] = "old" THEN disk[b]
         ELSE IF left[b] = "new" THEN file[b] ELSE Torn]
  /\ disk' = file' /\ dirty' = {} /\ UNCHANGED overwritten
  /\ op' = NoOperation /\ pc' = "idle" /\ creator' = NoCreator /\ wizard' = NoWizard
  /\ report' = IF report.kind \in {"create", "change"} THEN report ELSE NoOperation
  /\ UNCHANGED <<backup, promise, operations>>

Next ==
  \/ \E o \in Creations : StartCreation(o)
  \/ CreateVolumeHeader \/ CreateVolumeNoise \/ StartThread
  \/ Format \/ Fill \/ Check \/ CreateBackupHeader \/ CreateBackupNoise \/ FlushVolume
  \/ CreationFails \/ EndThread
  \/ AskAbort \/ (\E yes \in BOOLEAN : AnswerAbort(yes))
  \/ FinishCreation
  \/ \E p, q \in Password : StartChange(p, q)
  \/ ReEncryptHeader \/ ChangePass
  \/ \E p, q \in Password, hiddenToo \in BOOLEAN : BackupVolumeHeaders(p, q, hiddenToo)
  \/ \E p \in Password : StartRestoreInternal(p) \/ StartRestoreExternal(p)
  \/ RestoreVolumeHeader \/ HeaderWriteFails
  \/ Crash

Spec == Init /\ [][Next]_vars

-----------------------------------------------------------------------------
(* Properties.                                                             *)

Content ==
  [kind : {"absent", "noise", "torn", "data", "header"}, key : Key, type : Type,
   layout : {"V1", "V2"}, password : Password \union {"none"}]

\* Every variable has a value of its kind, only the creator's thread or none works
\* on the host while the wizard waits for it, and nothing runs when pc is idle.
TypeOK ==
  /\ file \in [Block -> Content] /\ disk \in [Block -> Content]
  /\ dirty \subseteq Block /\ overwritten \in [Slot -> 0 .. 2 * Passes]
  /\ op.kind \in {"none", "create", "change", "internal", "external"}
  /\ op.kind = "none" <=> pc = "idle"
  /\ creator.pos \in 0 .. Blocks
  /\ creator.inProgress => op.kind = "create"
  /\ wizard.pending => Working
  /\ backup \in [Type -> Content]
  /\ operations \in 0 .. MaxOperations /\ failures \in 0 .. MaxFailures

\* What the user has of the header of a volume: its places on the host, and the
\* backup file from the moment it is being restored.
Copies(t) ==
  {file[Place(t, "V2", i)] : i \in BOOLEAN}
    \union (IF promise[t].fromBackup THEN {backup[t]} ELSE {})

\* A volume with a backup header can be opened at every moment with a password its
\* owner knows, whichever write fails or wherever the system goes down while
\* passwords are changed, headers restored, or a hidden volume made in it.
HeaderSurvives ==
  \A t \in Type :
    promise[t].key # 0 /\ promise[t].layout = "V2" =>
      \E h \in Copies(t) :
        /\ h.kind = "header" /\ h.type = t /\ h.key = promise[t].key
        /\ h.password \in promise[t].passwords

\* When the user is told that the password was changed, no header of the volume
\* opens with another one, also not on the medium after a crash, and each header
\* was overwritten there as often as wiping asks for.
OldPasswordGone ==
  report.kind = "change" =>
    \A i \in {i \in BOOLEAN : i => HasBackupHeader(report.layout)} :
      LET b == Place(report.type, report.layout, i)
      IN  /\ disk[b] = Header(report.type, report.layout, report.key, report.password)
          /\ overwritten[b] >= Passes

\* A volume that the user is told was created has both headers and its whole data
\* area on the medium, and no header is left of what was there before: an abort
\* that comes at any moment, or an error, is never taken for success.
CreatedIsComplete ==
  report.kind = "create" =>
    /\ \A i \in BOOLEAN :
         disk[Place(report.type, "V2", i)] = Header(report.type, "V2", report.key, report.password)
    /\ report.type = "normal" =>
         \A i \in BOOLEAN : disk[Place("hidden", "V2", i)] = Noise
    /\ report.fat => disk[DataStart(report)] = Data(report.key)
    /\ ~report.quick =>
         \A b \in DataStart(report) .. DataEnd(report) - 1 : disk[b] = Data(report.key)

\* When the user is told that headers were restored, the volume opens with the
\* password given: both headers when they come from a backup file.
RestoredOpens ==
  report.kind \in {"internal", "external"} =>
    \A i \in {i \in BOOLEAN : i => report.kind = "external" /\ HasBackupHeader(report.layout)} :
      file[Place(report.type, report.layout, i)]
        = Header(report.type, report.layout, report.key, report.password)

\* The program never reports more than it has done: see the three parts.
ReportHolds == OldPasswordGone /\ CreatedIsComplete /\ RestoredOpens

\* What is done to one volume of a host never changes a header of the other one,
\* and making a hidden volume changes nothing outside of its place.
OtherVolumeIntact ==
  [][ ~Crash =>
        /\ \A t \in Type, i \in BOOLEAN :
             promise[t].key # 0 /\ promise'[t] = promise[t] /\ op.kind # "none" /\ op.type # t
               => LET b == Place(t, promise[t].layout, i) IN file'[b] = file[b]
        /\ op.kind = "create" /\ op.type = "hidden" =>
             \A b \in Block \ Slot : b < DataStart(op) => file'[b] = file[b] ]_vars
=============================================================================
