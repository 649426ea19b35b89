------------------------- MODULE VolumeHeaders_proof -------------------------
(***************************************************************************)
(* Proofs about VolumeHeaders, for any size of the host, any number of     *)
(* passwords, passes and operations and, where it is not said otherwise,   *)
(* of failures and crashes.                                                *)
(***************************************************************************)
EXTENDS VolumeHeaders, TLAPS

-----------------------------------------------------------------------------
(* Types.                                                                  *)

Layout == {"V1", "V2"}

Operation ==
  [kind : {"none", "create", "change", "internal", "external"}, type : Type, layout : Layout,
   key : Key, size : 0 .. Blocks - 4, password : Password \union {"none"}, quick : BOOLEAN,
   hosted : {"file", "device"}, fat : BOOLEAN, pass : 0 .. Passes, second : BOOLEAN]

\* Control states of the creation before its thread runs, and of the thread
Before == {"header", "noise", "start"}
Thread == {"format", "fill", "check", "backup", "backupNoise", "flush", "close"}

\* The operation, its control state and the one that the wizard waits for agree.
StateInv ==
  /\ pc \in {"idle", "reEncrypt", "sync", "restore", "finished"} \union Before \union Thread
  /\ op.kind = "none" <=> pc = "idle"
  /\ op.kind = "create" <=> pc \in Before \union Thread \union {"finished"}
  /\ op.kind = "change" <=> pc \in {"reEncrypt", "sync"}
  /\ creator.inProgress <=> pc \in Thread
  /\ wizard.pending => pc \in Thread \union {"finished"}
  /\ creator.abort => wizard.aborted
  /\ report.kind # "none" => pc = "idle"
  /\ op.kind # "none" => op.password \in Password

TypeInv ==
  /\ file \in [Block -> Content] /\ disk \in [Block -> Content]
  /\ dirty \subseteq Block /\ overwritten \in [Slot -> Nat]
  /\ op \in Operation /\ report \in Operation
  /\ creator \in [pos : 0 .. Blocks, abort : BOOLEAN, exception : BOOLEAN, inProgress : BOOLEAN]
  /\ wizard \in [pending : BOOLEAN, aborted : BOOLEAN]
  /\ backup \in [Type -> Content]
  /\ promise \in [Type -> [key : Key, layout : Layout, passwords : SUBSET Password,
                           fromBackup : BOOLEAN]]
  /\ operations \in 0 .. MaxOperations /\ failures \in 0 .. MaxFailures
  /\ StateInv

-----------------------------------------------------------------------------
(* The inductive invariant.                                                *)

\* What is not dirty is on the medium.
SyncInv == \A b \in Block \ dirty : disk[b] = file[b]

\* The first and, where there is one, the backup header of a type
First(t) == Place(t, "V2", FALSE)
Second(t) == Place(t, "V2", TRUE)

\* What a creation has written when it comes to a control state.
HeaderWritten(o) ==
  /\ file[First(o.type)] = Header(o.type, "V2", o.key, o.password)
  /\ o.type = "normal" => file[1] = Noise

DataWritten(o, from, end) == \A b \in from .. end - 1 : file[b] = Data(o.key)

Filled(o) ==
  /\ o.fat => file[DataStart(o)] = Data(o.key)
  /\ ~o.quick => DataWritten(o, DataStart(o), DataEnd(o))

Complete(o) ==
  /\ HeaderWritten(o) /\ Filled(o)
  /\ file[Second(o.type)] = Header(o.type, "V2", o.key, o.password)
  /\ o.type = "normal" => file[Second("hidden")] = Noise

\* The file position is in the data area, with what was written before it.
InArea ==
  /\ creator.pos \in DataStart(op) .. DataEnd(op)
  /\ op.fat /\ ~creator.abort => creator.pos > DataStart(op)
  /\ DataWritten(op, DataStart(op), creator.pos)

\* What the user may have chosen.
ShapeInv ==
  /\ op.layout = "V2"
  /\ op.type = "hidden" => op.size > 1 /\ op.quick /\ op.hosted = "device"
  /\ op.type = "normal" => op.size = 0
  /\ op.fat => DataStart(op) + FatBlocks <= DataEnd(op)

StageInv ==
  /\ pc \in Before \union (Thread \ {"close"}) => ~creator.exception
  /\ pc = "header" => creator.pos = First(op.type)
  /\ pc = "noise" => op.type = "normal" /\ creator.pos = 1 /\ file[0] = NewHeader
  /\ pc \in {"start"} \union (Thread \ {"close"}) => HeaderWritten(op)
  /\ pc = "format" => op.fat /\ creator.pos = DataStart(op)
  /\ pc \in {"fill", "check", "backup"} => InArea
  /\ pc = "fill" => ~op.quick
  /\ pc = "check" /\ ~creator.abort /\ ~op.quick => creator.pos = DataEnd(op)
  /\ pc = "backup" => Filled(op) /\ (~op.quick => creator.pos = DataEnd(op))
  /\ pc = "backupNoise" => /\ op.type = "normal" /\ creator.pos = Blocks - 1 /\ Filled(op)
                           /\ file[Second("normal")] = NewHeader
  /\ pc = "flush" => Complete(op)
  /\ pc \in {"close", "finished"} /\ ~creator.exception /\ ~creator.abort =>
       dirty = {} /\ Complete(op)

CreateInv == op.kind = "create" => ShapeInv /\ StageInv

\* A header that was written in this pass waits for the flush; in the second round
\* the first header has the new password on the medium.
ChangeInv ==
  op.kind = "change" =>
    /\ op.pass \in 1 .. Passes
    /\ op.second => /\ op.layout = "V2"
                    /\ file[First(op.type)] = HeaderOfOperation
                    /\ First(op.type) \notin dirty
                    /\ overwritten[First(op.type)] >= Passes
    /\ overwritten[PlaceOfOperation] >= op.pass - 1
    /\ pc = "sync" => PlaceOfOperation \in dirty /\ file[PlaceOfOperation] = HeaderOfOperation

RestoreInv ==
  /\ op.kind = "internal" => ~op.second
  /\ op.kind = "external" /\ op.second =>
       op.layout = "V2" /\ file[First(op.type)] = HeaderOfOperation

\* What the user was told is still so; of a change or a creation nothing is dirty.
ToldInv ==
  /\ report.kind \in {"create", "change"} => dirty = {}
  /\ OldPasswordGone /\ CreatedIsComplete /\ RestoredOpens

\* A change flushes a block at most once in each pass: that of the first header, where
\* a backup header that was restored and not yet flushed goes along, and of the second.
CountInv ==
  \A b \in Slot :
    /\ overwritten[b] <= 2 * Passes
    /\ op.kind = "change" =>
         overwritten[b] <= op.pass - 1 + (IF op.second THEN Passes ELSE 0)
    /\ pc \in Before \union (Thread \ {"close"}) => overwritten[b] = 0

\* What the creation of a volume takes away is no longer promised.
PromiseInv ==
  op.kind = "create" =>
    /\ promise["hidden"] = NoPromise
    /\ op.type = "normal" => promise["normal"] = NoPromise
    /\ op.type = "hidden" => promise["normal"].layout = "V2"

WorkInv == SyncInv /\ CreateInv /\ ChangeInv /\ RestoreInv /\ ToldInv /\ CountInv /\ PromiseInv

\* A header that an operation finds is of a volume as it was promised: a key
\* is that of one volume, with one layout, and a new one is its own.
Known(c, promises, o, n) ==
  c.kind = "header" =>
    /\ c.key # 0 /\ c.key <= n + 2
    /\ c.key = promises[c.type].key => c.layout = promises[c.type].layout
    /\ o.kind = "create" /\ c.key = o.key => c.layout = "V2"

KeyInv ==
  /\ \A b \in Block : /\ Known(file[b], promise, op, operations)
                      /\ Known(disk[b], promise, op, operations)
  /\ \A t \in Type : /\ Known(backup[t], promise, op, operations)
                     /\ backup[t].kind = "header" => backup[t].type = t
  /\ op.kind # "none" => op.key # 0 /\ op.key <= operations + 2
  /\ op.kind \notin {"none", "create"} /\ op.key = promise[op.type].key =>
       op.layout = promise[op.type].layout

\* A header of the volume that was promised, with a password its owner knows
Good(t, c, p) ==
  /\ c.kind = "header" /\ c.type = t /\ c.layout = "V2" /\ c.key = p.key
  /\ c.password \in p.passwords

Owned(t) == promise[t].key # 0 /\ promise[t].layout = "V2"

\* The one of the two headers that is not being written is on the medium.
OneFlushed(t) ==
  \/ promise[t].fromBackup
  \/ op.kind = "change" /\ op.type = t /\ op.second /\ First(t) \notin dirty
  \/ Second(t) \notin dirty

\* As long as nothing has failed both headers of a volume are good, and no more
\* than one of them is not on the medium; the first failure may damage that one.
SafeInv(t) ==
  Owned(t) =>
    /\ promise[t].fromBackup => Good(t, backup[t], promise[t])
    /\ op.type = t /\ op.kind \notin {"none", "create"} =>
         /\ op.key = promise[t].key /\ op.password \in promise[t].passwords
         /\ op.kind = "external" => promise[t].fromBackup
    /\ \A b \in {First(t), Second(t)} :
         Good(t, file[b], promise[t]) \/ (failures > 0 /\ file[b] = Torn)
    /\ promise[t].fromBackup \/ \E b \in {First(t), Second(t)} : Good(t, file[b], promise[t])
    /\ failures = 0 => /\ \A b \in {First(t), Second(t)} : Good(t, disk[b], promise[t])
                       /\ OneFlushed(t)

-----------------------------------------------------------------------------
(* Places of headers, and what operations do to the blocks.                *)

\* Every place of a header is one of the slots; the four places of the layout V2
\* are four slots, and the two types have no place in common.
LEMMA Places ==
  /\ Slot \subseteq Block
  /\ First("normal") = 0 /\ First("hidden") = 1
  /\ Second("normal") = Blocks - 2 /\ Second("hidden") = Blocks - 1
  /\ \A t \in Type, l \in Layout, i \in BOOLEAN :
       Place(t, l, i) \in {First(t), Second(t)} /\ Place(t, l, i) \in Block
  /\ \A t \in Type : {First(t), Second(t)} \subseteq Slot /\ First(t) # Second(t)
  /\ \A t, u \in Type : t # u => {First(t), Second(t)} \cap {First(u), Second(u)} = {}
<1>1. /\ First("normal") = 0 /\ First("hidden") = 1
      /\ Second("normal") = Blocks - 2 /\ Second("hidden") = Blocks - 1
  BY DEF First, Second, Place
<1>2. Slot \subseteq Block
  BY HeadersAssumption DEF Slot, Block
<1>3. ASSUME NEW t \in Type, NEW l \in Layout, NEW i \in BOOLEAN
      PROVE  Place(t, l, i) \in {First(t), Second(t)}
  BY <1>1 DEF Type, Layout, Place
<1>4. Blocks \in Nat /\ Blocks > 6
  BY HeadersAssumption
<1>5. \A t \in Type : {First(t), Second(t)} \subseteq Slot /\ First(t) # Second(t)
  BY <1>1, <1>4 DEF Type, Slot
<1>6. \A t, u \in Type : t # u => {First(t), Second(t)} \cap {First(u), Second(u)} = {}
  BY <1>1, <1>4 DEF Type
<1>7. \A t \in Type, l \in Layout, i \in BOOLEAN :
        Place(t, l, i) \in {First(t), Second(t)} /\ Place(t, l, i) \in Block
  BY <1>2, <1>3, <1>5
<1>8. QED
  BY <1>1, <1>2, <1>5, <1>6, <1>7

\* A block is written and the others keep what they had.
LEMMA PutEffect ==
  ASSUME NEW blocks, NEW content, Put(blocks, content)
  PROVE  /\ \A b \in Block : file'[b] = IF b \in blocks THEN content ELSE file[b]
         /\ dirty' = dirty \union blocks /\ disk' = disk /\ overwritten' = overwritten
BY DEF Put

\* A write that fails leaves the block as it was, or damaged if a header may be there.
LEMMA PutFailsEffect ==
  ASSUME NEW c, TypeInv, PutFails(c)
  PROVE  /\ failures' = failures + 1 /\ failures < MaxFailures
         /\ disk' = disk /\ overwritten' = overwritten
         /\ \/ file' = file /\ dirty' = dirty
            \/ /\ c \in Slot /\ dirty' = dirty \union {c}
               /\ \A b \in Block : file'[b] = IF b = c THEN Torn ELSE file[b]
BY Places DEF PutFails, TypeInv

\* The contents of blocks that the program writes.
LEMMA Contents ==
  /\ {Absent, Noise, Torn} \subseteq Content
  /\ \A k \in Key : Data(k) \in Content
  /\ \A t \in Type, l \in Layout, k \in Key, p \in Password \union {"none"} :
       Header(t, l, k, p) \in Content
BY HeadersAssumption
   DEF Absent, Noise, Torn, Data, Plain, Header, Content, Type, Layout, Key

\* Written blocks keep the type of the host.
LEMMA PutType ==
  ASSUME TypeInv, NEW blocks, blocks \subseteq Block, NEW content \in Content,
         Put(blocks, content)
  PROVE  file' \in [Block -> Content] /\ dirty' \subseteq Block
         /\ disk' \in [Block -> Content] /\ overwritten' \in [Slot -> Nat]
BY DEF Put, TypeInv

LEMMA PutFailsType ==
  ASSUME TypeInv, NEW c, PutFails(c)
  PROVE  file' \in [Block -> Content] /\ dirty' \subseteq Block
         /\ disk' \in [Block -> Content] /\ overwritten' \in [Slot -> Nat]
         /\ failures' \in 0 .. MaxFailures
<1>1. Torn \in Content
  BY Contents
<1>2. QED
  BY <1>1, Places, HeadersAssumption DEF PutFails, TypeInv

LEMMA FlushType ==
  ASSUME TypeInv, Flush
  PROVE  file' \in [Block -> Content] /\ dirty' \subseteq Block
         /\ disk' \in [Block -> Content] /\ overwritten' \in [Slot -> Nat]
         /\ \A b \in Slot : overwritten'[b] = overwritten[b] + IF b \in dirty THEN 1 ELSE 0
BY DEF Flush, TypeInv

\* A header that opens is of the type and layout that were looked for, with the
\* password that was given.
LEMMA OpeningsFound ==
  ASSUME NEW p \in Password, NEW i \in BOOLEAN, NEW o \in Openings(p, i)
  PROVE  /\ o[1] \in Type /\ o[2] \in Layout
         /\ Found(o[1], o[2], i, p)
BY DEF Openings, Type, Layout

-----------------------------------------------------------------------------
(* The types are inductive.                                                *)

LEMMA Nothing == NoOperation \in Operation /\ NoOperation.kind = "none"
BY HeadersAssumption DEF NoOperation, Operation, Type, Layout, Key

LEMMA InitType == Init => TypeInv
<1> SUFFICES ASSUME Init  PROVE TypeInv
  OBVIOUS
<1>1. file \in [Block -> Content]
  <2>1. ASSUME NEW layout \in Layout, NEW hiddenToo \in BOOLEAN, NEW p \in [Type -> Password]
        PROVE  HostWith(layout, hiddenToo, p) \in [Block -> Content]
    <3>1. /\ {1, 2} \subseteq Key /\ p["normal"] \in Password \union {"none"}
          /\ p["hidden"] \in Password \union {"none"} /\ {"normal", "hidden"} \subseteq Type
      BY HeadersAssumption DEF Key, Type
    <3>2. /\ {Noise, Data(1)} \subseteq Content
          /\ Header("normal", layout, 1, p["normal"]) \in Content
          /\ Header("hidden", layout, 2, p["hidden"]) \in Content
      BY <3>1, Contents
    <3>3. QED  BY <3>2 DEF HostWith
  <2>2. Plain("noise", 0) \in Content
    BY Contents DEF Noise
  <2>3. QED  BY <2>1, <2>2 DEF Init, Layout
<1>2. promise \in [Type -> [key : Key, layout : Layout, passwords : SUBSET Password,
                            fromBackup : BOOLEAN]]
  <2>1. {0, 1, 2} \subseteq Key
    BY HeadersAssumption DEF Key
  <2>2. CASE promise = [t \in Type |-> NoPromise]
    BY <2>1, <2>2 DEF NoPromise, Layout
  <2>3. ASSUME NEW layout \in Layout, NEW hiddenToo \in BOOLEAN, NEW p \in [Type -> Password],
               promise = [t \in Type |->
                 IF t = "normal" THEN Promise(1, layout, {p[t]})
                 ELSE IF hiddenToo THEN Promise(2, layout, {p[t]}) ELSE NoPromise]
        PROVE  promise \in [Type -> [key : Key, layout : Layout, passwords : SUBSET Password,
                                     fromBackup : BOOLEAN]]
    BY <2>1, <2>3 DEF Promise, NoPromise, Layout
  <2>4. CASE \E layout \in {"V1", "V2"}, hiddenToo \in BOOLEAN, p \in [Type -> Password] :
               /\ file = HostWith(layout, hiddenToo, p)
               /\ promise = [t \in Type |->
                    IF t = "normal" THEN Promise(1, layout, {p[t]})
                    ELSE IF hiddenToo THEN Promise(2, layout, {p[t]}) ELSE NoPromise]
               /\ p["normal"] # p["hidden"]
    <3>1. PICK layout \in {"V1", "V2"}, hiddenToo \in BOOLEAN, p \in [Type -> Password] :
            promise = [t \in Type |->
              IF t = "normal" THEN Promise(1, layout, {p[t]})
              ELSE IF hiddenToo THEN Promise(2, layout, {p[t]}) ELSE NoPromise]
      BY <2>4
    <3>2. layout \in Layout
      BY DEF Layout
    <3>3. QED  BY <2>3, <3>1, <3>2
  <2>5. QED  BY <2>2, <2>4 DEF Init
<1>3. backup \in [Type -> Content]
  <2>1. NoBackup \in [Type -> Content]
    BY Contents DEF NoBackup
  <2>2. \A t \in Type : Place(t, promise["normal"].layout, FALSE) \in Block
    BY <1>2, Places DEF Type
  <2>3. [t \in Type |-> file[Place(t, promise["normal"].layout, FALSE)]] \in [Type -> Content]
    BY <1>1, <2>2
  <2>4. QED  BY <2>1, <2>3 DEF Init
<1>4. /\ creator \in [pos : 0 .. Blocks, abort : BOOLEAN, exception : BOOLEAN,
                      inProgress : BOOLEAN]
      /\ wizard \in [pending : BOOLEAN, aborted : BOOLEAN]
  BY HeadersAssumption DEF Init, NoCreator, NoWizard
<1>5. StateInv
  BY Nothing DEF Init, StateInv, Before, Thread, NoCreator, NoWizard
<1>6. /\ dirty \subseteq Block /\ overwritten \in [Slot -> Nat] /\ disk \in [Block -> Content]
      /\ operations \in 0 .. MaxOperations /\ failures \in 0 .. MaxFailures
  BY <1>1, HeadersAssumption DEF Init
<1>7. QED
  BY <1>1, <1>2, <1>3, <1>4, <1>5, <1>6, Nothing DEF Init, TypeInv

\* The header of an operation is the content of a block, and has its place.
LEMMA HeaderTypes ==
  ASSUME TypeInv
  PROVE  /\ NewHeader \in Content /\ HeaderOfOperation \in Content /\ Data(op.key) \in Content
         /\ PlaceOfOperation \in {First(op.type), Second(op.type)} /\ PlaceOfOperation \in Block
<1>1. /\ op.type \in Type /\ op.layout \in Layout /\ op.key \in Key
      /\ op.password \in Password \union {"none"} /\ op.second \in BOOLEAN /\ "V2" \in Layout
  BY DEF TypeInv, Operation, Layout
<1>2. QED
  BY <1>1, Contents, Places DEF NewHeader, HeaderOfOperation, PlaceOfOperation

LEMMA CreationTypes ==
  ASSUME TypeInv, NEW o \in Creations, operations < MaxOperations
  PROVE  o \in Operation /\ o.kind = "create" /\ o.key = operations + 3 /\ o.password \in Password
<1>1. /\ o \in [kind : {"create"}, type : Type, layout : {"V2"}, key : {operations + 3},
                size : 0 .. Blocks - 4, password : Password, quick : BOOLEAN,
                hosted : {"file", "device"}, fat : BOOLEAN, pass : {0}, second : {FALSE}]
  BY DEF Creations
<1>2. operations + 3 \in Key /\ 0 \in 0 .. Passes
  BY HeadersAssumption DEF TypeInv, Key
<1>3. QED
  BY <1>1, <1>2 DEF Operation, Layout

LEMMA StartCreationType ==
  ASSUME TypeInv, NEW o \in Creations, StartCreation(o)  PROVE TypeInv'
<1>1. /\ o \in Operation /\ o.kind = "create" /\ o.password \in Password
      /\ operations < MaxOperations
  BY CreationTypes DEF StartCreation, CanStart
<1>2. Absent \in Content
  BY Contents
<1>3. Place(o.type, "V2", FALSE) \in 0 .. Blocks
  <2>1. o.type \in Type /\ "V2" \in Layout
    BY <1>1 DEF Operation, Layout
  <2>2. Place(o.type, "V2", FALSE) \in Block
    BY <2>1, Places
  <2>3. \A b \in Block : b \in 0 .. Blocks
    BY HeadersAssumption DEF Block
  <2>4. QED  BY <2>2, <2>3
<1>4. /\ file' \in [Block -> Content] /\ disk' \in [Block -> Content] /\ dirty' \subseteq Block
      /\ overwritten' \in [Slot -> Nat]
  BY <1>2 DEF StartCreation, TypeInv
<1>5. /\ op' = o /\ pc' = "header" /\ operations' = operations + 1 /\ report' = NoOperation
      /\ failures' = failures /\ backup' = backup /\ wizard' = NoWizard
      /\ creator' = [pos |-> Place(o.type, "V2", FALSE), abort |-> FALSE, exception |-> FALSE,
                     inProgress |-> FALSE]
  BY DEF StartCreation, Begin, NoCreator
<1>6. promise' \in [Type -> [key : Key, layout : Layout, passwords : SUBSET Password,
                             fromBackup : BOOLEAN]]
  BY HeadersAssumption DEF StartCreation, TypeInv, NoPromise, Key, Layout
<1>7. StateInv'
  BY <1>1, <1>5, Nothing DEF StateInv, NoWizard, Before, Thread
<1>8. /\ op' \in Operation /\ report' \in Operation
      /\ creator' \in [pos : 0 .. Blocks, abort : BOOLEAN, exception : BOOLEAN, inProgress : BOOLEAN]
      /\ wizard' \in [pending : BOOLEAN, aborted : BOOLEAN]
  BY <1>1, <1>3, <1>5, Nothing DEF NoWizard
<1>9. operations' \in 0 .. MaxOperations
  BY <1>1, <1>5, HeadersAssumption DEF TypeInv
<1>10. QED
  BY <1>4, <1>5, <1>6, <1>7, <1>8, <1>9 DEF TypeInv

\* The steps of a creation: the rest of a type follows from the position.
LEMMA CreatorStep ==
  ASSUME TypeInv, op.kind = "create",
         file' \in [Block -> Content], disk' \in [Block -> Content], dirty' \subseteq Block,
         overwritten' \in [Slot -> Nat],
         creator' \in [pos : 0 .. Blocks, abort : BOOLEAN, exception : BOOLEAN,
                       inProgress : BOOLEAN],
         pc' \in Before \union Thread \union {"finished"},
         creator'.inProgress <=> pc' \in Thread,
         pc \in Thread \union {"finished"} => pc' \in Thread \union {"finished"},
         creator'.abort => wizard.aborted,
         failures' \in 0 .. MaxFailures,
         UNCHANGED <<op, wizard, backup, promise, report, operations>>
  PROVE  TypeInv'
BY DEF TypeInv, StateInv, Before, Thread

\* The data area lies between the headers; what is written outside of it is a header.
LEMMA Area ==
  ASSUME TypeInv, CreateInv, op.kind = "create"
  PROVE  /\ DataStart(op) \in 2 .. Blocks - 2 /\ DataEnd(op) \in DataStart(op) .. Blocks - 2
         /\ DataStart(op) \in Block
         /\ \A b \in DataStart(op) .. DataEnd(op) - 1 : b \in Block \ Slot
         /\ pc = "backup" => BackupPosition(op) = Second(op.type)
         /\ pc \in {"header", "noise", "format", "backupNoise"} => creator.pos \in Block
         /\ pc = "format" => DataStart(op) + FatBlocks <= DataEnd(op)
         /\ pc \in {"fill", "check", "backup"} => creator.pos \in DataStart(op) .. DataEnd(op)
         /\ Second(op.type) \in Block
<1>1. /\ op.type \in {"normal", "hidden"} /\ op.size \in 0 .. Blocks - 4
      /\ op.type = "hidden" => op.size > 1
  BY DEF TypeInv, Operation, Type, CreateInv, ShapeInv
<1>2. Blocks \in Nat /\ Blocks > 6 /\ FatBlocks \in Nat \ {0}
  BY HeadersAssumption
<1>3. DataStart(op) \in 2 .. Blocks - 2 /\ DataEnd(op) \in DataStart(op) .. Blocks - 2
  BY <1>1, <1>2 DEF DataStart, DataEnd
<1>4. /\ DataStart(op) \in Block
      /\ \A b \in DataStart(op) .. DataEnd(op) - 1 : b \in Block \ Slot
  BY <1>2, <1>3 DEF Block, Slot
<1>5. First(op.type) \in Block /\ Second(op.type) \in Block
  BY <1>1, Places DEF Type
<1>6. ASSUME pc = "backup"  PROVE BackupPosition(op) = Second(op.type)
  <2>1. CASE op.quick \/ op.type = "hidden"
    BY <2>1 DEF BackupPosition, Second
  <2>2. CASE ~op.quick /\ op.type = "normal"
    <3>1. creator.pos = Blocks - 2
      BY <1>6, <2>2 DEF CreateInv, ShapeInv, StageInv, DataEnd
    <3>2. QED  BY <2>2, <3>1, Places DEF BackupPosition
  <2>3. QED  BY <1>1, <2>1, <2>2
<1>7. pc \in {"header", "noise", "format", "backupNoise"} => creator.pos \in Block
  <2>1. 1 \in Block /\ Blocks - 1 \in Block
    BY <1>2 DEF Block
  <2>2. QED  BY <1>4, <1>5, <2>1 DEF CreateInv, ShapeInv, StageInv
<1>8. /\ pc = "format" => DataStart(op) + FatBlocks <= DataEnd(op)
      /\ pc \in {"fill", "check", "backup"} => creator.pos \in DataStart(op) .. DataEnd(op)
  BY DEF CreateInv, ShapeInv, StageInv, InArea
<1>9. QED
  BY <1>3, <1>4, <1>5, <1>6, <1>7, <1>8

LEMMA PutNextType ==
  ASSUME TypeInv, CreateInv, op.kind = "create", creator.pos \in Block,
         NEW content \in Content, NEW next \in Before \union (Thread \ {"close"}),
         PutNext(content, next), pc # "finished", pc \in Thread <=> next \in Thread
  PROVE  TypeInv'
<1>1. Put({creator.pos}, content)
  BY DEF PutNext
<1>2. /\ file' \in [Block -> Content] /\ disk' \in [Block -> Content] /\ dirty' \subseteq Block
      /\ overwritten' \in [Slot -> Nat]
  BY <1>1, PutType
<1>3. /\ creator' = [creator EXCEPT !.pos = @ + 1] /\ pc' = next
      /\ UNCHANGED <<op, wizard, backup, promise, report, counters>>
  BY DEF PutNext
<1>4. creator.pos + 1 \in 0 .. Blocks
  BY HeadersAssumption DEF Block
<1>5. /\ creator' \in [pos : 0 .. Blocks, abort : BOOLEAN, exception : BOOLEAN,
                       inProgress : BOOLEAN]
      /\ creator'.abort = creator.abort /\ creator'.inProgress = creator.inProgress
  BY <1>3, <1>4 DEF TypeInv
<1>6. QED
  BY <1>2, <1>3, <1>5, CreatorStep DEF TypeInv, StateInv, Before, Thread, counters

LEMMA CreationType ==
  ASSUME TypeInv, CreateInv,
         \/ CreateVolumeHeader \/ CreateVolumeNoise \/ StartThread
         \/ Format \/ Fill \/ Check \/ CreateBackupHeader \/ CreateBackupNoise
         \/ FlushVolume \/ EndThread
  PROVE  TypeInv'
<1>1. op.kind = "create"
  BY
    DEF TypeInv, StateInv, Before, Thread, CreateVolumeHeader, CreateVolumeNoise,
        StartThread,
         Format, Fill, Check, CreateBackupHeader, CreateBackupNoise, FlushVolume, EndThread
<1>2. /\ NewHeader \in Content /\ Noise \in Content /\ Data(op.key) \in Content
  BY HeaderTypes, Contents
<1>3. Blocks \in Nat /\ FatBlocks \in Nat /\ FillBlocks \in Nat \ {0}
  BY HeadersAssumption
<1>4. CASE CreateVolumeHeader
  <2>1. PutNext(NewHeader, IF op.type = "normal" THEN "noise" ELSE "start") /\ pc = "header"
    BY <1>4 DEF CreateVolumeHeader
  <2>2. (IF op.type = "normal" THEN "noise" ELSE "start") \in Before /\ "header" \notin Thread
        /\ (IF op.type = "normal" THEN "noise" ELSE "start") \notin Thread
    BY DEF Before, Thread
  <2>3. QED  BY <1>1, <1>2, <2>1, <2>2, Area, PutNextType
<1>5. CASE CreateVolumeNoise
  BY <1>1, <1>2, <1>5, Area, PutNextType DEF CreateVolumeNoise, Before, Thread
<1>6. CASE CreateBackupNoise
  BY <1>1, <1>2, <1>6, Area, PutNextType DEF CreateBackupNoise, Before, Thread
<1>7. CASE StartThread
  <2>1. /\ creator' \in [pos : 0 .. Blocks, abort : BOOLEAN, exception : BOOLEAN,
                         inProgress : BOOLEAN]
        /\ creator'.inProgress /\ ~creator'.abort
    <3>1. DataStart(op) \in 0 .. Blocks
      BY <1>1, <1>3, Area
    <3>2. QED  BY <1>7, <3>1 DEF StartThread, NoCreator
  <2>2. pc = "start" /\ pc' \in Thread
    BY <1>7 DEF StartThread, AfterFormat, Thread
  <2>3. QED
    BY <1>1, <1>7, <2>1, <2>2, CreatorStep DEF StartThread, TypeInv, host, counters
<1>8. CASE Format
  <2>1. PICK n \in 0 .. FatBlocks :
          /\ Put(creator.pos .. creator.pos + n - 1, Data(op.key))
          /\ creator' = [creator EXCEPT !.pos = @ + n]
    BY <1>8 DEF Format
  <2>2. pc = "format" /\ pc' \in Thread /\ UNCHANGED <<op, wizard, backup, promise, report, counters>>
    BY <1>8 DEF Format, AfterFormat, Thread
  <2>3. creator.pos = DataStart(op) /\ creator.pos + n <= Blocks - 2 /\ creator.pos \in Nat
    BY <1>1, <1>3, <2>2, Area DEF CreateInv, ShapeInv, StageInv
  <2>4. creator.pos .. creator.pos + n - 1 \subseteq Block /\ creator.pos + n \in 0 .. Blocks
    BY <1>3, <2>3 DEF Block
  <2>5. /\ creator' \in [pos : 0 .. Blocks, abort : BOOLEAN, exception : BOOLEAN,
                         inProgress : BOOLEAN]
        /\ creator'.abort = creator.abort /\ creator'.inProgress = creator.inProgress
    BY <2>1, <2>4 DEF TypeInv
  <2>6. /\ file' \in [Block -> Content] /\ disk' \in [Block -> Content] /\ dirty' \subseteq Block
        /\ overwritten' \in [Slot -> Nat]
    BY <1>2, <2>1, <2>4, PutType
  <2>7. QED
    BY <1>1, <2>2, <2>5, <2>6, CreatorStep DEF TypeInv, StateInv, Thread, counters
<1>9. CASE Fill
  <2>1. pc = "fill" /\ pc' \in Thread /\ UNCHANGED <<op, wizard, backup, promise, report, counters>>
    BY <1>9 DEF Fill, Thread
  <2>2. CASE ~creator.abort /\ creator.pos < DataEnd(op)
    <3> DEFINE n == FillLength(creator.pos, DataEnd(op))
    <3>1. /\ Put(creator.pos .. creator.pos + n - 1, Data(op.key))
          /\ creator' = [creator EXCEPT !.pos = @ + n]
      BY <1>9, <2>2 DEF Fill
    <3>2. n \in Nat /\ creator.pos + n <= DataEnd(op) /\ creator.pos \in Nat
          /\ DataEnd(op) <= Blocks - 2 /\ DataEnd(op) \in Nat
      BY <1>1, <1>3, <2>1, <2>2, Area DEF FillLength
    <3> HIDE DEF n
    <3>3. creator.pos .. creator.pos + n - 1 \subseteq Block /\ creator.pos + n \in 0 .. Blocks
      BY <1>3, <3>2 DEF Block
    <3>4. /\ creator' \in [pos : 0 .. Blocks, abort : BOOLEAN, exception : BOOLEAN,
                           inProgress : BOOLEAN]
          /\ creator'.abort = creator.abort /\ creator'.inProgress = creator.inProgress
      BY <3>1, <3>3 DEF TypeInv
    <3>5. /\ file' \in [Block -> Content] /\ disk' \in [Block -> Content] /\ dirty' \subseteq Block
          /\ overwritten' \in [Slot -> Nat]
      BY <1>2, <3>1, <3>3, PutType
    <3>6. QED
      BY <1>1, <2>1, <3>4, <3>5, CreatorStep DEF TypeInv, StateInv, Thread, counters
  <2>3. CASE ~(~creator.abort /\ creator.pos < DataEnd(op))
    BY <1>1, <1>9, <2>1, <2>3, CreatorStep
      DEF Fill, TypeInv, StateInv, Thread, counters, host
  <2>4. QED  BY <2>2, <2>3
<1>10. CASE Check
  BY <1>1, <1>10, CreatorStep DEF Check, TypeInv, StateInv, Before, Thread, counters, host
<1>11. CASE CreateBackupHeader
  <2>1. /\ pc = "backup" /\ Put({BackupPosition(op)}, NewHeader)
        /\ creator' = [creator EXCEPT !.pos = BackupPosition(op) + 1]
        /\ pc' \in {"backupNoise", "flush"}
        /\ UNCHANGED <<op, wizard, backup, promise, report, counters>>
    BY <1>11 DEF CreateBackupHeader
  <2>2. BackupPosition(op) \in Block
    BY <1>1, <2>1, Area
  <2>3. BackupPosition(op) + 1 \in 0 .. Blocks
    BY <1>3, <2>2 DEF Block
  <2>4. /\ file' \in [Block -> Content] /\ disk' \in [Block -> Content] /\ dirty' \subseteq Block
        /\ overwritten' \in [Slot -> Nat]
    BY <1>2, <2>1, <2>2, PutType
  <2>5. /\ creator' \in [pos : 0 .. Blocks, abort : BOOLEAN, exception : BOOLEAN,
                         inProgress : BOOLEAN]
        /\ creator'.abort = creator.abort /\ creator'.inProgress = creator.inProgress
    BY <2>1, <2>3 DEF TypeInv
  <2>6. QED
    BY <1>1, <2>1, <2>4, <2>5, CreatorStep DEF TypeInv, StateInv, Thread, counters
<1>12. CASE FlushVolume
  <2>1. /\ pc = "flush" /\ pc' = "close" /\ Flush
        /\ UNCHANGED <<op, creator, wizard, backup, promise, report, counters>>
    BY <1>12 DEF FlushVolume
  <2>2. /\ file' \in [Block -> Content] /\ disk' \in [Block -> Content] /\ dirty' \subseteq Block
        /\ overwritten' \in [Slot -> Nat]
    BY <2>1, FlushType
  <2>3. QED
    BY <1>1, <2>1, <2>2, CreatorStep DEF TypeInv, StateInv, Thread, counters
<1>13. CASE EndThread
  BY <1>1, <1>13, CreatorStep
    DEF EndThread, TypeInv, StateInv, Before, Thread, counters, host
<1>14. QED
  BY <1>4, <1>5, <1>6, <1>7, <1>8, <1>9, <1>10, <1>11, <1>12, <1>13

LEMMA CreationFailsType ==
  ASSUME TypeInv, CreateInv, CreationFails  PROVE TypeInv'
<1>1. op.kind = "create"
  BY DEF TypeInv, StateInv, Before, Thread, CreationFails
<1>2. /\ creator' = [creator EXCEPT !.exception = TRUE]
      /\ pc' = IF creator.inProgress THEN "close" ELSE "finished"
      /\ UNCHANGED <<op, wizard, backup, promise, report, operations>>
  BY DEF CreationFails
<1>3. /\ file' \in [Block -> Content] /\ disk' \in [Block -> Content] /\ dirty' \subseteq Block
      /\ overwritten' \in [Slot -> Nat] /\ failures' \in 0 .. MaxFailures
  <2>1. CASE FlushFails
    BY <2>1, HeadersAssumption DEF FlushFails, TypeInv, host
  <2>2. CASE \E b : PutFails(b)
    BY <2>2, PutFailsType
  <2>3. QED  BY <2>1, <2>2 DEF CreationFails
<1>4. pc \in Before \union (Thread \ {"close"})
  BY DEF CreationFails, Before, Thread
<1>5. /\ creator' \in [pos : 0 .. Blocks, abort : BOOLEAN, exception : BOOLEAN,
                       inProgress : BOOLEAN]
      /\ creator'.abort = creator.abort /\ creator'.inProgress = creator.inProgress
  BY <1>2 DEF TypeInv
<1>6. QED
  <2>1. creator.inProgress <=> pc \in Thread
    BY DEF TypeInv, StateInv
  <2>2. /\ pc' \in Before \union Thread \union {"finished"}
        /\ pc \in Thread \union {"finished"} => pc' \in Thread \union {"finished"}
    BY <1>2 DEF Thread
  <2>3. creator'.abort => wizard.aborted
    BY <1>5 DEF TypeInv, StateInv
  <2>5. QED
    BY <1>1, <1>2, <1>3, <1>4, <1>5, <2>1, <2>2, <2>3 DEF TypeInv, StateInv, Before, Thread

LEMMA AbortType ==
  ASSUME TypeInv, AskAbort \/ \E yes \in BOOLEAN : AnswerAbort(yes)  PROVE TypeInv'
<1>1. CASE AskAbort
  BY <1>1 DEF AskAbort, Working, TypeInv, StateInv, host, counters
<1>2. ASSUME NEW yes \in BOOLEAN, AnswerAbort(yes)  PROVE TypeInv'
  <2>1. /\ wizard' = [pending |-> FALSE, aborted |-> wizard.aborted \/ yes]
        /\ creator' = [creator EXCEPT !.abort = @ \/ yes]
        /\ UNCHANGED <<host, op, pc, backup, promise, report, counters>>
    BY <1>2 DEF AnswerAbort, Confirmed, NoWizard
  <2>2. /\ creator' \in [pos : 0 .. Blocks, abort : BOOLEAN, exception : BOOLEAN,
                         inProgress : BOOLEAN]
        /\ creator'.abort = (creator.abort \/ yes)
        /\ creator'.inProgress = creator.inProgress
    BY <2>1 DEF TypeInv
  <2>3. /\ wizard' \in [pending : BOOLEAN, aborted : BOOLEAN]
        /\ ~wizard'.pending /\ wizard'.aborted = (wizard.aborted \/ yes)
    BY <2>1 DEF TypeInv
  <2>4. QED
    BY <2>1, <2>2, <2>3 DEF TypeInv, StateInv, host, counters
<1>3. QED  BY <1>1, <1>2

\* The operation ends, or the system goes down.
LEMMA EndType ==
  ASSUME TypeInv,
         file' \in [Block -> Content], disk' \in [Block -> Content], dirty' \subseteq Block,
         overwritten' \in [Slot -> Nat],
         op' = NoOperation, pc' = "idle", report' \in Operation,
         \/ creator' = NoCreator /\ wizard' = NoWizard
         \/ creator' = creator /\ wizard' = wizard /\ op.kind # "create",
         promise' \in [Type -> [key : Key, layout : Layout, passwords : SUBSET Password,
                                fromBackup : BOOLEAN]],
         backup' = backup, operations' = operations, failures' \in 0 .. MaxFailures
  PROVE  TypeInv'
<1>1. /\ NoCreator \in [pos : 0 .. Blocks, abort : BOOLEAN, exception : BOOLEAN,
                        inProgress : BOOLEAN]
      /\ NoWizard \in [pending : BOOLEAN, aborted : BOOLEAN]
      /\ ~NoCreator.inProgress /\ ~NoCreator.abort /\ ~NoWizard.pending
  BY HeadersAssumption DEF NoCreator, NoWizard
<1>2. CASE creator' = NoCreator /\ wizard' = NoWizard
  BY <1>1, <1>2, Nothing DEF TypeInv, StateInv, Before, Thread
<1>3. CASE creator' = creator /\ wizard' = wizard /\ op.kind # "create"
  BY <1>3, Nothing DEF TypeInv, StateInv, Before, Thread
<1>4. QED  BY <1>2, <1>3

LEMMA FinishType == ASSUME TypeInv, FinishCreation  PROVE TypeInv'
<1>1. op.kind = "create"
  BY DEF TypeInv, StateInv, FinishCreation
<1>2. op \in Operation
  BY DEF TypeInv
<1>3. report' \in Operation /\ op' = NoOperation /\ pc' = "idle"
  BY <1>2, Nothing DEF FinishCreation, End
<1>4. /\ file' \in [Block -> Content] /\ disk' \in [Block -> Content] /\ dirty' \subseteq Block
      /\ overwritten' \in [Slot -> Nat]
  BY Contents DEF FinishCreation, TypeInv, host
<1>5. promise' \in [Type -> [key : Key, layout : Layout, passwords : SUBSET Password,
                             fromBackup : BOOLEAN]]
  <2>1. CASE Created
    <3>1. op.key \in Key /\ op.type \in Type /\ op.password \in Password
      BY <1>1, <1>2 DEF Operation, TypeInv, StateInv
    <3>2. /\ Promise(op.key, "V2", {op.password})
               \in [key : Key, layout : Layout, passwords : SUBSET Password, fromBackup : BOOLEAN]
          /\ promise' = [promise EXCEPT ![op.type] = Promise(op.key, "V2", {op.password})]
      BY <2>1, <3>1 DEF FinishCreation, Promise, Layout
    <3>3. QED  BY <3>1, <3>2 DEF TypeInv
  <2>2. CASE ~Created
    BY <2>2 DEF FinishCreation, TypeInv
  <2>3. QED  BY <2>1, <2>2
<1>6. QED
  BY <1>1, <1>3, <1>4, <1>5, EndType DEF FinishCreation, counters, TypeInv

\* What a change or restoring begins with: the header that opened.
LEMMA OpeningTypes ==
  ASSUME TypeInv, NEW p \in Password, NEW i \in BOOLEAN, NEW o \in Openings(p, i)
  PROVE  /\ o[1] \in Type /\ o[2] \in Layout
         /\ file[Place(o[1], o[2], i)] \in Content
         /\ file[Place(o[1], o[2], i)].key \in Key
<1>1. o[1] \in Type /\ o[2] \in Layout
  BY OpeningsFound
<1>2. file[Place(o[1], o[2], i)] \in Content
  BY <1>1, Places DEF TypeInv
<1>3. QED
  BY <1>1, <1>2 DEF Content

\* A password is added to those of one volume, and nothing else of it changes.
LEMMA PromisedType ==
  ASSUME TypeInv, NEW t \in Type, NEW k, NEW p \in Password, NEW b \in BOOLEAN
  PROVE  /\ Promised(t, k, p, b) \in [Type -> [key : Key, layout : Layout,
                                              passwords : SUBSET Password, fromBackup : BOOLEAN]]
         /\ \A u \in Type : u # t \/ promise[t].key # k => Promised(t, k, p, b)[u] = promise[u]
         /\ promise[t].key = k =>
              /\ Promised(t, k, p, b)[t].key = k
              /\ Promised(t, k, p, b)[t].layout = promise[t].layout
              /\ Promised(t, k, p, b)[t].passwords = promise[t].passwords \union {p}
              /\ Promised(t, k, p, b)[t].fromBackup = (promise[t].fromBackup \/ b)
<1> DEFINE new == [promise[t] EXCEPT !.passwords = @ \union {p}, !.fromBackup = @ \/ b]
<1>1. promise[t] \in [key : Key, layout : Layout, passwords : SUBSET Password,
                      fromBackup : BOOLEAN]
  BY DEF TypeInv
<1>2. new \in [key : Key, layout : Layout, passwords : SUBSET Password, fromBackup : BOOLEAN]
  BY <1>1
<1>4. promise \in [Type -> [key : Key, layout : Layout, passwords : SUBSET Password,
                            fromBackup : BOOLEAN]]
  BY DEF TypeInv
<1>3. Promised(t, k, p, b) = [promise EXCEPT ![t] = IF promise[t].key = k THEN new ELSE promise[t]]
  BY <1>1, <1>4 DEF Promised
<1>5. /\ new.key = promise[t].key /\ new.layout = promise[t].layout
      /\ new.passwords = promise[t].passwords \union {p}
      /\ new.fromBackup = (promise[t].fromBackup \/ b)
  BY <1>1
<1> HIDE DEF new
<1>6. QED
  BY <1>1, <1>2, <1>3, <1>4, <1>5

\* An operation other than a creation begins.
LEMMA BeginType ==
  ASSUME TypeInv, CanStart, NEW o \in Operation, NEW state \in {"reEncrypt", "restore"},
         Begin(o, state), o.kind \in {"change", "internal", "external"}, o.password \in Password,
         o.kind = "change" <=> state = "reEncrypt",
         overwritten' \in [Slot -> Nat],
         promise' \in [Type -> [key : Key, layout : Layout, passwords : SUBSET Password,
                                fromBackup : BOOLEAN]],
         UNCHANGED <<file, disk, dirty, creator, wizard, backup>>
  PROVE  TypeInv'
<1>1. /\ op' = o /\ pc' = state /\ operations' = operations + 1 /\ report' = NoOperation
      /\ failures' = failures /\ pc = "idle"
  BY DEF Begin, CanStart
<1>2. operations' \in 0 .. MaxOperations
  BY <1>1, HeadersAssumption DEF CanStart, TypeInv
<1>3. StateInv'
  BY <1>1, Nothing DEF TypeInv, StateInv, Before, Thread
<1>4. QED
  BY <1>1, <1>2, <1>3, Nothing DEF TypeInv

LEMMA StartType ==
  ASSUME TypeInv, NEW p \in Password,
         (\E q \in Password : StartChange(p, q)) \/ StartRestoreInternal(p)
           \/ StartRestoreExternal(p)
  PROVE  TypeInv'
<1>1. ASSUME NEW q \in Password, StartChange(p, q)  PROVE TypeInv'
  <2>1. PICK o \in Openings(p, FALSE) :
          /\ Begin(OperationOn("change", o[1], o[2], FALSE, q), "reEncrypt")
          /\ promise' = Promised(o[1], file[Place(o[1], o[2], FALSE)].key, q, FALSE)
    BY <1>1 DEF StartChange
  <2>2. overwritten' \in [Slot -> Nat] /\ CanStart
        /\ UNCHANGED <<file, disk, dirty, creator, wizard, backup>>
    BY <1>1 DEF StartChange
  <2>3. /\ o[1] \in Type /\ OperationOn("change", o[1], o[2], FALSE, q) \in Operation
        /\ OperationOn("change", o[1], o[2], FALSE, q).kind = "change"
        /\ OperationOn("change", o[1], o[2], FALSE, q).password = q
    <3>1. PICK t \in Type, l \in Layout : t = o[1] /\ l = o[2]
      BY OpeningTypes
    <3>2. file[Place(t, l, FALSE)].key \in Key
      BY <3>1, OpeningTypes
    <3>a. 1 \in 0 .. Passes
      BY HeadersAssumption
    <3>3. /\ OperationOn("change", t, l, FALSE, q) \in Operation
          /\ OperationOn("change", t, l, FALSE, q).kind = "change"
           /\ OperationOn("change", t, l, FALSE, q).password = q
      BY <3>2, <3>a, Nothing DEF OperationOn, NoOperation, Operation
    <3>4. QED  BY <3>1, <3>3
  <2>4. QED  BY <2>1, <2>2, <2>3, PromisedType, BeginType, ZenonT(60)
<1>2. CASE StartRestoreInternal(p)
  <2>1. PICK o \in Openings(p, TRUE) :
          Begin(OperationOn("internal", o[1], o[2], TRUE, p), "restore")
    BY <1>2 DEF StartRestoreInternal
  <2>2. CanStart /\ UNCHANGED <<file, disk, dirty, overwritten, creator, wizard, backup, promise>>
    BY <1>2 DEF StartRestoreInternal, host
  <2>3. /\ o[1] \in Type /\ OperationOn("internal", o[1], o[2], TRUE, p) \in Operation
        /\ OperationOn("internal", o[1], o[2], TRUE, p).kind = "internal"
        /\ OperationOn("internal", o[1], o[2], TRUE, p).password = p
    <3>1. PICK t \in Type, l \in Layout : t = o[1] /\ l = o[2]
      BY OpeningTypes
    <3>2. file[Place(t, l, TRUE)].key \in Key
      BY <3>1, OpeningTypes
    <3>a. 1 \in 0 .. Passes
      BY HeadersAssumption
    <3>3. /\ OperationOn("internal", t, l, TRUE, p) \in Operation
          /\ OperationOn("internal", t, l, TRUE, p).kind = "internal"
           /\ OperationOn("internal", t, l, TRUE, p).password = p
      BY <3>2, <3>a, Nothing DEF OperationOn, NoOperation, Operation
    <3>4. QED  BY <3>1, <3>3
  <2>4. overwritten' \in [Slot -> Nat] /\ promise' = promise
        /\ promise \in [Type -> [key : Key, layout : Layout, passwords : SUBSET Password,
                                 fromBackup : BOOLEAN]]
    BY <2>2 DEF TypeInv
  <2>5. QED  BY <2>1, <2>2, <2>3, <2>4, BeginType
<1>3. CASE StartRestoreExternal(p)
  <2>1. PICK t \in Type :
          /\ Begin([NoOperation EXCEPT !.kind = "external", !.type = t,
                                       !.layout = backup[t].layout, !.password = p,
                                       !.key = backup[t].key], "restore")
          /\ promise' = IF promise[t].key = backup[t].key
                        THEN Promised(t, backup[t].key, p, TRUE)
                        ELSE [promise EXCEPT ![t] = NoPromise]
    BY <1>3 DEF StartRestoreExternal
  <2> DEFINE o == [NoOperation EXCEPT !.kind = "external", !.type = t,
                                      !.layout = backup[t].layout, !.password = p,
                                      !.key = backup[t].key]
  <2>2. CanStart /\ UNCHANGED <<file, disk, dirty, overwritten, creator, wizard, backup>>
    BY <1>3 DEF StartRestoreExternal, host
  <2>3. backup[t].layout \in Layout /\ backup[t].key \in Key
    BY DEF TypeInv, Content, Layout
  <2>4. o \in Operation /\ o.kind = "external" /\ o.password = p
    BY <2>3, Nothing DEF NoOperation, Operation
  <2>5. NoPromise \in [key : Key, layout : Layout, passwords : SUBSET Password,
                       fromBackup : BOOLEAN]
    BY HeadersAssumption DEF NoPromise, Key, Layout
  <2>6. promise' \in [Type -> [key : Key, layout : Layout, passwords : SUBSET Password,
                               fromBackup : BOOLEAN]]
    BY <2>1, <2>5, PromisedType DEF TypeInv
  <2>7. overwritten' \in [Slot -> Nat]
    BY <2>2 DEF TypeInv
  <2>8. Begin(o, "restore")
    BY <2>1
  <2> HIDE DEF o
  <2>9. QED  BY <2>2, <2>4, <2>6, <2>7, <2>8, BeginType
<1>4. QED  BY <1>1, <1>2, <1>3

LEMMA WriteHeaderType == ASSUME TypeInv, ReEncryptHeader \/ RestoreVolumeHeader  PROVE TypeInv'
<1>1. Put({PlaceOfOperation}, HeaderOfOperation)
  BY DEF ReEncryptHeader, RestoreVolumeHeader
<1>2. /\ file' \in [Block -> Content] /\ disk' \in [Block -> Content] /\ dirty' \subseteq Block
      /\ overwritten' \in [Slot -> Nat]
  BY <1>1, HeaderTypes, PutType
<1>3. CASE ReEncryptHeader
  BY <1>2, <1>3 DEF ReEncryptHeader, TypeInv, StateInv, Before, Thread, counters
<1>4. CASE RestoreVolumeHeader
  <2>1. pc = "restore" /\ op.kind \in {"internal", "external"}
        /\ UNCHANGED <<creator, wizard, backup, promise, counters>>
    BY <1>4 DEF RestoreVolumeHeader, TypeInv, StateInv, Operation, Before, Thread
  <2>2. CASE AlsoBackup(op)
    <3>1. op' = [op EXCEPT !.second = TRUE] /\ pc' = pc /\ report' = report
      BY <1>4, <2>2 DEF RestoreVolumeHeader
    <3>2. op' \in Operation /\ op'.kind = op.kind /\ op'.password = op.password
      BY <3>1 DEF TypeInv, Operation
    <3>3. QED
      BY <1>2, <2>1, <3>1, <3>2 DEF TypeInv, StateInv, counters
  <2>3. CASE ~AlsoBackup(op)
    <3>1. op' = NoOperation /\ pc' = "idle" /\ report' = op
      BY <1>4, <2>3 DEF RestoreVolumeHeader, End
    <3>2. QED
      BY <1>2, <2>1, <3>1, EndType DEF TypeInv, counters
  <2>4. QED  BY <2>2, <2>3
<1>5. QED  BY <1>3, <1>4

LEMMA ChangePassType == ASSUME TypeInv, ChangePass  PROVE TypeInv'
<1>1. pc = "sync" /\ op.kind = "change" /\ op \in Operation /\ op.password \in Password
      /\ UNCHANGED <<creator, wizard, backup, counters>> /\ Flush
  BY DEF ChangePass, FlushHeader, TypeInv, StateInv
<1>2. /\ file' \in [Block -> Content] /\ disk' \in [Block -> Content] /\ dirty' \subseteq Block
      /\ overwritten' \in [Slot -> Nat]
  BY <1>1, FlushType
<1>3. CASE AfterPass(op).kind = "none"
  <2>1. op' = NoOperation /\ pc' = "idle" /\ report' = op
    BY <1>3 DEF ChangePass, End
  <2>2. Promise(op.key, op.layout, {op.password})
          \in [key : Key, layout : Layout, passwords : SUBSET Password, fromBackup : BOOLEAN]
    BY <1>1 DEF Promise, Operation
  <2>3. promise' \in [Type -> [key : Key, layout : Layout, passwords : SUBSET Password,
                               fromBackup : BOOLEAN]]
    BY <1>3, <2>2 DEF ChangePass, TypeInv
  <2>4. QED
    BY <1>1, <1>2, <2>1, <2>3, EndType DEF TypeInv, counters
<1>4. CASE AfterPass(op).kind # "none"
  <2>1. op' = AfterPass(op) /\ pc' = "reEncrypt" /\ UNCHANGED <<promise, report>>
    BY <1>4 DEF ChangePass
  <2>2. AfterPass(op) \in Operation /\ AfterPass(op).kind = "change"
        /\ AfterPass(op).password = op.password
    <3>1. Passes \in Nat \ {0} /\ op.pass \in 0 .. Passes
      BY <1>1, HeadersAssumption DEF Operation
    <3>2. 1 \in 0 .. Passes /\ (op.pass < Passes => op.pass + 1 \in 0 .. Passes)
      BY <3>1
    <3>3. CASE op.pass < Passes
      BY <1>1, <3>2, <3>3 DEF AfterPass, Operation
    <3>4. CASE ~(op.pass < Passes) /\ HasBackupHeader(op.layout) /\ ~op.second
      BY <1>1, <3>2, <3>4 DEF AfterPass, Operation
    <3>5. CASE ~(op.pass < Passes) /\ ~(HasBackupHeader(op.layout) /\ ~op.second)
      BY <1>1, <1>4, <3>5 DEF AfterPass, Operation
    <3>6. QED  BY <3>3, <3>4, <3>5
  <2>3. QED
    BY <1>1, <1>2, <2>1, <2>2 DEF TypeInv, StateInv, Before, Thread, counters
<1>5. QED  BY <1>3, <1>4

LEMMA BackupType ==
  ASSUME TypeInv, NEW p \in Password, NEW q \in Password, NEW hiddenToo \in BOOLEAN,
         BackupVolumeHeaders(p, q, hiddenToo)
  PROVE  TypeInv'
<1>1. PICK layout \in Layout :
        backup' = [t \in Type |->
          IF t = "normal" \/ hiddenToo THEN file[Place(t, layout, FALSE)] ELSE Noise]
  BY DEF BackupVolumeHeaders, Layout
<1>2. \A t \in Type : file[Place(t, layout, FALSE)] \in Content
  BY Places DEF TypeInv
<1>3. backup' \in [Type -> Content]
  BY <1>1, <1>2, Contents
<1>4. operations' \in 0 .. MaxOperations
  BY HeadersAssumption DEF BackupVolumeHeaders, CanStart, TypeInv
<1>5. QED
  BY <1>3, <1>4, Nothing DEF BackupVolumeHeaders, TypeInv, StateInv, host

LEMMA HeaderWriteFailsType == ASSUME TypeInv, HeaderWriteFails  PROVE TypeInv'
<1>1. /\ file' \in [Block -> Content] /\ disk' \in [Block -> Content] /\ dirty' \subseteq Block
      /\ overwritten' \in [Slot -> Nat] /\ failures' \in 0 .. MaxFailures
  <2>1. CASE FlushFails
    BY <2>1, HeadersAssumption DEF FlushFails, TypeInv, host
  <2>2. CASE PutFails(PlaceOfOperation)
    BY <2>2, PutFailsType
  <2>3. QED  BY <2>1, <2>2 DEF HeaderWriteFails
<1>2. op.kind # "create"
  BY DEF HeaderWriteFails, TypeInv, StateInv, Before, Thread
<1>3. QED
  BY <1>1, <1>2, EndType, Nothing DEF HeaderWriteFails, End, TypeInv

LEMMA CrashType == ASSUME TypeInv, Crash  PROVE TypeInv'
<1>1. file' \in [Block -> Content]
  BY Contents DEF Crash, TypeInv
<1>2. /\ disk' \in [Block -> Content] /\ dirty' \subseteq Block /\ overwritten' \in [Slot -> Nat]
      /\ failures' \in 0 .. MaxFailures
  BY <1>1, HeadersAssumption DEF Crash, TypeInv
<1>3. report' \in Operation
  BY Nothing DEF Crash, TypeInv
<1>4. QED
  BY <1>1, <1>2, <1>3, EndType DEF Crash, TypeInv

LEMMA TypeStep == ASSUME TypeInv, CreateInv, [Next]_vars  PROVE TypeInv'
<1>1. CASE UNCHANGED vars
  BY <1>1 DEF vars, host, counters, TypeInv, StateInv
<1>2. CASE \E o \in Creations : StartCreation(o)
  BY <1>2, StartCreationType
<1>3. CASE \E p, q \in Password : StartChange(p, q)
  BY <1>3, StartType
<1>4. CASE \E p, q \in Password, hiddenToo \in BOOLEAN : BackupVolumeHeaders(p, q, hiddenToo)
  BY <1>4, BackupType
<1>5. CASE \E p \in Password : StartRestoreInternal(p) \/ StartRestoreExternal(p)
  BY <1>5, StartType
<1>6. QED
  BY <1>1, <1>2, <1>3, <1>4, <1>5, CreationType, CreationFailsType, AbortType, FinishType,
     WriteHeaderType, ChangePassType, HeaderWriteFailsType, CrashType
     DEF Next

-----------------------------------------------------------------------------
(* What an operation has written.                                          *)

\* What a step does to the host.
LEMMA HostStep ==
  ASSUME TypeInv, [Next]_vars
  PROVE  \/ UNCHANGED <<file, disk, dirty>>
         \/ \E blocks, content : Put(blocks, content)
         \/ \E b : PutFails(b)
         \/ Flush
         \/ (\A b \in Block : file'[b] = Absent /\ disk'[b] = Absent) /\ dirty' = {}
         \/ Crash
<1>1. ASSUME NEW o \in Creations, StartCreation(o)
      PROVE  \/ UNCHANGED <<file, disk, dirty>>
             \/ (\A b \in Block : file'[b] = Absent /\ disk'[b] = Absent) /\ dirty' = {}
  <2>1. file = [b \in Block |-> file[b]] /\ disk = [b \in Block |-> disk[b]]
    BY DEF TypeInv
  <2>2. CASE o.hosted = "file"
    BY <1>1, <2>2 DEF StartCreation
  <2>3. CASE o.hosted # "file"
    BY <1>1, <2>1, <2>3 DEF StartCreation
  <2>4. QED  BY <2>2, <2>3
<1>2. CASE CreationFails \/ HeaderWriteFails
  BY <1>2 DEF CreationFails, HeaderWriteFails, FlushFails, host
<1>3. CASE FinishCreation
  BY <1>3 DEF FinishCreation, host
<1>4. CASE CreateVolumeHeader \/ CreateVolumeNoise \/ Format \/ Fill \/ CreateBackupHeader
             \/ CreateBackupNoise \/ ReEncryptHeader \/ RestoreVolumeHeader
  BY <1>4 DEF CreateVolumeHeader, CreateVolumeNoise, Format, Fill, CreateBackupHeader,
              CreateBackupNoise, ReEncryptHeader, RestoreVolumeHeader, PutNext, host
<1>5. CASE FlushVolume \/ ChangePass
  BY <1>5, SMTT(30) DEF FlushVolume, ChangePass, FlushHeader
<1>6. CASE StartThread \/ Check \/ EndThread \/ AskAbort \/ (\E yes \in BOOLEAN : AnswerAbort(yes))
             \/ (\E p, q \in Password : StartChange(p, q))
             \/ (\E p, q \in Password, hiddenToo \in BOOLEAN : BackupVolumeHeaders(p, q, hiddenToo))
             \/ (\E p \in Password : StartRestoreInternal(p) \/ StartRestoreExternal(p))
  BY <1>6 DEF StartThread, Check, EndThread, AskAbort, AnswerAbort, StartChange,
              BackupVolumeHeaders, StartRestoreInternal, StartRestoreExternal, host
<1>7. CASE UNCHANGED vars
  BY <1>7 DEF vars, host
<1>8. QED
  BY <1>1, <1>2, <1>3, <1>4, <1>5, <1>6, <1>7 DEF Next

\* A crash takes each block from the file or the medium, or damages a dirty header.
LEMMA CrashEffect ==
  ASSUME TypeInv, Crash
  PROVE  /\ disk' = file' /\ dirty' = {} /\ overwritten' = overwritten
         /\ \A b \in Block :
              /\ b \notin dirty => file'[b] = file[b]
              /\ b \in dirty /\ b \in Slot => file'[b] \in {file[b], disk[b], Torn}
              /\ b \in dirty /\ b \notin Slot => file'[b] = disk[b]
<1>1. PICK left \in [dirty \intersect Slot -> {"old", "new", "torn"}] :
        file' = [b \in Block |->
          IF b \notin dirty THEN file[b]
          ELSE IF b \notin Slot \/ left[b] = "old" THEN disk[b]
          ELSE IF left[b] = "new" THEN file[b] ELSE Torn]
  BY DEF Crash
<1>2. ASSUME NEW b \in Block
      PROVE  /\ b \notin dirty => file'[b] = file[b]
             /\ b \in dirty /\ b \in Slot => file'[b] \in {file[b], disk[b], Torn}
             /\ b \in dirty /\ b \notin Slot => file'[b] = disk[b]
  BY <1>1
<1>3. QED
  BY <1>2 DEF Crash

LEMMA SyncStep == ASSUME TypeInv, SyncInv, [Next]_vars  PROVE SyncInv'
<1>1. CASE UNCHANGED <<file, disk, dirty>>
  BY <1>1 DEF SyncInv
<1>2. CASE \E blocks, content : Put(blocks, content)
  BY <1>2, PutEffect DEF SyncInv
<1>3. ASSUME NEW c, PutFails(c)  PROVE SyncInv'
  <2>1. CASE file' = file /\ dirty' = dirty
    BY <1>3, <2>1, PutFailsEffect DEF SyncInv
  <2>2. CASE /\ c \in Slot /\ dirty' = dirty \union {c}
             /\ \A b \in Block : file'[b] = IF b = c THEN Torn ELSE file[b]
    BY <1>3, <2>2, PutFailsEffect DEF SyncInv
  <2>3. QED  BY <1>3, <2>1, <2>2, PutFailsEffect
<1>4. CASE Flush
  BY <1>4 DEF Flush, SyncInv
<1>5. CASE (\A b \in Block : file'[b] = Absent /\ disk'[b] = Absent) /\ dirty' = {}
  BY <1>5 DEF SyncInv
<1>6. CASE Crash
  BY <1>6, CrashEffect DEF SyncInv
<1>7. QED
  BY <1>1, <1>2, <1>3, <1>4, <1>5, <1>6, HostStep

\* A creation that goes on was begun in this step, or this is a step of it.
LEMMA CreationSteps ==
  ASSUME TypeInv, [Next]_vars, op'.kind = "create"
  PROVE  \/ \E o \in Creations : StartCreation(o)
         \/ UNCHANGED vars
         \/ /\ \/ CreateVolumeHeader \/ CreateVolumeNoise \/ StartThread \/ Format \/ Fill \/ Check
               \/ CreateBackupHeader \/ CreateBackupNoise \/ FlushVolume \/ CreationFails
               \/ EndThread \/ AskAbort \/ (\E yes \in BOOLEAN : AnswerAbort(yes))
            /\ op' = op /\ promise' = promise /\ report' = report
<1>1. CASE CreateVolumeHeader \/ CreateVolumeNoise \/ StartThread \/ Format \/ Fill \/ Check
             \/ CreateBackupHeader \/ CreateBackupNoise \/ FlushVolume \/ CreationFails
             \/ EndThread \/ AskAbort \/ (\E yes \in BOOLEAN : AnswerAbort(yes))
  BY <1>1 DEF CreateVolumeHeader, CreateVolumeNoise, StartThread, Format, Fill, Check,
              CreateBackupHeader, CreateBackupNoise, FlushVolume, CreationFails,
              EndThread, AskAbort, AnswerAbort, PutNext
<1>2. CASE FinishCreation \/ Crash \/ HeaderWriteFails
  BY <1>2, Nothing DEF FinishCreation, End, Crash, HeaderWriteFails
<1>3. CASE ChangePass
  BY <1>3, ChangePassType
    DEF ChangePass, FlushHeader, End, TypeInv, StateInv, Before, Thread
<1>4. CASE RestoreVolumeHeader
  BY <1>4, WriteHeaderType
     DEF RestoreVolumeHeader, End, TypeInv, StateInv, Before, Thread, Operation
<1>5. CASE \/ \E p, q \in Password : StartChange(p, q)
           \/ \E p \in Password : StartRestoreInternal(p) \/ StartRestoreExternal(p)
  <2>1. pc' \in {"reEncrypt", "restore"}
    BY <1>5 DEF StartChange, StartRestoreInternal, StartRestoreExternal, Begin
  <2>2. TypeInv'
    BY <1>5, StartType
  <2>3. QED  BY <2>1, <2>2 DEF TypeInv, StateInv, Before, Thread
<1>6. CASE \E p, q \in Password, hiddenToo \in BOOLEAN : BackupVolumeHeaders(p, q, hiddenToo)
  BY <1>6 DEF BackupVolumeHeaders, CanStart, TypeInv, StateInv
<1>7. CASE ReEncryptHeader
  BY <1>7 DEF ReEncryptHeader, TypeInv, StateInv, Before, Thread
<1>8. QED
  BY <1>1, <1>2, <1>3, <1>4, <1>5, <1>6, <1>7 DEF Next

LEMMA PromiseStep == ASSUME TypeInv, PromiseInv, [Next]_vars  PROVE PromiseInv'
<1> SUFFICES ASSUME op'.kind = "create"  PROVE PromiseInv'
  BY DEF PromiseInv
<1>1. ASSUME NEW o \in Creations, StartCreation(o)  PROVE PromiseInv'
  <2>1. op' = o /\ o.type \in Type
    BY <1>1 DEF StartCreation, Begin, Creations
  <2>2. \A t \in Type : promise'[t] = IF o.type = "normal" \/ t = "hidden"
                                     THEN NoPromise ELSE promise[t]
    BY <1>1 DEF StartCreation
  <2>3. o.type = "hidden" => promise["normal"].layout = "V2"
    BY DEF Creations
  <2>4. QED  BY <2>1, <2>2, <2>3 DEF PromiseInv, Type
<1>2. CASE op' = op /\ promise' = promise
  BY <1>2 DEF PromiseInv
<1>3. (op' = op /\ promise' = promise) \/ \E o \in Creations : StartCreation(o)
  BY CreationSteps DEF vars
<1>4. QED  BY <1>1, <1>2, <1>3

\* The blocks that were written stay as they are when others are written.
LEMMA KeepWritten ==
  ASSUME TypeInv, CreateInv, op.kind = "create", op' = op, NEW blocks,
         \A b \in Block \ blocks : file'[b] = file[b],
         First(op.type) \notin blocks, op.type = "normal" => 1 \notin blocks
  PROVE  HeaderWritten(op) => HeaderWritten(op)'
<1>1. First(op.type) \in {0, 1}
  BY Places DEF TypeInv, Operation, Type
<1>2. {0, 1} \subseteq Block
  BY HeadersAssumption DEF Block
<1>3. QED
  BY <1>1, <1>2 DEF HeaderWritten

LEMMA KeepFilled ==
  ASSUME TypeInv, CreateInv, op.kind = "create", op' = op, NEW c \in Slot,
         \A b \in Block \ {c} : file'[b] = file[b]
  PROVE  /\ Filled(op) => Filled(op)'
         /\ DataWritten(op, DataStart(op), DataEnd(op)) =>
              DataWritten(op, DataStart(op), DataEnd(op))'
<1>1. \A b \in DataStart(op) .. DataEnd(op) - 1 : b \in Block \ {c}
  BY Area
<1>2. ASSUME op.fat  PROVE DataStart(op) \in DataStart(op) .. DataEnd(op) - 1
  <2>1. DataStart(op) + FatBlocks <= DataEnd(op)
    BY <1>2 DEF CreateInv, ShapeInv
  <2>2. QED  BY <2>1, Area, HeadersAssumption
<1>3. /\ DataStart(op)' = DataStart(op) /\ DataEnd(op)' = DataEnd(op)
  BY DEF DataStart, DataEnd
<1>4. QED
  BY <1>1, <1>2, <1>3 DEF Filled, DataWritten

LEMMA ShapeStep ==
  ASSUME TypeInv, CreateInv, op.kind = "create", op' = op  PROVE ShapeInv'
BY DEF CreateInv, ShapeInv, DataStart, DataEnd

\* Data is written behind the data there is.
LEMMA DataStep ==
  ASSUME TypeInv, CreateInv, op.kind = "create", op' = op, NEW n \in Nat,
         creator.pos \in DataStart(op) .. DataEnd(op), HeaderWritten(op),
         DataWritten(op, DataStart(op), creator.pos), creator.pos + n <= DataEnd(op),
         Put(creator.pos .. creator.pos + n - 1, Data(op.key)),
         creator' = [creator EXCEPT !.pos = @ + n],
         op.fat /\ ~creator.abort => creator.pos + n > DataStart(op)
  PROVE  InArea' /\ HeaderWritten(op)'
<1>1. /\ DataStart(op) \in 2 .. Blocks - 2 /\ DataEnd(op) \in DataStart(op) .. Blocks - 2
      /\ creator.pos \in DataStart(op) .. DataEnd(op)
      /\ \A b \in DataStart(op) .. DataEnd(op) - 1 : b \in Block \ Slot
  BY Area
<1>2. \A b \in Block : file'[b] = IF b \in creator.pos .. creator.pos + n - 1
                                 THEN Data(op.key) ELSE file[b]
  BY DEF Put
<1>3. creator'.pos = creator.pos + n /\ creator'.abort = creator.abort
  BY DEF TypeInv
<1>4. /\ DataStart(op)' = DataStart(op) /\ DataEnd(op)' = DataEnd(op)
  BY DEF DataStart, DataEnd
<1>5. HeadersAssumption
  BY HeadersAssumption
<1>6. HeaderWritten(op)'
  <2>1. First(op.type) \in {0, 1}
    BY Places DEF TypeInv, Operation, Type
  <2>2. {0, 1} \cap (creator.pos .. creator.pos + n - 1) = {}
    BY <1>1
  <2>3. \A b \in Block \ (creator.pos .. creator.pos + n - 1) : file'[b] = file[b]
    BY <1>2
  <2>4. QED  BY <2>1, <2>2, <2>3, KeepWritten
<1>7. ASSUME NEW b \in DataStart(op) .. creator.pos + n - 1  PROVE file'[b] = Data(op.key)
  <2>1. b \in Block
    BY <1>1
  <2>2. CASE b \in creator.pos .. creator.pos + n - 1
    BY <1>2, <2>1, <2>2
  <2>3. CASE b \notin creator.pos .. creator.pos + n - 1
    <3>1. b \in DataStart(op) .. creator.pos - 1
      BY <1>1, <2>3
    <3>2. QED  BY <1>2, <2>1, <2>3, <3>1 DEF DataWritten
  <2>4. QED  BY <2>2, <2>3
<1>8. creator.pos + n \in DataStart(op) .. DataEnd(op)
  BY <1>1
<1>9. QED
  BY <1>3, <1>4, <1>6, <1>7, <1>8 DEF InArea, DataWritten

\* Each step of a creation leaves what the next one builds on.
LEMMA CreateStep ==
  ASSUME TypeInv, CreateInv, PromiseInv, [Next]_vars, op'.kind = "create"
  PROVE  ShapeInv' /\ StageInv'
<1>1. ASSUME NEW o \in Creations, StartCreation(o)  PROVE ShapeInv' /\ StageInv'
  <2>1. op' = o /\ pc' = "header" /\ creator' = [NoCreator EXCEPT !.pos = First(o.type)]
    BY <1>1 DEF StartCreation, Begin, First
  <2>2. ShapeInv'
    BY <2>1 DEF ShapeInv, Creations, DataStart, DataEnd
  <2>3. creator'.pos = First(o.type) /\ ~creator'.exception
    BY <2>1 DEF NoCreator
  <2>4. QED
    BY <2>1, <2>2, <2>3 DEF StageInv, Before, Thread
<1>2. CASE UNCHANGED vars
  BY <1>2
    DEF vars, host, CreateInv, ShapeInv, StageInv, InArea, HeaderWritten, Filled, Complete,
              DataWritten, DataStart, DataEnd, NewHeader
<1>3. ASSUME op' = op,
             \/ CreateVolumeHeader \/ CreateVolumeNoise \/ StartThread \/ Format \/ Fill \/ Check
             \/ CreateBackupHeader \/ CreateBackupNoise \/ FlushVolume \/ CreationFails
             \/ EndThread \/ AskAbort \/ (\E yes \in BOOLEAN : AnswerAbort(yes))
      PROVE  ShapeInv' /\ StageInv'
  <2>1. op.kind = "create" /\ ShapeInv /\ StageInv /\ ShapeInv'
    BY <1>3, ShapeStep DEF CreateInv
  <2>2. /\ DataStart(op)' = DataStart(op) /\ DataEnd(op)' = DataEnd(op) /\ NewHeader' = NewHeader
        /\ op.type \in {"normal", "hidden"} /\ First(op.type) \in {0, 1} /\ {0, 1} \subseteq Block
    <3>1. op.type \in {"normal", "hidden"}
      BY DEF TypeInv, Operation, Type
    <3>2. First(op.type) \in {0, 1}
      BY <3>1, Places
    <3>3. {0, 1} \subseteq Block
      BY HeadersAssumption DEF Block
    <3>4. /\ DataStart(op)' = DataStart(op) /\ DataEnd(op)' = DataEnd(op)
          /\ NewHeader' = NewHeader
      BY <1>3 DEF DataStart, DataEnd, NewHeader
    <3>5. QED  BY <3>1, <3>2, <3>3, <3>4
  <2> SUFFICES StageInv'
    BY <2>1
  <2>3. /\ DataStart(op) \in 2 .. Blocks - 2 /\ DataEnd(op) \in DataStart(op) .. Blocks - 2
        /\ Blocks \in Nat /\ Blocks > 6 /\ FatBlocks \in Nat \ {0} /\ FillBlocks \in Nat \ {0}
    BY <2>1, Area, HeadersAssumption
  <2>4. CASE CreateVolumeHeader
    <3>1. /\ pc = "header" /\ creator.pos = First(op.type)
          /\ Put({creator.pos}, NewHeader) /\ creator' = [creator EXCEPT !.pos = @ + 1]
          /\ pc' = IF op.type = "normal" THEN "noise" ELSE "start"
          /\ ~creator.exception
      BY <2>1, <2>4 DEF CreateVolumeHeader, PutNext, StageInv, Before
    <3>2. file'[First(op.type)] = NewHeader
      BY <2>2, <3>1 DEF Put
    <3>3. creator'.pos = First(op.type) + 1 /\ creator'.exception = creator.exception
      BY <3>1 DEF TypeInv
    <3>4. QED
      BY <1>3, <2>1, <2>2, <3>1, <3>2, <3>3, Places
         DEF StageInv, HeaderWritten, NewHeader, Before, Thread
  <2>5. CASE CreateVolumeNoise
    <3>1. /\ pc = "noise" /\ op.type = "normal" /\ creator.pos = 1 /\ file[0] = NewHeader
          /\ Put({creator.pos}, Noise) /\ creator' = [creator EXCEPT !.pos = @ + 1]
          /\ pc' = "start" /\ ~creator.exception
      BY <2>1, <2>5 DEF CreateVolumeNoise, PutNext, StageInv, Before
    <3>2. file'[1] = Noise /\ file'[0] = NewHeader
      BY <2>2, <3>1 DEF Put
    <3>3. creator'.exception = creator.exception
      BY <3>1 DEF TypeInv
    <3>4. QED
      BY <1>3, <2>2, <3>1, <3>2, <3>3, Places
         DEF StageInv, HeaderWritten, NewHeader, Before, Thread
  <2>6. CASE StartThread
    <3>1. /\ pc = "start" /\ HeaderWritten(op) /\ file' = file
          /\ creator'.pos = DataStart(op) /\ ~creator'.abort /\ ~creator'.exception
          /\ pc' = IF op.fat THEN "format" ELSE IF op.quick THEN "check" ELSE "fill"
      BY <2>1, <2>6 DEF StartThread, AfterFormat, NoCreator, StageInv, host
    <3>2. HeaderWritten(op)'
      BY <1>3, <3>1 DEF HeaderWritten
    <3>3. ~op.fat => InArea'
      BY <1>3, <2>2, <2>3, <3>1 DEF InArea, DataWritten
    <3>4. ~op.quick /\ op.fat => DataEnd(op) # DataStart(op)
      BY <2>1, <2>3 DEF ShapeInv
    <3>5. pc' = "check" => op.quick
      BY <3>1
    <3>6. QED
      BY <1>3, <2>2, <3>1, <3>2, <3>3, <3>5 DEF StageInv, Before, Thread
  <2>7. CASE Format
    <3>1. PICK n \in 0 .. FatBlocks :
            /\ n < FatBlocks => creator.abort
            /\ Put(creator.pos .. creator.pos + n - 1, Data(op.key))
            /\ creator' = [creator EXCEPT !.pos = @ + n]
      BY <2>7 DEF Format
    <3>2. /\ pc = "format" /\ op.fat /\ creator.pos = DataStart(op) /\ HeaderWritten(op)
          /\ ~creator.exception /\ pc' = IF op.quick THEN "check" ELSE "fill"
      BY <2>1, <2>7 DEF Format, AfterFormat, StageInv, Thread
    <3>3. /\ creator.pos + n <= DataEnd(op) /\ n \in Nat
          /\ op.fat /\ ~creator.abort => creator.pos + n > DataStart(op)
      BY <2>1, <2>3, <3>1, <3>2 DEF ShapeInv
    <3>4. creator.pos \in DataStart(op) .. DataEnd(op)
      BY <2>3, <3>2
    <3>a. DataWritten(op, DataStart(op), creator.pos)
      BY <2>3, <3>2 DEF DataWritten
    <3>5. InArea' /\ HeaderWritten(op)'
      BY <1>3, <2>1, <3>1, <3>2, <3>3, <3>4, <3>a, DataStep
    <3>6. creator'.exception = creator.exception
      BY <3>1 DEF TypeInv
    <3>7. QED
      BY <1>3, <2>2, <3>2, <3>5, <3>6 DEF StageInv, Before, Thread
  <2>8. CASE Fill
    <3>1. pc = "fill" /\ InArea /\ HeaderWritten(op) /\ ~creator.exception /\ ~op.quick
      BY <2>1, <2>8 DEF Fill, StageInv, Thread
    <3>2. CASE ~creator.abort /\ creator.pos < DataEnd(op)
      <4> DEFINE n == FillLength(creator.pos, DataEnd(op))
      <4>1. /\ Put(creator.pos .. creator.pos + n - 1, Data(op.key))
            /\ creator' = [creator EXCEPT !.pos = @ + n] /\ pc' = "fill"
        BY <2>8, <3>1, <3>2 DEF Fill
      <4>2. /\ creator.pos \in DataStart(op) .. DataEnd(op)
            /\ DataWritten(op, DataStart(op), creator.pos)
        BY <3>1 DEF InArea
      <4>3. n \in Nat \ {0} /\ creator.pos + n <= DataEnd(op)
        BY <2>3, <3>2, <4>2 DEF FillLength
      <4> HIDE DEF n
      <4>4. creator.pos + n > DataStart(op) /\ n \in Nat
        BY <2>3, <4>2, <4>3
      <4>5. InArea' /\ HeaderWritten(op)'
        BY <1>3, <2>1, <3>1, <4>1, <4>2, <4>3, <4>4, DataStep
      <4>6. creator'.exception = creator.exception
        BY <4>1 DEF TypeInv
      <4>7. QED
        BY <1>3, <2>2, <3>1, <4>1, <4>5, <4>6 DEF StageInv, Before, Thread
    <3>3. CASE ~(~creator.abort /\ creator.pos < DataEnd(op))
      <4>1. pc' = "check" /\ creator' = creator /\ file' = file
        BY <2>8, <3>3 DEF Fill, host
      <4>2. InArea' /\ HeaderWritten(op)'
        BY <1>3, <2>2, <3>1, <4>1 DEF InArea, HeaderWritten, DataWritten
      <4>3. ~creator.abort => creator.pos = DataEnd(op)
        BY <2>3, <3>1, <3>3 DEF InArea
      <4>4. QED
        BY <1>3, <2>2, <3>1, <4>1, <4>2, <4>3 DEF StageInv, Before, Thread
    <3>4. QED  BY <3>2, <3>3
  <2>9. CASE Check
    <3>1. /\ pc = "check" /\ InArea /\ HeaderWritten(op) /\ ~creator.exception
          /\ ~creator.abort /\ ~op.quick => creator.pos = DataEnd(op)
          /\ creator' = creator /\ file' = file /\ dirty' = dirty
          /\ pc' = IF creator.abort THEN "close" ELSE "backup"
      BY <2>1, <2>9 DEF Check, StageInv, Thread, host
    <3>2. InArea' /\ HeaderWritten(op)'
      BY <1>3, <2>2, <3>1 DEF InArea, HeaderWritten, DataWritten
    <3>3. ~creator.abort => Filled(op)
      <4>1. creator.pos \in DataStart(op) .. DataEnd(op)
        BY <3>1 DEF InArea
      <4>2. ~creator.abort /\ op.fat => DataStart(op) \in DataStart(op) .. creator.pos - 1
        BY <2>3, <3>1, <4>1 DEF InArea
      <4>3. QED  BY <3>1, <4>2 DEF Filled, InArea, DataWritten
    <3>4. Filled(op) => Filled(op)'
      BY <1>3, <2>2, <3>1 DEF Filled, DataWritten
    <3>5. QED
      BY <1>3, <2>2, <3>1, <3>2, <3>3, <3>4 DEF StageInv, Before, Thread
  <2>10. CASE CreateBackupHeader
    <3>1. /\ pc = "backup" /\ HeaderWritten(op) /\ Filled(op) /\ ~creator.exception
          /\ BackupPosition(op) = Second(op.type)
          /\ Put({Second(op.type)}, NewHeader)
          /\ creator' = [creator EXCEPT !.pos = Second(op.type) + 1]
          /\ pc' = IF op.type = "normal" THEN "backupNoise" ELSE "flush"
      BY <2>1, <2>10, Area DEF CreateBackupHeader, StageInv, Thread
    <3>2. /\ Second(op.type) \in Slot /\ Second(op.type) \in Block /\ Second(op.type) \notin {0, 1}
      BY <2>2, <2>3, Places DEF Slot, Block
    <3>3. \A b \in Block : file'[b] = IF b = Second(op.type) THEN NewHeader ELSE file[b]
      BY <3>1 DEF Put
    <3>4. HeaderWritten(op)'
      <4>1. \A b \in Block \ {Second(op.type)} : file'[b] = file[b]
        BY <3>3
      <4>2. First(op.type) \notin {Second(op.type)} /\ 1 \notin {Second(op.type)}
        BY <2>2, <3>2
      <4>3. QED  BY <1>3, <2>1, <3>1, <4>1, <4>2, KeepWritten
    <3>5. Filled(op)'
      BY <1>3, <2>1, <3>1, <3>2, <3>3, KeepFilled
    <3>6. file'[Second(op.type)] = NewHeader
      BY <3>2, <3>3
    <3>7. creator'.pos = Second(op.type) + 1 /\ creator'.exception = creator.exception
      BY <3>1 DEF TypeInv
    <3>8. op.type = "normal" => creator'.pos = Blocks - 1
      BY <2>3, <3>7, Places
    <3>9. op.type = "hidden" => Complete(op)'
      BY <1>3, <3>4, <3>5, <3>6 DEF Complete, NewHeader
    <3>10. QED
      BY <1>3, <2>2, <3>1, <3>4, <3>5, <3>6, <3>7, <3>8, <3>9 DEF StageInv, Before, Thread
  <2>11. CASE CreateBackupNoise
    <3>1. /\ pc = "backupNoise" /\ HeaderWritten(op) /\ Filled(op) /\ ~creator.exception
          /\ op.type = "normal" /\ creator.pos = Blocks - 1 /\ file[Second("normal")] = NewHeader
          /\ Put({creator.pos}, Noise) /\ creator' = [creator EXCEPT !.pos = @ + 1]
          /\ pc' = "flush"
      BY <2>1, <2>11 DEF CreateBackupNoise, PutNext, StageInv, Thread
    <3>2. Blocks - 1 \in Slot /\ Blocks - 1 \in Block /\ Blocks - 1 \notin {0, 1}
          /\ Second("normal") \in Block /\ Second("normal") # Blocks - 1
      BY <2>3, Places DEF Slot, Block
    <3>3. \A b \in Block : file'[b] = IF b = Blocks - 1 THEN Noise ELSE file[b]
      BY <3>1 DEF Put
    <3>4. HeaderWritten(op)'
      <4>1. \A b \in Block \ {Blocks - 1} : file'[b] = file[b]
        BY <3>3
      <4>2. First(op.type) \notin {Blocks - 1} /\ 1 \notin {Blocks - 1}
        BY <2>2, <3>2
      <4>3. QED  BY <1>3, <2>1, <3>1, <4>1, <4>2, KeepWritten
    <3>5. Filled(op)'
      BY <1>3, <2>1, <3>1, <3>2, <3>3, KeepFilled
    <3>6. file'[Second("normal")] = NewHeader /\ file'[Second("hidden")] = Noise
      BY <3>1, <3>2, <3>3, Places
    <3>7. creator'.exception = creator.exception
      BY <3>1 DEF TypeInv
    <3>8. Complete(op)'
      BY <1>3, <3>1, <3>4, <3>5, <3>6 DEF Complete, NewHeader
    <3>9. QED
      BY <1>3, <2>2, <3>1, <3>4, <3>7, <3>8 DEF StageInv, Before, Thread
  <2>12. CASE FlushVolume
    <3>1. /\ pc = "flush" /\ pc' = "close" /\ Complete(op) /\ creator' = creator
          /\ file' = file /\ dirty' = {}
      BY <2>1, <2>12 DEF FlushVolume, Flush, StageInv
    <3>2. Complete(op)'
      BY <1>3, <2>2, <3>1 DEF Complete, HeaderWritten, Filled, DataWritten
    <3>3. QED
      BY <1>3, <2>2, <3>1, <3>2 DEF StageInv, Before, Thread
  <2>13. CASE CreationFails
    <3>1. pc' \in {"close", "finished"} /\ creator'.exception
      BY <2>13 DEF CreationFails, TypeInv
    <3>2. QED
      BY <3>1 DEF StageInv, Before, Thread
  <2>14. CASE EndThread
    <3>1. /\ pc = "close" /\ pc' = "finished" /\ file' = file /\ dirty' = dirty
          /\ creator'.exception = creator.exception /\ creator'.abort = creator.abort
      BY <2>14 DEF EndThread, TypeInv, host
    <3>2. Complete(op) => Complete(op)'
      BY <1>3, <2>2, <3>1 DEF Complete, HeaderWritten, Filled, DataWritten
    <3>3. QED
      BY <1>3, <2>1, <2>2, <3>1, <3>2 DEF StageInv, Before, Thread
  <2>15. CASE AskAbort \/ \E yes \in BOOLEAN : AnswerAbort(yes)
    <3>1. /\ pc' = pc /\ file' = file /\ dirty' = dirty
          /\ creator'.pos = creator.pos /\ creator'.exception = creator.exception
          /\ creator.abort => creator'.abort
      BY <2>15 DEF AskAbort, AnswerAbort, TypeInv, host
    <3>2. /\ HeaderWritten(op) => HeaderWritten(op)'
          /\ Filled(op) => Filled(op)'
          /\ Complete(op) => Complete(op)'
          /\ InArea => InArea'
      BY <1>3, <2>2, <3>1 DEF Complete, HeaderWritten, Filled, DataWritten, InArea
    <3>3. QED
      BY <1>3, <2>1, <2>2, <3>1, <3>2 DEF StageInv, Before, Thread
  <2>16. QED
    BY <1>3, <2>1, <2>4, <2>5, <2>6, <2>7, <2>8, <2>9, <2>10, <2>11, <2>12, <2>13, <2>14,
       <2>15
<1>4. QED
  BY <1>1, <1>2, <1>3, CreationSteps

\* A change or the restoring of headers goes on.
LEMMA HeaderSteps ==
  ASSUME TypeInv, [Next]_vars, op'.kind \in {"change", "internal", "external"}
  PROVE  \/ UNCHANGED vars
         \/ \E p, q \in Password : StartChange(p, q)
         \/ \E p \in Password : StartRestoreInternal(p) \/ StartRestoreExternal(p)
         \/ ReEncryptHeader
         \/ ChangePass /\ AfterPass(op).kind # "none"
         \/ RestoreVolumeHeader /\ AlsoBackup(op)
<1>1. ~\E o \in Creations : StartCreation(o)
  BY DEF StartCreation, Begin, Creations
<1>2. ~(\/ CreateVolumeHeader \/ CreateVolumeNoise \/ StartThread \/ Format \/ Fill \/ Check
        \/ CreateBackupHeader \/ CreateBackupNoise \/ FlushVolume \/ CreationFails
        \/ EndThread)
  BY DEF CreateVolumeHeader, CreateVolumeNoise, StartThread, Format, Fill, Check,
         CreateBackupHeader, CreateBackupNoise, FlushVolume, CreationFails,
         EndThread, PutNext, TypeInv, StateInv, Before, Thread
<1>3. ~(AskAbort \/ \E yes \in BOOLEAN : AnswerAbort(yes))
  BY DEF AskAbort, AnswerAbort, Working, TypeInv, StateInv, Before, Thread
<1>4. ~(FinishCreation \/ Crash \/ HeaderWriteFails)
  BY Nothing DEF FinishCreation, End, Crash, HeaderWriteFails
<1>5. ChangePass => AfterPass(op).kind # "none"
  BY Nothing DEF ChangePass, End
<1>6. RestoreVolumeHeader => AlsoBackup(op)
  BY Nothing DEF RestoreVolumeHeader, End
<1>7. ~\E p, q \in Password, hiddenToo \in BOOLEAN : BackupVolumeHeaders(p, q, hiddenToo)
  BY DEF BackupVolumeHeaders, CanStart, TypeInv, StateInv
<1>8. QED
  BY <1>1, <1>2, <1>3, <1>4, <1>5, <1>6, <1>7 DEF Next

\* The places where a change or restoring writes: the first header, then the second.
LEMMA OperationPlaces ==
  ASSUME TypeInv
  PROVE  /\ op.type \in Type /\ op.layout \in Layout /\ op.second \in BOOLEAN
         /\ First(op.type) \in Slot /\ PlaceOfOperation \in Slot
         /\ First(op.type) \in Block /\ PlaceOfOperation \in Block
         /\ op.layout = "V2" /\ ~op.second => PlaceOfOperation = First(op.type)
         /\ op.layout = "V2" /\ op.second =>
              PlaceOfOperation = Second(op.type) /\ PlaceOfOperation # First(op.type)
<1>1. op.type \in Type /\ op.layout \in Layout /\ op.second \in BOOLEAN
  BY DEF TypeInv, Operation
<1>2. /\ PlaceOfOperation \in {First(op.type), Second(op.type)}
      /\ {First(op.type), Second(op.type)} \subseteq Slot /\ First(op.type) # Second(op.type)
      /\ Slot \subseteq Block
  BY <1>1, Places, HeaderTypes
<1>3. /\ op.layout = "V2" /\ ~op.second => PlaceOfOperation = First(op.type)
      /\ op.layout = "V2" /\ op.second => PlaceOfOperation = Second(op.type)
  BY <1>1 DEF PlaceOfOperation, First, Second, Place
<1>4. QED  BY <1>1, <1>2, <1>3

\* How a change goes on after a pass.
LEMMA PassCases ==
  ASSUME TypeInv, op.kind = "change", op.pass \in 1 .. Passes
  PROVE  \/ op.pass < Passes /\ AfterPass(op) = [op EXCEPT !.pass = @ + 1]
         \/ /\ op.pass = Passes /\ op.layout = "V2" /\ ~op.second
            /\ AfterPass(op) = [op EXCEPT !.pass = 1, !.second = TRUE]
         \/ /\ op.pass = Passes /\ (op.layout = "V2" => op.second)
            /\ AfterPass(op) = [op EXCEPT !.kind = "none"]
BY HeadersAssumption DEF AfterPass, HasBackupHeader

LEMMA ChangeStep == ASSUME TypeInv, TypeInv', ChangeInv, [Next]_vars  PROVE ChangeInv'
<1> SUFFICES ASSUME op'.kind = "change"  PROVE ChangeInv'
  BY DEF ChangeInv
<1>1. ASSUME NEW p \in Password, NEW q \in Password, StartChange(p, q)  PROVE ChangeInv'
  <2>1. PICK o \in Openings(p, FALSE) : op' = OperationOn("change", o[1], o[2], FALSE, q)
    BY <1>1 DEF StartChange, Begin
  <2>2. op'.pass = 1 /\ ~op'.second
    BY <2>1 DEF OperationOn, NoOperation
  <2>3. pc' = "reEncrypt" /\ \A b \in Slot : overwritten'[b] = 0
    BY <1>1 DEF StartChange, Begin
  <2>4. op'.type \in Type /\ op'.layout \in Layout /\ op'.second \in BOOLEAN
    BY DEF TypeInv, Operation
  <2>5. Place(op'.type, op'.layout, op'.second) \in {First(op'.type), Second(op'.type)}
        /\ {First(op'.type), Second(op'.type)} \subseteq Slot
    BY <2>4, Places
  <2>6. overwritten'[PlaceOfOperation'] = 0
    BY <2>3, <2>5 DEF PlaceOfOperation
  <2>7. QED
    BY <2>2, <2>3, <2>6, HeadersAssumption DEF ChangeInv
<1>2. CASE ReEncryptHeader
  <2>1. /\ pc = "reEncrypt" /\ op.kind = "change" /\ op' = op
        /\ Put({PlaceOfOperation}, HeaderOfOperation)
    BY <1>2 DEF ReEncryptHeader, TypeInv, StateInv
  <2>2. /\ \A b \in Block : file'[b] = IF b = PlaceOfOperation THEN HeaderOfOperation ELSE file[b]
        /\ dirty' = dirty \union {PlaceOfOperation} /\ overwritten' = overwritten
    BY <2>1 DEF Put
  <2>3. PlaceOfOperation' = PlaceOfOperation /\ HeaderOfOperation' = HeaderOfOperation
    BY <2>1 DEF PlaceOfOperation, HeaderOfOperation
  <2>4. QED
    BY <2>1, <2>2, <2>3, OperationPlaces DEF ChangeInv
<1>3. CASE ChangePass /\ AfterPass(op).kind # "none"
  <2>1. /\ pc = "sync" /\ op.kind = "change" /\ Flush /\ op' = AfterPass(op) /\ pc' = "reEncrypt"
    BY <1>3 DEF ChangePass, FlushHeader, TypeInv, StateInv
  <2>2. /\ op.pass \in 1 .. Passes /\ op \in Operation
        /\ PlaceOfOperation \in dirty /\ file[PlaceOfOperation] = HeaderOfOperation
        /\ overwritten[PlaceOfOperation] >= op.pass - 1
        /\ op.second => /\ op.layout = "V2" /\ file[First(op.type)] = HeaderOfOperation
                        /\ overwritten[First(op.type)] >= Passes
    BY <2>1 DEF ChangeInv, TypeInv
  <2>3. /\ file' = file /\ dirty' = {}
        /\ \A b \in Slot : /\ overwritten'[b] = overwritten[b] + (IF b \in dirty THEN 1 ELSE 0)
                           /\ overwritten[b] \in Nat
    BY <2>1 DEF Flush, TypeInv
  <2>4. Passes \in Nat \ {0}
    BY HeadersAssumption
  <2>5. /\ overwritten'[PlaceOfOperation] >= op.pass
        /\ overwritten'[First(op.type)] >= overwritten[First(op.type)]
    BY <2>2, <2>3, OperationPlaces
  <2>6. CASE op.pass < Passes /\ AfterPass(op) = [op EXCEPT !.pass = @ + 1]
    <3>1. /\ op'.pass = op.pass + 1 /\ op'.second = op.second /\ op'.layout = op.layout
          /\ op'.type = op.type
          /\ PlaceOfOperation' = PlaceOfOperation /\ HeaderOfOperation' = HeaderOfOperation
      BY <2>1, <2>2, <2>6 DEF PlaceOfOperation, HeaderOfOperation, Operation
    <3>2. overwritten[First(op.type)] \in Nat /\ overwritten'[First(op.type)] \in Nat
      BY <2>3, OperationPlaces DEF TypeInv
    <3>3. op.second => overwritten'[First(op.type)] >= Passes
      BY <2>2, <2>4, <2>5, <3>2
    <3>4. QED
      BY <2>1, <2>2, <2>3, <2>4, <2>5, <2>6, <3>1, <3>3 DEF ChangeInv
  <2>7. CASE /\ op.pass = Passes /\ op.layout = "V2" /\ ~op.second
             /\ AfterPass(op) = [op EXCEPT !.pass = 1, !.second = TRUE]
    <3>1. /\ op'.pass = 1 /\ op'.second /\ op'.layout = "V2" /\ op'.type = op.type
          /\ HeaderOfOperation' = HeaderOfOperation
      BY <2>1, <2>2, <2>7 DEF HeaderOfOperation, Operation
    <3>2. PlaceOfOperation = First(op.type)
      BY <2>7, OperationPlaces
    <3>3. PlaceOfOperation' \in Slot
      BY <3>1, Places, OperationPlaces DEF PlaceOfOperation, Second
    <3>4. overwritten'[PlaceOfOperation'] \in Nat
      BY <3>3 DEF TypeInv
    <3>5. QED
      BY <2>1, <2>2, <2>3, <2>4, <2>5, <2>7, <3>1, <3>2, <3>4 DEF ChangeInv
  <2>8. CASE AfterPass(op) = [op EXCEPT !.kind = "none"]
    BY <1>3, <2>2, <2>8 DEF Operation
  <2>9. QED
    BY <2>1, <2>2, <2>6, <2>7, <2>8, PassCases
<1>4. CASE UNCHANGED vars
  BY <1>4 DEF vars, host, ChangeInv, PlaceOfOperation, HeaderOfOperation
<1>5. CASE RestoreVolumeHeader \/ \E p \in Password : StartRestoreInternal(p) \/ StartRestoreExternal(p)
  <2>1. pc' = "restore" \/ op'.kind # "change"
    BY <1>5, Nothing
      DEF RestoreVolumeHeader, End, StartRestoreInternal, StartRestoreExternal, Begin
  <2>2. QED  BY <2>1 DEF TypeInv, StateInv
<1>6. QED
  BY <1>1, <1>2, <1>3, <1>4, <1>5, HeaderSteps

LEMMA RestoreStep == ASSUME TypeInv, TypeInv', RestoreInv, [Next]_vars  PROVE RestoreInv'
<1> SUFFICES ASSUME op'.kind \in {"internal", "external"}  PROVE RestoreInv'
  BY DEF RestoreInv
<1>1. ASSUME NEW p \in Password, StartRestoreInternal(p) \/ StartRestoreExternal(p)
      PROVE  RestoreInv'
  <2>1. ~op'.second
    BY <1>1 DEF StartRestoreInternal, StartRestoreExternal, Begin, OperationOn, NoOperation
  <2>2. QED  BY <2>1 DEF RestoreInv
<1>2. CASE RestoreVolumeHeader /\ AlsoBackup(op)
  <2>1. /\ op' = [op EXCEPT !.second = TRUE] /\ op.kind = "external" /\ op.layout = "V2"
        /\ ~op.second /\ Put({PlaceOfOperation}, HeaderOfOperation) /\ op \in Operation
    BY <1>2 DEF RestoreVolumeHeader, AlsoBackup, HasBackupHeader, TypeInv
  <2>2. /\ op'.kind = "external" /\ op'.layout = "V2" /\ op'.type = op.type
        /\ HeaderOfOperation' = HeaderOfOperation
    BY <2>1 DEF Operation, HeaderOfOperation
  <2>3. file'[First(op.type)] = HeaderOfOperation
    BY <2>1, OperationPlaces DEF Put
  <2>4. QED  BY <2>2, <2>3 DEF RestoreInv
<1>3. CASE UNCHANGED vars
  BY <1>3 DEF vars, host, RestoreInv, HeaderOfOperation
<1>4. CASE (\E p, q \in Password : StartChange(p, q)) \/ ReEncryptHeader
           \/ (ChangePass /\ AfterPass(op).kind # "none")
  <2>1. pc' \in {"reEncrypt", "sync"}
    BY <1>4 DEF StartChange, Begin, ReEncryptHeader, ChangePass
  <2>2. QED  BY <2>1 DEF TypeInv, StateInv
<1>5. QED
  BY <1>1, <1>2, <1>3, <1>4, HeaderSteps

\* The user is told something, or was told it and nothing has happened since but
\* a crash.
LEMMA ReportSteps ==
  ASSUME TypeInv, [Next]_vars, report'.kind # "none"
  PROVE  \/ UNCHANGED vars
         \/ Crash /\ report' = report /\ report.kind \in {"create", "change"}
         \/ FinishCreation /\ Created /\ report' = op
         \/ ChangePass /\ AfterPass(op).kind = "none" /\ report' = op
         \/ RestoreVolumeHeader /\ ~AlsoBackup(op) /\ report' = op
<1>1. ~((\E o \in Creations : StartCreation(o)) \/ (\E p, q \in Password : StartChange(p, q))
        \/ (\E p \in Password : StartRestoreInternal(p) \/ StartRestoreExternal(p))
        \/ (\E p, q \in Password, hiddenToo \in BOOLEAN : BackupVolumeHeaders(p, q, hiddenToo)))
  BY Nothing
    DEF StartCreation, Begin, StartChange, StartRestoreInternal, StartRestoreExternal,
                 BackupVolumeHeaders
<1>2. ~(\/ CreateVolumeHeader \/ CreateVolumeNoise \/ StartThread \/ Format \/ Fill \/ Check
        \/ CreateBackupHeader \/ CreateBackupNoise \/ FlushVolume \/ CreationFails
        \/ EndThread \/ ReEncryptHeader)
  BY DEF CreateVolumeHeader, CreateVolumeNoise, StartThread, Format, Fill, Check,
         CreateBackupHeader, CreateBackupNoise, FlushVolume, CreationFails,
         EndThread, ReEncryptHeader, PutNext, TypeInv, StateInv
<1>3. ~(AskAbort \/ \E yes \in BOOLEAN : AnswerAbort(yes))
  BY DEF AskAbort, AnswerAbort, Working, TypeInv, StateInv, Before, Thread
<1>4. FinishCreation => Created /\ report' = op
  BY Nothing DEF FinishCreation, End
<1>5. ChangePass => AfterPass(op).kind = "none" /\ report' = op
  BY DEF ChangePass, End, FlushHeader, TypeInv, StateInv
<1>6. RestoreVolumeHeader => ~AlsoBackup(op) /\ report' = op
  BY DEF RestoreVolumeHeader, End, TypeInv, StateInv
<1>7. ~HeaderWriteFails
  BY Nothing DEF HeaderWriteFails, End
<1>8. Crash => report' = report /\ report.kind \in {"create", "change"}
  BY Nothing DEF Crash
<1>9. QED
  BY <1>1, <1>2, <1>3, <1>4, <1>5, <1>6, <1>7, <1>8 DEF Next

LEMMA ToldStep ==
  ASSUME TypeInv, SyncInv, CreateInv, ChangeInv, RestoreInv, ToldInv, SyncInv', TypeInv', [Next]_vars
  PROVE  ToldInv'
<1> SUFFICES ASSUME report'.kind # "none"  PROVE ToldInv'
  BY DEF ToldInv, OldPasswordGone, CreatedIsComplete, RestoredOpens
<1>1. CASE UNCHANGED vars
  BY <1>1
    DEF vars, host, ToldInv, OldPasswordGone, CreatedIsComplete, RestoredOpens, DataStart,
              DataEnd
<1>2. CASE Crash /\ report' = report /\ report.kind \in {"create", "change"}
  <2>1. dirty = {} /\ dirty' = {} /\ overwritten' = overwritten
    BY <1>2, CrashEffect DEF ToldInv
  <2>2. \A b \in Block : disk'[b] = disk[b]
    BY <1>2, <2>1, CrashEffect DEF SyncInv
  <2>3. disk' = disk
    <3>1. disk = [b \in Block |-> disk[b]] /\ disk' = [b \in Block |-> disk'[b]]
      BY DEF TypeInv
    <3>2. QED  BY <2>2, <3>1
  <2>4. QED
    BY <1>2, <2>1, <2>3
      DEF ToldInv, OldPasswordGone, CreatedIsComplete, RestoredOpens, DataStart,
                            DataEnd
<1>3. CASE FinishCreation /\ Created /\ report' = op
  <2>1. /\ op.kind = "create" /\ pc = "finished" /\ ~creator.exception /\ ~creator.abort
    BY <1>3 DEF FinishCreation, Created, TypeInv, StateInv
  <2>2. dirty = {} /\ Complete(op)
    BY <2>1 DEF CreateInv, StageInv
  <2>3. disk' = disk /\ file' = file /\ dirty' = dirty
    BY <1>3 DEF FinishCreation, host
  <2>4. \A b \in Block : disk'[b] = file[b]
    BY <2>2, <2>3 DEF SyncInv
  <2>5. op.type \in Type
    BY DEF TypeInv, Operation
  <2>6. \A t \in Type : First(t) \in Block /\ Second(t) \in Block
    BY Places
  <2>7. /\ disk'[First(op.type)] = Header(op.type, "V2", op.key, op.password)
        /\ disk'[Second(op.type)] = Header(op.type, "V2", op.key, op.password)
        /\ op.type = "normal" => disk'[First("hidden")] = Noise /\ disk'[Second("hidden")] = Noise
    BY <2>2, <2>4, <2>5, <2>6, Places DEF Complete, HeaderWritten, Type
  <2>8. /\ op.fat => disk'[DataStart(op)] = Data(op.key)
        /\ ~op.quick => \A b \in DataStart(op) .. DataEnd(op) - 1 : disk'[b] = Data(op.key)
    BY <2>1, <2>2, <2>4, Area DEF Complete, Filled, DataWritten
  <2>9. QED
    BY <1>3, <2>1, <2>2, <2>3, <2>7, <2>8
       DEF ToldInv, OldPasswordGone, CreatedIsComplete, RestoredOpens, First, Second,
           DataStart,
           DataEnd
<1>4. CASE ChangePass /\ AfterPass(op).kind = "none" /\ report' = op
  <2>1. pc = "sync" /\ op.kind = "change" /\ Flush
    BY <1>4 DEF ChangePass, FlushHeader, TypeInv, StateInv
  <2>2. /\ op.pass \in 1 .. Passes /\ op \in Operation
        /\ PlaceOfOperation \in dirty /\ file[PlaceOfOperation] = HeaderOfOperation
        /\ overwritten[PlaceOfOperation] >= op.pass - 1
        /\ op.second => /\ op.layout = "V2" /\ file[First(op.type)] = HeaderOfOperation
                        /\ overwritten[First(op.type)] >= Passes
    BY <2>1 DEF ChangeInv, TypeInv
  <2>3. op.pass = Passes /\ (op.layout = "V2" => op.second)
    BY <1>4, <2>1, <2>2, PassCases DEF Operation
  <2>4. /\ disk' = file /\ dirty' = {}
        /\ \A b \in Slot : /\ overwritten'[b] = overwritten[b] + (IF b \in dirty THEN 1 ELSE 0)
                           /\ overwritten[b] \in Nat
    BY <2>1 DEF Flush, TypeInv
  <2>5. disk'[PlaceOfOperation] = HeaderOfOperation /\ overwritten'[PlaceOfOperation] >= Passes
    BY <2>2, <2>3, <2>4, OperationPlaces, HeadersAssumption
  <2>6. op.second => /\ disk'[First(op.type)] = HeaderOfOperation
                     /\ overwritten'[First(op.type)] >= Passes
    BY <2>2, <2>4, OperationPlaces, HeadersAssumption
  <2>7. ASSUME NEW i \in BOOLEAN, i => op.layout = "V2"
        PROVE  /\ disk'[Place(op.type, op.layout, i)] = HeaderOfOperation
               /\ overwritten'[Place(op.type, op.layout, i)] >= Passes
    <3>1. CASE i
      BY <2>3, <2>5, <2>7, <3>1 DEF PlaceOfOperation, Place
    <3>2. CASE ~i /\ op.layout = "V2"
      BY <2>3, <2>6, <3>2 DEF First, Place
    <3>3. CASE ~i /\ op.layout = "V1"
      BY <2>5, <3>3 DEF PlaceOfOperation, Place
    <3>4. QED  BY <3>1, <3>2, <3>3, OperationPlaces DEF Layout
  <2>8. QED
    BY <1>4, <2>1, <2>4, <2>7
       DEF ToldInv, OldPasswordGone, CreatedIsComplete, RestoredOpens, HasBackupHeader,
           HeaderOfOperation
<1>5. CASE RestoreVolumeHeader /\ ~AlsoBackup(op) /\ report' = op
  <2>1. /\ op.kind \in {"internal", "external"} /\ op \in Operation
        /\ Put({PlaceOfOperation}, HeaderOfOperation)
    BY <1>5 DEF RestoreVolumeHeader, TypeInv, StateInv, Operation, Before, Thread
  <2>2. \A b \in Block : file'[b] = IF b = PlaceOfOperation THEN HeaderOfOperation ELSE file[b]
    BY <2>1 DEF Put
  <2>3. op.kind = "internal" => ~op.second
    BY DEF RestoreInv
  <2>4. op.kind = "external" /\ op.layout = "V2" => op.second
    BY <1>5 DEF AlsoBackup, HasBackupHeader
  <2>5. op.kind = "external" /\ op.second =>
          op.layout = "V2" /\ file'[First(op.type)] = HeaderOfOperation
    BY <2>2, OperationPlaces DEF RestoreInv
  <2>6. file'[PlaceOfOperation] = HeaderOfOperation
    BY <2>2, OperationPlaces
  <2>7. ASSUME NEW i \in BOOLEAN, i => op.kind = "external" /\ op.layout = "V2"
        PROVE  file'[Place(op.type, op.layout, i)] = HeaderOfOperation
    <3>1. CASE i
      BY <2>4, <2>6, <2>7, <3>1 DEF PlaceOfOperation, Place
    <3>2. CASE ~i /\ op.second
      BY <2>1, <2>3, <2>5, <3>2 DEF First
    <3>3. CASE ~i /\ ~op.second
      BY <2>6, <3>3 DEF PlaceOfOperation, Place
    <3>4. QED  BY <3>1, <3>2, <3>3, OperationPlaces
  <2>8. QED
    BY <1>5, <2>1, <2>7
       DEF ToldInv, OldPasswordGone, CreatedIsComplete, RestoredOpens, HasBackupHeader,
           HeaderOfOperation
<1>6. QED
  BY <1>1, <1>2, <1>3, <1>4, <1>5, ReportSteps

LEMMA CountStep ==
  ASSUME TypeInv, TypeInv', ChangeInv, CountInv, [Next]_vars  PROVE CountInv'
<1>1. Passes \in Nat \ {0}
  BY HeadersAssumption
<1>2. \A b \in Slot : overwritten[b] \in Nat /\ overwritten'[b] \in Nat
  BY DEF TypeInv
<1>3. CASE \E o \in Creations : StartCreation(o)
  <2>1. op'.kind = "create" /\ \A b \in Slot : overwritten'[b] = 0
    BY <1>3 DEF StartCreation, Begin, Creations
  <2>2. QED  BY <1>1, <2>1 DEF CountInv
<1>4. CASE \E p, q \in Password : StartChange(p, q)
  <2>1. pc' = "reEncrypt" /\ (\A b \in Slot : overwritten'[b] = 0) /\ op'.pass = 1 /\ ~op'.second
    BY <1>4 DEF StartChange, Begin, OperationOn, NoOperation
  <2>2. QED  BY <1>1, <2>1 DEF CountInv, Before, Thread
<1>5. CASE FlushVolume
  <2>1. /\ pc = "flush" /\ pc' = "close" /\ Flush
    BY <1>5 DEF FlushVolume
  <2>2. \A b \in Slot : overwritten[b] = 0 /\ overwritten'[b] \in {0, 1}
    BY <2>1 DEF CountInv, Thread, Flush
  <2>3. QED
    BY <1>1, <2>1, <2>2 DEF CountInv, TypeInv, StateInv, Before, Thread
<1>6. CASE ChangePass
  <2>1. /\ pc = "sync" /\ op.kind = "change" /\ Flush /\ op.pass \in 1 .. Passes /\ op \in Operation
        /\ op.second \in BOOLEAN
    BY <1>6 DEF ChangePass, FlushHeader, TypeInv, StateInv, ChangeInv, Operation
  <2>2. \A b \in Slot : overwritten'[b] <= op.pass + (IF op.second THEN Passes ELSE 0)
    BY <1>1, <1>2, <2>1 DEF CountInv, Flush
  <2>3. \A b \in Slot : overwritten'[b] <= 2 * Passes
    BY <1>1, <1>2, <2>1, <2>2
  <2>4. pc' \in {"idle", "reEncrypt"}
    BY <1>6 DEF ChangePass, End
  <2>5. CASE AfterPass(op).kind = "none"
    BY <1>6, <2>3, <2>4, <2>5, Nothing DEF ChangePass, End, CountInv, Before, Thread
  <2>6. CASE AfterPass(op).kind # "none"
    <3>1. op' = AfterPass(op)
      BY <1>6, <2>6 DEF ChangePass
    <3>2. CASE op.pass < Passes /\ AfterPass(op) = [op EXCEPT !.pass = @ + 1]
      <4>1. op'.pass = op.pass + 1 /\ op'.second = op.second
        BY <2>1, <3>1, <3>2 DEF Operation
      <4>2. QED  BY <1>1, <1>2, <2>1, <2>2, <2>3, <2>4, <4>1 DEF CountInv, Before, Thread
    <3>3. CASE op.pass = Passes /\ ~op.second /\ AfterPass(op) = [op EXCEPT !.pass = 1, !.second = TRUE]
      <4>1. op'.pass = 1 /\ op'.second
        BY <2>1, <3>1, <3>3 DEF Operation
      <4>2. QED  BY <1>1, <1>2, <2>1, <2>2, <2>3, <2>4, <3>3, <4>1
                 DEF CountInv, Before, Thread
    <3>4. CASE AfterPass(op) = [op EXCEPT !.kind = "none"]
      BY <2>1, <2>6, <3>4 DEF Operation
    <3>5. QED  BY <2>1, <3>2, <3>3, <3>4, PassCases
  <2>7. QED  BY <2>5, <2>6
<1>7. ASSUME ~\E o \in Creations : StartCreation(o), ~\E p, q \in Password : StartChange(p, q),
             ~FlushVolume, ~ChangePass
      PROVE  CountInv'
  <2>1. overwritten' = overwritten
    BY <1>7
      DEF vars, host, Next, CreateVolumeHeader, CreateVolumeNoise, StartThread, Format,
          Fill,
                Check, CreateBackupHeader, CreateBackupNoise, CreationFails, EndThread, AskAbort,
                AnswerAbort, FinishCreation, ReEncryptHeader, BackupVolumeHeaders,
                StartRestoreInternal, StartRestoreExternal, RestoreVolumeHeader, HeaderWriteFails,
                Crash, PutNext, Put, PutFails, FlushFails
  <2>2. op'.kind = "change" => op' = op
    <3>1. op'.kind = "change" /\ RestoreVolumeHeader => FALSE
      BY DEF RestoreVolumeHeader, End, TypeInv, StateInv
    <3>2. op'.kind = "change"
          /\ (\E p \in Password : StartRestoreInternal(p) \/ StartRestoreExternal(p)) => FALSE
      BY DEF StartRestoreInternal, StartRestoreExternal, Begin, TypeInv, StateInv
    <3>3. QED  BY <1>7, <3>1, <3>2, HeaderSteps DEF vars, ReEncryptHeader
  <2>3. pc' \in Before \union (Thread \ {"close"}) => pc \in Before \union (Thread \ {"close"})
    <3> SUFFICES ASSUME pc' \in Before \union (Thread \ {"close"})
                 PROVE  pc \in Before \union (Thread \ {"close"})
      OBVIOUS
    <3>1. op'.kind = "create"
      BY DEF TypeInv, StateInv
    <3>2. QED
      BY <1>7, <3>1, CreationSteps
         DEF vars, CreateVolumeHeader, CreateVolumeNoise, StartThread, Format, Fill, Check,
             CreateBackupHeader, CreateBackupNoise, CreationFails, EndThread, AskAbort, AnswerAbort,
             PutNext, Before, Thread
  <2>4. QED
    BY <2>1, <2>2, <2>3, SMTT(30) DEF CountInv
<1>8. QED
  BY <1>3, <1>4, <1>5, <1>6, <1>7

LEMMA InitWork == Init => WorkInv
<1> SUFFICES ASSUME Init  PROVE WorkInv
  OBVIOUS
<1>1. op.kind = "none" /\ report.kind = "none" /\ pc = "idle" /\ disk = file
      /\ \A b \in Slot : overwritten[b] = 0
  BY Nothing DEF Init
<1>2. QED
  BY <1>1, HeadersAssumption
     DEF WorkInv, SyncInv, CreateInv, ChangeInv, RestoreInv, ToldInv, CountInv, PromiseInv,
         OldPasswordGone, CreatedIsComplete, RestoredOpens, Before, Thread

LEMMA WorkStep == ASSUME TypeInv, WorkInv, [Next]_vars  PROVE TypeInv' /\ WorkInv'
<1>1. TypeInv'
  BY TypeStep DEF WorkInv
<1>2. SyncInv'
  BY SyncStep DEF WorkInv
<1>3. CreateInv'
  BY CreateStep DEF WorkInv, CreateInv
<1>4. QED
  BY <1>1, <1>2, <1>3, ChangeStep, RestoreStep, ToldStep, CountStep, PromiseStep DEF WorkInv

LEMMA Works == Spec => [](TypeInv /\ WorkInv)
BY InitType, InitWork, WorkStep, PTL DEF Spec

LEMMA TypesHold == ASSUME TypeInv, WorkInv  PROVE TypeOK
<1>1. overwritten \in [Slot -> 0 .. 2 * Passes]
  BY HeadersAssumption DEF TypeInv, WorkInv, CountInv
<1>2. creator.inProgress => op.kind = "create"
  BY DEF TypeInv, StateInv
<1>3. wizard.pending => Working
  BY DEF TypeInv, StateInv, Working
<1>4. QED
  BY <1>1, <1>2, <1>3 DEF TypeOK, TypeInv, StateInv, Operation

\* Every variable keeps its type, and a change of the password has flushed a block at
\* most once in each pass it has finished, over both headers: at most twice the number
\* of passes.  (A flush is of the whole host: a backup header that was restored and not
\* yet flushed goes with the first header.)
THEOREM TypeCorrect ==
  Spec => [](/\ TypeOK
             /\ op.kind = "change" =>
                  \A b \in Slot :
                    overwritten[b] <= op.pass - 1 + (IF op.second THEN Passes ELSE 0))
<1>1. TypeInv /\ WorkInv =>
        /\ TypeOK
        /\ op.kind = "change" =>
             \A b \in Slot :
               overwritten[b] <= op.pass - 1 + (IF op.second THEN Passes ELSE 0)
  BY TypesHold DEF WorkInv, CountInv
<1>2. QED  BY Works, <1>1, PTL

\* Whatever fails and whenever the system goes down, the program never reports more
\* than it has done: of a change of the password, of a creation that an abort or an
\* error may have met, and of headers that were restored.
THEOREM ReportsHold == Spec => []ReportHolds
<1>1. WorkInv => ReportHolds
  BY DEF WorkInv, ToldInv, ReportHolds
<1>2. QED  BY Works, <1>1, PTL

-----------------------------------------------------------------------------
(* What one operation leaves alone.                                        *)

\* A block that a step does not write; a flush may bring it to the medium.
Left(b) ==
  /\ file'[b] = file[b] /\ disk'[b] \in {disk[b], file[b]}
  /\ b \in dirty' => b \in dirty

\* Only the two places of its type are written by an operation on headers.
LEMMA OtherPlaces ==
  ASSUME TypeInv, NEW t \in Type, t # op.type, NEW i \in BOOLEAN
  PROVE  /\ Place(t, promise[t].layout, i) \in Block /\ Place(t, promise[t].layout, i) \in Slot
         /\ Place(t, promise[t].layout, i) # PlaceOfOperation
         /\ Place(t, promise[t].layout, i) \notin {First(op.type), Second(op.type)}
<1>1. op.type \in Type /\ promise[t].layout \in Layout
  BY DEF TypeInv, Operation
<1>2. /\ Place(t, promise[t].layout, i) \in {First(t), Second(t)}
      /\ Place(t, promise[t].layout, i) \in Block
  BY <1>1, Places
<1>3. PlaceOfOperation \in {First(op.type), Second(op.type)}
  BY HeaderTypes
<1>4. /\ {First(t), Second(t)} \cap {First(op.type), Second(op.type)} = {}
      /\ {First(t), Second(t)} \subseteq Slot
  BY <1>1, Places
<1>5. QED  BY <1>2, <1>3, <1>4

\* Making a hidden volume writes its two headers and its data area.
LEMMA CreationWrites ==
  ASSUME TypeInv, WorkInv, op.kind = "create", op.type = "hidden", [Next]_vars, ~Crash,
         NEW b \in Block, b \notin {First(op.type), Second(op.type)},
         b \notin DataStart(op) .. DataEnd(op) - 1
  PROVE  Left(b)
<1>1. CreateInv /\ ShapeInv /\ StageInv /\ op.quick
  BY DEF WorkInv, CreateInv, ShapeInv
<1>2. /\ DataStart(op) \in 2 .. Blocks - 2 /\ DataEnd(op) \in DataStart(op) .. Blocks - 2
      /\ Blocks \in Nat /\ FatBlocks \in Nat
  BY <1>1, Area, HeadersAssumption
<1>3. CASE CreateVolumeHeader
  BY <1>1, <1>3 DEF CreateVolumeHeader, PutNext, Put, StageInv, Left
<1>4. CASE CreateVolumeNoise
  BY <1>1, <1>4 DEF CreateVolumeNoise, StageInv
<1>5. CASE Format
  <2>1. PICK n \in 0 .. FatBlocks : Put(creator.pos .. creator.pos + n - 1, Data(op.key))
    BY <1>5 DEF Format
  <2>2. /\ pc = "format" /\ creator.pos = DataStart(op) /\ DataStart(op) + FatBlocks <= DataEnd(op)
    BY <1>1, <1>5 DEF Format, StageInv, ShapeInv
  <2>3. b \notin creator.pos .. creator.pos + n - 1
    BY <1>2, <2>2
  <2>4. QED  BY <2>1, <2>3 DEF Put, Left
<1>6. CASE Fill
  BY <1>1, <1>6 DEF Fill, StageInv
<1>7. CASE CreateBackupHeader
  BY <1>1, <1>7, Area DEF CreateBackupHeader, Put, Left
<1>8. CASE CreateBackupNoise
  BY <1>1, <1>8 DEF CreateBackupNoise, StageInv
<1>9. CASE CreationFails
  <2>1. CASE PutFails(creator.pos) /\ pc \in {"header", "format"}
    <3>1. creator.pos \in {First(op.type)} \union (DataStart(op) .. DataEnd(op) - 1)
      BY <1>1, <1>2, <2>1, HeadersAssumption DEF StageInv, ShapeInv
    <3>2. b # creator.pos
      BY <3>1
    <3>3. QED  BY <2>1, <3>2, PutFailsEffect DEF Left
  <2>2. CASE PutFails(BackupPosition(op)) /\ pc = "backup"
    BY <1>1, <2>2, Area, PutFailsEffect DEF Left
  <2>3. CASE FlushFails
    BY <2>3 DEF FlushFails, host, Left
  <2>4. QED  BY <1>1, <1>9, <2>1, <2>2, <2>3 DEF CreationFails, StageInv
<1>10. CASE FinishCreation
  BY <1>10 DEF FinishCreation, host, Left
<1>11. CASE ~(CreateVolumeHeader \/ CreateVolumeNoise \/ Format \/ Fill \/ CreateBackupHeader
              \/ CreateBackupNoise \/ CreationFails \/ FinishCreation)
  <2>1. ~(ReEncryptHeader \/ ChangePass \/ RestoreVolumeHeader \/ HeaderWriteFails)
    BY DEF ReEncryptHeader, ChangePass, FlushHeader, RestoreVolumeHeader, HeaderWriteFails,
           TypeInv, StateInv, Before, Thread
  <2>2. ~(\/ \E o \in Creations : StartCreation(o)
          \/ \E p, q \in Password : StartChange(p, q)
          \/ \E p \in Password : StartRestoreInternal(p) \/ StartRestoreExternal(p)
          \/ \E p, q \in Password, hiddenToo \in BOOLEAN : BackupVolumeHeaders(p, q, hiddenToo))
    BY DEF StartCreation, StartChange, StartRestoreInternal, StartRestoreExternal,
           BackupVolumeHeaders, CanStart, TypeInv, StateInv
  <2>3. file' = file /\ disk' \in {disk, file} /\ (dirty' = dirty \/ dirty' = {})
    BY <1>11, <2>1, <2>2
       DEF Next, StartThread, Check, FlushVolume, Flush, EndThread, AskAbort, AnswerAbort,
           host, vars
  <2>4. QED  BY <2>3 DEF Left
<1>12. QED
  BY <1>3, <1>4, <1>5, <1>6, <1>7, <1>8, <1>9, <1>10, <1>11

LEMMA AloneStep ==
  ASSUME TypeInv, WorkInv, [Next]_vars, ~Crash
  PROVE  /\ \A t \in Type, i \in BOOLEAN :
              promise[t].key # 0 /\ op.kind # "none" /\ op.type # t
                => Left(Place(t, promise[t].layout, i))
         /\ op.kind = "create" /\ op.type = "hidden" =>
              \A b \in Block \ Slot : b < DataStart(op) => Left(b)
<1>1. ASSUME NEW t \in Type, NEW i \in BOOLEAN, promise[t].key # 0, op.kind # "none", op.type # t
      PROVE  Left(Place(t, promise[t].layout, i))
  <2> DEFINE b == Place(t, promise[t].layout, i)
  <2>1. b \in Block /\ b \in Slot /\ b # PlaceOfOperation /\ b \notin {First(op.type), Second(op.type)}
    BY <1>1, OtherPlaces
  <2> HIDE DEF b
  <2>2. CASE op.kind = "create"
    <3>1. op.type = "hidden"
      BY <1>1, <2>2 DEF WorkInv, PromiseInv, NoPromise, TypeInv, Operation, Type
    <3>2. b \notin DataStart(op) .. DataEnd(op) - 1
      BY <2>1, <2>2, Area DEF WorkInv
    <3>3. Left(b)
      BY <2>1, <2>2, <3>1, <3>2, CreationWrites
    <3>4. QED  BY <3>3 DEF b
  <2>3. CASE op.kind # "create"
    <3>1. pc \in {"reEncrypt", "sync", "restore"}
      BY <1>1, <2>3 DEF TypeInv, StateInv
    <3>2. CASE ReEncryptHeader \/ RestoreVolumeHeader
      <4>1. Put({PlaceOfOperation}, HeaderOfOperation)
        BY <3>2 DEF ReEncryptHeader, RestoreVolumeHeader
      <4>2. Left(b)
        BY <2>1, <4>1 DEF Put, Left
      <4>3. QED  BY <4>2 DEF b
    <3>3. CASE HeaderWriteFails
      <4>1. Left(b)
        BY <2>1, <3>3, PutFailsEffect DEF HeaderWriteFails, FlushFails, host, Left
      <4>2. QED  BY <4>1 DEF b
    <3>4. CASE ChangePass
      BY <3>4 DEF ChangePass, FlushHeader, Flush, Left
    <3>5. CASE UNCHANGED vars
      BY <3>5 DEF vars, host, Left
    <3>6. ~(\/ CreateVolumeHeader \/ CreateVolumeNoise \/ StartThread \/ Format \/ Fill \/ Check
            \/ CreateBackupHeader \/ CreateBackupNoise \/ FlushVolume \/ CreationFails
            \/ EndThread \/ FinishCreation)
      BY <3>1 DEF CreateVolumeHeader, CreateVolumeNoise, StartThread, Format, Fill, Check,
                  CreateBackupHeader, CreateBackupNoise, FlushVolume, CreationFails,
                  EndThread, FinishCreation
    <3>7. ~(\/ AskAbort \/ (\E yes \in BOOLEAN : AnswerAbort(yes))
            \/ (\E o \in Creations : StartCreation(o))
            \/ (\E p, q \in Password : StartChange(p, q))
            \/ (\E p \in Password : StartRestoreInternal(p) \/ StartRestoreExternal(p))
            \/ (\E p, q \in Password, hiddenToo \in BOOLEAN : BackupVolumeHeaders(p, q, hiddenToo)))
      BY <3>1, <2>3
        DEF AskAbort, AnswerAbort, Working, StartCreation, StartChange, CanStart,
                  StartRestoreInternal, StartRestoreExternal, BackupVolumeHeaders,
                  TypeInv, StateInv, Thread
    <3>8. QED
      BY <3>2, <3>3, <3>4, <3>5, <3>6, <3>7 DEF Next
  <2>4. QED  BY <2>2, <2>3
<1>2. ASSUME op.kind = "create", op.type = "hidden", NEW b \in Block \ Slot, b < DataStart(op)
      PROVE  Left(b)
  <2>1. b \notin DataStart(op) .. DataEnd(op) - 1
    BY <1>2, Area, HeadersAssumption DEF WorkInv, Block
  <2>2. b \notin {First(op.type), Second(op.type)}
    BY <1>2, Places DEF TypeInv, Operation
  <2>3. QED  BY <1>2, <2>1, <2>2, CreationWrites
<1>3. QED  BY <1>1, <1>2

\* Of a volume that stays promised no header changes while the other one is made,
\* changed or restored; and making a hidden volume writes only in its place.
THEOREM OthersIntact == Spec => OtherVolumeIntact
<1> DEFINE Alone ==
      ~Crash =>
        /\ \A t \in Type, i \in BOOLEAN :
             promise[t].key # 0 /\ promise'[t] = promise[t] /\ op.kind # "none" /\ op.type # t
               => LET b == Place(t, promise[t].layout, i) IN file'[b] = file[b]
        /\ op.kind = "create" /\ op.type = "hidden" =>
             \A b \in Block \ Slot : b < DataStart(op) => file'[b] = file[b]
<1>1. TypeInv /\ WorkInv /\ [Next]_vars => [Alone]_vars
  BY AloneStep DEF Left
<1>2. QED
  BY Works, <1>1, PTL DEF Spec, OtherVolumeIntact

-----------------------------------------------------------------------------
(* Whose headers there are.                                                *)

\* A step begins an operation, goes on with it, or ends it.
LEMMA OpSteps ==
  ASSUME TypeInv, TypeInv', ChangeInv, [Next]_vars
  PROVE  /\ operations' >= operations
         /\ \/ op'.kind = "none"
            \/ /\ op'.kind = op.kind /\ op'.key = op.key /\ op'.type = op.type
               /\ op'.layout = op.layout /\ op'.password = op.password
               /\ promise' = promise /\ operations' = operations
            \/ \E o \in Creations : StartCreation(o)
            \/ \E p, q \in Password : StartChange(p, q)
            \/ \E p \in Password : StartRestoreInternal(p) \/ StartRestoreExternal(p)
<1>1. operations' >= operations
  <2>1. operations \in Nat
    BY HeadersAssumption DEF TypeInv
  <2>2. operations' = operations \/ operations' = operations + 1
    <3>1. CASE UNCHANGED vars
      BY <3>1, SMTT(30) DEF vars, counters
    <3>2. CASE \/ \E o \in Creations : StartCreation(o)
               \/ \E p, q \in Password : StartChange(p, q)
               \/ \E p, q \in Password, hiddenToo \in BOOLEAN : BackupVolumeHeaders(p, q, hiddenToo)
               \/ \E p \in Password : StartRestoreInternal(p) \/ StartRestoreExternal(p)
      BY <3>2 DEF StartCreation, StartChange, BackupVolumeHeaders, StartRestoreInternal,
                  StartRestoreExternal, Begin
    <3>3. CASE \/ CreateVolumeHeader \/ CreateVolumeNoise \/ StartThread \/ Format \/ Fill \/ Check
               \/ CreateBackupHeader \/ CreateBackupNoise \/ FlushVolume \/ CreationFails \/ EndThread
      BY <3>3 DEF CreateVolumeHeader, CreateVolumeNoise, StartThread, Format, Fill, Check,
                  CreateBackupHeader, CreateBackupNoise, FlushVolume, CreationFails, EndThread,
                  PutNext, counters
    <3>4. CASE \/ AskAbort \/ (\E yes \in BOOLEAN : AnswerAbort(yes)) \/ FinishCreation
               \/ ReEncryptHeader \/ ChangePass \/ RestoreVolumeHeader \/ HeaderWriteFails \/ Crash
      BY <3>4 DEF AskAbort, AnswerAbort, FinishCreation, ReEncryptHeader, ChangePass,
                  RestoreVolumeHeader, HeaderWriteFails, Crash, counters
    <3>5. QED  BY <3>1, <3>2, <3>3, <3>4 DEF Next
  <2>3. QED  BY <2>1, <2>2
<1>2. CASE op'.kind = "create"
  <2>1. CASE UNCHANGED vars
    BY <1>1, <2>1 DEF vars, counters
  <2>2. CASE /\ \/ CreateVolumeHeader \/ CreateVolumeNoise \/ StartThread \/ Format \/ Fill \/ Check
                \/ CreateBackupHeader \/ CreateBackupNoise \/ FlushVolume \/ CreationFails
                \/ EndThread \/ AskAbort \/ (\E yes \in BOOLEAN : AnswerAbort(yes))
             /\ op' = op /\ promise' = promise /\ report' = report
    BY <1>1, <2>2 DEF CreateVolumeHeader, CreateVolumeNoise,
         StartThread, Format, Fill, Check, CreateBackupHeader, CreateBackupNoise, FlushVolume,
         CreationFails, EndThread, AskAbort, AnswerAbort, PutNext, counters
  <2>3. QED  BY <1>1, <1>2, <2>1, <2>2, CreationSteps
<1>3. CASE op'.kind \in {"change", "internal", "external"}
  <2>1. CASE UNCHANGED vars
    BY <1>1, <2>1 DEF vars, counters
  <2>2. CASE ReEncryptHeader
    BY <1>1, <2>2 DEF ReEncryptHeader, counters
  <2>3. CASE ChangePass /\ AfterPass(op).kind # "none"
    <3>1. /\ op' = AfterPass(op) /\ promise' = promise /\ operations' = operations
          /\ op.kind = "change" /\ op.pass \in 1 .. Passes /\ op \in Operation
      BY <2>3 DEF ChangePass, FlushHeader, counters, ChangeInv, TypeInv, StateInv
    <3>2. \/ op' = [op EXCEPT !.pass = @ + 1] \/ op' = [op EXCEPT !.pass = 1, !.second = TRUE]
          \/ op' = [op EXCEPT !.kind = "none"]
      BY <3>1, PassCases
    <3>3. QED  BY <1>1, <1>3, <3>1, <3>2 DEF Operation
  <2>4. CASE RestoreVolumeHeader /\ AlsoBackup(op)
    <3>1. op' = [op EXCEPT !.second = TRUE] /\ op \in Operation /\ promise' = promise
          /\ operations' = operations
      BY <2>4 DEF RestoreVolumeHeader, TypeInv, counters
    <3>2. QED  BY <1>1, <3>1 DEF Operation
  <2>5. QED  BY <1>1, <1>3, <2>1, <2>2, <2>3, <2>4, HeaderSteps
<1>4. QED
  BY <1>1, <1>2, <1>3 DEF TypeInv, Operation

LEMMA PromisedKeeps ==
  ASSUME TypeInv, NEW u \in Type, NEW k, NEW p \in Password, NEW b \in BOOLEAN,
         promise' = Promised(u, k, p, b), NEW t \in Type
  PROVE  promise'[t].key = promise[t].key /\ promise'[t].layout = promise[t].layout
<1>1. CASE t = u /\ promise[u].key = k
  BY <1>1, PromisedType
<1>2. CASE t # u \/ promise[u].key # k
  <2>1. Promised(u, k, p, b)[t] = promise[t]
    BY <1>2 DEF Promised, TypeInv
  <2>2. QED  BY <2>1
<1>3. QED  BY <1>1, <1>2

\* What was promised stays, is taken back, or is told anew.
LEMMA PromiseSteps ==
  ASSUME TypeInv, ChangeInv, [Next]_vars, NEW t \in Type
  PROVE  \/ promise'[t].key = promise[t].key /\ promise'[t].layout = promise[t].layout
         \/ promise'[t] = NoPromise
         \/ /\ FinishCreation /\ Created /\ op.kind = "create" /\ t = op.type
            /\ promise'[t] = Promise(op.key, "V2", {op.password})
         \/ /\ ChangePass /\ AfterPass(op).kind = "none" /\ op.kind = "change" /\ t = op.type
            /\ promise[t].key = op.key
            /\ promise'[t] = Promise(op.key, op.layout, {op.password})
<1>1. CASE promise' = promise
  BY <1>1
<1>2. ASSUME NEW o \in Creations, StartCreation(o)
      PROVE  promise'[t] = promise[t] \/ promise'[t] = NoPromise
  BY <1>2 DEF StartCreation
<1>3. ASSUME NEW p \in Password, NEW q \in Password, StartChange(p, q)
      PROVE  promise'[t].key = promise[t].key /\ promise'[t].layout = promise[t].layout
  <2>1. PICK o \in Openings(p, FALSE) :
          promise' = Promised(o[1], file[Place(o[1], o[2], FALSE)].key, q, FALSE)
    BY <1>3 DEF StartChange
  <2>2. PICK u \in Type : u = o[1]
    BY OpeningsFound
  <2>3. PICK k \in Key, b \in BOOLEAN : promise' = Promised(u, k, q, b)
    BY <2>1, <2>2, OpeningTypes
  <2>4. QED
    BY <2>3, PromisedKeeps
<1>4. ASSUME NEW p \in Password, StartRestoreExternal(p)
      PROVE  \/ promise'[t].key = promise[t].key /\ promise'[t].layout = promise[t].layout
             \/ promise'[t] = NoPromise
  <2>1. PICK u \in Type :
          promise' = IF promise[u].key = backup[u].key THEN Promised(u, backup[u].key, p, TRUE)
                     ELSE [promise EXCEPT ![u] = NoPromise]
    BY <1>4 DEF StartRestoreExternal
  <2>2. CASE promise[u].key = backup[u].key
    <3>1. PICK k \in Key, b \in BOOLEAN : promise' = Promised(u, k, p, b)
      BY <2>1, <2>2 DEF TypeInv, Content
    <3>2. QED  BY <3>1, PromisedKeeps
  <2>3. CASE promise[u].key # backup[u].key
    BY <2>1, <2>3 DEF TypeInv
  <2>4. QED  BY <2>2, <2>3
<1>5. CASE FinishCreation
  <2>1. op.kind = "create"
    BY <1>5 DEF FinishCreation, TypeInv, StateInv
  <2>2. CASE Created
    BY <1>5, <2>1, <2>2 DEF FinishCreation, TypeInv
  <2>3. CASE ~Created
    BY <1>5, <2>3 DEF FinishCreation
  <2>4. QED  BY <2>2, <2>3
<1>6. CASE ChangePass
  <2>1. op.kind = "change"
    BY <1>6 DEF ChangePass, FlushHeader, TypeInv, StateInv
  <2>2. CASE AfterPass(op).kind = "none"
    BY <1>6, <2>1, <2>2 DEF ChangePass, TypeInv
  <2>3. CASE AfterPass(op).kind # "none"
    BY <1>6, <2>3 DEF ChangePass
  <2>4. QED  BY <2>2, <2>3
<1>7. QED
  <2>1. CASE \/ \E o \in Creations : StartCreation(o)
             \/ \E p, q \in Password : StartChange(p, q)
             \/ \E p \in Password : StartRestoreExternal(p)
             \/ FinishCreation \/ ChangePass
    BY <1>2, <1>3, <1>4, <1>5, <1>6, <2>1
  <2>2. CASE ~(\/ \E o \in Creations : StartCreation(o)
               \/ \E p, q \in Password : StartChange(p, q)
               \/ \E p \in Password : StartRestoreExternal(p)
               \/ FinishCreation \/ ChangePass)
    <3>1. promise' = promise
      BY <2>2
        DEF vars, Next, CreateVolumeHeader, CreateVolumeNoise, StartThread, Format, Fill,
           Check, CreateBackupHeader, CreateBackupNoise, FlushVolume, CreationFails, EndThread,
           AskAbort, AnswerAbort, ReEncryptHeader, BackupVolumeHeaders, StartRestoreInternal,
           RestoreVolumeHeader, HeaderWriteFails, Crash, PutNext
    <3>2. QED  BY <1>1, <3>1
  <2>3. QED  BY <2>1, <2>2

\* What is known of a header stays true of it.
LEMMA KnownStep ==
  ASSUME TypeInv, TypeInv', WorkInv, KeyInv, [Next]_vars, NEW c \in Content,
         Known(c, promise, op, operations)
  PROVE  Known(c, promise', op', operations')
<1> SUFFICES ASSUME c.kind = "header"
             PROVE  /\ c.key # 0 /\ c.key <= operations' + 2
                    /\ c.key = promise'[c.type].key => c.layout = promise'[c.type].layout
                    /\ op'.kind = "create" /\ c.key = op'.key => c.layout = "V2"
  BY DEF Known
<1>1. /\ c.key # 0 /\ c.key <= operations + 2 /\ c.key \in Nat /\ c.type \in Type
      /\ operations \in Nat /\ operations' \in Nat /\ operations' >= operations
      /\ c.key = promise[c.type].key => c.layout = promise[c.type].layout
      /\ op.kind = "create" /\ c.key = op.key => c.layout = "V2"
  BY OpSteps DEF WorkInv, Known, TypeInv, Content, Key
<1>2. c.key # 0 /\ c.key <= operations' + 2
  BY <1>1
<1>3. ASSUME c.key = promise'[c.type].key  PROVE c.layout = promise'[c.type].layout
  <2>1. CASE promise'[c.type] = NoPromise
    BY <1>1, <1>3, <2>1 DEF NoPromise
  <2>2. CASE op.kind = "create" /\ promise'[c.type] = Promise(op.key, "V2", {op.password})
    BY <1>1, <1>3, <2>2 DEF Promise
  <2>3. CASE /\ op.kind = "change" /\ c.type = op.type /\ promise[c.type].key = op.key
             /\ promise'[c.type] = Promise(op.key, op.layout, {op.password})
    BY <1>1, <1>3, <2>3 DEF Promise, KeyInv
  <2>4. QED
    BY <1>1, <1>3, <2>1, <2>2, <2>3, PromiseSteps DEF WorkInv
<1>4. ASSUME op'.kind = "create", c.key = op'.key  PROVE c.layout = "V2"
  <2>1. CASE op'.kind = op.kind /\ op'.key = op.key
    BY <1>1, <1>4, <2>1
  <2>2. ASSUME NEW o \in Creations, StartCreation(o)  PROVE FALSE
    <3>1. op'.key = operations + 3
      BY <2>2 DEF StartCreation, Begin, Creations
    <3>2. QED  BY <1>1, <1>4, <3>1
  <2>3. CASE \/ \E p, q \in Password : StartChange(p, q)
             \/ \E p \in Password : StartRestoreInternal(p) \/ StartRestoreExternal(p)
    <3>1. pc' \in {"reEncrypt", "restore"}
      BY <2>3 DEF StartChange, StartRestoreInternal, StartRestoreExternal, Begin
    <3>2. QED  BY <1>4, <3>1, SMTT(30) DEF TypeInv, StateInv, Before, Thread
  <2>4. QED
    BY <1>4, <2>1, <2>2, <2>3, OpSteps DEF WorkInv
<1>5. QED  BY <1>2, <1>3, <1>4

\* A header that is written is known; nothing else is taken for one.
LEMMA WrittenKnown ==
  ASSUME TypeInv, WorkInv, KeyInv
  PROVE  /\ op.kind = "create" => Known(NewHeader, promise, op, operations)
         /\ op.kind \notin {"none", "create"} => Known(HeaderOfOperation, promise, op, operations)
         /\ \A c \in {Absent, Noise, Torn, Data(op.key)} : Known(c, promise, op, operations)
<1>1. CASE op.kind = "create"
  <2>1. promise[op.type].key = 0 /\ op.key # 0 /\ op.key <= operations + 2
    BY <1>1 DEF KeyInv, WorkInv, PromiseInv, NoPromise, TypeInv, Operation, Type
  <2>2. QED
    BY <1>1, <2>1 DEF Known, NewHeader, Header, Absent, Noise, Torn, Data, Plain
<1>2. CASE op.kind # "create"
  BY <1>2 DEF Known, KeyInv, HeaderOfOperation, Header, Absent, Noise, Torn, Data, Plain
<1>3. QED  BY <1>1, <1>2

\* What a step puts on the host besides what was there.
Written(c) ==
  \/ c \in {Absent, Noise, Torn, Data(op.key)}
  \/ op.kind = "create" /\ c = NewHeader
  \/ op.kind \notin {"none", "create"} /\ c = HeaderOfOperation

LEMMA PutWritten ==
  ASSUME TypeInv, NEW blocks, NEW content, Put(blocks, content), Written(content), NEW b \in Block
  PROVE  /\ file'[b] = file[b] \/ Written(file'[b])
         /\ disk'[b] = disk[b]
BY DEF Put

LEMMA PutFailsWritten ==
  ASSUME TypeInv, NEW c, PutFails(c), NEW b \in Block
  PROVE  /\ file'[b] = file[b] \/ Written(file'[b])
         /\ disk'[b] = disk[b]
BY PutFailsEffect DEF Written

LEMMA WrittenStep ==
  ASSUME TypeInv, [Next]_vars, NEW b \in Block
  PROVE  /\ file'[b] = file[b] \/ file'[b] = disk[b] \/ Written(file'[b])
         /\ disk'[b] = disk[b] \/ disk'[b] = file[b] \/ disk'[b] = file'[b]
<1>1. CASE UNCHANGED <<file, disk>>
  BY <1>1
<1>2. ASSUME NEW blocks, NEW content, Put(blocks, content), Written(content)
      PROVE  /\ file'[b] = file[b] \/ Written(file'[b])
             /\ disk'[b] = disk[b]
  BY <1>2, PutWritten
<1>3. ASSUME NEW c, PutFails(c)
      PROVE  /\ file'[b] = file[b] \/ Written(file'[b])
             /\ disk'[b] = disk[b]
  BY <1>3, PutFailsWritten
<1>4. CASE Flush
  BY <1>4 DEF Flush
<1>5. CASE Crash
  <2>1. disk' = file' /\ (file'[b] = file[b] \/ file'[b] = disk[b] \/ file'[b] = Torn)
    BY <1>5, CrashEffect
  <2>2. QED  BY <2>1 DEF Written
<1>6. CASE \/ \E o \in Creations : StartCreation(o)
           \/ FinishCreation
  <2>1. \/ UNCHANGED <<file, disk>>
        \/ file'[b] \in {Absent, file[b]} /\ disk'[b] \in {Absent, disk[b]}
           /\ (disk'[b] = disk[b] \/ disk'[b] = file'[b])
    BY <1>6, ZenonT(60) DEF StartCreation, FinishCreation, host
  <2>2. QED  BY <2>1 DEF Written
<1>7. CASE \/ CreateVolumeHeader \/ CreateVolumeNoise \/ CreateBackupHeader \/ CreateBackupNoise
  <2>1. op.kind = "create" /\ \E blocks : Put(blocks, NewHeader) \/ Put(blocks, Noise)
    BY <1>7
      DEF CreateVolumeHeader, CreateVolumeNoise, CreateBackupHeader, CreateBackupNoise,
                PutNext, TypeInv, StateInv, Before, Thread
  <2>2. Written(NewHeader) /\ Written(Noise)
    BY <2>1 DEF Written
  <2>3. QED  BY <1>2, <2>1, <2>2
<1>8. CASE Format \/ Fill
  <2>1. UNCHANGED <<file, disk>> \/ \E blocks : Put(blocks, Data(op.key))
    BY <1>8 DEF Format, Fill, host
  <2>2. Written(Data(op.key))
    BY DEF Written
  <2>3. QED  BY <1>1, <1>2, <2>1, <2>2
<1>9. CASE ReEncryptHeader \/ RestoreVolumeHeader
  <2>1. op.kind \notin {"none", "create"} /\ Put({PlaceOfOperation}, HeaderOfOperation)
    BY <1>9 DEF ReEncryptHeader, RestoreVolumeHeader, TypeInv, StateInv, Before, Thread
  <2>2. Written(HeaderOfOperation)
    BY <2>1 DEF Written
  <2>3. QED  BY <1>2, <2>1, <2>2
<1>10. CASE FlushVolume \/ ChangePass
  BY <1>4, <1>10 DEF FlushVolume, ChangePass, FlushHeader
<1>11. CASE CreationFails \/ HeaderWriteFails
  <2>1. UNCHANGED <<file, disk>> \/ \E c : PutFails(c)
    BY <1>11 DEF CreationFails, HeaderWriteFails, FlushFails, host
  <2>2. QED  BY <1>1, <1>3, <2>1
<1>12. CASE \/ StartThread \/ Check \/ EndThread \/ AskAbort \/ (\E yes \in BOOLEAN : AnswerAbort(yes))
            \/ \E p, q \in Password : StartChange(p, q)
            \/ \E p, q \in Password, hiddenToo \in BOOLEAN : BackupVolumeHeaders(p, q, hiddenToo)
            \/ \E p \in Password : StartRestoreInternal(p) \/ StartRestoreExternal(p)
            \/ UNCHANGED vars
  <2>1. UNCHANGED <<file, disk>>
    BY <1>12 DEF StartThread, Check, EndThread, AskAbort, AnswerAbort, StartChange,
                 BackupVolumeHeaders, StartRestoreInternal, StartRestoreExternal, host, vars
  <2>2. QED  BY <1>1, <2>1, SMTT(30)
<1>13. QED
  BY <1>5, <1>6, <1>7, <1>8, <1>9, <1>10, <1>11, <1>12 DEF Next

\* The header that an operation on headers begins with.
LEMMA StartSteps ==
  ASSUME TypeInv, KeyInv, NEW p \in Password,
         (\E q \in Password : StartChange(p, q)) \/ StartRestoreInternal(p)
           \/ StartRestoreExternal(p)
  PROVE  \E c \in Content :
           /\ (\E b \in Block : c = file[b]) \/ (\E t \in Type : c = backup[t])
           /\ c.kind = "header"
           /\ op'.key = c.key /\ op'.type = c.type /\ op'.layout = c.layout
<1>1. ASSUME NEW i \in BOOLEAN, NEW o \in Openings(p, i), NEW kind, NEW q,
             op' = OperationOn(kind, o[1], o[2], i, q)
      PROVE  LET c == file[Place(o[1], o[2], i)]
             IN  /\ Place(o[1], o[2], i) \in Block /\ c \in Content /\ c.kind = "header"
                 /\ op'.key = c.key /\ op'.type = c.type /\ op'.layout = c.layout
  <2>1. Found(o[1], o[2], i, p) /\ o[1] \in Type /\ o[2] \in Layout
    BY OpeningsFound
  <2>2. Place(o[1], o[2], i) \in Block
    BY <2>1, Places
  <2>3. file[Place(o[1], o[2], i)] \in Content
    BY <2>2 DEF TypeInv
  <2>4. QED
    BY <1>1, <2>1, <2>2, <2>3 DEF Found, OperationOn, NoOperation
<1>2. CASE (\E q \in Password : StartChange(p, q)) \/ StartRestoreInternal(p)
  <2>1. \E i \in BOOLEAN : \E o \in Openings(p, i), kind \in {"change", "internal"}, q \in Password :
          op' = OperationOn(kind, o[1], o[2], i, q)
    BY <1>2 DEF StartChange, StartRestoreInternal, Begin
  <2>2. QED  BY <1>1, <2>1
<1>3. CASE StartRestoreExternal(p)
  <2>1. PICK t \in Type :
          /\ backup[t].kind = "header"
          /\ op' = [NoOperation EXCEPT !.kind = "external", !.type = t, !.layout = backup[t].layout,
                                       !.password = p, !.key = backup[t].key]
    BY <1>3 DEF StartRestoreExternal, Begin
  <2>2. backup[t] \in Content /\ backup[t].type = t
    BY <2>1 DEF TypeInv, KeyInv
  <2>3. QED
    BY <2>1, <2>2 DEF NoOperation
<1>4. QED  BY <1>2, <1>3

\* What comes into the backup file.
LEMMA BackupStep ==
  ASSUME TypeInv, [Next]_vars, NEW t \in Type
  PROVE  \/ backup'[t] = backup[t]
         \/ backup'[t] = Noise
         \/ /\ backup = NoBackup /\ backup'[t].type = t
            /\ \E b \in Block : backup'[t] = file[b]
<1>1. ASSUME NEW p \in Password, NEW q \in Password, NEW hiddenToo \in BOOLEAN,
             BackupVolumeHeaders(p, q, hiddenToo)
      PROVE  \/ backup'[t] = Noise
             \/ /\ backup = NoBackup /\ backup'[t].type = t
                /\ \E b \in Block : backup'[t] = file[b]
  <2>1. PICK layout \in Layout :
          /\ Found("normal", layout, FALSE, p)
          /\ hiddenToo => Found("hidden", layout, FALSE, q)
          /\ backup' = [u \in Type |->
               IF u = "normal" \/ hiddenToo THEN file[Place(u, layout, FALSE)] ELSE Noise]
    BY <1>1 DEF BackupVolumeHeaders, Layout
  <2>2. CASE t = "normal" \/ hiddenToo
    <3>1. backup'[t] = file[Place(t, layout, FALSE)] /\ file[Place(t, layout, FALSE)].type = t
      BY <2>1, <2>2 DEF Found, Type
    <3>2. Place(t, layout, FALSE) \in Block
      BY Places
    <3>3. QED  BY <1>1, <3>1, <3>2 DEF BackupVolumeHeaders
  <2>3. CASE ~(t = "normal" \/ hiddenToo)
    BY <2>1, <2>3
  <2>4. QED  BY <2>2, <2>3
<1>2. CASE \E p, q \in Password, hiddenToo \in BOOLEAN : BackupVolumeHeaders(p, q, hiddenToo)
  BY <1>1, <1>2
<1>3. CASE ~ \E p, q \in Password, hiddenToo \in BOOLEAN : BackupVolumeHeaders(p, q, hiddenToo)
  <2>1. backup' = backup
    BY <1>3
      DEF vars, Next, StartCreation, CreateVolumeHeader, CreateVolumeNoise, StartThread,
           Format, Fill, Check, CreateBackupHeader, CreateBackupNoise, FlushVolume, CreationFails,
           EndThread, AskAbort, AnswerAbort, FinishCreation, StartChange, ReEncryptHeader,
           ChangePass, StartRestoreInternal, StartRestoreExternal,
           RestoreVolumeHeader, HeaderWriteFails, Crash, PutNext
  <2>2. QED  BY <2>1, SMTT(30)
<1>4. QED  BY <1>2, <1>3

LEMMA KeyStep ==
  ASSUME TypeInv, TypeInv', WorkInv, KeyInv, [Next]_vars
  PROVE  KeyInv'
<1>1. ASSUME NEW c \in Content, Known(c, promise, op, operations)
      PROVE  Known(c, promise', op', operations')
  BY <1>1, KnownStep
<1>2. ASSUME NEW c \in Content, Written(c)
      PROVE  Known(c, promise', op', operations')
  <2>1. Known(c, promise, op, operations)
    BY <1>2, WrittenKnown DEF Written
  <2>2. QED  BY <1>1, <2>1
<1>3. ASSUME NEW b \in Block
      PROVE  Known(file'[b], promise', op', operations') /\ Known(disk'[b], promise', op', operations')
  <2>1. /\ file[b] \in Content /\ disk[b] \in Content /\ file'[b] \in Content
        /\ Known(file[b], promise, op, operations) /\ Known(disk[b], promise, op, operations)
    BY DEF TypeInv, KeyInv
  <2>2. Known(file[b], promise', op', operations') /\ Known(disk[b], promise', op', operations')
    BY <1>1, <2>1
  <2>3. Known(file'[b], promise', op', operations')
    <3>1. CASE Written(file'[b])
      BY <1>2, <2>1, <3>1
    <3>2. QED  BY <2>2, <3>1, WrittenStep
  <2>4. QED  BY <2>2, <2>3, WrittenStep
<1>4. ASSUME NEW t \in Type
      PROVE  /\ Known(backup'[t], promise', op', operations')
             /\ backup'[t].kind = "header" => backup'[t].type = t
  <2>1. CASE backup'[t] = backup[t]
    <3>1. backup[t] \in Content /\ Known(backup[t], promise, op, operations)
          /\ (backup[t].kind = "header" => backup[t].type = t)
      BY DEF TypeInv, KeyInv
    <3>2. QED  BY <1>1, <2>1, <3>1
  <2>2. CASE backup'[t] = Noise
    BY <2>2 DEF Known, Noise, Plain
  <2>3. CASE backup'[t].type = t /\ \E b \in Block : backup'[t] = file[b]
    <3>1. PICK b \in Block : backup'[t] = file[b]
      BY <2>3
    <3>2. file[b] \in Content /\ Known(file[b], promise, op, operations)
      BY DEF TypeInv, KeyInv
    <3>3. QED  BY <1>1, <2>3, <3>1, <3>2
  <2>4. QED  BY <2>1, <2>2, <2>3, BackupStep
<1>5. /\ op'.kind # "none" => op'.key # 0 /\ op'.key <= operations' + 2
      /\ op'.kind \notin {"none", "create"} /\ op'.key = promise'[op'.type].key =>
           op'.layout = promise'[op'.type].layout
  <2>1. CASE op'.kind = "none"
    BY <2>1
  <2>2. CASE /\ op'.kind = op.kind /\ op'.key = op.key /\ op'.type = op.type
             /\ op'.layout = op.layout /\ op'.password = op.password
             /\ promise' = promise /\ operations' = operations
    BY <2>2 DEF KeyInv
  <2>3. ASSUME NEW o \in Creations, StartCreation(o)
        PROVE  op'.kind = "create" /\ op'.key # 0 /\ op'.key <= operations' + 2
    <3>1. op'.kind = "create" /\ op'.key = operations + 3 /\ operations' = operations + 1
      BY <2>3 DEF StartCreation, Begin, Creations
    <3>2. operations \in Nat
      BY HeadersAssumption DEF TypeInv
    <3>3. QED  BY <3>1, <3>2
  <2>4. ASSUME NEW p \in Password,
               (\E q \in Password : StartChange(p, q)) \/ StartRestoreInternal(p)
                 \/ StartRestoreExternal(p)
        PROVE  /\ op'.key # 0 /\ op'.key <= operations' + 2
               /\ op'.key = promise'[op'.type].key => op'.layout = promise'[op'.type].layout
    <3>1. PICK c \in Content :
           /\ (\E b \in Block : c = file[b]) \/ (\E t \in Type : c = backup[t])
           /\ c.kind = "header"
           /\ op'.key = c.key /\ op'.type = c.type /\ op'.layout = c.layout
      BY <2>4, StartSteps
    <3>2. Known(c, promise, op, operations)
      BY <3>1 DEF KeyInv
    <3>3. Known(c, promise', op', operations')
      BY <1>1, <3>2
    <3>4. QED  BY <3>1, <3>3 DEF Known
  <2>5. QED
    BY <2>1, <2>2, <2>3, <2>4, OpSteps DEF WorkInv
<1>6. QED  BY <1>3, <1>4, <1>5 DEF KeyInv

-----------------------------------------------------------------------------
(* A header survives whatever fails, once.                                 *)

Places2(t) == {First(t), Second(t)}

\* A header stays good when its owner gets to know another password.
LEMMA GoodStays ==
  ASSUME NEW t, NEW c, NEW p, NEW q, Good(t, c, p), q.key = p.key, p.passwords \subseteq q.passwords
  PROVE  Good(t, c, q)
BY DEF Good

\* A step that leaves both headers of a volume alone.
LEMMA LeftSafe ==
  ASSUME TypeInv, TypeInv', NEW t \in Type, SafeInv(t), Owned(t),
         promise'[t].key = promise[t].key,
         promise[t].passwords \subseteq promise'[t].passwords,
         promise[t].fromBackup => promise'[t].fromBackup,
         promise'[t].fromBackup => Good(t, backup'[t], promise'[t]),
         op'.type = t /\ op'.kind \notin {"none", "create"} =>
           /\ op'.key = promise'[t].key /\ op'.password \in promise'[t].passwords
           /\ op'.kind = "external" => promise'[t].fromBackup,
         Left(First(t)), Left(Second(t)),
         failures > 0 => failures' > 0,
         failures' > 0 \/ (op'.kind = op.kind /\ op'.type = op.type /\ op'.second = op.second)
           \/ op.kind # "change" \/ op.type # t
  PROVE  SafeInv(t)'
<1>1. \A c : Good(t, c, promise[t]) => Good(t, c, promise'[t])
  BY GoodStays
<1>2. \A b \in Places2(t) :
        /\ Good(t, file'[b], promise'[t]) \/ (failures' > 0 /\ file'[b] = Torn)
        /\ Good(t, file[b], promise[t]) => Good(t, file'[b], promise'[t])
        /\ failures = 0 => Good(t, disk'[b], promise'[t])
        /\ b \notin dirty => b \notin dirty'
  <2>1. \A b \in Places2(t) :
          /\ file'[b] = file[b] /\ (disk'[b] = disk[b] \/ disk'[b] = file[b])
          /\ b \notin dirty => b \notin dirty'
    BY DEF Left, Places2
  <2>2. \A b \in Places2(t) :
          /\ Good(t, file[b], promise[t]) \/ (failures > 0 /\ file[b] = Torn)
          /\ failures = 0 => Good(t, disk[b], promise[t]) /\ Good(t, file[b], promise[t])
    BY DEF SafeInv, Places2
  <2>3. QED  BY <1>1, <2>1, <2>2
<1>3. promise'[t].fromBackup \/ \E b \in Places2(t) : Good(t, file'[b], promise'[t])
  <2>1. promise[t].fromBackup \/ \E b \in Places2(t) : Good(t, file[b], promise[t])
    BY DEF SafeInv, Places2
  <2>2. QED  BY <1>2, <2>1
<1>4. failures' = 0 => OneFlushed(t)'
  <2>1. failures' = 0 => failures = 0
    BY DEF TypeInv
  <2>2. failures = 0 => OneFlushed(t)
    BY DEF SafeInv
  <2>3. QED
    BY <1>2, <2>1, <2>2 DEF OneFlushed, Places2
<1>5. failures' = 0 => failures = 0
  BY DEF TypeInv
<1>6. QED
  BY <1>2, <1>3, <1>4, <1>5 DEF SafeInv, Places2

\* A header of a volume that is found where it is looked for is good.
LEMMA FoundGood ==
  ASSUME TypeInv, NEW t \in Type, SafeInv(t), Owned(t), NEW l \in Layout, NEW i \in BOOLEAN,
         NEW p, Found(t, l, i, p)
  PROVE  /\ Good(t, file[Place(t, l, i)], promise[t])
         /\ file[Place(t, l, i)].password = p
<1>1. Place(t, l, i) \in Places2(t)
  BY Places DEF Places2
<1>2. file[Place(t, l, i)] # Torn
  BY DEF Found, Torn, Plain
<1>3. QED
  BY <1>1, <1>2 DEF SafeInv, Places2, Found

\* The header that an operation writes for a volume is good.
LEMMA OperationGood ==
  ASSUME TypeInv, KeyInv, NEW t \in Type, SafeInv(t), Owned(t), op.type = t,
         op.kind \notin {"none", "create"}
  PROVE  Good(t, HeaderOfOperation, promise[t]) /\ op.layout = "V2" /\ op.key = promise[t].key
<1>1. op.key = promise[t].key /\ op.password \in promise[t].passwords
  BY DEF SafeInv
<1>2. op.layout = "V2"
  BY <1>1 DEF KeyInv, Owned
<1>3. QED
  BY <1>1, <1>2 DEF Good, HeaderOfOperation, Header

\* What stays of a volume in a step of an operation that is not on it, or in one
\* that does not touch the host.
LEMMA UntouchedHost ==
  ASSUME UNCHANGED host  PROVE \A b : Left(b)
BY DEF host, Left

LEMMA StartChangeSafe ==
  ASSUME TypeInv, TypeInv', NEW t \in Type, SafeInv(t), Owned(t),
         NEW p \in Password, NEW q \in Password, StartChange(p, q)
  PROVE  SafeInv(t)'
<1>1. PICK o \in Openings(p, FALSE) :
        /\ op' = OperationOn("change", o[1], o[2], FALSE, q)
        /\ promise' = Promised(o[1], file[Place(o[1], o[2], FALSE)].key, q, FALSE)
  BY DEF StartChange, Begin
<1>2. o[1] \in Type /\ o[2] \in Layout /\ Found(o[1], o[2], FALSE, p)
  BY OpeningsFound
<1>3. /\ op'.type = o[1] /\ op'.kind = "change" /\ op'.password = q
      /\ op'.key = file[Place(o[1], o[2], FALSE)].key
  BY <1>1 DEF OperationOn, NoOperation
<1>4. /\ Left(First(t)) /\ Left(Second(t)) /\ op.kind = "none" /\ failures' = failures
      /\ backup' = backup
  BY DEF StartChange, CanStart, Begin, Left, TypeInv, StateInv
<1>5. /\ promise'[t].key = promise[t].key /\ promise[t].passwords \subseteq promise'[t].passwords
      /\ promise'[t].fromBackup = promise[t].fromBackup
      /\ o[1] = t => op'.key = promise[t].key /\ q \in promise'[t].passwords
  <2>1. CASE o[1] = t
    <3>0. PICK l \in Layout, i \in BOOLEAN : l = o[2] /\ i = FALSE
      BY <1>2
    <3>a. Found(t, l, i, p)
      BY <1>2, <2>1, <3>0
    <3>1. file[Place(t, l, i)].key = promise[t].key
      BY <3>a, FoundGood DEF Good
    <3>2. promise' = [promise EXCEPT ![t].passwords = @ \union {q},
                                     ![t].fromBackup = @ \/ FALSE]
      BY <1>1, <2>1, <3>0, <3>1 DEF Promised
    <3>3. promise \in [Type -> [key : Key, layout : Layout, passwords : SUBSET Password,
                                fromBackup : BOOLEAN]]
      BY DEF TypeInv
    <3>4. /\ promise'[t].key = promise[t].key
          /\ promise'[t].passwords = promise[t].passwords \union {q}
          /\ promise'[t].fromBackup = promise[t].fromBackup
      BY <3>2, <3>3
    <3>5. QED  BY <1>3, <2>1, <3>0, <3>1, <3>4
  <2>2. CASE o[1] # t
    <3>1. promise'[t] = promise[t]
      BY <1>1, <2>2 DEF Promised, TypeInv
    <3>2. QED  BY <2>2, <3>1
  <2>3. QED  BY <2>1, <2>2
<1>6. promise'[t].fromBackup => Good(t, backup'[t], promise'[t])
  BY <1>4, <1>5, GoodStays DEF SafeInv
<1>7. QED
  BY <1>3, <1>4, <1>5, <1>6, LeftSafe

LEMMA InternalSafe ==
  ASSUME TypeInv, TypeInv', NEW t \in Type, SafeInv(t), Owned(t),
         NEW p \in Password, StartRestoreInternal(p)
  PROVE  SafeInv(t)'
<1>1. PICK o \in Openings(p, TRUE) : op' = OperationOn("internal", o[1], o[2], TRUE, p)
  BY DEF StartRestoreInternal, Begin
<1>2. o[1] \in Type /\ o[2] \in Layout /\ Found(o[1], o[2], TRUE, p)
  BY OpeningsFound
<1>3. /\ op'.type = o[1] /\ op'.kind = "internal" /\ op'.password = p
      /\ op'.key = file[Place(o[1], o[2], TRUE)].key
  BY <1>1 DEF OperationOn, NoOperation
<1>4. /\ Left(First(t)) /\ Left(Second(t)) /\ op.kind = "none" /\ failures' = failures
      /\ backup' = backup /\ promise' = promise
  BY DEF StartRestoreInternal, CanStart, Begin, Left, TypeInv, StateInv, host
<1>5. ASSUME o[1] = t
      PROVE  op'.key = promise[t].key /\ p \in promise[t].passwords
  <2>1. PICK l \in Layout, i \in BOOLEAN : l = o[2] /\ i = TRUE
    BY <1>2
  <2>a. Found(t, l, i, p)
    BY <1>2, <1>5, <2>1
  <2>2. Good(t, file[Place(t, l, i)], promise[t]) /\ file[Place(t, l, i)].password = p
    BY <2>a, FoundGood
  <2>3. QED  BY <1>3, <1>5, <2>1, <2>2 DEF Good
<1>6. promise'[t].fromBackup => Good(t, backup'[t], promise'[t])
  BY <1>4 DEF SafeInv
<1>7. QED
  BY <1>3, <1>4, <1>5, <1>6, LeftSafe

LEMMA ExternalSafe ==
  ASSUME TypeInv, TypeInv', KeyInv, NEW t \in Type, SafeInv(t), Owned(t), Owned(t)',
         NEW p \in Password, StartRestoreExternal(p)
  PROVE  SafeInv(t)'
<1>1. PICK u \in Type :
        /\ backup[u].kind = "header" /\ backup[u].password = p
        /\ op'.kind = "external" /\ op'.type = u /\ op'.password = p /\ op'.key = backup[u].key
        /\ promise' = IF promise[u].key = backup[u].key THEN Promised(u, backup[u].key, p, TRUE)
                      ELSE [promise EXCEPT ![u] = NoPromise]
  <2>1. PICK u \in Type :
          /\ backup[u].kind = "header" /\ backup[u].password = p
          /\ op' = [NoOperation EXCEPT !.kind = "external", !.type = u, !.layout = backup[u].layout,
                                       !.password = p, !.key = backup[u].key]
          /\ promise' = IF promise[u].key = backup[u].key THEN Promised(u, backup[u].key, p, TRUE)
                        ELSE [promise EXCEPT ![u] = NoPromise]
    BY DEF StartRestoreExternal, Begin
  <2>2. op'.kind = "external" /\ op'.type = u /\ op'.password = p /\ op'.key = backup[u].key
    BY <2>1 DEF NoOperation
  <2>3. QED  BY <2>1, <2>2
<1>2. /\ Left(First(t)) /\ Left(Second(t)) /\ op.kind = "none" /\ failures' = failures
      /\ backup' = backup
  BY DEF StartRestoreExternal, CanStart, Begin, Left, TypeInv, StateInv, host
<1>3. CASE u # t
  <2>1. promise'[t] = promise[t]
    BY <1>1, <1>3 DEF Promised, TypeInv
  <2>2. promise'[t].fromBackup => Good(t, backup'[t], promise'[t])
    BY <1>2, <2>1 DEF SafeInv
  <2>3. QED
    BY <1>1, <1>2, <1>3, <2>1, <2>2, LeftSafe
<1>4. CASE u = t
  <2>1. promise \in [Type -> [key : Key, layout : Layout, passwords : SUBSET Password,
                              fromBackup : BOOLEAN]]
    BY DEF TypeInv
  <2>2. promise[t].key = backup[t].key
    BY <1>1, <1>4, <2>1 DEF Owned, NoPromise
  <2>3. promise' = [promise EXCEPT ![t].passwords = @ \union {p}, ![t].fromBackup = @ \/ TRUE]
    BY <1>1, <1>4, <2>2 DEF Promised
  <2>4. /\ promise'[t].key = promise[t].key
        /\ promise'[t].passwords = promise[t].passwords \union {p}
        /\ promise'[t].fromBackup = TRUE
    BY <2>1, <2>3
  <2>5. backup[t].type = t /\ backup[t].layout = "V2"
    BY <1>1, <1>4, <2>2 DEF KeyInv, Known, Owned
  <2>6. Good(t, backup'[t], promise'[t])
    BY <1>1, <1>2, <1>4, <2>2, <2>4, <2>5 DEF Good
  <2>7. op'.key = promise'[t].key /\ op'.password \in promise'[t].passwords
    BY <1>1, <1>4, <2>2, <2>4
  <2>8. QED
    BY <1>1, <1>2, <2>4, <2>6, <2>7, LeftSafe
<1>5. QED  BY <1>3, <1>4

LEMMA BackupSafe ==
  ASSUME TypeInv, TypeInv', NEW t \in Type, SafeInv(t), Owned(t),
         NEW p \in Password, NEW q \in Password, NEW hiddenToo \in BOOLEAN,
         BackupVolumeHeaders(p, q, hiddenToo)
  PROVE  SafeInv(t)'
<1>1. /\ Left(First(t)) /\ Left(Second(t)) /\ op' = op /\ failures' = failures
      /\ promise' = promise /\ backup = NoBackup
  BY DEF BackupVolumeHeaders, Left, host
<1>2. backup[t].kind = "noise"
  BY <1>1 DEF NoBackup, Noise, Plain
<1>3. promise[t].fromBackup = FALSE
  BY <1>2 DEF SafeInv, Good, TypeInv
<1>4. op.type = t /\ op.kind \notin {"none", "create"} =>
        /\ op.key = promise[t].key /\ op.password \in promise[t].passwords
        /\ op.kind = "external" => promise[t].fromBackup
  BY DEF SafeInv
<1>5. QED
  BY <1>1, <1>3, <1>4, LeftSafe

\* A step of an operation on the other volume, or of making one.
LEMMA OtherSafe ==
  ASSUME TypeInv, TypeInv', WorkInv, NEW t \in Type, SafeInv(t), Owned(t), [Next]_vars, ~Crash,
         op.kind # "none", op.type # t, op'.type # t \/ op'.kind \in {"none", "create"},
         promise'[t] = promise[t], backup' = backup, failures' >= failures
  PROVE  SafeInv(t)'
<1>1. promise[t].key # 0 /\ promise[t].layout = "V2"
  BY DEF Owned
<1>2. \A i \in BOOLEAN : Left(Place(t, promise[t].layout, i))
  BY <1>1, AloneStep
<1>3. Left(First(t)) /\ Left(Second(t))
  BY <1>1, <1>2 DEF First, Second
<1>4. promise'[t].fromBackup => Good(t, backup'[t], promise'[t])
  BY DEF SafeInv
<1>5. failures > 0 => failures' > 0
  BY HeadersAssumption DEF TypeInv
<1>6. QED
  BY <1>3, <1>4, <1>5, LeftSafe

\* A hidden volume is made while the normal one is promised, or one is created.
LEMMA CreationSafe ==
  ASSUME TypeInv, TypeInv', WorkInv, NEW t \in Type, SafeInv(t), Owned(t), [Next]_vars,
         op.kind = "create",
         \/ CreateVolumeHeader \/ CreateVolumeNoise \/ StartThread
         \/ Format \/ Fill \/ Check \/ CreateBackupHeader \/ CreateBackupNoise
         \/ FlushVolume \/ CreationFails \/ EndThread
         \/ AskAbort \/ (\E yes \in BOOLEAN : AnswerAbort(yes))
  PROVE  SafeInv(t)'
<1>1. op.type # t
  BY DEF WorkInv, PromiseInv, Owned, NoPromise, TypeInv, Operation, Type
<1>2. op' = op /\ promise' = promise /\ backup' = backup /\ ~Crash
      /\ (failures' = failures \/ failures' = failures + 1)
  BY DEF CreateVolumeHeader, CreateVolumeNoise, StartThread, Format, Fill, Check,
         CreateBackupHeader, CreateBackupNoise, FlushVolume, CreationFails, EndThread, AskAbort,
         AnswerAbort, PutNext, counters, PutFails, FlushFails, Crash, NoOperation
<1>3. failures' >= failures
  BY <1>2, HeadersAssumption DEF TypeInv
<1>4. QED
  BY <1>1, <1>2, <1>3, OtherSafe

LEMMA StartCreationSafe ==
  ASSUME TypeInv, TypeInv', NEW t \in Type, SafeInv(t), Owned(t), Owned(t)',
         NEW o \in Creations, StartCreation(o)
  PROVE  SafeInv(t)'
<1>1. /\ promise'[t] = promise[t] /\ t = "normal" /\ o.type # "normal"
  BY DEF StartCreation, Owned, NoPromise, Type
<1>2. o.hosted = "device" /\ o.kind = "create"
  BY <1>1 DEF Creations
<1>3. /\ file' = file /\ disk' = disk /\ dirty' = dirty /\ op' = o /\ op.kind = "none"
      /\ backup' = backup /\ failures' = failures
  BY <1>2 DEF StartCreation, Begin, CanStart, TypeInv, StateInv
<1>4. Left(First(t)) /\ Left(Second(t))
  BY <1>3 DEF Left
<1>5. promise'[t].fromBackup => Good(t, backup'[t], promise'[t])
  BY <1>1, <1>3 DEF SafeInv
<1>6. QED
  BY <1>1, <1>2, <1>3, <1>4, <1>5, LeftSafe

\* A volume whose headers were both written and flushed.
LEMMA BothSafe ==
  ASSUME TypeInv, TypeInv', NEW t \in Type, NEW h, dirty' = {}, op'.kind = "none",
         file'[First(t)] = h, file'[Second(t)] = h, disk'[First(t)] = h, disk'[Second(t)] = h,
         Good(t, h, promise'[t]), promise'[t].fromBackup = FALSE
  PROVE  SafeInv(t)'
BY DEF SafeInv, OneFlushed

LEMMA FinishSafe ==
  ASSUME TypeInv, TypeInv', WorkInv, NEW t \in Type, Owned(t) => SafeInv(t), Owned(t)', [Next]_vars,
         FinishCreation
  PROVE  SafeInv(t)'
<1>1. op.kind = "create" /\ op.type \in Type /\ pc = "finished"
  BY DEF FinishCreation, TypeInv, StateInv, Operation, Before, Thread
<1>2. CASE op.type # t
  <2>1. op' = NoOperation /\ promise'[t] = promise[t] /\ backup' = backup /\ failures' = failures
    BY <1>2 DEF FinishCreation, End, TypeInv, counters
  <2>2. ~Crash /\ failures' >= failures
    BY <2>1, HeadersAssumption DEF TypeInv, Crash
  <2>3. Owned(t)
    BY <2>1 DEF Owned
  <2>4. op'.kind = "none"
    BY <2>1 DEF NoOperation
  <2>5. QED
    BY <1>1, <1>2, <2>1, <2>2, <2>3, <2>4, OtherSafe
<1>3. CASE op.type = t /\ Created
  <2>1. promise'[t] = Promise(op.key, "V2", {op.password}) /\ UNCHANGED host /\ op' = NoOperation
    BY <1>3 DEF FinishCreation, End, TypeInv, Created
  <2>2. ~creator.exception /\ ~creator.abort
    BY <1>3 DEF Created, TypeInv, StateInv
  <2>3. dirty = {} /\ Complete(op)
    BY <1>1, <2>2 DEF WorkInv, CreateInv, StageInv
  <2>4. /\ file[First(t)] = Header(t, "V2", op.key, op.password)
        /\ file[Second(t)] = Header(t, "V2", op.key, op.password)
    BY <1>3, <2>3 DEF Complete, HeaderWritten
  <2>5. First(t) \in Block /\ Second(t) \in Block
    BY Places
  <2>6. disk[First(t)] = file[First(t)] /\ disk[Second(t)] = file[Second(t)]
    BY <2>3, <2>5 DEF WorkInv, SyncInv
  <2>7. Good(t, Header(t, "V2", op.key, op.password), promise'[t]) /\ ~promise'[t].fromBackup
        /\ promise'[t].fromBackup = FALSE
    BY <2>1 DEF Good, Header, Promise
  <2>8. op'.kind = "none"
    BY <2>1 DEF NoOperation
  <2>9. QED
    BY <2>1, <2>3, <2>4, <2>6, <2>7, <2>8, BothSafe DEF host
<1>4. CASE op.type = t /\ ~Created
  <2>1. promise'[t] = NoPromise
    BY <1>1, <1>4 DEF FinishCreation, WorkInv, PromiseInv, Type
  <2>2. QED  BY <2>1 DEF Owned, NoPromise
<1>5. QED  BY <1>2, <1>3, <1>4

\* The header of the operation is written to one of the two places.
LEMMA WriteSafe ==
  ASSUME TypeInv, TypeInv', WorkInv, KeyInv, NEW t \in Type, SafeInv(t), Owned(t), op.type = t,
         ReEncryptHeader \/ RestoreVolumeHeader
  PROVE  SafeInv(t)'
<1>1. op.kind \notin {"none", "create"} /\ (op.kind = "change" <=> pc = "reEncrypt")
  BY DEF ReEncryptHeader, RestoreVolumeHeader, TypeInv, StateInv, Before, Thread
<1>2. Good(t, HeaderOfOperation, promise[t]) /\ op.layout = "V2"
  BY <1>1, OperationGood
<1>3. /\ \A b \in Block : file'[b] = IF b = PlaceOfOperation THEN HeaderOfOperation ELSE file[b]
      /\ dirty' = dirty \union {PlaceOfOperation} /\ disk' = disk
      /\ promise' = promise /\ backup' = backup /\ failures' = failures
  BY DEF ReEncryptHeader, RestoreVolumeHeader, Put, counters
<1>4. \/ op' = op
      \/ op.kind = "external" /\ op' = [op EXCEPT !.second = TRUE]
      \/ op' = NoOperation /\ op.kind # "change"
  BY <1>1 DEF ReEncryptHeader, RestoreVolumeHeader, End, AlsoBackup
<1>5. \/ op'.kind = op.kind /\ op'.type = op.type /\ op'.key = op.key /\ op'.password = op.password
         /\ (op.kind = "change" => op'.second = op.second)
      \/ op'.kind = "none"
  BY <1>4 DEF NoOperation, TypeInv, Operation
<1>6. /\ promise[t].fromBackup => Good(t, backup[t], promise[t])
      /\ op.key = promise[t].key /\ op.password \in promise[t].passwords
      /\ op.kind = "external" => promise[t].fromBackup
      /\ \A b \in Places2(t) : Good(t, file[b], promise[t]) \/ (failures > 0 /\ file[b] = Torn)
      /\ promise[t].fromBackup \/ \E b \in Places2(t) : Good(t, file[b], promise[t])
      /\ failures = 0 => (\A b \in Places2(t) : Good(t, disk[b], promise[t])) /\ OneFlushed(t)
  BY <1>1 DEF SafeInv, Places2
<1>7. First(t) \in Block /\ Second(t) \in Block /\ First(t) # Second(t)
      /\ (~op.second => PlaceOfOperation = First(t)) /\ (op.second => PlaceOfOperation = Second(t))
  BY <1>2, Places, OperationPlaces DEF TypeInv, Operation
<1>8. \A b \in Places2(t) :
        /\ Good(t, file'[b], promise[t]) \/ (failures > 0 /\ file'[b] = Torn)
        /\ Good(t, file[b], promise[t]) => Good(t, file'[b], promise[t])
  BY <1>2, <1>3, <1>6, <1>7 DEF Places2
<1>9. failures = 0 => OneFlushed(t)'
  <2>1. CASE promise[t].fromBackup
    BY <1>3, <2>1 DEF OneFlushed
  <2>2. CASE ~promise[t].fromBackup /\ ~op.second
    BY <1>3, <1>6, <1>7, <2>2 DEF OneFlushed
  <2>3. CASE ~promise[t].fromBackup /\ op.second
    <3>1. op.kind = "change"
      <4>1. op.kind \in {"change", "internal", "external"}
        BY <1>1 DEF TypeInv, Operation
      <4>2. op.kind # "internal" /\ op.kind # "external"
        BY <1>6, <2>3 DEF WorkInv, RestoreInv
      <4>3. QED  BY <4>1, <4>2
    <3>2. First(t) \notin dirty
      BY <2>3, <3>1 DEF WorkInv, ChangeInv
    <3>3. op'.kind = "change" /\ op'.type = t /\ op'.second
      BY <1>4, <2>3, <3>1
    <3>4. QED  BY <1>3, <1>7, <2>3, <3>2, <3>3 DEF OneFlushed
  <2>4. QED  BY <2>1, <2>2, <2>3
<1>10. promise'[t].fromBackup \/ \E b \in Places2(t) : Good(t, file'[b], promise'[t])
  BY <1>3, <1>6, <1>8
<1>11. op'.type = t /\ op'.kind \notin {"none", "create"} =>
         /\ op'.key = promise'[t].key /\ op'.password \in promise'[t].passwords
         /\ op'.kind = "external" => promise'[t].fromBackup
  BY <1>3, <1>5, <1>6
<1>12. QED
  BY <1>3, <1>6, <1>8, <1>9, <1>10, <1>11 DEF SafeInv, Places2

LEMMA ChangePassSafe ==
  ASSUME TypeInv, TypeInv', WorkInv, KeyInv, NEW t \in Type, SafeInv(t), Owned(t), op.type = t,
         ChangePass
  PROVE  SafeInv(t)'
<1>1. op.kind = "change" /\ pc = "sync" /\ op.pass \in 1 .. Passes
  BY DEF ChangePass, FlushHeader, TypeInv, StateInv, WorkInv, ChangeInv, Before, Thread
<1>2. Good(t, HeaderOfOperation, promise[t]) /\ op.layout = "V2" /\ op.key = promise[t].key
  BY <1>1, OperationGood
<1>3. file' = file /\ disk' = file /\ dirty' = {} /\ backup' = backup /\ failures' = failures
  BY DEF ChangePass, FlushHeader, Flush, counters
<1>4. CASE AfterPass(op).kind # "none"
  <2>1. promise' = promise /\ op' = AfterPass(op)
    BY <1>4 DEF ChangePass
  <2>2. op'.kind = op.kind /\ op'.type = op.type /\ op'.key = op.key /\ op'.password = op.password
    <3>1. \/ op' = [op EXCEPT !.pass = @ + 1] \/ op' = [op EXCEPT !.pass = 1, !.second = TRUE]
          \/ op' = [op EXCEPT !.kind = "none"]
      BY <1>1, <2>1, PassCases
    <3>2. op'.kind # "none" /\ op \in Operation
      BY <1>4, <2>1 DEF TypeInv
    <3>3. QED  BY <3>1, <3>2 DEF Operation
  <2>3. failures = 0 => OneFlushed(t)'
    BY <1>3 DEF OneFlushed
  <2>4. QED
    BY <1>3, <2>1, <2>2, <2>3 DEF SafeInv
<1>5. CASE AfterPass(op).kind = "none"
  <2>1. promise'[t] = Promise(op.key, op.layout, {op.password}) /\ op' = NoOperation
    BY <1>2, <1>5 DEF ChangePass, End, TypeInv
  <2>2. op.second
    BY <1>1, <1>2, <1>5, PassCases DEF TypeInv, Operation
  <2>3. file[First(t)] = HeaderOfOperation /\ file[Second(t)] = HeaderOfOperation
    BY <1>1, <1>2, <2>2, OperationPlaces DEF WorkInv, ChangeInv
  <2>4. Good(t, HeaderOfOperation, promise'[t]) /\ promise'[t].fromBackup = FALSE
    BY <1>2, <2>1 DEF Good, HeaderOfOperation, Header, Promise
  <2>5. op'.kind = "none"
    BY <2>1 DEF NoOperation
  <2>6. QED
    BY <1>3, <2>3, <2>4, <2>5, BothSafe
<1>6. QED  BY <1>4, <1>5

\* The first failure: the header that is not being written is good.
LEMMA HeaderFailsSafe ==
  ASSUME TypeInv, TypeInv', WorkInv, KeyInv, NEW t \in Type, SafeInv(t), Owned(t), op.type = t,
         failures = 0, HeaderWriteFails
  PROVE  SafeInv(t)'
<1>1. op' = NoOperation /\ promise' = promise /\ backup' = backup /\ failures' = 1
  BY DEF HeaderWriteFails, End, PutFails, FlushFails
<1>2. op'.kind = "none"
  BY <1>1 DEF NoOperation
<1>3. \A b \in Places2(t) : Good(t, file[b], promise[t])
  BY DEF SafeInv, Places2
<1>4. /\ \A b \in Block : b # PlaceOfOperation => file'[b] = file[b]
      /\ PlaceOfOperation \in Block => file'[PlaceOfOperation] \in {Torn, file[PlaceOfOperation]}
  BY PutFailsEffect DEF HeaderWriteFails, FlushFails, host
<1>5. First(t) \in Block /\ Second(t) \in Block /\ First(t) # Second(t)
  BY Places
<1>6. /\ \A b \in Places2(t) : Good(t, file'[b], promise[t]) \/ file'[b] = Torn
      /\ \E b \in Places2(t) : Good(t, file'[b], promise[t])
  BY <1>3, <1>4, <1>5 DEF Places2
<1>7. promise[t].fromBackup => Good(t, backup[t], promise[t])
  BY DEF SafeInv
<1>8. QED
  BY <1>1, <1>2, <1>6, <1>7 DEF SafeInv, Places2

LEMMA CrashSafe ==
  ASSUME TypeInv, TypeInv', NEW t \in Type, SafeInv(t), Owned(t), failures = 0, Crash
  PROVE  SafeInv(t)'
<1>1. op' = NoOperation /\ promise' = promise /\ backup' = backup /\ failures' = 1
  BY DEF Crash
<1>2. op'.kind = "none"
  BY <1>1 DEF NoOperation
<1>3. /\ \A b \in Places2(t) : Good(t, file[b], promise[t]) /\ Good(t, disk[b], promise[t])
      /\ promise[t].fromBackup \/ \E b \in Places2(t) : b \notin dirty
  BY DEF SafeInv, Places2, OneFlushed
<1>4. \A b \in Places2(t) : b \in Block /\ b \in Slot
  BY Places DEF Places2
<1>5. \A b \in Places2(t) :
        /\ Good(t, file'[b], promise[t]) \/ file'[b] = Torn
        /\ b \notin dirty => Good(t, file'[b], promise[t])
  BY <1>3, <1>4, CrashEffect
<1>6. promise[t].fromBackup => Good(t, backup[t], promise[t])
  BY DEF SafeInv
<1>7. QED
  BY <1>1, <1>2, <1>3, <1>5, <1>6 DEF SafeInv, Places2

LEMMA SafeStep ==
  ASSUME MaxFailures <= 1, TypeInv, TypeInv', WorkInv, KeyInv, [Next]_vars,
         \A t \in Type : SafeInv(t), NEW t \in Type
  PROVE  SafeInv(t)'
<1> SUFFICES ASSUME Owned(t)'  PROVE SafeInv(t)'
  BY DEF SafeInv
<1>0. SafeInv(t)
  OBVIOUS
<1>1. CASE FinishCreation
  BY <1>0, <1>1, FinishSafe
<1>2. ASSUME ~FinishCreation  PROVE Owned(t)
  <2>1. ChangeInv
    BY DEF WorkInv
  <2>2. CASE promise'[t].key = promise[t].key /\ promise'[t].layout = promise[t].layout
    BY <2>2 DEF Owned
  <2>3. CASE promise'[t] = NoPromise
    BY <2>3 DEF Owned, NoPromise
  <2>4. CASE /\ ChangePass /\ AfterPass(op).kind = "none" /\ op.kind = "change" /\ t = op.type
             /\ promise[t].key = op.key
             /\ promise'[t] = Promise(op.key, op.layout, {op.password})
    <3>1. op.layout = promise[t].layout
      BY <2>4 DEF KeyInv
    <3>2. QED  BY <2>4, <3>1 DEF Owned, Promise
  <2>5. QED  BY <1>2, <2>1, <2>2, <2>3, <2>4, PromiseSteps
<1>3. ASSUME failures' = failures + 1  PROVE failures = 0
  BY <1>3, HeadersAssumption DEF TypeInv
<1>4. CASE ~FinishCreation
  <2>1. Owned(t)
    BY <1>2, <1>4
  <2>2. CASE UNCHANGED vars
    BY <1>0, <2>2 DEF vars, host, counters, SafeInv, Owned, OneFlushed
  <2>3. CASE \E o \in Creations : StartCreation(o)
    BY <1>0, <2>1, <2>3, StartCreationSafe
  <2>4. CASE \/ CreateVolumeHeader \/ CreateVolumeNoise \/ StartThread
             \/ Format \/ Fill \/ Check \/ CreateBackupHeader \/ CreateBackupNoise
             \/ FlushVolume \/ CreationFails \/ EndThread
             \/ AskAbort \/ (\E yes \in BOOLEAN : AnswerAbort(yes))
    <3>1. CASE op.kind = "create"
      BY <1>0, <2>1, <2>4, <3>1, CreationSafe
    <3>2. CASE op.kind # "create"
      BY <2>4, <3>2 DEF CreateVolumeHeader, CreateVolumeNoise, StartThread,
           Format, Fill, Check, CreateBackupHeader, CreateBackupNoise, FlushVolume, CreationFails,
           EndThread, AskAbort, AnswerAbort, TypeInv, StateInv, Before, Thread, Working
    <3>3. QED  BY <3>1, <3>2
  <2>5. CASE \E p, q \in Password : StartChange(p, q)
    BY <1>0, <2>1, <2>5, StartChangeSafe
  <2>6. CASE \E p, q \in Password, hiddenToo \in BOOLEAN : BackupVolumeHeaders(p, q, hiddenToo)
    BY <1>0, <2>1, <2>6, BackupSafe
  <2>7. CASE \E p \in Password : StartRestoreInternal(p) \/ StartRestoreExternal(p)
    BY <1>0, <2>1, <2>7, InternalSafe, ExternalSafe
  <2>8. CASE ReEncryptHeader \/ ChangePass \/ RestoreVolumeHeader \/ HeaderWriteFails
    <3>1. CASE op.type = t
      <4>1. HeaderWriteFails => failures = 0
        BY <1>3 DEF HeaderWriteFails, PutFails, FlushFails
      <4>2. QED
        BY <1>0, <2>1, <2>8, <3>1, <4>1, WriteSafe, ChangePassSafe, HeaderFailsSafe
    <3>2. CASE op.type # t
      <4>1. op.kind # "none" /\ op.kind # "create" /\ op.type \in Type
        BY <2>8 DEF ReEncryptHeader, ChangePass, FlushHeader, RestoreVolumeHeader,
                    HeaderWriteFails, TypeInv, StateInv, Operation, Before, Thread
      <4>2. /\ promise'[t] = promise[t] /\ backup' = backup
            /\ failures' = failures \/ failures' = failures + 1
        BY <2>8, <3>2
          DEF ReEncryptHeader, ChangePass, RestoreVolumeHeader, HeaderWriteFails,
                          PutFails, FlushFails, counters, TypeInv
      <4>3. failures' >= failures
        BY <4>2, HeadersAssumption DEF TypeInv
      <4>4. op'.type = op.type \/ op'.kind = "none"
        <5>1. CASE ReEncryptHeader \/ RestoreVolumeHeader \/ HeaderWriteFails
          <6>1. op' = op \/ op' = [op EXCEPT !.second = TRUE] \/ op' = NoOperation
            BY <5>1 DEF ReEncryptHeader, RestoreVolumeHeader, HeaderWriteFails, End
          <6>2. QED  BY <6>1 DEF NoOperation, TypeInv, Operation
        <5>2. CASE ChangePass
          <6>1. op.kind = "change" /\ op.pass \in 1 .. Passes
            BY <5>2 DEF ChangePass, FlushHeader, TypeInv, StateInv, WorkInv, ChangeInv
          <6>2. op' = NoOperation \/ op' = AfterPass(op)
            BY <5>2 DEF ChangePass, End
          <6>3. \/ op' = [op EXCEPT !.pass = @ + 1]
                \/ op' = [op EXCEPT !.pass = 1, !.second = TRUE]
                \/ op' = [op EXCEPT !.kind = "none"] \/ op' = NoOperation
            BY <6>1, <6>2, PassCases
          <6>4. op \in Operation
            BY DEF TypeInv
          <6>5. CASE op' = NoOperation
            BY <6>5 DEF NoOperation
          <6>6. CASE op' # NoOperation
            BY <6>3, <6>4, <6>6 DEF Operation
          <6>7. QED  BY <6>5, <6>6
        <5>3. QED  BY <2>8, <5>1, <5>2
      <4>5. op'.type # t \/ op'.kind \in {"none", "create"}
        BY <3>2, <4>4
      <4>6. CASE Crash
        <5>1. failures = 0
          BY <1>3, <4>6 DEF Crash
        <5>2. QED  BY <1>0, <2>1, <4>6, <5>1, CrashSafe
      <4>7. CASE ~Crash
        BY <1>0, <2>1, <3>2, <4>1, <4>2, <4>3, <4>5, <4>7, OtherSafe
      <4>8. QED  BY <4>6, <4>7
    <3>3. QED  BY <3>1, <3>2
  <2>9. CASE Crash
    <3>1. failures = 0
      BY <1>3, <2>9 DEF Crash
    <3>2. QED  BY <1>0, <2>1, <2>9, <3>1, CrashSafe
  <2>10. QED
    BY <1>4, <2>2, <2>3, <2>4, <2>5, <2>6, <2>7, <2>8, <2>9 DEF Next
<1>5. QED  BY <1>1, <1>4

\* The hosts to begin with hold the headers that were promised and no others.
LEMMA InitHost ==
  ASSUME NEW layout \in Layout, NEW hiddenToo \in BOOLEAN, NEW p \in [Type -> Password],
         NEW b \in Block
  PROVE  LET c == HostWith(layout, hiddenToo, p)[b]
         IN  c.kind = "header" =>
               /\ c.layout = layout
               /\ \/ c.type = "normal" /\ c.key = 1
                  \/ c.type = "hidden" /\ c.key = 2 /\ hiddenToo
<1> DEFINE c == HostWith(layout, hiddenToo, p)[b]
<1>1. \/ c = Header("normal", layout, 1, p["normal"])
      \/ c = Header("hidden", layout, 2, p["hidden"]) /\ hiddenToo
      \/ c = Noise \/ c = Data(1)
  BY DEF HostWith
<1>2. QED
  BY <1>1 DEF Header, Noise, Data, Plain

\* Of a V2 host both headers of each volume are there.
LEMMA InitBoth ==
  ASSUME NEW hiddenToo \in BOOLEAN, NEW p \in [Type -> Password]
  PROVE  LET host2 == HostWith("V2", hiddenToo, p)
         IN  /\ \A b \in Places2("normal") : host2[b] = Header("normal", "V2", 1, p["normal"])
             /\ hiddenToo =>
                  \A b \in Places2("hidden") : host2[b] = Header("hidden", "V2", 2, p["hidden"])
<1>1. /\ First("normal") = 0 /\ First("hidden") = 1
      /\ Second("normal") = Blocks - 2 /\ Second("hidden") = Blocks - 1
      /\ Blocks \in Nat /\ Blocks > 6
  BY Places, HeadersAssumption
<1>2. /\ {Place("normal", "V2", i) : i \in BOOLEAN} = {0, Blocks - 2}
      /\ {Place("hidden", "V2", i) : i \in BOOLEAN} = {1, Blocks - 1}
  BY DEF Place
<1>3. \A b \in {0, 1, Blocks - 2, Blocks - 1} : b \in Block
  BY <1>1 DEF Block
<1>4. QED
  BY <1>1, <1>2, <1>3 DEF HostWith, Places2

LEMMA InitSafe == Init => KeyInv /\ \A t \in Type : SafeInv(t)
<1> SUFFICES ASSUME Init  PROVE KeyInv /\ \A t \in Type : SafeInv(t)
  OBVIOUS
<1>1. TypeInv
  BY InitType
<1>2. /\ disk = file /\ dirty = {} /\ op.kind = "none" /\ operations = 0
  BY DEF Init, NoOperation
<1>3. \A t \in Type : backup[t] = Noise \/ \E b \in Block : backup[t] = file[b]
  <2>1. backup = NoBackup \/ backup = [t \in Type |-> file[Place(t, promise["normal"].layout, FALSE)]]
    BY DEF Init
  <2>2. promise["normal"].layout \in Layout
    BY <1>1 DEF TypeInv, Type
  <2>3. \A t \in Type : Place(t, promise["normal"].layout, FALSE) \in Block
    BY <2>2, Places
  <2>4. QED  BY <2>1, <2>3 DEF NoBackup
<1>4. ASSUME file = [b \in Block |-> Plain("noise", 0)], promise = [t \in Type |-> NoPromise]
      PROVE  KeyInv /\ \A t \in Type : SafeInv(t)
  <2>1. \A b \in Block : file[b].kind = "noise"
    BY <1>4 DEF Plain
  <2>2. \A t \in Type : backup[t].kind = "noise"
    BY <1>3, <2>1 DEF Noise, Plain
  <2>3. KeyInv
    BY <1>2, <2>1, <2>2 DEF KeyInv, Known
  <2>4. \A t \in Type : SafeInv(t)
    BY <1>4 DEF SafeInv, Owned, NoPromise
  <2>5. QED  BY <2>3, <2>4
<1>5. ASSUME NEW layout \in Layout, NEW hiddenToo \in BOOLEAN, NEW p \in [Type -> Password],
             file = HostWith(layout, hiddenToo, p),
             promise = [t \in Type |->
               IF t = "normal" THEN Promise(1, layout, {p[t]})
               ELSE IF hiddenToo THEN Promise(2, layout, {p[t]}) ELSE NoPromise]
      PROVE  KeyInv /\ \A t \in Type : SafeInv(t)
  <2>1. \A b \in Block : file[b].kind = "header" =>
               /\ file[b].layout = layout
               /\ \/ file[b].type = "normal" /\ file[b].key = 1
                  \/ file[b].type = "hidden" /\ file[b].key = 2 /\ hiddenToo
    BY <1>5, InitHost
  <2>2. /\ promise["normal"].layout = layout /\ promise["normal"].key = 1
        /\ promise["normal"].passwords = {p["normal"]} /\ promise["normal"].fromBackup = FALSE
        /\ hiddenToo => /\ promise["hidden"].layout = layout /\ promise["hidden"].key = 2
                        /\ promise["hidden"].passwords = {p["hidden"]}
                        /\ promise["hidden"].fromBackup = FALSE
        /\ ~hiddenToo => promise["hidden"].key = 0
    BY <1>5 DEF Promise, NoPromise, Type
  <2>3. \A b \in Block : Known(file[b], promise, op, operations)
    BY <1>2, <2>1, <2>2 DEF Known
  <2>4. \A t \in Type : Known(backup[t], promise, op, operations)
    BY <1>3, <2>3 DEF Known, Noise, Plain
  <2>5. \A t \in Type : backup[t].kind = "header" => backup[t].type = t
    <3>1. CASE backup = NoBackup
      BY <3>1 DEF NoBackup, Noise, Plain
    <3>2. CASE backup = [t \in Type |-> file[Place(t, promise["normal"].layout, FALSE)]]
      <4>1. PICK q \in Block : /\ q = Place("hidden", layout, FALSE) /\ q # 0
                               /\ \A i \in BOOLEAN : q # Place("normal", layout, i)
        BY HeadersAssumption DEF Place, Block, Layout
      <4>2. Place("normal", layout, FALSE) = 0 /\ 0 \in Block
        BY HeadersAssumption DEF Place, Block, Layout
      <4>3. backup["normal"] = file[0] /\ backup["hidden"] = file[q]
        BY <2>2, <3>2, <4>1, <4>2 DEF Type
      <4>4. file[0] = Header("normal", layout, 1, p["normal"])
        BY <1>5, <4>2 DEF HostWith
      <4>5. file[q] \in {Header("hidden", layout, 2, p["hidden"]), Noise, Data(1)}
        BY <1>5, <4>1 DEF HostWith
      <4>6. QED
        BY <4>3, <4>4, <4>5 DEF Header, Noise, Data, Plain, Type
    <3>3. QED  BY <3>1, <3>2 DEF Init
  <2>6. KeyInv
    BY <1>2, <2>3, <2>4, <2>5 DEF KeyInv
  <2>7. ASSUME NEW t \in Type  PROVE SafeInv(t)
    <3>1. CASE ~Owned(t)
      BY <3>1 DEF SafeInv
    <3>2. CASE Owned(t)
      <4>1. layout = "V2" /\ (t = "hidden" => hiddenToo)
        BY <2>2, <3>2 DEF Owned, Type
      <4>2. \A b \in Places2(t) : Good(t, file[b], promise[t])
        <5>1. /\ \A b \in Places2("normal") : file[b] = Header("normal", "V2", 1, p["normal"])
              /\ hiddenToo =>
                   \A b \in Places2("hidden") : file[b] = Header("hidden", "V2", 2, p["hidden"])
          BY <1>5, <4>1, InitBoth
        <5>2. QED  BY <2>2, <4>1, <5>1 DEF Good, Header, Type
      <4>3. promise[t].fromBackup = FALSE
        BY <2>2, <4>1 DEF Type
      <4>4. QED
        BY <1>2, <4>2, <4>3 DEF SafeInv, Places2, OneFlushed
    <3>3. QED  BY <3>1, <3>2
  <2>8. QED  BY <2>6, <2>7
<1>6. CASE file = [b \in Block |-> Plain("noise", 0)] /\ promise = [t \in Type |-> NoPromise]
  BY <1>4, <1>6
<1>7. CASE \E layout \in {"V1", "V2"}, hiddenToo \in BOOLEAN, p \in [Type -> Password] :
            /\ file = HostWith(layout, hiddenToo, p)
            /\ promise = [t \in Type |->
                 IF t = "normal" THEN Promise(1, layout, {p[t]})
                 ELSE IF hiddenToo THEN Promise(2, layout, {p[t]}) ELSE NoPromise]
            /\ p["normal"] # p["hidden"]
  BY <1>5, <1>7 DEF Layout
<1>8. QED
  BY <1>6, <1>7 DEF Init

\* The two places are those of the promised header.
LEMMA SafeSurvives == ASSUME \A t \in Type : SafeInv(t)  PROVE HeaderSurvives
<1> SUFFICES ASSUME NEW t \in Type, promise[t].key # 0, promise[t].layout = "V2"
             PROVE  \E h \in Copies(t) :
                      /\ h.kind = "header" /\ h.type = t /\ h.key = promise[t].key
                      /\ h.password \in promise[t].passwords
  BY DEF HeaderSurvives
<1>1. SafeInv(t) /\ Owned(t)
  BY DEF Owned
<1>2. CASE promise[t].fromBackup
  BY <1>1, <1>2 DEF SafeInv, Good, Copies
<1>3. CASE ~promise[t].fromBackup
  <2>1. PICK b \in {First(t), Second(t)} : Good(t, file[b], promise[t])
    BY <1>1, <1>3 DEF SafeInv
  <2>2. file[b] \in Copies(t)
    BY <2>1 DEF Copies, First, Second
  <2>3. QED  BY <2>1, <2>2 DEF Good
<1>4. QED  BY <1>2, <1>3

\* With one failure, of a write, of a flush or of the system, wherever it meets the
\* program, a volume with a backup header stays open to its owner: both headers are
\* good and at most one of them is not on the medium, until the failure damages it.
\* With two of them it does not: a change of the password may fail at the backup
\* header, and the next one at the first header.
THEOREM HeaderStaysUsable == ASSUME MaxFailures <= 1  PROVE Spec => []HeaderSurvives
<1> DEFINE SafeI == KeyInv /\ \A t \in Type : SafeInv(t)
           TypedWork == TypeInv /\ WorkInv
<1>1. Init => SafeI
  BY InitSafe
<1>2. SafeI /\ TypedWork /\ TypedWork' /\ [Next]_vars => SafeI'
  BY KeyStep, SafeStep
<1>3. SafeI => HeaderSurvives
  BY SafeSurvives
<1>4. Spec => []TypedWork
  BY Works
<1> HIDE DEF SafeI, TypedWork
<1>5. QED
  BY <1>1, <1>2, <1>3, <1>4, PTL DEF Spec
=============================================================================
