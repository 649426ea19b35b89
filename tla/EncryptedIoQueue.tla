--------------------------- MODULE EncryptedIoQueue ---------------------------
(***************************************************************************)
(* Driver/EncryptedIoQueue.c: the queue through which the Windows driver   *)
(* reads and writes an encrypted device.                                   *)
(*                                                                         *)
(* An I/O request packet (IRP) passes three threads.  The main thread      *)
(* takes the IRPs in the order they came, divides each into fragments and  *)
(* encrypts what is written; two fragment buffers take turns, so that the  *)
(* next fragment is prepared while the last one is on its way.  The I/O    *)
(* thread does the device I/O, with a read-ahead.  The completion thread   *)
(* decrypts what was read.                                                 *)
(*                                                                         *)
(* The queue of a mounted volume (IsFilterDevice = FALSE) is started and   *)
(* stopped with the volume.  The queue of the system drive (IsFilterDevice *)
(* = TRUE) passes plain blocks too: only an area of the drive is encrypted *)
(* and the setup thread (Driver/DriveFilter.c) moves its end while it      *)
(* holds the queue.  In a hidden system that area is remapped.             *)
(*                                                                         *)
(* A block of the model is a data unit.  An atomic step is one access to   *)
(* what the threads share, with the local work before or after it.         *)
(***************************************************************************)
EXTENDS Integers, Sequences, FiniteSets

CONSTANTS
  Irp, NoIrp,           \* the IRPs of a behaviour
  Request,              \* what they ask for: [op, offset, length], in blocks
  IsFilterDevice,
  DeviceLength,         \* blocks that can be addressed
  DataOffset,           \* volDataAreaOffset of a volume
  RemappedAreaOffset,   \* 0 when the area is not remapped
  UnitOffset,           \* RemappedAreaDataUnitOffset or FirstDataUnitNo
  AreaStart,            \* EncryptedAreaStart of the system drive
  AreaLengths,          \* lengths of the encrypted area at the start
  ProtectedStart, ProtectedEnd,   \* the hidden volume or the boot header;
                        \* none when the end is before the start
  MaxFragment,          \* TC_ENC_IO_QUEUE_MAX_FRAGMENT_SIZE
  Item, NoItem,         \* TC_ENC_IO_QUEUE_PREALLOCATED_ITEM_COUNT pool items
  RequestCount,         \* TC_ENC_IO_QUEUE_PREALLOCATED_IO_REQUEST_COUNT
  MayFail,              \* the device may fail
  MayCancel,            \* an IRP may be cancelled while it is queued
  MayControl            \* the setup thread holds, or the volume is closed

ASSUME QueueAssumption ==
  /\ Request \subseteq [op : {"read", "write", "misaligned"}, offset : Nat, length : Nat \ {0}]
  /\ {IsFilterDevice, MayFail, MayCancel, MayControl} \subseteq BOOLEAN
  /\ DeviceLength \in Nat \ {0} /\ MaxFragment \in Nat \ {0} /\ RequestCount \in Nat \ {0}
  /\ {DataOffset, RemappedAreaOffset, AreaStart} \subseteq Nat /\ UnitOffset \in Int
  /\ ProtectedStart \in Nat /\ ProtectedEnd \in Nat
  /\ RemappedAreaOffset = 0 \/ (IsFilterDevice /\ RemappedAreaOffset >= DeviceLength)
  /\ AreaLengths \subseteq 0 .. DeviceLength - AreaStart
  /\ IsFilterDevice => DataOffset = 0
  /\ IsFilterDevice => \A r \in Request :
       r.offset + r.length + (IF r.op = "misaligned" THEN 1 ELSE 0) <= DeviceLength
  /\ NoIrp \notin Irp /\ NoItem \notin Item /\ Item # {}

Device == 0 .. DataOffset + DeviceLength + RemappedAreaOffset - 1
Thread == {"main", "io", "completion"}
Buffer == {"A", "B"}
Clear == -1                         \* unit of a block that is not encrypted

VARIABLES
  device,          \* device[p]: unit it is encrypted with, which IRP wrote it, where
  area,            \* length of the encrypted area; it starts at AreaStart
  irp,             \* the IRPs: phase, request, cancel, status, data read
  item,            \* pool items: the IRP (NoIrp in a free one) and NT_SUCCESS (Status)
  requestsInUse, poolFree,          \* pool of requests, PoolBufferFreeEvent
  queue,           \* MainThreadQueue, IoThreadQueue, CompletionThreadQueue
  notEmpty,        \* the ...QueueNotEmptyEvent of each thread
  pc, job,         \* control state of the threads and the request each works on
  fragment, bufferFree,             \* FragmentBufferA and B and their events
  activeBuffer,    \* activeFragmentBuffer of the main thread
  pending,         \* IoThreadPendingRequestCount
  outstanding,     \* OutstandingIoCount
  cache, lastRead, \* ReadAheadBuffer, its offset and validity; LastRead...
  suspended, suspendPending, stopPending, threadExit,
  noOutstanding, resumed,           \* NoOutstandingIoEvent, QueueResumedEvent
  owner,           \* control state of the thread that holds or stops the queue
  triggered,       \* bHiddenVolProtectionAction
  latest           \* history: who wrote each block last, in the order of dispatch

pool    == <<item, requestsInUse, poolFree>>
queues  == <<queue, notEmpty, pending>>
buffers == <<fragment, bufferFree, activeBuffer>>
ahead   == <<cache, lastRead>>
disk    == <<device, area>>
control == <<suspended, suspendPending, stopPending, threadExit, resumed, owner>>
idle    == <<outstanding, noOutstanding>>
vars == <<disk, irp, pool, queues, pc, job, buffers, ahead, control, idle, triggered, latest>>

NoData == [k \in {} |-> [unit |-> Clear, by |-> NoIrp, at |-> Clear]]
NoJob == [item |-> NoItem, last |-> FALSE, offset |-> 0, length |-> 0, from |-> 0,
          encrypted |-> {}, buffer |-> "A"]
NoRequest == [op |-> "none", offset |-> 0, length |-> 0]
NewIrp == [phase |-> "new", request |-> NoRequest, cancel |-> FALSE, status |-> "none",
           data |-> NoData, expected |-> NoData]

-----------------------------------------------------------------------------
(* Blocks and where they are.                                              *)

EncryptedArea == IF IsFilterDevice THEN AreaStart .. AreaStart + area - 1 ELSE Device

Plain(by, at) == [unit |-> Clear, by |-> by, at |-> at]
Garbage == Plain(NoIrp, Clear)
Encrypted(b, u) == IF b.unit = Clear THEN [b EXCEPT !.unit = u] ELSE Garbage
Decrypted(b, u) == IF b.unit = u THEN [b EXCEPT !.unit = Clear] ELSE Garbage

Indices(r) == 0 .. r.length - 1
Unit(r, k) == r.offset + k + UnitOffset
\* the mutant: the rest of a fragment behind the encrypted area is remapped too
MutantPlace(r, k) ==
  r.offset + k + IF \E e \in r.encrypted : k >= e THEN RemappedAreaOffset ELSE 0
Place(r, k) == r.offset + k + IF k \in r.encrypted THEN RemappedAreaOffset ELSE 0

\* Volumes are encrypted as a whole; where the area of a hidden system lies for
\* its users there is the decoy system, which is not theirs.
InitialDevice ==
  LET Remapped(p) == RemappedAreaOffset > 0 /\ p - RemappedAreaOffset \in EncryptedArea
      Foreign(p) == p < DataOffset \/
                    (RemappedAreaOffset > 0 /\ (p \in EncryptedArea \/ p >= DeviceLength))
  IN [p \in Device |->
        IF Remapped(p) THEN Encrypted(Plain(NoIrp, p - RemappedAreaOffset),
                                      p - RemappedAreaOffset + UnitOffset)
        ELSE IF Foreign(p) THEN Garbage
        ELSE IF p \in EncryptedArea THEN Encrypted(Plain(NoIrp, p - DataOffset), p + UnitOffset)
        ELSE Plain(NoIrp, p - DataOffset)]

Init ==
  /\ area \in AreaLengths /\ device = InitialDevice
  /\ irp = [i \in Irp |-> NewIrp]
  /\ item = [x \in Item |-> [irp |-> NoIrp, success |-> TRUE]]
  /\ requestsInUse = 0 /\ poolFree = FALSE
  /\ queue = [t \in Thread |-> <<>>] /\ notEmpty = [t \in Thread |-> FALSE]
  /\ pc = [t \in Thread |-> "wait"] /\ job = [t \in Thread |-> NoJob]
  /\ fragment = [b \in Buffer |-> NoData] /\ bufferFree = [b \in Buffer |-> TRUE]
  /\ activeBuffer = "A" /\ pending = 0 /\ outstanding = 0
  /\ cache = [valid |-> FALSE, offset |-> 0, data |-> NoData]
  /\ lastRead = [offset |-> 0, length |-> 0]
  /\ suspended = FALSE /\ suspendPending = FALSE /\ stopPending = FALSE /\ threadExit = FALSE
  /\ noOutstanding = FALSE /\ resumed = FALSE /\ owner = "idle"
  /\ triggered = FALSE /\ latest = [p \in 0 .. DeviceLength - 1 |-> NoIrp]

-----------------------------------------------------------------------------
(* The dispatch routine of the device: EncryptedIoQueueAddIrp.             *)

Submit(i) ==
  /\ irp[i].phase = "new"
  /\ \E r \in Request : irp' = [irp EXCEPT ![i].phase = "adding", ![i].request = r]
  /\ outstanding' = outstanding + 1
  /\ UNCHANGED <<disk, pool, queues, pc, job, buffers, ahead, control, noOutstanding,
                 triggered, latest>>

AddIrp(i) ==
  /\ irp[i].phase = "adding" /\ ~stopPending
  /\ irp' = [irp EXCEPT ![i].phase = "queued"]
  /\ queue' = [queue EXCEPT !["main"] = Append(@, i)]
  /\ notEmpty' = [notEmpty EXCEPT !["main"] = TRUE]
  /\ UNCHANGED <<disk, pool, pending, pc, job, buffers, ahead, control, idle, triggered, latest>>

\* stopPending stays TRUE, so that reading it again and setting the event
\* need no step of their own.
RejectIrp(i) ==
  /\ irp[i].phase = "adding" /\ stopPending
  /\ irp' = [irp EXCEPT ![i].phase = "done", ![i].status = "rejected"]
  /\ outstanding' = outstanding - 1
  /\ noOutstanding' = (noOutstanding \/ outstanding = 1)
  /\ UNCHANGED <<disk, pool, queues, pc, job, buffers, ahead, control, triggered, latest>>

CancelIrp(i) ==
  /\ MayCancel /\ irp[i].phase = "queued" /\ ~irp[i].cancel
  /\ irp' = [irp EXCEPT ![i].cancel = TRUE]
  /\ UNCHANGED <<disk, pool, queues, pc, job, buffers, ahead, control, idle, triggered, latest>>

-----------------------------------------------------------------------------
(* What the threads have in common.                                        *)

Goto(t, label) == pc' = [pc EXCEPT ![t] = label]

\* Outer loop: the event is waited for; ThreadExitRequested is looked at.
Wait(t) ==
  /\ pc[t] = "wait" /\ notEmpty[t]
  /\ notEmpty' = [notEmpty EXCEPT ![t] = FALSE]
  /\ Goto(t, IF threadExit /\ t # "main" THEN "stopped" ELSE "dequeue")
  /\ UNCHANGED <<disk, irp, pool, queue, pending, job, buffers, ahead, control, idle,
                 triggered, latest>>

QueueEmpty(t) ==
  /\ pc[t] = "dequeue" /\ queue[t] = <<>>
  /\ Goto(t, IF threadExit THEN "stopped" ELSE "wait")
  /\ UNCHANGED <<disk, irp, pool, queues, job, buffers, ahead, control, idle, triggered, latest>>

\* CompleteOriginalIrp: the IRP is completed first ...
Completed(i, status, data) ==
  [irp EXCEPT ![i].phase = "done", ![i].status = status, ![i].data = data]

\* ... then OnItemCompleted counts, sets the event and releases the item.
Decrement(t) ==
  /\ pc[t] = "decrement"
  /\ outstanding' = outstanding - 1
  /\ Goto(t, IF outstanding = 1 THEN "signal" ELSE "release")
  /\ UNCHANGED <<disk, irp, pool, queues, job, buffers, ahead, control, noOutstanding,
                 triggered, latest>>

\* the mutants: only one of the two that may wait is thought of
MutantStopAwaited == stopPending
MutantSuspendAwaited == suspendPending
IdleAwaited == suspendPending \/ stopPending

SignalNoOutstanding(t) ==
  /\ pc[t] = "signal"
  /\ noOutstanding' = (noOutstanding \/ IdleAwaited)
  /\ Goto(t, "release")
  /\ UNCHANGED <<disk, irp, pool, queues, job, buffers, ahead, control, outstanding,
                 triggered, latest>>

\* The item of a completed IRP and the request go back to the pool; there is
\* neither after a read-ahead, and the main thread completes without a request.
\* the mutants: a request is released after a read-ahead as well; the main
\* thread is only woken up for the item
MutantPoolFreed(t) == job[t].last
PoolFreed(t) == job[t] # NoJob
RequestsReleased(t) == IF t = "main" \/ job[t] = NoJob THEN 0 ELSE 1

Release(t) ==
  /\ pc[t] = "release" /\ Goto(t, "dequeue")
  /\ job' = [job EXCEPT ![t] = NoJob]
  /\ IF job[t].last THEN item' = [item EXCEPT ![job[t].item].irp = NoIrp] ELSE UNCHANGED item
  /\ requestsInUse' = requestsInUse - RequestsReleased(t)
  /\ poolFree' = (poolFree \/ PoolFreed(t))
  /\ UNCHANGED <<disk, irp, queues, buffers, ahead, control, idle, triggered, latest>>

-----------------------------------------------------------------------------
(* Main thread.                                                            *)

\* The IRP that was dequeued is kept at the head until it has an item.
TakeIrp ==
  /\ pc["main"] = "dequeue" /\ queue["main"] # <<>>
  /\ Goto("main", IF suspended THEN "suspended" ELSE "item")
  /\ UNCHANGED <<disk, irp, pool, queues, job, buffers, ahead, control, idle, triggered, latest>>

AwaitResume ==
  /\ pc["main"] = "suspended" /\ resumed
  /\ resumed' = FALSE /\ Goto("main", "item")
  /\ UNCHANGED <<disk, irp, pool, queues, job, buffers, ahead, suspended, suspendPending,
                 stopPending, threadExit, owner, idle, triggered, latest>>

\* GetPoolBuffer finds no free buffer of this size and waits for any to be freed.
FreeItem == {x \in Item : item[x].irp = NoIrp}
AwaitPool ==
  /\ \/ /\ pc["main"] = "item" /\ FreeItem = {} /\ Goto("main", "no item")
        /\ UNCHANGED poolFree
     \/ /\ pc["main"] = "request" /\ requestsInUse = RequestCount /\ Goto("main", "no request")
        /\ UNCHANGED poolFree
     \/ /\ pc["main"] \in {"no item", "no request"} /\ poolFree /\ poolFree' = FALSE
        /\ Goto("main", IF pc["main"] = "no item" THEN "item" ELSE "request")
  /\ UNCHANGED <<disk, irp, item, requestsInUse, queues, job, buffers, ahead, control, idle,
                 triggered, latest>>

\* the mutant: the last block of the second region is left out
MutantRegionsOverlap(start1, end1, start2, end2) ==
  IF start1 < start2 THEN end1 >= start2 ELSE start1 < end2
RegionsOverlap(start1, end1, start2, end2) ==
  IF start1 < start2 THEN end1 >= start2 ELSE start1 <= end2

Overlaps(r) == /\ ProtectedStart <= ProtectedEnd
               /\ RegionsOverlap(r.offset + DataOffset, r.offset + DataOffset + r.length - 1,
                                 ProtectedStart, ProtectedEnd)
Invalid(r) == ~IsFilterDevice /\ (r.op = "misaligned" \/ r.offset + r.length > DeviceLength)
WriteDenied(r) == r.op = "write" /\ (triggered \/ Overlaps(r))

\* A misaligned read of the system drive is done here: the blocks it touches
\* are read, and those of the encrypted area decrypted with the unit of their
\* address.
MisalignedData(r) ==
  [k \in 0 .. r.length |->
     LET p == r.offset + k IN IF p \in EncryptedArea THEN Decrypted(device[p], p) ELSE device[p]]

\* The item is taken, the IRP is classified, and what needs no fragments is
\* completed at once.
Dispatch ==
  LET i == Head(queue["main"])
      r == irp[i].request
      x == CHOOSE y \in FreeItem : TRUE
      Finish(status, data) ==
        /\ irp' = Completed(i, status, data) /\ Goto("main", "decrement")
        /\ item' = [item EXCEPT ![x] = [irp |-> i, success |-> status = "success"]]
        /\ UNCHANGED <<pending, latest>>
      Accept ==
        /\ item' = [item EXCEPT ![x] = [irp |-> i, success |-> TRUE]]
        /\ irp' = [irp EXCEPT ![i].phase = "active", ![i].expected =
                     IF r.op = "read" THEN [k \in Indices(r) |-> latest[r.offset + k]] ELSE NoData]
        /\ latest' = IF r.op # "write" THEN latest
                     ELSE [p \in DOMAIN latest |-> IF p - r.offset \in Indices(r)
                                                   THEN i ELSE latest[p]]
        /\ pending' = pending + 1 /\ Goto("main", "request")
  IN
  /\ pc["main"] = "item" /\ FreeItem # {}
  /\ queue' = [queue EXCEPT !["main"] = Tail(@)]
  /\ job' = [job EXCEPT !["main"] =
       [NoJob EXCEPT !.item = x, !.last = TRUE, !.offset = r.offset + DataOffset,
                     !.length = r.length]]
  /\ IF irp[i].cancel THEN Finish("cancelled", NoData)
     ELSE IF r.op = "misaligned" /\ IsFilterDevice
       THEN \/ Finish("success", MisalignedData(r))
            \/ MayFail /\ Finish("error", NoData)
     ELSE IF Invalid(r) \/ WriteDenied(r) THEN Finish("invalid", NoData)
     ELSE Accept \/ (MayFail /\ Finish("error", NoData))
  /\ triggered' = (triggered \/ (~IsFilterDevice /\ ~irp[i].cancel /\ ~Invalid(r) /\ WriteDenied(r)))
  /\ UNCHANGED <<disk, requestsInUse, poolFree, notEmpty, buffers, ahead, control, idle>>

\* A request for the next fragment: the encrypted area is read here.  The job
\* of the main thread is what is left of the IRP, from block "from" of its data.
TakeRequest ==
  /\ pc["main"] = "request" /\ requestsInUse < RequestCount
  /\ requestsInUse' = requestsInUse + 1
  /\ activeBuffer' = IF activeBuffer = "A" THEN "B" ELSE "A"
  /\ job' = [job EXCEPT !["main"].buffer = activeBuffer', !["main"].encrypted =
               {k \in 0 .. MaxFragment - 1 : job["main"].offset + k \in EncryptedArea}]
  /\ Goto("main", "buffer")
  /\ UNCHANGED <<disk, irp, item, poolFree, queues, fragment, bufferFree, ahead, control, idle,
                 triggered, latest>>

FragmentOf(j) ==
  LET length == IF j.length <= MaxFragment THEN j.length ELSE MaxFragment
  IN [j EXCEPT !.length = length, !.last = (j.length <= MaxFragment),
               !.encrypted = @ \cap (0 .. length - 1)]

BufferReady(b) == bufferFree[b]

QueueFragment ==
  LET j == job["main"]
      f == FragmentOf(j)
      i == item[j.item].irp
      Cleartext(k) == Plain(i, f.offset + k - DataOffset)
  IN
  /\ pc["main"] = "buffer" /\ BufferReady(f.buffer)
  /\ bufferFree' = [bufferFree EXCEPT ![f.buffer] = FALSE]
  /\ fragment' = IF irp[i].request.op # "write" THEN fragment
       ELSE [fragment EXCEPT ![f.buffer] = [k \in Indices(f) |->
              IF k \in f.encrypted THEN Encrypted(Cleartext(k), Unit(f, k)) ELSE Cleartext(k)]]
  /\ queue' = [queue EXCEPT !["io"] = Append(@, f)]
  /\ notEmpty' = [notEmpty EXCEPT !["io"] = TRUE]
  /\ IF f.last
       THEN Goto("main", "dequeue") /\ job' = [job EXCEPT !["main"] = NoJob] /\ UNCHANGED pending
       ELSE /\ Goto("main", "request") /\ pending' = pending + 1
            /\ job' = [job EXCEPT !["main"] =
                 [j EXCEPT !.offset = @ + MaxFragment, !.from = @ + MaxFragment,
                           !.length = @ - MaxFragment, !.encrypted = {}]]
  /\ UNCHANGED <<disk, irp, pool, activeBuffer, ahead, control, idle, triggered, latest>>

-----------------------------------------------------------------------------
(* I/O thread.                                                             *)

TakeFragment ==
  /\ pc["io"] = "dequeue" /\ queue["io"] # <<>>
  /\ job' = [job EXCEPT !["io"] = Head(queue["io"])]
  /\ queue' = [queue EXCEPT !["io"] = Tail(@)]
  /\ pending' = pending - 1
  /\ LET x == item[Head(queue["io"]).item]
         write == irp[x.irp].request.op = "write"
     IN Goto("io", IF x.success THEN IF write THEN "write" ELSE "read"
                                ELSE IF write THEN "write done" ELSE "read done")
  /\ UNCHANGED <<disk, irp, pool, notEmpty, buffers, ahead, control, idle, triggered, latest>>

\* The pieces of a fragment that are contiguous on the device, in order
Pieces(r) ==
  LET before == {k \in Indices(r) : \A e \in r.encrypted : k < e}
      after == {k \in Indices(r) : \A e \in r.encrypted : k > e}
  IN IF RemappedAreaOffset = 0 \/ r.encrypted \in {{}, Indices(r)} THEN <<Indices(r)>>
     ELSE IF before = {} THEN <<r.encrypted, after>>
     ELSE IF after = {} THEN <<before, r.encrypted>> ELSE <<before, r.encrypted, after>>
First(s) == CHOOSE k \in s : \A l \in s : k <= l

\* Each piece that fails sets the status, and each that succeeds sets it again.
\* the mutant: the status of the device is not looked at
MutantStatusOf(pieces, failed) == TRUE
StatusOf(pieces, failed) == Len(pieces) \notin failed

Failures(pieces) == IF MayFail THEN SUBSET DOMAIN pieces ELSE {{}}
In(pieces, set) == UNION {pieces[n] : n \in set}

WriteDevice ==
  LET r == job["io"]  pieces == Pieces(r) IN
  /\ pc["io"] = "write"
  /\ \E failed \in Failures(pieces) : \E part \in SUBSET In(pieces, failed) :
       LET done == In(pieces, DOMAIN pieces \ failed) \cup part
       IN /\ device' = [p \in Device |->
               IF \E k \in done : Place(r, k) = p
                 THEN fragment[r.buffer][CHOOSE k \in done : Place(r, k) = p] ELSE device[p]]
          /\ item' = [item EXCEPT ![r.item].success = StatusOf(pieces, failed)]
  /\ Goto("io", "write done")
  /\ UNCHANGED <<area, irp, requestsInUse, poolFree, queues, job, buffers, ahead, control, idle,
                 triggered, latest>>

\* the mutant: a write leaves the read-ahead buffer valid
MutantInvalidated(c) == c
Invalidated(c) == [valid |-> FALSE, offset |-> 0, data |-> NoData]

\* After a write the buffer is released and the last fragment completes the IRP.
WriteDone ==
  LET r == job["io"]  i == item[r.item].irp IN
  /\ pc["io"] = "write done"
  /\ cache' = Invalidated(cache)
  /\ bufferFree' = [bufferFree EXCEPT ![r.buffer] = TRUE]
  /\ fragment' = [fragment EXCEPT ![r.buffer] = NoData]
  /\ IF r.last
       THEN /\ Goto("io", "decrement")
            /\ irp' = Completed(i, IF item[r.item].success THEN "success" ELSE "error", NoData)
       ELSE Goto("io", "release") /\ UNCHANGED irp
  /\ UNCHANGED <<disk, pool, queues, job, activeBuffer, lastRead, control, idle, triggered, latest>>

\* TCCachedRead of the first k of a piece
CacheHit(r, piece) == /\ cache.valid /\ cache.offset = Place(r, First(piece))
                      /\ Cardinality(DOMAIN cache.data) >= Cardinality(piece)
ReadBlock(r, piece, k) == IF CacheHit(r, piece) THEN cache.data[k - First(piece)]
                                                ELSE device[Place(r, k)]

ReadDevice ==
  LET r == job["io"]
      pieces == Pieces(r)
      final == pieces[Len(pieces)]
      Missed == {n \in DOMAIN pieces : ~CacheHit(r, pieces[n])}
  IN
  /\ pc["io"] = "read"
  /\ \E failed \in Failures(pieces) :
       /\ failed \subseteq Missed
       /\ fragment' = [fragment EXCEPT ![r.buffer] = [k \in Indices(r) |->
            LET n == CHOOSE m \in DOMAIN pieces : k \in pieces[m]
            IN IF n \in failed THEN Garbage ELSE ReadBlock(r, pieces[n], k)]]
       /\ item' = [item EXCEPT ![r.item].success = StatusOf(pieces, failed)]
  /\ lastRead' = [offset |-> Place(r, First(final)), length |-> Cardinality(final)]
  /\ Goto("io", "read done")
  /\ UNCHANGED <<disk, irp, requestsInUse, poolFree, queues, job, bufferFree, activeBuffer,
                 cache, control, idle, triggered, latest>>

\* The data go to the buffer of the IRP, where the completion thread decrypts
\* them; the last fragment may be followed by a read-ahead.
ReadDone ==
  LET r == job["io"]
      i == item[r.item].irp
      readAhead == r.last /\ lastRead.length > 0 /\ item[r.item].success /\ pending = 0
      Copied == [k \in DOMAIN irp[i].data \cup {r.from + l : l \in Indices(r)} |->
                   IF k - r.from \in Indices(r) THEN fragment[r.buffer][k - r.from]
                                                ELSE irp[i].data[k]]
  IN
  /\ pc["io"] = "read done"
  /\ irp' = IF item[r.item].success THEN [irp EXCEPT ![i].data = Copied] ELSE irp
  /\ bufferFree' = [bufferFree EXCEPT ![r.buffer] = TRUE]
  /\ fragment' = [fragment EXCEPT ![r.buffer] = NoData]
  /\ outstanding' = outstanding + IF readAhead THEN 1 ELSE 0
  /\ queue' = [queue EXCEPT !["completion"] = Append(@, r)]
  /\ notEmpty' = [notEmpty EXCEPT !["completion"] = TRUE]
  /\ job' = [job EXCEPT !["io"] = NoJob]
  /\ Goto("io", IF readAhead THEN "read ahead" ELSE "dequeue")
  /\ UNCHANGED <<disk, pool, pending, activeBuffer, ahead, control, noOutstanding, triggered, latest>>

ReadAhead ==
  LET start == lastRead.offset + lastRead.length IN
  /\ pc["io"] = "read ahead"
  /\ \/ /\ start + lastRead.length - 1 \in Device
        /\ cache' = [valid |-> TRUE, offset |-> start,
                     data |-> [k \in 0 .. lastRead.length - 1 |-> device[start + k]]]
     \/ /\ MayFail \/ start + lastRead.length - 1 \notin Device
        /\ cache' = Invalidated([cache EXCEPT !.valid = FALSE])
  /\ Goto("io", "decrement")
  /\ UNCHANGED <<disk, irp, pool, queues, job, buffers, lastRead, control, idle, triggered, latest>>

-----------------------------------------------------------------------------
(* Completion thread.                                                      *)

TakeCompletion ==
  /\ pc["completion"] = "dequeue" /\ queue["completion"] # <<>>
  /\ job' = [job EXCEPT !["completion"] = Head(queue["completion"])]
  /\ queue' = [queue EXCEPT !["completion"] = Tail(@)]
  /\ Goto("completion", "decrypt")
  /\ UNCHANGED <<disk, irp, pool, notEmpty, pending, buffers, ahead, control, idle,
                 triggered, latest>>

\* The fragment is decrypted, unless the item has failed by now.
CompleteRead ==
  LET r == job["completion"]
      i == item[r.item].irp
      ok == item[r.item].success
      Decoded == [k \in DOMAIN irp[i].data |->
                    IF ok /\ k - r.from \in r.encrypted
                      THEN Decrypted(irp[i].data[k], Unit(r, k - r.from)) ELSE irp[i].data[k]]
  IN
  /\ pc["completion"] = "decrypt"
  /\ IF r.last
       THEN /\ irp' = IF ok THEN Completed(i, "success", Decoded) ELSE Completed(i, "error", NoData)
            /\ Goto("completion", "decrement")
       ELSE irp' = [irp EXCEPT ![i].data = Decoded] /\ Goto("completion", "release")
  /\ UNCHANGED <<disk, pool, queues, job, buffers, ahead, control, idle, triggered, latest>>

-----------------------------------------------------------------------------
(* EncryptedIoQueueHoldWhenIdle and ResumeFromHold, called by the setup    *)
(* thread of the system drive.                                             *)

ownerUnchanged == <<disk, irp, pool, queues, pc, job, buffers, lastRead, triggered, latest>>
Go(label) == owner' = label

BeginHold ==
  /\ IsFilterDevice /\ MayControl /\ owner = "idle"
  /\ suspendPending' = TRUE /\ Go("check")
  /\ UNCHANGED <<ownerUnchanged, cache, suspended, stopPending, threadExit, resumed, idle>>

CheckIdle ==
  /\ owner = "check" /\ Go(IF outstanding > 0 THEN "wait idle" ELSE "suspend")
  /\ UNCHANGED <<ownerUnchanged, cache, suspended, suspendPending, stopPending, threadExit,
                 resumed, idle>>

AwaitIdle ==
  /\ owner = "wait idle" /\ noOutstanding
  /\ noOutstanding' = FALSE /\ Go("recheck")
  /\ UNCHANGED <<ownerUnchanged, cache, suspended, suspendPending, stopPending, threadExit,
                 resumed, outstanding>>

HoldFails ==
  /\ owner = "wait idle" \/ (owner = "recheck" /\ outstanding > 0)
  /\ suspendPending' = FALSE /\ Go("idle")
  /\ UNCHANGED <<ownerUnchanged, cache, suspended, stopPending, threadExit, resumed, idle>>

Recheck ==
  /\ owner = "recheck" /\ outstanding = 0 /\ Go("check")
  /\ UNCHANGED <<ownerUnchanged, cache, suspended, suspendPending, stopPending, threadExit,
                 resumed, idle>>

Suspend ==
  /\ owner = "suspend" /\ Go("confirm")
  /\ resumed' = FALSE /\ suspended' = TRUE
  /\ UNCHANGED <<ownerUnchanged, cache, suspendPending, stopPending, threadExit, idle>>

\* the mutant: the count is not read again after Suspended was set
MutantStillIdle == TRUE
StillIdle == outstanding = 0

ConfirmIdle ==
  /\ owner = "confirm"
  /\ IF StillIdle
       THEN /\ cache' = Invalidated(cache) /\ suspendPending' = FALSE /\ Go("held")
            /\ UNCHANGED <<suspended, resumed>>
       ELSE /\ suspended' = FALSE /\ resumed' = TRUE /\ Go("check")
            /\ UNCHANGED <<cache, suspendPending>>
  /\ UNCHANGED <<ownerUnchanged, stopPending, threadExit, idle>>

\* What the setup thread does while it holds the queue: the block behind the
\* encrypted area is encrypted, or its last one decrypted ...
Convert ==
  /\ owner = "held" /\ RemappedAreaOffset = 0
  /\ LET next == AreaStart + area IN
     \/ /\ next < DeviceLength /\ Go("encrypted")
        /\ device' = [device EXCEPT ![next] = Encrypted(@, next + UnitOffset)]
     \/ /\ area > 0 /\ Go("decrypted")
        /\ device' = [device EXCEPT ![next - 1] = Decrypted(@, next - 1 + UnitOffset)]
  /\ UNCHANGED <<area, irp, pool, queues, pc, job, buffers, ahead, suspended, suspendPending,
                 stopPending, threadExit, resumed, idle, triggered, latest>>

\* ... and then EncryptedAreaEnd follows.
MoveArea ==
  /\ owner \in {"encrypted", "decrypted"} /\ Go("converted")
  /\ area' = IF owner = "encrypted" THEN area + 1 ELSE area - 1
  /\ UNCHANGED <<device, irp, pool, queues, pc, job, buffers, ahead, suspended, suspendPending,
                 stopPending, threadExit, resumed, idle, triggered, latest>>

ResumeFromHold ==
  /\ owner \in {"held", "converted"} /\ Go("idle")
  /\ suspended' = FALSE /\ resumed' = TRUE
  /\ UNCHANGED <<ownerUnchanged, cache, suspendPending, stopPending, threadExit, idle>>

-----------------------------------------------------------------------------
(* EncryptedIoQueueStop, called by the thread of the volume.               *)

BeginStop ==
  /\ ~IsFilterDevice /\ MayControl /\ owner = "idle"
  /\ stopPending' = TRUE /\ Go("stopping")
  /\ UNCHANGED <<ownerUnchanged, cache, suspended, suspendPending, threadExit, resumed, idle>>

\* the mutant: Stop waits for the I/O thread only
MutantStopReady == pending = 0
StopReady == outstanding = 0

\* TCStopThread wakes a thread and waits for its end, one after the other.
StopQueue ==
  /\ \/ /\ owner = "stopping" /\ ~StopReady /\ Go("wait stop")
        /\ UNCHANGED <<threadExit, notEmpty, noOutstanding>>
     \/ /\ owner = "wait stop" /\ noOutstanding /\ noOutstanding' = FALSE /\ Go("stopping")
        /\ UNCHANGED <<threadExit, notEmpty>>
     \/ /\ owner = "stopping" /\ StopReady /\ Go("main")
        /\ threadExit' = TRUE /\ notEmpty' = [notEmpty EXCEPT !["main"] = TRUE]
        /\ UNCHANGED noOutstanding
     \/ /\ owner = "main" /\ pc[owner] = "stopped" /\ Go("io")
        /\ notEmpty' = [notEmpty EXCEPT !["io"] = TRUE]
        /\ UNCHANGED <<threadExit, noOutstanding>>
     \/ /\ owner = "io" /\ pc[owner] = "stopped" /\ Go("completion")
        /\ notEmpty' = [notEmpty EXCEPT !["completion"] = TRUE]
        /\ UNCHANGED <<threadExit, noOutstanding>>
     \/ /\ owner = "completion" /\ pc[owner] = "stopped" /\ Go("stopped")
        /\ UNCHANGED <<threadExit, notEmpty, noOutstanding>>
  /\ UNCHANGED <<disk, irp, pool, queue, pending, pc, job, buffers, ahead, suspended,
                 suspendPending, stopPending, resumed, outstanding, triggered, latest>>

-----------------------------------------------------------------------------
Finishing(t) == Decrement(t) \/ SignalNoOutstanding(t) \/ Release(t)
MainThread == \/ Wait("main") \/ QueueEmpty("main") \/ Finishing("main") \/ TakeIrp
              \/ AwaitResume \/ AwaitPool \/ Dispatch \/ TakeRequest \/ QueueFragment
IoThread == \/ Wait("io") \/ QueueEmpty("io") \/ Finishing("io") \/ TakeFragment
            \/ WriteDevice \/ WriteDone \/ ReadDevice \/ ReadDone \/ ReadAhead
CompletionThread == \/ Wait("completion") \/ QueueEmpty("completion") \/ Finishing("completion")
                    \/ TakeCompletion \/ CompleteRead
Holding == \/ CheckIdle \/ AwaitIdle \/ Recheck \/ (owner = "recheck" /\ HoldFails)
           \/ Suspend \/ ConfirmIdle \/ MoveArea \/ ResumeFromHold
Owner == BeginHold \/ Holding \/ HoldFails \/ Convert \/ BeginStop \/ StopQueue
Client(i) == Submit(i) \/ AddIrp(i) \/ RejectIrp(i) \/ CancelIrp(i)

Next == (\E i \in Irp : Client(i)) \/ MainThread \/ IoThread \/ CompletionThread \/ Owner
Spec == Init /\ [][Next]_vars

\* Threads are scheduled; the thread that holds or stops the queue goes on; its
\* waiting is not cut short by a timeout (the last Hold of a decryption has none).
Fairness ==
  /\ WF_vars(MainThread) /\ WF_vars(IoThread) /\ WF_vars(CompletionThread)
  /\ WF_vars(Holding) /\ WF_vars(StopQueue)
  /\ \A i \in Irp : WF_vars(AddIrp(i) \/ RejectIrp(i))
FairSpec == Spec /\ Fairness

-----------------------------------------------------------------------------
(* Properties.                                                             *)

Blocks == [unit : Int, by : Irp \cup {NoIrp}, at : Clear .. DeviceLength - 1]

\* Every variable has the values of its declaration; the counters stay within
\* what can be outstanding, and no more requests are in use than there are.
TypeOK ==
  /\ \A p \in Device : device[p] \in Blocks
  /\ area \in 0 .. DeviceLength - AreaStart /\ requestsInUse \in 0 .. RequestCount
  /\ pending \in 0 .. RequestCount + 1 /\ outstanding \in 0 .. Cardinality(Irp) + 1
  /\ \A i \in Irp : /\ irp[i].phase \in {"new", "adding", "queued", "active", "done"}
                    /\ irp[i].status \in {"none", "success", "error", "cancelled", "invalid",
                                          "rejected"}
                    /\ irp[i].cancel \in BOOLEAN
  /\ \A x \in Item : item[x].irp \in Irp \cup {NoIrp} /\ item[x].success \in BOOLEAN
  /\ \A t \in Thread : job[t].item \in Item \cup {NoItem} /\ notEmpty[t] \in BOOLEAN
  /\ {suspended, suspendPending, stopPending, threadExit, noOutstanding, resumed, poolFree,
      triggered} \subseteq BOOLEAN
  /\ activeBuffer \in Buffer /\ \A p \in DOMAIN latest : latest[p] \in Irp \cup {NoIrp}

\* The device behaves like one that is not encrypted and serves the IRPs in
\* their order: a read that is completed with success returns, block by block,
\* the data of the last write that was dispatched before it, whatever is in the
\* read-ahead buffer, in the fragment buffers or on its way, and wherever the
\* encrypted area ended then and ends now.  Where that write failed the data are
\* those of some write to that block.  A misaligned read, which overtakes what
\* is queued, returns data of that block too.
ReadSeesWrites ==
  \A i \in Irp :
    LET r == irp[i].request IN
    irp[i].status = "success" /\ r.op # "write" =>
      \A k \in DOMAIN irp[i].data :
        /\ irp[i].data[k].unit = Clear /\ irp[i].data[k].at = r.offset + k
        /\ r.op = "read" => LET e == irp[i].expected[k]
                            IN \/ irp[i].data[k].by = e
                               \/ e # NoIrp /\ irp[e].status = "error"

\* A write that was reported successful is on the device until a later write
\* or a failed one replaces it: once nothing is in flight, what a user would
\* read from the device is what was last written there.
WritesReachDevice ==
  outstanding = 0 /\ owner \notin {"encrypted", "decrypted"} =>
    \A p \in 0 .. DeviceLength - 1 :
      LET e == latest[p]
          inArea == p + DataOffset \in EncryptedArea
          q == p + DataOffset + IF inArea THEN RemappedAreaOffset ELSE 0
          b == IF inArea THEN Decrypted(device[q], p + DataOffset + UnitOffset) ELSE device[q]
      IN e = NoIrp \/ irp[e].status = "error" \/ b = Plain(e, p)

\* Between a successful Hold and the Resume no IRP is in the hands of the
\* threads and none of them touches the device (DriveFilter.c:1270-1392).
HoldExcludesIo ==
  owner \in {"held", "encrypted", "decrypted", "converted"} =>
    /\ \A i \in Irp : irp[i].phase # "active"
    /\ pc["main"] \notin {"item", "request", "buffer", "no item", "no request"}
    /\ pc["io"] \in {"wait", "dequeue", "release", "signal"}
    /\ pc["completion"] \in {"wait", "dequeue", "release", "signal"}

\* No block of the protected region is ever written (EncryptedIoQueue.c:634).
ProtectedIntact ==
  \A p \in ProtectedStart .. ProtectedEnd : device[p] = InitialDevice[p]

\* When Stop returns, every IRP that was accepted has been completed and no
\* pool buffer is in use (the assertion of FreePoolBuffers, line 130).
StoppedIsEmpty ==
  owner = "stopped" =>
    /\ \A i \in Irp : irp[i].phase \in {"new", "adding", "done"}
    /\ requestsInUse = 0 /\ FreeItem = Item /\ \A b \in Buffer : bufferFree[b]

\* Every IRP that was queued is completed, across holds, full pools and the
\* auto-reset events of five threads.
QueuedIrpCompletes == \A i \in Irp : irp[i].phase = "queued" ~> irp[i].phase = "done"

\* A Hold returns, with success or not, without the help of its timeout: the
\* event that it waits for is not lost.
HoldReturns ==
  owner \in {"check", "wait idle", "recheck", "suspend", "confirm"} ~> owner \in {"idle", "held"}

\* Stop returns: all threads end.
StopReturns == owner = "stopping" ~> owner = "stopped"
=============================================================================
