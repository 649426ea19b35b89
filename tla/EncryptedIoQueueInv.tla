------------------------ MODULE EncryptedIoQueueInv ------------------------
(***************************************************************************)
(* The invariants of EncryptedIoQueue that the proofs need, in named       *)
(* parts, and what a step does to them as its lemmas say it.               *)
(***************************************************************************)
EXTENDS EncryptedIoQueue

-----------------------------------------------------------------------------
(* Types.                                                                  *)

Job ==
  [item : Item \union {NoItem}, last : BOOLEAN, offset : Nat, length : Nat, from : Nat,
   encrypted : SUBSET Nat, buffer : Buffer]

Phase == {"new", "adding", "queued", "active", "done"}

\* Where each thread can be; what all of them have in common is first.
Common == {"wait", "dequeue", "stopped", "decrement", "signal", "release"}
MainLabel == Common \union {"item", "suspended", "no item", "request", "no request", "buffer"}
IoLabel == Common \union {"write", "read", "write done", "read done", "read ahead"}
CompletionLabel == Common \union {"decrypt"}
LabelOf(t) == IF t = "main" THEN MainLabel ELSE IF t = "io" THEN IoLabel ELSE CompletionLabel
AnyLabel == MainLabel \union IoLabel \union CompletionLabel

\* Where a thread has a request in its hands that is to be done, and one that was
\* done and is given back; elsewhere it has none.
LiveLabel ==
  {"request", "no request", "buffer", "write", "read", "write done", "read done", "decrypt"}
ReleasingLabel == {"decrement", "signal", "release"}
Live(t) == pc[t] \in LiveLabel
Releasing(t) == pc[t] \in ReleasingLabel

IsIrp(r) == r = [phase |-> r.phase, request |-> r.request, cancel |-> r.cancel, status |-> r.status,
                 data |-> r.data, expected |-> r.expected]

IrpType ==
  /\ DOMAIN irp = Irp
  /\ \A i \in Irp : /\ IsIrp(irp[i]) /\ irp[i].phase \in Phase
                    /\ irp[i].phase # "new" => irp[i].request \in Request

QueueType ==
  /\ DOMAIN queue = Thread /\ queue["main"] \in Seq(Irp)
  /\ queue["io"] \in Seq(Job) /\ queue["completion"] \in Seq(Job)

ThreadType ==
  /\ pc \in [Thread -> AnyLabel] /\ \A t \in Thread : pc[t] \in LabelOf(t)
  /\ job \in [Thread -> Job]
  /\ \A t \in Thread : Live(t) \/ Releasing(t) \/ job[t] = NoJob

OwnerType ==
  /\ {suspended, resumed, stopPending} \subseteq BOOLEAN
  /\ owner \in {"idle", "check", "wait idle", "recheck", "suspend", "confirm", "held", "encrypted",
                "decrypted", "converted", "stopping", "wait stop", "main", "io", "completion",
                "stopped"}
  /\ area \in 0 .. DeviceLength - AreaStart
  /\ owner \notin {"idle", "stopping", "wait stop", "main", "io", "completion", "stopped"} =>
       IsFilterDevice
  /\ owner = "encrypted" => AreaStart + area < DeviceLength
  /\ owner = "decrypted" => area > 0

TypeInv ==
  /\ IrpType /\ QueueType /\ ThreadType /\ OwnerType
  /\ item \in [Item -> [irp : Irp \union {NoIrp}, success : BOOLEAN]]
  /\ bufferFree \in [Buffer -> BOOLEAN] /\ activeBuffer \in Buffer
  /\ requestsInUse \in Int /\ outstanding \in Int /\ DOMAIN device = Device

-----------------------------------------------------------------------------
(* Requests in flight.                                                     *)

\* In the hands of a thread, and in a queue.
HandOf(label, j) == IF label \in LiveLabel THEN {j} ELSE {}
Hand(t) == HandOf(pc[t], job[t])
Jobs(q) == {q[n] : n \in DOMAIN q}
Flight == Hand("main") \union Jobs(queue["io"]) \union Hand("io")
            \union Jobs(queue["completion"]) \union Hand("completion")

\* A request in flight is of an IRP that is not completed.
IrpOf(j) == item[j.item].irp
Alive(j) == /\ j.item \in Item /\ j.length > 0
            /\ IrpOf(j) \in Irp /\ irp[IrpOf(j)].phase = "active"
IsWrite(j) == irp[IrpOf(j)].request.op = "write"

FlightInv ==
  /\ \A j \in Flight : Alive(j)
  /\ \A j \in Jobs(queue["completion"]) \union Hand("completion") : ~IsWrite(j)
  /\ pc["io"] \in {"write", "write done"} => IsWrite(job["io"])
  /\ pc["io"] \in {"read", "read done"} => ~IsWrite(job["io"])
  /\ Live("main") => job["main"].last

\* The requests of an IRP are in the order of their data in the queues, and the
\* last one is the last of them.
Apart(j, k) == j.item = k.item => ~j.last /\ j.from + j.length <= k.from
AllApart(S, T) == \A j \in S, k \in T : Apart(j, k)
Ordered(q) == \A m, n \in DOMAIN q : m < n => Apart(q[m], q[n])
InOrder(inCompletion, toComplete, inIo, toIo, inMain) ==
  /\ Ordered(toIo) /\ Ordered(toComplete)
  /\ AllApart(Jobs(toIo), inMain)
  /\ AllApart(inIo, Jobs(toIo) \union inMain)
  /\ AllApart(Jobs(toComplete), inIo \union Jobs(toIo) \union inMain)
  /\ AllApart(inCompletion, Jobs(toComplete) \union inIo \union Jobs(toIo) \union inMain)

OrderInv ==
  InOrder(Hand("completion"), queue["completion"], Hand("io"), queue["io"], Hand("main"))

\* An item is of one IRP, until the thread that completed it gives it back.
ItemInv ==
  /\ \A x, y \in Item : item[x].irp = item[y].irp /\ item[x].irp # NoIrp => x = y
  /\ \A x \in Item : item[x].irp # NoIrp => irp[item[x].irp].phase \in {"active", "done"}
  /\ \A t \in Thread : Releasing(t) /\ job[t].last =>
       /\ job[t].item \in Item /\ IrpOf(job[t]) \in Irp /\ irp[IrpOf(job[t])].phase = "done"
       /\ \A u \in Thread : Releasing(u) /\ job[u].last /\ job[u].item = job[t].item => u = t
  /\ Releasing("main") => job["main"].last

\* The IRPs that wait for the main thread.
WaitingInv ==
  /\ \A n \in DOMAIN queue["main"] : irp[queue["main"][n]].phase = "queued"
  /\ \A m, n \in DOMAIN queue["main"] : queue["main"][m] = queue["main"][n] => m = n
  /\ pc["main"] \in {"item", "no item", "suspended"} => queue["main"] # <<>>

\* What is outstanding: IRPs, a read-ahead, and what was completed and not counted.
Outstanding == {i \in Irp : irp[i].phase \in {"adding", "queued", "active"}}
Weight(label) == IF label \in {"read ahead", "decrement"} THEN 1 ELSE 0
Uncounted == Weight(pc["main"]) + Weight(pc["io"]) + Weight(pc["completion"])
CountInv == IsFiniteSet(Outstanding) /\ outstanding = Cardinality(Outstanding) + Uncounted

Flow == FlightInv /\ OrderInv /\ ItemInv

\* What the main thread has passed on.
Sent == Jobs(queue["io"]) \union Hand("io") \union Jobs(queue["completion"]) \union Hand("completion")

-----------------------------------------------------------------------------
(* The owner of the queue, and what is in use.                             *)

Held == {"held", "encrypted", "decrypted", "converted"}
HoldInv ==
  /\ owner \in Held \union {"confirm"} => suspended /\ ~resumed
  /\ HoldExcludesIo

\* While the threads are stopped nothing is accepted, and nothing is left but to
\* give back what was used.
Stopping == {"main", "io", "completion", "stopped"}
StopInv ==
  /\ threadExit => owner \in Stopping
  /\ \A t \in Thread : pc[t] = "stopped" => threadExit
  /\ owner \in {"stopping", "wait stop"} \union Stopping => stopPending
  /\ owner \in Stopping => \A i \in Irp : irp[i].phase \notin {"queued", "active"}
  /\ owner \in {"io", "completion", "stopped"} => pc["main"] = "stopped"
  /\ owner \in {"completion", "stopped"} => pc["io"] = "stopped"
  /\ owner = "stopped" => pc["completion"] = "stopped"

One(condition) == IF condition THEN 1 ELSE 0
Used == Len(queue["io"]) + Len(queue["completion"]) + One(pc["main"] = "buffer")
          + One(job["io"] # NoJob) + One(job["completion"] # NoJob)
GivenBack(x) == \E t \in Thread : Releasing(t) /\ job[t].last /\ job[t].item = x
UsedInv == requestsInUse = Used
ItemUseInv ==
  \A x \in Item : item[x].irp # NoIrp => irp[item[x].irp].phase = "active" \/ GivenBack(x)
BufferInv ==
  \A b \in Buffer : bufferFree[b] \/ \E j \in Jobs(queue["io"]) \union Hand("io") : j.buffer = b
PoolInv == UsedInv /\ ItemUseInv /\ BufferInv

-----------------------------------------------------------------------------
(* The protected blocks.                                                   *)

\* Where they are: on the device, and on the system drive before the encrypted area,
\* whose end moves.
ProtectedPlace ==
  /\ ProtectedStart .. ProtectedEnd \subseteq Device
  /\ IsFilterDevice => ProtectedEnd < AreaStart

\* A write in flight stays away from them.
Away(j) == \A k \in Indices(j) : j.offset + k \notin ProtectedStart .. ProtectedEnd
WritesAway == \A j \in Flight : IsWrite(j) => Away(j)
AwayInv == WritesAway /\ ProtectedIntact

Inv == TypeInv /\ Flow /\ WaitingInv /\ CountInv /\ HoldInv /\ StopInv /\ PoolInv

-----------------------------------------------------------------------------
(* Blocks and their data.                                                  *)

\* The blocks that are encrypted: the encrypted area, whose end the setup thread has
\* not moved yet when it has converted a block.
Block == 0 .. DeviceLength - 1
StoredLength ==
  area + IF owner = "encrypted" THEN 1 ELSE IF owner = "decrypted" THEN -1 ELSE 0
CryptArea == IF IsFilterDevice THEN AreaStart .. AreaStart + StoredLength - 1 ELSE Device
Inside(p) == p + DataOffset \in CryptArea

\* Where a block of the users is, and what is there when w wrote it.
Spot(p) == p + DataOffset + IF Inside(p) THEN RemappedAreaOffset ELSE 0
Stored(p, w) ==
  IF Inside(p) THEN Encrypted(Plain(w, p), p + DataOffset + UnitOffset) ELSE Plain(w, p)
StoreInv == \A p \in Block : device[Spot(p)] = Stored(p, device[Spot(p)].by)

\* The read-ahead buffer holds what is on the device.
CacheInv ==
  /\ lastRead.offset \in Nat /\ lastRead.length \in Nat
  /\ owner \in Held => ~cache.valid
  /\ cache.valid => cache.offset \in Nat /\ \E n \in Nat : DOMAIN cache.data = 0 .. n - 1
  /\ cache.valid /\ pc["io"] # "write done" =>
       \A k \in DOMAIN cache.data : cache.data[k] = device[cache.offset + k]

\* A request in flight is a part of what its IRP asks for, and its blocks that are
\* encrypted are those of the area.
Covers(j, p) == p + DataOffset - j.offset \in Indices(j)
Span(j) ==
  LET r == irp[IrpOf(j)].request IN
  /\ r.op \in {"read", "write"} /\ r.offset + r.length <= DeviceLength
  /\ j.offset = r.offset + DataOffset + j.from /\ j.from + j.length <= r.length
InArea(j, n) == j.encrypted = {k \in 0 .. n - 1 : j.offset + k \in CryptArea}
SpanInv ==
  /\ \A j \in Flight : Span(j)
  /\ \A j \in Sent : InArea(j, j.length)
  /\ pc["main"] = "buffer" => InArea(job["main"], MaxFragment)

-----------------------------------------------------------------------------
(* The line of the requests for the I/O thread: the one in its hands, in   *)
(* its queue, and what the main thread has left.                           *)

End == Len(queue["io"]) + 1
At(n) == IF n = 0 THEN job["io"] ELSE IF n = End THEN job["main"] ELSE queue["io"][n]
On(n) == \/ n = 0 /\ Live("io")
         \/ n \in 1 .. End - 1
         \/ n = End /\ Live("main")
ToDo(n) == On(n) /\ (n = 0 => pc["io"] \in {"write", "read"})

\* Each has a fragment buffer of its own, with what is to be written.
BufferUse ==
  /\ DOMAIN fragment = Buffer
  /\ \A n \in 0 .. End - 1 : On(n) =>
       /\ ~bufferFree[At(n).buffer]
       /\ \A m \in 0 .. End - 1 : On(m) /\ At(m).buffer = At(n).buffer => m = n
Filled(n) ==
  IsWrite(At(n)) => \A p \in Block : Covers(At(n), p) =>
    fragment[At(n).buffer][p + DataOffset - At(n).offset] = Stored(p, IrpOf(At(n)))
FragmentInv == \A n \in 0 .. End - 1 : ToDo(n) => Filled(n)

SuccessInv == pc["io"] \in {"read", "write"} => item[job["io"].item].success
StatusInv ==
  \A i \in Irp : /\ irp[i].status # "none" => irp[i].phase = "done"
                 /\ irp[i].phase \in {"new", "adding", "queued"} => DOMAIN irp[i].data = {}

\* A write that failed or is about to.
Failed(e) == \E x \in Item : item[x].irp = e /\ ~item[x].success
Bad(e) == e \in Irp /\ (irp[e].status = "error" \/ (irp[e].phase = "active" /\ Failed(e)))
Has(e, p) == device[Spot(p)].by = e \/ Bad(e)
Over(e) == e = NoIrp \/ (e \in Irp /\ irp[e].phase = "done")

\* Who writes block p from position n, and whose last request is there.
Writer(n, p) ==
  IF ToDo(n) /\ IsWrite(At(n)) /\ Covers(At(n), p) THEN IrpOf(At(n)) ELSE NoIrp
Ender(n) == IF On(n) /\ IsWrite(At(n)) /\ At(n).last THEN IrpOf(At(n)) ELSE NoIrp

\* Position n comes after the write e: the last before it is by e, or there is none and
\* the device has it; and all of e is before it or done.
Sees(W, e, n, has) ==
  \/ e # NoIrp /\ \E m \in 0 .. n - 1 : W[m] = e /\ \A l \in m + 1 .. n - 1 : W[l] = NoIrp
  \/ has /\ \A m \in 0 .. n - 1 : W[m] = NoIrp
Ahead(E, e, n, over) == over \/ \E m \in 0 .. n - 1 : E[m] = e
Writers(p) == [n \in Nat |-> Writer(n, p)]
Enders == [n \in Nat |-> Ender(n)]
Expect(e, p, n) == Sees(Writers(p), e, n, Has(e, p)) /\ Ahead(Enders, e, n, Over(e))

LatestInv ==
  /\ DOMAIN latest = Block
  /\ \A p \in Block : \A e, n : e = latest[p] /\ n = End + 1 => Expect(e, p, n)

\* A read in the line comes after the write whose data it is to return.
Expected(i, p) == irp[i].expected[p - irp[i].request.offset]
Reads(n) == ToDo(n) /\ ~IsWrite(At(n))
ReaderInv ==
  \A n \in 0 .. End : Reads(n) =>
    \A p \in Block : Covers(At(n), p) =>
      \A e : e = Expected(IrpOf(At(n)), p) => Expect(e, p, n)

\* What was read is what was expected ...
Good(w, e) == w = e \/ (e \in Irp /\ irp[e].status = "error")
Arrived(j, p) ==
  LET b == fragment[j.buffer][p + DataOffset - j.offset]
  IN b = Stored(p, b.by) /\ Good(b.by, Expected(IrpOf(j), p))
ArrivedInv ==
  pc["io"] = "read done" /\ item[job["io"].item].success =>
    \A p \in Block : Covers(job["io"], p) => Arrived(job["io"], p)

\* ... remains it while it is decrypted ...
Completing == Jobs(queue["completion"]) \union Hand("completion")
ToDecrypt(i, p) == \E j \in Completing : IrpOf(j) = i /\ Covers(j, p)
Datum(i, k, p, b) ==
  /\ k \in Indices(irp[i].request)
  /\ b = IF ToDecrypt(i, p) THEN Stored(p, b.by) ELSE Plain(b.by, p)
  /\ Good(b.by, Expected(i, p))
Reading(i) == irp[i].phase = "active" /\ irp[i].request.op = "read" /\ ~Failed(i)
DataInv ==
  \A i \in Irp : Reading(i) =>
    \A k \in DOMAIN irp[i].data : Datum(i, k, irp[i].request.offset + k, irp[i].data[k])

\* ... and is what the user gets.
Result(i, k, p, b) ==
  /\ k \in Int /\ b = Plain(b.by, p)
  /\ irp[i].request.op = "read" => Good(b.by, Expected(i, p))
ReturnedInv ==
  \A i \in Irp : irp[i].status = "success" /\ irp[i].request.op # "write" =>
    \A k \in DOMAIN irp[i].data : Result(i, k, irp[i].request.offset + k, irp[i].data[k])

\* What the completion thread makes of block k, when it is not for those behind.
Left(i, p) == \E m \in Jobs(queue["completion"]) : IrpOf(m) = i /\ Covers(m, p)

\* What the line of requests rests on.
Course == /\ TypeInv /\ Flow /\ WaitingInv /\ HoldInv /\ StatusInv /\ SuccessInv
          /\ SpanInv /\ FragmentInv /\ StoreInv

Line == Course /\ BufferUse /\ LatestInv /\ ReaderInv

ReadInv == CacheInv /\ ArrivedInv /\ DataInv /\ ReturnedInv

-----------------------------------------------------------------------------
(* What a step does to the queues, the IRPs and the counts.                *)

\* A step gives one IRP another phase, or leaves the phases as they are.
IrpsKept ==
  /\ DOMAIN irp' = Irp
  /\ \A j \in Irp : /\ IsIrp(irp'[j]) /\ irp'[j].phase = irp[j].phase
                    /\ irp'[j].request = irp[j].request
SetPhase(i, phase) ==
  /\ DOMAIN irp' = Irp
  /\ \A j \in Irp : /\ IsIrp(irp'[j])
                    /\ irp'[j].phase = IF j = i THEN phase ELSE irp[j].phase
                    /\ irp'[j].request = irp[j].request

\* What the owner of the queue does not touch, and the threads do not.
OwnerKept == UNCHANGED <<suspended, resumed, stopPending, owner, area>>

\* The requests that the main thread makes: for the IRP that was dispatched, ...
NewJob(x, offset, length) ==
  [item |-> x, last |-> TRUE, offset |-> offset, length |-> length, from |-> 0,
   encrypted |-> {}, buffer |-> "A"]

\* ... for the next fragment of it, ...
WithArea(j, b, e) ==
  [item |-> j.item, last |-> j.last, offset |-> j.offset, length |-> j.length, from |-> j.from,
   encrypted |-> e, buffer |-> b]

RestOf(j) ==
  [item |-> j.item, last |-> j.last, offset |-> j.offset + MaxFragment,
   length |-> j.length - MaxFragment, from |-> j.from + MaxFragment, encrypted |-> {},
   buffer |-> j.buffer]

\* What Dispatch does: the first IRP that waits gets an item, and is completed or
\* becomes the request of the main thread.
Dispatched(i, x, success, phase, label) ==
  /\ i = Head(queue["main"]) /\ x \in FreeItem /\ success \in BOOLEAN
  /\ item' = [item EXCEPT ![x] = [irp |-> i, success |-> success]]
  /\ queue' = [queue EXCEPT !["main"] = Tail(@)]
  /\ job' = [job EXCEPT !["main"] =
               NewJob(x, irp[i].request.offset + DataOffset, irp[i].request.length)]
  /\ Goto("main", label) /\ SetPhase(i, phase)
  /\ \/ phase = "done" /\ label = "decrement"
     \/ phase = "active" /\ label = "request" /\ ~WriteDenied(irp[i].request)

\* A request is taken for the next fragment.
Prepared(b, e) ==
  /\ b \in Buffer /\ e = {k \in 0 .. MaxFragment - 1 : job["main"].offset + k \in EncryptedArea}
  /\ job' = [job EXCEPT !["main"] = WithArea(job["main"], b, e)]
  /\ activeBuffer' = b /\ Goto("main", "buffer")

\* A fragment goes to the I/O thread.
Queued(j, f) ==
  /\ j \in Job /\ j = job["main"] /\ f \in Job /\ f = FragmentOf(j)
  /\ queue' = [queue EXCEPT !["io"] = Append(@, f)]
  /\ bufferFree' = [bufferFree EXCEPT ![f.buffer] = FALSE]
  /\ \/ /\ f.last /\ j.length <= MaxFragment
        /\ Goto("main", "dequeue") /\ job' = [job EXCEPT !["main"] = NoJob]
     \/ /\ ~f.last /\ ~(j.length <= MaxFragment) /\ Goto("main", "request")
        /\ RestOf(j) \in Job /\ job' = [job EXCEPT !["main"] = RestOf(j)]

\* The device I/O of a request, and a read-ahead.
IoStep == WriteDevice \/ ReadDevice \/ ReadAhead
ItemsKept == \A x \in Item : item'[x].irp = item[x].irp

\* The owner of the queue changes none of what the threads work on.
OwnerOnly == UNCHANGED <<irp, item, requestsInUse, poolFree, queue, pc, job, bufferFree,
                         activeBuffer, outstanding>>

\* A step that leaves the IRPs in flight as they are.
Steady ==
  /\ ItemsKept
  /\ \A x \in Item : item[x].irp \in Irp =>
       /\ irp'[item[x].irp].phase = irp[item[x].irp].phase
       /\ irp'[item[x].irp].request = irp[item[x].irp].request

\* What a client does to its IRP.
OthersKept(i, phase) ==
  \A j \in Irp : /\ irp'[j].phase = IF j = i THEN phase ELSE irp[j].phase
                 /\ j # i => irp'[j].request = irp[j].request
Submitted(i) == irp[i].phase = "new" /\ OthersKept(i, "adding") /\ outstanding' = outstanding + 1
                  /\ queue' = queue
Added(i) == irp[i].phase = "adding" /\ ~stopPending /\ OthersKept(i, "queued")
              /\ outstanding' = outstanding /\ queue' = [queue EXCEPT !["main"] = Append(@, i)]
Rejected(i) == irp[i].phase = "adding" /\ OthersKept(i, "done") /\ outstanding' = outstanding - 1
                 /\ queue' = queue
Cancelled == IrpsKept /\ outstanding' = outstanding /\ queue' = queue

\* The steps between two steps of what a thread does.
PassOver(t) ==
  \/ Wait(t) \/ QueueEmpty(t) \/ Decrement(t) \/ SignalNoOutstanding(t)
  \/ t = "main" /\ (TakeIrp \/ AwaitResume \/ AwaitPool)

\* All steps of the threads but Dispatch.
Work(t) ==
  \/ PassOver(t) \/ Release(t)
  \/ t = "main" /\ (TakeRequest \/ QueueFragment)
  \/ t = "io" /\ (TakeFragment \/ IoStep \/ WriteDone \/ ReadDone)
  \/ t = "completion" /\ (TakeCompletion \/ CompleteRead)

PhasesKept == \A j \in Irp : irp'[j].phase = irp[j].phase
PhaseTo(i, phase) == \A j \in Irp : irp'[j].phase = IF j = i THEN phase ELSE irp[j].phase
Kept == UNCHANGED <<suspended, stopPending, owner, threadExit, area>>

\* A step of a thread completes an IRP that is counted later, or none.
AtHead == {"item", "no item", "suspended"}
Counting(t) ==
  \/ PhasesKept /\ outstanding' = outstanding + Weight(pc'[t]) - Weight(pc[t])
  \/ /\ \E i \in Irp : irp[i].phase = "active" /\ PhaseTo(i, "done")
     /\ outstanding' = outstanding /\ pc'[t] = "decrement" /\ Weight(pc[t]) = 0

\* What a step of a thread has in common with all others.
Worked(t) ==
  /\ \A u \in Thread : u # t => pc'[u] = pc[u]
  /\ queue'["main"] = queue["main"] /\ Kept /\ Counting(t)
  /\ pc'["main"] \in AtHead => pc["main"] \in AtHead \/ queue["main"] # <<>>

\* An IRP comes, goes on or is done.
Counts(phase) == phase \in {"adding", "queued", "active"}

\* Where the threads stay while the queue is held.
AtRest(t) ==
  IF t = "main" THEN pc[t] \notin {"item", "request", "buffer", "no item", "no request"}
                ELSE pc[t] \in {"wait", "dequeue", "release", "signal"}

\* A buffer that is not free is that of a fragment on its way to the device.
InIo == Jobs(queue["io"]) \union Hand("io")

-----------------------------------------------------------------------------
(* What a step does to one IRP.                                            *)

OnlyIrp(i) == DOMAIN irp' = Irp /\ \A j \in Irp \ {i} : irp'[j] = irp[j]

\* What becomes of the IRP that is dispatched: completed, or accepted.
Ended(i, x, s, d) ==
  /\ irp' = Completed(i, s, d) /\ Goto("main", "decrement")
  /\ item' = [item EXCEPT ![x] = [irp |-> i, success |-> s = "success"]] /\ latest' = latest
Accepted(i, x, e) ==
  LET r == irp[i].request IN
  /\ irp' = [irp EXCEPT ![i].phase = "active", ![i].expected = e]
  /\ e = IF r.op = "read" THEN [k \in Indices(r) |-> latest[r.offset + k]] ELSE NoData
  /\ item' = [item EXCEPT ![x] = [irp |-> i, success |-> TRUE]]
  /\ latest' = IF r.op # "write" THEN latest
               ELSE [p \in DOMAIN latest |-> IF p - r.offset \in Indices(r) THEN i ELSE latest[p]]
  /\ Goto("main", "request") /\ ~Invalid(r) /\ ~(r.op = "misaligned" /\ IsFilterDevice)

EndedWell(i, s, d) ==
  s = "success" => /\ irp[i].request.op = "misaligned" /\ IsFilterDevice
                   /\ d = MisalignedData(irp[i].request)

\* The IRP that is dispatched was waiting, and gets a free item; the other IRPs and
\* items stay.
Picked(i, x) ==
  /\ i = Head(queue["main"]) /\ x = CHOOSE y \in FreeItem : TRUE
  /\ irp[i].phase = "queued" /\ item[x].irp = NoIrp
  /\ OnlyIrp(i) /\ item'[x].irp = i /\ \A y \in Item \ {x} : item'[y] = item[y]
  /\ irp'[i].request = irp[i].request
Finished(i, x, s, d) ==
  /\ Ended(i, x, s, d) /\ EndedWell(i, s, d)
  /\ irp'[i].phase = "done" /\ irp'[i].status = s /\ irp'[i].data = d
Taken(i, x, e) ==
  /\ Accepted(i, x, e) /\ irp'[i].phase = "active" /\ item'[x].success
  /\ irp'[i].status = irp[i].status /\ irp'[i].data = irp[i].data /\ irp'[i].expected = e

\* An IRP in the hands of the threads keeps what it asks for and what it is to return,
\* until it is completed with the status of its item; a completed one stays.
IrpMoves(i) ==
  /\ irp[i].phase = "done" => irp'[i] = irp[i]
  /\ irp[i].phase = "active" =>
       /\ irp'[i].request = irp[i].request /\ irp'[i].expected = irp[i].expected
       /\ \/ irp'[i].phase = "active" /\ irp'[i].status = irp[i].status
          \/ irp'[i].phase = "done" /\ irp'[i].status = IF Failed(i) THEN "error" ELSE "success"
  /\ irp[i].phase \in {"new", "adding", "queued"} /\ irp'[i].phase # "done" =>
       irp'[i].status = irp[i].status /\ irp'[i].data = irp[i].data

\* What ReadDone copies to the buffer of the IRP, and CompleteRead decrypts there.
CopiedOf(j) ==
  LET d == irp[IrpOf(j)].data IN
  [k \in DOMAIN d \cup {j.from + l : l \in Indices(j)} |->
     IF k - j.from \in Indices(j) THEN fragment[j.buffer][k - j.from] ELSE d[k]]
DecodedOf(j) ==
  LET d == irp[IrpOf(j)].data IN
  [k \in DOMAIN d |-> IF item[j.item].success /\ k - j.from \in j.encrypted
                        THEN Decrypted(d[k], Unit(j, k - j.from)) ELSE d[k]]

\* A request in flight is one of the same IRP, which asks for the same.
Lasts(j) ==
  LET i == IrpOf(j) IN
  /\ IrpOf(j)' = i /\ (IsWrite(j)' <=> IsWrite(j))
  /\ irp'[i].request = irp[i].request /\ irp'[i].expected = irp[i].expected

-----------------------------------------------------------------------------
(* What a step does to the line of the requests, and to the device.        *)

Matches(j, k) == /\ k.item = j.item /\ k.offset = j.offset /\ k.length = j.length
                 /\ k.from = j.from /\ k.last = j.last
Goes(m, n) == (On(n)' <=> On(m)) /\ (On(m) => Matches(At(m), At(n)'))
Rests(n) == Goes(n, n) /\ (n < End /\ On(n) => At(n)' = At(n))

Quiet == End' = End /\ \A n \in Nat : Rests(n) /\ (ToDo(n)' <=> ToDo(n))
Through ==
  /\ End' = End /\ \A n \in Nat : Rests(n)
  /\ \A n \in Nat \ {0} : ToDo(n)' <=> ToDo(n)
  /\ ToDo(0) /\ ~ToDo(0)'
Off ==
  /\ End' = End /\ \A n \in Nat \ {0} : Rests(n) /\ (ToDo(n)' <=> ToDo(n))
  /\ On(0) /\ ~On(0)' /\ ~ToDo(0)
Shift ==
  /\ End' = End - 1 /\ End > 1 /\ ~On(0)
  /\ \A n \in Nat : Goes(n + 1, n) /\ (n < End - 1 => At(n)' = At(n + 1))
  /\ \A n \in Nat \ {0} : ToDo(n)' <=> ToDo(n + 1)
  /\ ~ToDo(0)' => ~item[At(1).item].success
More(f, rest) ==
  /\ End' = End + 1 /\ \A n \in 0 .. End - 1 : Rests(n) /\ (ToDo(n)' <=> ToDo(n))
  /\ On(End) /\ \A n \in Nat : n = End => On(n)' /\ At(n)' = f
  /\ \A n \in Nat : n = End + 1 => (On(n)' <=> ~f.last) /\ (On(n)' => At(n)' = rest)
  /\ \A n \in Nat : n > End + 1 => ~On(n)'
New(j) ==
  /\ End' = End /\ \A n \in Nat \ {End} : Rests(n) /\ (ToDo(n)' <=> ToDo(n))
  /\ ~On(End) /\ \A n \in Nat : n = End => On(n)' /\ At(n)' = j

\* The steps that do not move a request to or from the line.
Aside ==
  \/ \E i \in Irp : Client(i)
  \/ \E t \in Thread : PassOver(t) \/ Release(t)
  \/ Owner \/ TakeRequest \/ ReadAhead \/ TakeCompletion \/ CompleteRead

Wrote(r, done, status) ==
  /\ device' = [p \in Device |->
       IF \E k \in done : Place(r, k) = p
         THEN fragment[r.buffer][CHOOSE k \in done : Place(r, k) = p] ELSE device[p]]
  /\ item' = [item EXCEPT ![r.item].success = status]

Interval(s, n) == \E lo, hi \in 0 .. n - 1 : lo <= hi /\ s = lo .. hi

\* Where a piece is on the device: in one place.
Piece(j, s) ==
  \E a, b \in Nat : /\ a <= b /\ s = a .. b
                    /\ \A k \in s : Place(j, k) = Place(j, a) + k - a

ReadEffect(r, pieces, failed) ==
  /\ failed \subseteq {n \in DOMAIN pieces : ~CacheHit(r, pieces[n])}
  /\ fragment' = [fragment EXCEPT ![r.buffer] = [k \in Indices(r) |->
       LET n == CHOOSE m \in DOMAIN pieces : k \in pieces[m]
       IN IF n \in failed THEN Garbage ELSE ReadBlock(r, pieces[n], k)]]
  /\ item' = [item EXCEPT ![r.item].success = StatusOf(pieces, failed)]
=============================================================================
