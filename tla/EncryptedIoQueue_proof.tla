----------------------- MODULE EncryptedIoQueue_proof -----------------------
(***************************************************************************)
(* Proofs about EncryptedIoQueue, for any requests, any number of IRPs, of *)
(* pool items and requests and of blocks, and any size of a fragment: the  *)
(* invariant Inv of the queue, and what follows from it for a Hold, for    *)
(* Stop and for the protected blocks; then the line of the requests for    *)
(* the I/O thread, and what follows from it for the data: that it arrives  *)
(* at the device, and that a read sees it.                                 *)
(***************************************************************************)
EXTENDS EncryptedIoQueueInv, FiniteSetTheorems, TLAPS

-----------------------------------------------------------------------------
(* Queues, and what a step does to the IRPs.                               *)

\* A request is put at the end of a queue.
LEMMA AppendJobs ==
  ASSUME NEW S, NEW q \in Seq(S), NEW e \in S
  PROVE  /\ Append(q, e) \in Seq(S) /\ Append(q, e) # <<>> /\ Len(Append(q, e)) = Len(q) + 1
         /\ Jobs(Append(q, e)) = Jobs(q) \union {e}
         /\ Ordered(q) /\ (\A j \in Jobs(q) : Apart(j, e)) => Ordered(Append(q, e))
<1>1. /\ DOMAIN Append(q, e) = 1 .. Len(q) + 1 /\ DOMAIN q = 1 .. Len(q) /\ Len(q) \in Nat
      /\ \A n \in 1 .. Len(q) : Append(q, e)[n] = q[n]
      /\ Append(q, e)[Len(q) + 1] = e
  OBVIOUS
<1>2. Jobs(Append(q, e)) = Jobs(q) \union {e}  BY <1>1 DEF Jobs
<1>3. ASSUME Ordered(q), \A j \in Jobs(q) : Apart(j, e)
      PROVE  Ordered(Append(q, e))
  <2>1. SUFFICES ASSUME NEW m \in 1 .. Len(q) + 1, NEW n \in 1 .. Len(q) + 1, m < n
                 PROVE  Apart(Append(q, e)[m], Append(q, e)[n])
    BY <1>1 DEF Ordered
  <2>2. m \in 1 .. Len(q) /\ Append(q, e)[m] = q[m] /\ q[m] \in Jobs(q)  BY <1>1, <2>1 DEF Jobs
  <2>3. CASE n = Len(q) + 1  BY <1>1, <1>3, <2>2, <2>3
  <2>4. CASE n \in 1 .. Len(q)  BY <1>1, <1>3, <2>1, <2>2, <2>4 DEF Ordered
  <2> QED  BY <1>1, <2>3, <2>4
<1> QED  BY <1>2, <1>3

\* The first request of a queue is taken.
LEMMA TailJobs ==
  ASSUME NEW S, NEW q \in Seq(S), q # <<>>
  PROVE  /\ Head(q) \in S /\ Tail(q) \in Seq(S) /\ Len(Tail(q)) = Len(q) - 1
         /\ Jobs(q) = {Head(q)} \union Jobs(Tail(q))
         /\ Ordered(q) => Ordered(Tail(q)) /\ \A j \in Jobs(Tail(q)) : Apart(Head(q), j)
<1>1. /\ DOMAIN Tail(q) = 1 .. Len(q) - 1 /\ DOMAIN q = 1 .. Len(q) /\ Len(q) \in Nat /\ Len(q) > 0
      /\ \A n \in 1 .. Len(q) - 1 : Tail(q)[n] = q[n + 1]
      /\ Head(q) = q[1] /\ Head(q) \in S /\ Tail(q) \in Seq(S) /\ Len(Tail(q)) = Len(q) - 1
  OBVIOUS
<1>2. Jobs(q) = {Head(q)} \union Jobs(Tail(q))
  <2>1. \A n \in 1 .. Len(q) : n = 1 \/ (n - 1 \in 1 .. Len(q) - 1 /\ q[n] = Tail(q)[n - 1])
    BY <1>1
  <2>2. \A n \in 1 .. Len(q) - 1 : n + 1 \in 1 .. Len(q)  BY <1>1
  <2>3. Jobs(Tail(q)) \subseteq Jobs(q) /\ Head(q) \in Jobs(q)  BY <1>1, <2>2 DEF Jobs
  <2>4. ASSUME NEW j \in Jobs(q)  PROVE j \in {Head(q)} \union Jobs(Tail(q))
    <3>1. PICK n \in 1 .. Len(q) : j = q[n]  BY <1>1 DEF Jobs
    <3> QED  BY <1>1, <2>1, <3>1 DEF Jobs
  <2> QED  BY <2>3, <2>4
<1>3. ASSUME Ordered(q)
      PROVE  Ordered(Tail(q)) /\ \A j \in Jobs(Tail(q)) : Apart(Head(q), j)
  <2>1. \A n \in 1 .. Len(q) - 1 : n + 1 \in 1 .. Len(q) /\ 1 < n + 1  BY <1>1
  <2>2. \A j \in Jobs(Tail(q)) : Apart(Head(q), j)  BY <1>1, <1>3, <2>1 DEF Jobs, Ordered
  <2>3. Ordered(Tail(q))  BY <1>1, <1>3, <2>1 DEF Ordered
  <2> QED  BY <2>2, <2>3
<1> QED  BY <1>1, <1>2, <1>3

LEMMA EmptyJobs ==
  ASSUME NEW S, NEW q \in Seq(S)
  PROVE  Jobs(q) = {} <=> q = <<>>
<1>1. CASE q = <<>>  BY <1>1 DEF Jobs
<1>2. CASE q # <<>>  BY <1>2, TailJobs, SMTT(40)
<1> QED  BY <1>1, <1>2

\* A field of an IRP is set.
LEMMA PhaseSet ==
  ASSUME NEW r, IsIrp(r), NEW v, NEW q, q = [r EXCEPT !.phase = v]
  PROVE  /\ IsIrp(q) /\ q.phase = v
         /\ q.request = r.request /\ q.cancel = r.cancel /\ q.status = r.status
         /\ q.data = r.data /\ q.expected = r.expected
<1>1. q = [phase |-> v, request |-> r.request, cancel |-> r.cancel,
           status |-> r.status, data |-> r.data, expected |-> r.expected]
  BY DEF IsIrp
<1> QED  BY <1>1 DEF IsIrp

LEMMA RequestSet ==
  ASSUME NEW r, IsIrp(r), NEW v, NEW q, q = [r EXCEPT !.request = v]
  PROVE  /\ IsIrp(q) /\ q.request = v
         /\ q.phase = r.phase /\ q.cancel = r.cancel /\ q.status = r.status
         /\ q.data = r.data /\ q.expected = r.expected
<1>1. q = [phase |-> r.phase, request |-> v, cancel |-> r.cancel,
           status |-> r.status, data |-> r.data, expected |-> r.expected]
  BY DEF IsIrp
<1> QED  BY <1>1 DEF IsIrp

LEMMA StatusSet ==
  ASSUME NEW r, IsIrp(r), NEW v, NEW q, q = [r EXCEPT !.status = v]
  PROVE  /\ IsIrp(q) /\ q.status = v
         /\ q.phase = r.phase /\ q.request = r.request /\ q.cancel = r.cancel
         /\ q.data = r.data /\ q.expected = r.expected
<1>1. q = [phase |-> r.phase, request |-> r.request, cancel |-> r.cancel,
           status |-> v, data |-> r.data, expected |-> r.expected]
  BY DEF IsIrp
<1> QED  BY <1>1 DEF IsIrp

LEMMA DataSet ==
  ASSUME NEW r, IsIrp(r), NEW v, NEW q, q = [r EXCEPT !.data = v]
  PROVE  /\ IsIrp(q) /\ q.data = v
         /\ q.phase = r.phase /\ q.request = r.request /\ q.cancel = r.cancel
         /\ q.status = r.status /\ q.expected = r.expected
<1>1. q = [phase |-> r.phase, request |-> r.request, cancel |-> r.cancel,
           status |-> r.status, data |-> v, expected |-> r.expected]
  BY DEF IsIrp
<1> QED  BY <1>1 DEF IsIrp

LEMMA ExpectedSet ==
  ASSUME NEW r, IsIrp(r), NEW v, NEW q, q = [r EXCEPT !.expected = v]
  PROVE  /\ IsIrp(q) /\ q.expected = v
         /\ q.phase = r.phase /\ q.request = r.request /\ q.cancel = r.cancel
         /\ q.status = r.status /\ q.data = r.data
<1>1. q = [phase |-> r.phase, request |-> r.request, cancel |-> r.cancel,
           status |-> r.status, data |-> r.data, expected |-> v]
  BY DEF IsIrp
<1> QED  BY <1>1 DEF IsIrp

LEMMA CompletedEffect ==
  ASSUME IrpType, NEW i \in Irp, NEW status, NEW data, irp' = Completed(i, status, data)
  PROVE  SetPhase(i, "done")
<1>1. DOMAIN irp' = Irp /\ IsIrp(irp[i]) /\ \A j \in Irp \ {i} : irp'[j] = irp[j]
  BY DEF IrpType, Completed
<1>2. PICK r : r = irp[i]  OBVIOUS
<1>3. PICK r1 : r1 = [r EXCEPT !.phase = "done"]  OBVIOUS
<1>4. PICK r2 : r2 = [r1 EXCEPT !.status = status]  OBVIOUS
<1>5. PICK r3 : r3 = [r2 EXCEPT !.data = data]  OBVIOUS
<1>6. irp'[i] = r3  BY <1>1, <1>2, <1>3, <1>4, <1>5 DEF IrpType, Completed
<1>7. IsIrp(r3) /\ r3.phase = "done" /\ r3.request = irp[i].request
  <2>0. IsIrp(r) /\ r.request = irp[i].request  BY <1>1, <1>2
  <2>1. IsIrp(r1) /\ r1.phase = "done" /\ r1.request = r.request  BY <1>3, <2>0, PhaseSet
  <2>2. IsIrp(r2) /\ r2.phase = "done" /\ r2.request = r.request  BY <1>4, <2>1, StatusSet
  <2>3. IsIrp(r3) /\ r3.phase = "done" /\ r3.request = r.request  BY <1>5, <2>2, DataSet
  <2> QED  BY <2>0, <2>3
<1> QED
  BY <1>1, <1>6, <1>7 DEF IrpType, SetPhase

LEMMA AddEffect ==
  ASSUME IrpType, NEW i \in Irp, NEW p, irp' = [irp EXCEPT ![i].phase = p]
  PROVE  SetPhase(i, p)
BY DEF IsIrp, SetPhase, IrpType

LEMMA AcceptEffect ==
  ASSUME IrpType, NEW i \in Irp, NEW e, irp' = [irp EXCEPT ![i].phase = "active", ![i].expected = e]
  PROVE  SetPhase(i, "active")
<1>1. DOMAIN irp' = Irp /\ IsIrp(irp[i]) /\ \A j \in Irp \ {i} : irp'[j] = irp[j]  BY DEF IrpType
<1>2. PICK r : r = irp[i]  OBVIOUS
<1>3. PICK r1 : r1 = [r EXCEPT !.phase = "active"]  OBVIOUS
<1>4. PICK r2 : r2 = [r1 EXCEPT !.expected = e]  OBVIOUS
<1>5. irp'[i] = r2  BY <1>1, <1>2, <1>3, <1>4 DEF IrpType
<1>6. IsIrp(r2) /\ r2.phase = "active" /\ r2.request = irp[i].request
  <2>0. IsIrp(r) /\ r.request = irp[i].request  BY <1>1, <1>2
  <2>1. IsIrp(r1) /\ r1.phase = "active" /\ r1.request = r.request  BY <1>3, <2>0, PhaseSet
  <2>2. IsIrp(r2) /\ r2.phase = "active" /\ r2.request = r.request  BY <1>4, <2>1, ExpectedSet
  <2> QED  BY <2>0, <2>2
<1> QED
  BY <1>1, <1>5, <1>6 DEF IrpType, SetPhase

LEMMA RejectEffect ==
  ASSUME IrpType, NEW i \in Irp, NEW e, irp' = [irp EXCEPT ![i].phase = "done", ![i].status = e]
  PROVE  SetPhase(i, "done")
<1>1. DOMAIN irp' = Irp /\ IsIrp(irp[i]) /\ \A j \in Irp \ {i} : irp'[j] = irp[j]  BY DEF IrpType
<1>2. PICK r : r = irp[i]  OBVIOUS
<1>3. PICK r1 : r1 = [r EXCEPT !.phase = "done"]  OBVIOUS
<1>4. PICK r2 : r2 = [r1 EXCEPT !.status = e]  OBVIOUS
<1>5. irp'[i] = r2  BY <1>1, <1>2, <1>3, <1>4 DEF IrpType
<1>6. IsIrp(r2) /\ r2.phase = "done" /\ r2.request = irp[i].request
  <2>0. IsIrp(r) /\ r.request = irp[i].request  BY <1>1, <1>2
  <2>1. IsIrp(r1) /\ r1.phase = "done" /\ r1.request = r.request  BY <1>3, <2>0, PhaseSet
  <2>2. IsIrp(r2) /\ r2.phase = "done" /\ r2.request = r.request  BY <1>4, <2>1, StatusSet
  <2> QED  BY <2>0, <2>2
<1> QED
  BY <1>1, <1>5, <1>6 DEF IrpType, SetPhase

LEMMA CancelEffect ==
  ASSUME IrpType, NEW i \in Irp, NEW c, irp' = [irp EXCEPT ![i].cancel = c]
  PROVE  IrpsKept
BY DEF IsIrp, IrpsKept, IrpType

LEMMA DataEffect ==
  ASSUME IrpType, NEW i \in Irp, NEW d, irp' = [irp EXCEPT ![i].data = d]
  PROVE  IrpsKept
BY DEF IsIrp, IrpsKept, IrpType

LEMMA SameEffect ==
  ASSUME IrpType, irp' = irp  PROVE IrpsKept
BY DEF IrpsKept, IsIrp, IrpType

LEMMA SubmitEffect ==
  ASSUME IrpType, NEW i \in Irp, NEW r, irp' = [irp EXCEPT ![i].phase = "adding", ![i].request = r]
  PROVE  /\ DOMAIN irp' = Irp
         /\ \A j \in Irp : /\ IsIrp(irp'[j])
                           /\ irp'[j].phase = IF j = i THEN "adding" ELSE irp[j].phase
                           /\ irp'[j].request = IF j = i THEN r ELSE irp[j].request
<1>1. DOMAIN irp' = Irp /\ IsIrp(irp[i]) /\ \A j \in Irp \ {i} : irp'[j] = irp[j]  BY DEF IrpType
<1>2. PICK r0 : r0 = irp[i]  OBVIOUS
<1>3. PICK r1 : r1 = [r0 EXCEPT !.phase = "adding"]  OBVIOUS
<1>4. PICK r2 : r2 = [r1 EXCEPT !.request = r]  OBVIOUS
<1>5. irp'[i] = r2  BY <1>1, <1>2, <1>3, <1>4 DEF IrpType
<1>6. IsIrp(r2) /\ r2.phase = "adding" /\ r2.request = r
  <2>0. IsIrp(r0) /\ r0.request = irp[i].request  BY <1>1, <1>2
  <2>1. IsIrp(r1) /\ r1.phase = "adding" /\ r1.request = r0.request  BY <1>3, <2>0, PhaseSet
  <2>2. IsIrp(r2) /\ r2.phase = "adding" /\ r2.request = r  BY <1>4, <2>1, RequestSet
  <2> QED  BY <2>0, <2>2
<1> QED
  BY <1>1, <1>5, <1>6 DEF IrpType

-----------------------------------------------------------------------------
(* Types.                                                                  *)

LEMMA GotoEffect ==
  ASSUME ThreadType, NEW t \in Thread, NEW l \in LabelOf(t), Goto(t, l)
  PROVE  /\ pc'[t] = l /\ \A u \in Thread : u # t => pc'[u] = pc[u]
         /\ pc' \in [Thread -> AnyLabel] /\ \A u \in Thread : pc'[u] \in LabelOf(u)
<1>1. l \in AnyLabel  BY DEF LabelOf, AnyLabel, Thread
<1> QED  BY <1>1 DEF Goto, ThreadType

\* A thread goes on, and has another request in its hands or none.
LEMMA ThreadStep ==
  ASSUME ThreadType, NEW t \in Thread, NEW l \in LabelOf(t), Goto(t, l),
         NEW j \in Job, job' = [job EXCEPT ![t] = j],
         l \in LiveLabel \union ReleasingLabel \/ j = NoJob
  PROVE  /\ ThreadType'
         /\ pc'[t] = l /\ job'[t] = j
         /\ \A u \in Thread : u # t => pc'[u] = pc[u] /\ job'[u] = job[u]
<1>1. /\ pc'[t] = l /\ \A u \in Thread : u # t => pc'[u] = pc[u]
      /\ pc' \in [Thread -> AnyLabel] /\ \A u \in Thread : pc'[u] \in LabelOf(u)
  BY GotoEffect
<1>2. /\ job' \in [Thread -> Job] /\ job'[t] = j /\ \A u \in Thread : u # t => job'[u] = job[u]
  BY DEF ThreadType
<1> QED  BY <1>1, <1>2 DEF ThreadType, Live, Releasing

\* A thread goes on with what it has.
LEMMA ThreadGoes ==
  ASSUME ThreadType, NEW t \in Thread, NEW l \in LabelOf(t), Goto(t, l), job' = job,
         l \in LiveLabel \union ReleasingLabel \/ job[t] = NoJob
  PROVE  /\ ThreadType'
         /\ pc'[t] = l /\ \A u \in Thread : u # t => pc'[u] = pc[u]
<1>1. /\ pc'[t] = l /\ \A u \in Thread : u # t => pc'[u] = pc[u]
      /\ pc' \in [Thread -> AnyLabel] /\ \A u \in Thread : pc'[u] \in LabelOf(u)
  BY GotoEffect
<1> QED  BY <1>1 DEF ThreadType, Live, Releasing

LEMMA Labels ==
  /\ LabelOf("main") = MainLabel /\ LabelOf("io") = IoLabel
  /\ LabelOf("completion") = CompletionLabel
  /\ Thread = {"main", "io", "completion"}
  /\ \A t \in Thread : Common \subseteq LabelOf(t)
BY DEF LabelOf, Thread, MainLabel, IoLabel, CompletionLabel

LEMMA NoJobType == NoJob \in Job /\ NoJob.last = FALSE /\ NoJob.item = NoItem /\ NoItem \notin Item
BY QueueAssumption DEF NoJob, Job, Buffer

LEMMA KeptType == ASSUME IrpType, IrpsKept  PROVE IrpType'
BY DEF IrpType, IrpsKept

LEMMA PhaseType ==
  ASSUME IrpType, NEW i \in Irp, NEW p \in Phase, SetPhase(i, p), irp[i].phase # "new"
  PROVE  IrpType'
BY DEF IrpType, SetPhase

LEMMA OwnerKeptType == ASSUME OwnerType, OwnerKept  PROVE OwnerType'
BY DEF OwnerType, OwnerKept

LEMMA ClientType ==
  ASSUME TypeInv, NEW i \in Irp, Client(i)
  PROVE  TypeInv'
<1>1. ThreadType'
  BY DEF TypeInv, ThreadType, Client, Submit, AddIrp, RejectIrp, CancelIrp, Live, Releasing
<1>2. OwnerType'
  BY OwnerKeptType
    DEF TypeInv, Client, Submit, AddIrp, RejectIrp, CancelIrp, control, disk, OwnerKept
<1>3. /\ item' = item /\ bufferFree' = bufferFree /\ activeBuffer' = activeBuffer
      /\ requestsInUse' = requestsInUse /\ device' = device
      /\ outstanding' \in {outstanding, outstanding + 1, outstanding - 1}
  BY DEF Client, Submit, AddIrp, RejectIrp, CancelIrp, control, disk, pool, buffers, idle
<1>4. IrpType'
  <2>1. CASE Submit(i)
    <3>1. PICK r \in Request : irp' = [irp EXCEPT ![i].phase = "adding", ![i].request = r]
      BY <2>1 DEF Submit
    <3>2. IrpType  BY DEF TypeInv
    <3>3. /\ DOMAIN irp' = Irp
          /\ \A j \in Irp : /\ IsIrp(irp'[j])
                            /\ irp'[j].phase = IF j = i THEN "adding" ELSE irp[j].phase
                            /\ irp'[j].request = IF j = i THEN r ELSE irp[j].request
      BY <3>1, <3>2, SubmitEffect
    <3> QED  BY <3>2, <3>3 DEF IrpType, Phase
  <2>2. CASE AddIrp(i)  BY <2>2, AddEffect, PhaseType DEF AddIrp, TypeInv, Phase
  <2>3. CASE RejectIrp(i)  BY <2>3, RejectEffect, PhaseType DEF RejectIrp, TypeInv, Phase
  <2>4. CASE CancelIrp(i)  BY <2>4, CancelEffect, KeptType DEF CancelIrp, TypeInv
  <2> QED  BY <2>1, <2>2, <2>3, <2>4 DEF Client
<1>5. QueueType'
  <2>1. CASE queue' = queue  BY <2>1 DEF TypeInv, QueueType
  <2>2. CASE AddIrp(i)  BY <2>2 DEF AddIrp, TypeInv, QueueType, Thread
  <2> QED  BY <2>1, <2>2 DEF Client, Submit, RejectIrp, CancelIrp, queues
<1> QED  BY <1>1, <1>2, <1>3, <1>4, <1>5 DEF TypeInv

\* The steps that all threads have in common.
LEMMA CommonType ==
  ASSUME TypeInv, NEW t \in Thread, Wait(t) \/ QueueEmpty(t) \/ Finishing(t)
  PROVE  TypeInv'
<1>1. /\ irp' = irp /\ queue' = queue /\ bufferFree' = bufferFree /\ activeBuffer' = activeBuffer
      /\ device' = device /\ OwnerKept
      /\ outstanding' \in {outstanding, outstanding - 1}
  BY DEF Wait, QueueEmpty, Finishing, Decrement, SignalNoOutstanding, Release, disk, queues,
         buffers, control, idle, OwnerKept
<1>2. IrpType' /\ QueueType' /\ OwnerType'
  BY <1>1, SameEffect, KeptType, OwnerKeptType DEF TypeInv, QueueType
<1>3. ThreadType'
  <2>1. CASE Wait(t) \/ QueueEmpty(t) \/ Decrement(t) \/ SignalNoOutstanding(t)
    <3>1. PICK l \in Common : Goto(t, l) /\ (l \in ReleasingLabel \/ job[t] = NoJob)
      BY <2>1 DEF Wait, QueueEmpty, Decrement, SignalNoOutstanding, Common, ReleasingLabel,
                  TypeInv, ThreadType, Live, Releasing, LiveLabel
    <3>2. job' = job  BY <2>1 DEF Wait, QueueEmpty, Decrement, SignalNoOutstanding
    <3>3. l \in LabelOf(t)  BY Labels
    <3> QED  BY <3>1, <3>2, <3>3, ThreadGoes DEF TypeInv
  <2>2. CASE Release(t)  BY <2>2, Labels, ThreadStep, NoJobType DEF Release, Common, TypeInv
  <2> QED  BY <2>1, <2>2 DEF Finishing
<1>4. item' \in [Item -> [irp : Irp \union {NoIrp}, success : BOOLEAN]] /\ requestsInUse' \in Int
  <2>1. CASE Release(t)  BY <2>1 DEF Release, TypeInv, RequestsReleased
  <2>2. CASE ~Release(t)
    BY <2>2 DEF Wait, QueueEmpty, Finishing, Decrement, SignalNoOutstanding, pool, TypeInv
  <2> QED  BY <2>1, <2>2
<1> QED  BY <1>1, <1>2, <1>3, <1>4 DEF TypeInv

LEMMA DispatchedJob ==
  ASSUME NEW x, NEW offset, NEW length
  PROVE  [NoJob EXCEPT !.item = x, !.last = TRUE, !.offset = offset, !.length = length]
           = NewJob(x, offset, length)
<1>1. PICK j1 : j1 = [NoJob EXCEPT !.item = x]  OBVIOUS
<1>2. PICK j2 : j2 = [j1 EXCEPT !.last = TRUE]  OBVIOUS
<1>3. PICK j3 : j3 = [j2 EXCEPT !.offset = offset]  OBVIOUS
<1>4. PICK j4 : j4 = [j3 EXCEPT !.length = length]  OBVIOUS
<1>5. j1 = [item |-> x, last |-> FALSE, offset |-> 0, length |-> 0, from |-> 0,
            encrypted |-> {}, buffer |-> "A"]
  BY <1>1 DEF NoJob
<1>6. j2 = [item |-> x, last |-> TRUE, offset |-> 0, length |-> 0, from |-> 0,
            encrypted |-> {}, buffer |-> "A"]
  BY <1>2, <1>5
<1>7. j3 = [item |-> x, last |-> TRUE, offset |-> offset, length |-> 0, from |-> 0,
            encrypted |-> {}, buffer |-> "A"]
  BY <1>3, <1>6
<1>8. j4 = NewJob(x, offset, length)  BY <1>4, <1>7 DEF NewJob
<1> QED  BY <1>1, <1>2, <1>3, <1>4, <1>8

LEMMA NewJobType ==
  ASSUME NEW x \in Item, NEW offset \in Nat, NEW length \in Nat
  PROVE  NewJob(x, offset, length) \in Job
BY DEF NewJob, Job, Buffer

LEMMA PreparedJob ==
  ASSUME ThreadType, NEW b, NEW e,
         job' = [job EXCEPT !["main"].buffer = b, !["main"].encrypted = e]
  PROVE  job' = [job EXCEPT !["main"] = WithArea(job["main"], b, e)]
<1>1. PICK j \in Job : j = job["main"]  BY DEF ThreadType, Thread
<1>2. PICK k : k = [j EXCEPT !.buffer = b]  OBVIOUS
<1>3. PICK l : l = [k EXCEPT !.encrypted = e]  OBVIOUS
<1>4. k = [item |-> j.item, last |-> j.last, offset |-> j.offset, length |-> j.length,
           from |-> j.from, encrypted |-> j.encrypted, buffer |-> b]
  BY <1>2 DEF Job
<1>5. l = WithArea(j, b, e)  BY <1>3, <1>4 DEF WithArea
<1>6. job \in [Thread -> Job] /\ "main" \in Thread  BY DEF ThreadType, Thread
<1>7. job' = [job EXCEPT !["main"] = l]  BY <1>1, <1>2, <1>3, <1>6
<1> QED  BY <1>1, <1>5, <1>7

\* ... what is given to the I/O thread, and what is left then.
LEMMA FragmentFields ==
  ASSUME NEW j \in Job
  PROVE  LET f == FragmentOf(j) IN
         /\ f \in Job /\ f.item = j.item /\ f.offset = j.offset /\ f.from = j.from
         /\ f.buffer = j.buffer /\ f.last = (j.length <= MaxFragment)
         /\ f.length = IF j.length <= MaxFragment THEN j.length ELSE MaxFragment
         /\ f.encrypted = j.encrypted \cap (0 .. f.length - 1)
<1>1. PICK n \in Nat : n = IF j.length <= MaxFragment THEN j.length ELSE MaxFragment
  BY QueueAssumption DEF Job
<1>2. PICK l : l = (j.length <= MaxFragment)  OBVIOUS
<1>3. PICK e : e = j.encrypted \cap (0 .. n - 1)  OBVIOUS
<1>4. PICK j1 : j1 = [j EXCEPT !.length = n]  OBVIOUS
<1>5. PICK j2 : j2 = [j1 EXCEPT !.last = l]  OBVIOUS
<1>6. PICK j3 : j3 = [j2 EXCEPT !.encrypted = e]  OBVIOUS
<1>7. j1 = [item |-> j.item, last |-> j.last, offset |-> j.offset, length |-> n,
            from |-> j.from, encrypted |-> j.encrypted, buffer |-> j.buffer]
  BY <1>4 DEF Job
<1>8. j2 = [item |-> j.item, last |-> l, offset |-> j.offset, length |-> n,
            from |-> j.from, encrypted |-> j.encrypted, buffer |-> j.buffer]
  BY <1>5, <1>7
<1>9. j3 = [item |-> j.item, last |-> l, offset |-> j.offset, length |-> n,
            from |-> j.from, encrypted |-> e, buffer |-> j.buffer]
  BY <1>6, <1>8
<1>10. FragmentOf(j) = j3  BY <1>1, <1>2, <1>3, <1>4, <1>5, <1>6, <1>8 DEF FragmentOf
<1>11. l \in BOOLEAN  BY <1>2
<1>12. j3 \in Job  BY <1>3, <1>9, <1>11 DEF Job
<1> QED  BY <1>1, <1>2, <1>3, <1>9, <1>10, <1>12

LEMMA RestFields ==
  ASSUME NEW j \in Job
  PROVE  /\ [j EXCEPT !.offset = @ + MaxFragment, !.from = @ + MaxFragment,
                      !.length = @ - MaxFragment, !.encrypted = {}] = RestOf(j)
         /\ ~(j.length <= MaxFragment) => RestOf(j) \in Job
<1>1. PICK j1 : j1 = [j EXCEPT !.offset = @ + MaxFragment]  OBVIOUS
<1>2. PICK j2 : j2 = [j1 EXCEPT !.from = @ + MaxFragment]  OBVIOUS
<1>3. PICK j3 : j3 = [j2 EXCEPT !.length = @ - MaxFragment]  OBVIOUS
<1>4. PICK j4 : j4 = [j3 EXCEPT !.encrypted = {}]  OBVIOUS
<1>5. j1 = [item |-> j.item, last |-> j.last, offset |-> j.offset + MaxFragment,
            length |-> j.length, from |-> j.from, encrypted |-> j.encrypted,
            buffer |-> j.buffer]
  BY <1>1 DEF Job
<1>6. j2 = [item |-> j.item, last |-> j.last, offset |-> j.offset + MaxFragment,
            length |-> j.length, from |-> j.from + MaxFragment, encrypted |-> j.encrypted,
            buffer |-> j.buffer]
  BY <1>2, <1>5
<1>7. j3 = [item |-> j.item, last |-> j.last, offset |-> j.offset + MaxFragment,
            length |-> j.length - MaxFragment, from |-> j.from + MaxFragment,
            encrypted |-> j.encrypted, buffer |-> j.buffer]
  BY <1>3, <1>6
<1>8. j4 = RestOf(j)  BY <1>4, <1>7 DEF RestOf
<1>9. ~(j.length <= MaxFragment) => RestOf(j) \in Job  BY QueueAssumption DEF RestOf, Job
<1> QED  BY <1>1, <1>2, <1>3, <1>4, <1>8, <1>9

\* A thread goes on with what it has, and the shared data keep their types.
LEMMA GoesType ==
  ASSUME TypeInv, NEW t \in Thread, NEW l \in LabelOf(t), Goto(t, l), job' = job,
         l \in LiveLabel \union ReleasingLabel \/ job[t] = NoJob,
         irp' = irp, queue' = queue, OwnerType',
         item' \in [Item -> [irp : Irp \union {NoIrp}, success : BOOLEAN]],
         bufferFree' = bufferFree, activeBuffer' = activeBuffer,
         requestsInUse' = requestsInUse, outstanding' = outstanding, DOMAIN device' = Device
  PROVE  TypeInv'
<1>1. IrpType' /\ QueueType'  BY SameEffect, KeptType DEF TypeInv, QueueType
<1>2. ThreadType'  BY ThreadGoes DEF TypeInv
<1> QED  BY <1>1, <1>2 DEF TypeInv

LEMMA MainGoesType ==
  ASSUME TypeInv, TakeIrp \/ AwaitResume \/ AwaitPool
  PROVE  TypeInv'
<1>1. PICK l \in MainLabel :
        Goto("main", l) /\ (l \in LiveLabel \union ReleasingLabel \/ job["main"] = NoJob)
  BY
    DEF TakeIrp, AwaitResume, AwaitPool, MainLabel, Common, LiveLabel, ReleasingLabel,
        TypeInv,
         ThreadType, Live, Releasing, Thread
<1>2. /\ irp' = irp /\ queue' = queue /\ item' = item /\ bufferFree' = bufferFree /\ job' = job
      /\ activeBuffer' = activeBuffer /\ requestsInUse' = requestsInUse /\ device' = device
      /\ outstanding' = outstanding
  BY DEF TakeIrp, AwaitResume, AwaitPool, queues, pool, buffers, disk, idle
<1>3. OwnerType'  BY DEF TakeIrp, AwaitResume, AwaitPool, control, disk, TypeInv, OwnerType
<1>4. "main" \in Thread /\ LabelOf("main") = MainLabel  BY Labels
<1>5. item \in [Item -> [irp : Irp \union {NoIrp}, success : BOOLEAN]] /\ DOMAIN device = Device
  BY DEF TypeInv
<1> QED  BY <1>1, <1>2, <1>3, <1>4, <1>5, GoesType

LEMMA DispatchEffect ==
  ASSUME IrpType, Dispatch, Head(queue["main"]) \in Irp
  PROVE  \E i \in Irp, x \in Item, success \in BOOLEAN, phase \in {"active", "done"},
            label \in {"request", "decrement"} : Dispatched(i, x, success, phase, label)
<1>1. PICK i \in Irp : i = Head(queue["main"])  OBVIOUS
<1>2. PICK x : x = CHOOSE y \in FreeItem : TRUE  OBVIOUS
<1>3. x \in FreeItem /\ x \in Item  BY <1>2, Zenon DEF Dispatch, FreeItem
<1>4. /\ queue' = [queue EXCEPT !["main"] = Tail(@)]
      /\ job' = [job EXCEPT !["main"] =
               NewJob(x, irp[i].request.offset + DataOffset, irp[i].request.length)]
  BY <1>1, <1>2, DispatchedJob, Zenon DEF Dispatch
<1>5. ASSUME NEW status, NEW data, irp' = Completed(i, status, data), Goto("main", "decrement"),
             item' = [item EXCEPT ![x] = [irp |-> i, success |-> status = "success"]]
      PROVE  \E success \in BOOLEAN : Dispatched(i, x, success, "done", "decrement")
  <2>1. SetPhase(i, "done")  BY <1>5, CompletedEffect
  <2>2. (status = "success") \in BOOLEAN  OBVIOUS
  <2>3. Dispatched(i, x, status = "success", "done", "decrement")
    BY <1>1, <1>3, <1>4, <1>5, <2>1, <2>2 DEF Dispatched
  <2> QED  BY <2>2, <2>3
<1>6. ASSUME NEW e, irp' = [irp EXCEPT ![i].phase = "active", ![i].expected = e],
             item' = [item EXCEPT ![x] = [irp |-> i, success |-> TRUE]],
             Goto("main", "request"), ~WriteDenied(irp[i].request)
      PROVE  Dispatched(i, x, TRUE, "active", "request")
  BY <1>6, AcceptEffect, <1>1, <1>3, <1>4 DEF Dispatched
<1>7. \/ \E status, data :
           /\ irp' = Completed(i, status, data) /\ Goto("main", "decrement")
           /\ item' = [item EXCEPT ![x] = [irp |-> i, success |-> status = "success"]]
      \/ \E e : /\ irp' = [irp EXCEPT ![i].phase = "active", ![i].expected = e]
                /\ item' = [item EXCEPT ![x] = [irp |-> i, success |-> TRUE]]
                /\ Goto("main", "request") /\ ~WriteDenied(irp[i].request)
  <2> DEFINE Finish(status, data) ==
        /\ irp' = Completed(i, status, data) /\ Goto("main", "decrement")
        /\ item' = [item EXCEPT ![x] = [irp |-> i, success |-> status = "success"]]
  <2> DEFINE Accept(e) ==
        /\ irp' = [irp EXCEPT ![i].phase = "active", ![i].expected = e]
        /\ item' = [item EXCEPT ![x] = [irp |-> i, success |-> TRUE]]
        /\ Goto("main", "request")
  <2>1. \/ \E status, data : Finish(status, data)
        \/ ~WriteDenied(irp[i].request) /\ \E e : Accept(e)
    <3>1. CASE irp[i].cancel
      <4>s. PICK s : s = "cancelled"  OBVIOUS
      <4>d. PICK d : d = NoData  OBVIOUS
      <4>1. Finish(s, d)  BY <4>s, <4>d, <1>1, <1>2, <3>1 DEF Dispatch
      <4> QED  BY <4>1
    <3>2. CASE ~irp[i].cancel /\ irp[i].request.op = "misaligned" /\ IsFilterDevice
      <4>s. PICK s : s = "success"  OBVIOUS
      <4>t. PICK t : t = "error"  OBVIOUS
      <4>d. PICK d : d = MisalignedData(irp[i].request)  OBVIOUS
      <4>e. PICK e : e = NoData  OBVIOUS
      <4>1. Finish(s, d) \/ Finish(t, e)  BY <4>s, <4>t, <4>d, <4>e, <1>1, <1>2, <3>2 DEF Dispatch
      <4> QED  BY <4>1
    <3>3. CASE /\ ~irp[i].cancel /\ ~(irp[i].request.op = "misaligned" /\ IsFilterDevice)
               /\ Invalid(irp[i].request) \/ WriteDenied(irp[i].request)
      <4>s. PICK s : s = "invalid"  BY ZenonT(20)
      <4>d. PICK d : d = NoData  OBVIOUS
      <4>1. Finish(s, d)  BY <4>s, <4>d, <1>1, <1>2, <3>3, Zenon DEF Dispatch
      <4> QED  BY <4>1
    <3>4. CASE /\ ~irp[i].cancel /\ ~(irp[i].request.op = "misaligned" /\ IsFilterDevice)
               /\ ~(Invalid(irp[i].request) \/ WriteDenied(irp[i].request))
      <4>s. PICK s : s = "error"  OBVIOUS
      <4>d. PICK d : d = NoData  OBVIOUS
      <4>e. PICK e : e = IF irp[i].request.op = "read"
                           THEN [k \in Indices(irp[i].request) |-> latest[irp[i].request.offset + k]]
                           ELSE NoData
        BY Zenon
      <4>1. Finish(s, d) \/ Accept(e)  BY <4>s, <4>d, <4>e, <1>1, <1>2, <3>4, Zenon DEF Dispatch
      <4> QED  BY <3>4, <4>1
    <3> QED  BY <3>1, <3>2, <3>3, <3>4
  <2> QED  BY <2>1
<1> QED  BY <1>3, <1>5, <1>6, <1>7, ZenonT(60)

LEMMA DispatchType ==
  ASSUME TypeInv, Dispatch, queue["main"] # <<>>, irp[Head(queue["main"])].phase # "new"
  PROVE  TypeInv'
<1>1. Head(queue["main"]) \in Irp /\ Tail(queue["main"]) \in Seq(Irp)
  BY TailJobs DEF TypeInv, QueueType
<1>2. IrpType /\ ThreadType /\ QueueType /\ OwnerType  BY DEF TypeInv
<1>3. PICK i \in Irp, x \in Item, success \in BOOLEAN, phase \in {"active", "done"},
            label \in {"request", "decrement"} : Dispatched(i, x, success, phase, label)
  BY <1>1, <1>2, DispatchEffect
<1>4. /\ irp[i].request \in Request /\ irp[i].request.offset + DataOffset \in Nat
      /\ irp[i].request.length \in Nat
  BY <1>2, <1>3, QueueAssumption DEF Dispatched, IrpType
<1>5. NewJob(x, irp[i].request.offset + DataOffset, irp[i].request.length) \in Job
  BY <1>4, NewJobType
<1>6. ThreadType'
  <2>1. "main" \in Thread /\ label \in LabelOf("main") /\ label \in LiveLabel \union ReleasingLabel
    BY Labels DEF MainLabel, Common, LiveLabel, ReleasingLabel
  <2>2. Goto("main", label)  BY <1>3 DEF Dispatched
  <2>3. PICK j \in Job : j = NewJob(x, irp[i].request.offset + DataOffset, irp[i].request.length)
    BY <1>5
  <2>4. job' = [job EXCEPT !["main"] = j]  BY <1>3, <2>3 DEF Dispatched
  <2> QED  BY <1>2, <2>1, <2>2, <2>4, ThreadStep
<1>7. IrpType'  BY <1>3, <1>2, PhaseType DEF Dispatched, Phase
<1>8. QueueType'  BY <1>1, <1>2, <1>3, ZenonT(20) DEF QueueType, Dispatched, Thread
<1>9. OwnerType'  BY <1>2, OwnerKeptType DEF Dispatch, OwnerKept, control, disk
<1>10. item' \in [Item -> [irp : Irp \union {NoIrp}, success : BOOLEAN]]
  BY <1>3, ZenonT(20) DEF Dispatched, TypeInv
<1>11. UNCHANGED <<bufferFree, activeBuffer, requestsInUse, outstanding, device>>
  BY DEF Dispatch, buffers, idle, disk
<1> QED  BY <1>6, <1>7, <1>8, <1>9, <1>10, <1>11 DEF TypeInv

LEMMA TakeRequestEffect ==
  ASSUME TypeInv, TakeRequest
  PROVE  \E b, e : Prepared(b, e)
<1>1. PICK b : b = activeBuffer'  OBVIOUS
<1>2. PICK e : e = {k \in 0 .. MaxFragment - 1 : job["main"].offset + k \in EncryptedArea}  OBVIOUS
<1>3. job' = [job EXCEPT !["main"].buffer = b, !["main"].encrypted = e]
  BY <1>1, <1>2 DEF TakeRequest
<1>4. job' = [job EXCEPT !["main"] = WithArea(job["main"], b, e)]  BY <1>3, PreparedJob DEF TypeInv
<1>5. b \in Buffer /\ Goto("main", "buffer")  BY <1>1 DEF TakeRequest, Buffer
<1> QED  BY <1>1, <1>2, <1>4, <1>5 DEF Prepared

LEMMA TakeRequestType ==
  ASSUME TypeInv, TakeRequest
  PROVE  TypeInv'
<1>0. IrpType /\ ThreadType /\ QueueType /\ OwnerType  BY DEF TypeInv
<1>1. PICK b, e : Prepared(b, e)  BY TakeRequestEffect
<1>2. PICK j \in Job : j = job["main"]  BY <1>0 DEF ThreadType, Thread
<1>3. WithArea(j, b, e) \in Job  BY <1>1, QueueAssumption DEF Prepared, WithArea, Job
<1>4. ThreadType'
  <2>1. "main" \in Thread /\ "buffer" \in LabelOf("main") /\ "buffer" \in LiveLabel
    BY Labels DEF MainLabel, LiveLabel
  <2>2. PICK k \in Job : k = WithArea(j, b, e)  BY <1>3
  <2>3. job' = [job EXCEPT !["main"] = k] /\ Goto("main", "buffer")
    BY <1>1, <1>2, <2>2 DEF Prepared
  <2> QED  BY <1>0, <2>1, <2>3, ThreadStep
<1>5. IrpType' /\ QueueType' /\ OwnerType'
  BY <1>0, SameEffect, KeptType, OwnerKeptType
    DEF TakeRequest, QueueType, OwnerKept, queues, control, disk
<1>6. /\ item' = item /\ bufferFree' = bufferFree /\ activeBuffer' \in Buffer
      /\ requestsInUse' \in Int /\ outstanding' = outstanding /\ device' = device
  BY <1>1 DEF TypeInv, TakeRequest, idle, disk, Prepared
<1> QED  BY <1>4, <1>5, <1>6 DEF TypeInv

LEMMA QueueFragmentEffect ==
  ASSUME TypeInv, QueueFragment
  PROVE  \E j, f \in Job : Queued(j, f)
<1>1. PICK j \in Job : j = job["main"]  BY DEF TypeInv, ThreadType, Thread
<1>2. PICK f \in Job : f = FragmentOf(j)  BY FragmentFields
<1>3. f.last <=> j.length <= MaxFragment  BY <1>2, FragmentFields
<1>4. /\ queue' = [queue EXCEPT !["io"] = Append(@, f)]
      /\ bufferFree' = [bufferFree EXCEPT ![f.buffer] = FALSE]
  BY <1>1, <1>2 DEF QueueFragment
<1>5. CASE f.last  BY <1>1, <1>2, <1>5, <1>3, <1>4 DEF QueueFragment, Queued
<1>6. CASE ~f.last
  <2>1. /\ Goto("main", "request")
        /\ job' = [job EXCEPT !["main"] =
                     [j EXCEPT !.offset = @ + MaxFragment, !.from = @ + MaxFragment,
                               !.length = @ - MaxFragment, !.encrypted = {}]]
    BY <1>1, <1>2, <1>6 DEF QueueFragment
  <2>2. job' = [job EXCEPT !["main"] = RestOf(j)] /\ RestOf(j) \in Job
    BY <1>3, <1>6, <2>1, RestFields
  <2> QED  BY <1>1, <1>2, <1>3, <1>4, <1>6, <2>1, <2>2 DEF Queued
<1> QED  BY <1>5, <1>6

LEMMA QueueFragmentType ==
  ASSUME TypeInv, QueueFragment
  PROVE  TypeInv'
<1>0. IrpType /\ ThreadType /\ QueueType /\ OwnerType  BY DEF TypeInv
<1>1. PICK j \in Job, f \in Job : Queued(j, f)  BY QueueFragmentEffect
<1>2. ThreadType'
  <2>1. "main" \in Thread /\ {"request", "dequeue"} \subseteq LabelOf("main")
    BY Labels DEF MainLabel, Common
  <2>2. PICK l \in {"request", "dequeue"}, k \in Job :
          /\ Goto("main", l) /\ job' = [job EXCEPT !["main"] = k]
          /\ l \in LiveLabel \union ReleasingLabel \/ k = NoJob
    BY <1>1, NoJobType DEF Queued, LiveLabel
  <2> QED  BY <1>0, <2>1, <2>2, ThreadStep
<1>3. IrpType' /\ OwnerType'
  BY <1>0, SameEffect, KeptType, OwnerKeptType DEF QueueFragment, OwnerKept, control, disk
<1>4. QueueType'  BY <1>0, AppendJobs, <1>1 DEF QueueType, Queued, Thread
<1>5. bufferFree' \in [Buffer -> BOOLEAN]  BY <1>1 DEF Queued, TypeInv
<1>6. UNCHANGED <<item, activeBuffer, requestsInUse, outstanding, device>>
  BY DEF QueueFragment, pool, idle, disk
<1> QED  BY <1>2, <1>3, <1>4, <1>5, <1>6 DEF TypeInv

\* A piece of what the model writes is one block of the request; the pieces are
\* not looked into here.
LEMMA TakeFragmentEffect ==
  ASSUME TypeInv, TakeFragment
  PROVE  \E r \in Job, l \in {"write", "write done", "read", "read done"} :
           /\ r = Head(queue["io"]) /\ queue["io"] # <<>> /\ Tail(queue["io"]) \in Seq(Job)
           /\ Goto("io", l) /\ job' = [job EXCEPT !["io"] = r]
           /\ queue' = [queue EXCEPT !["io"] = Tail(@)]
           /\ l \in {"write", "write done"} <=> IsWrite(r)
<1>1. queue["io"] # <<>> /\ Head(queue["io"]) \in Job /\ Tail(queue["io"]) \in Seq(Job)
  BY TailJobs, Zenon DEF TakeFragment, TypeInv, QueueType
<1>2. PICK r \in Job : r = Head(queue["io"])  BY <1>1
<1>3. /\ job' = [job EXCEPT !["io"] = r] /\ queue' = [queue EXCEPT !["io"] = Tail(@)]
      /\ Goto("io", IF item[r.item].success THEN IF IsWrite(r) THEN "write" ELSE "read"
                    ELSE IF IsWrite(r) THEN "write done" ELSE "read done")
  BY <1>2, Zenon DEF TakeFragment, IsWrite, IrpOf
<1>4. PICK l : l = (IF item[r.item].success THEN IF IsWrite(r) THEN "write" ELSE "read"
                    ELSE IF IsWrite(r) THEN "write done" ELSE "read done")
  OBVIOUS
<1>5. /\ l \in {"write", "write done", "read", "read done"}
      /\ l \in {"write", "write done"} <=> IsWrite(r)
  BY <1>4
<1>6. Goto("io", l)  BY <1>3, <1>4
<1> QED  BY <1>1, <1>2, <1>3, <1>5, <1>6

LEMMA TakeFragmentType ==
  ASSUME TypeInv, TakeFragment
  PROVE  TypeInv'
<1>0. IrpType /\ ThreadType /\ QueueType /\ OwnerType  BY DEF TypeInv
<1>1. PICK r \in Job, l \in {"write", "write done", "read", "read done"} :
           /\ Tail(queue["io"]) \in Seq(Job)
           /\ Goto("io", l) /\ job' = [job EXCEPT !["io"] = r]
           /\ queue' = [queue EXCEPT !["io"] = Tail(@)]
  BY TakeFragmentEffect
<1>2. "io" \in Thread /\ l \in LabelOf("io") /\ l \in LiveLabel  BY Labels DEF IoLabel, LiveLabel
<1>3. ThreadType'  BY <1>0, <1>1, <1>2, ThreadStep, ZenonT(60)
<1>4. IrpType' /\ OwnerType'
  BY <1>0, SameEffect, KeptType, OwnerKeptType DEF TakeFragment, OwnerKept, control, disk
<1>5. QueueType'  BY <1>0, <1>1, ZenonT(60) DEF QueueType, Thread
<1>6. UNCHANGED <<item, bufferFree, activeBuffer, requestsInUse, outstanding, device>>
  BY DEF TakeFragment, pool, idle, disk, buffers
<1> QED  BY <1>3, <1>4, <1>5, <1>6 DEF TypeInv

LEMMA IoStepEffect ==
  ASSUME TypeInv, IoStep
  PROVE  /\ \E l \in {"write done", "read done", "decrement"} :
              /\ Goto("io", l)
              /\ \/ l = "write done" /\ pc["io"] = "write"
                 \/ l = "read done" /\ pc["io"] = "read"
                 \/ l = "decrement" /\ pc["io"] = "read ahead"
         /\ job' = job /\ irp' = irp /\ queue' = queue /\ ItemsKept
         /\ item' \in [Item -> [irp : Irp \union {NoIrp}, success : BOOLEAN]]
         /\ UNCHANGED <<bufferFree, activeBuffer, requestsInUse, outstanding>> /\ OwnerKept
         /\ DOMAIN device' = Device
<1>1. item \in [Item -> [irp : Irp \union {NoIrp}, success : BOOLEAN]] /\ DOMAIN device = Device
  BY DEF TypeInv
<1>2. CASE WriteDevice \/ ReadDevice
  <2>1. PICK s : item' = [item EXCEPT ![job["io"].item].success = s] /\ s \in BOOLEAN
    BY <1>2 DEF WriteDevice, ReadDevice, StatusOf
  <2>2. item' \in [Item -> [irp : Irp \union {NoIrp}, success : BOOLEAN]] /\ ItemsKept
    BY <1>1, <2>1 DEF ItemsKept
  <2>3. DOMAIN device' = Device  BY <1>1, <1>2 DEF WriteDevice, ReadDevice, disk
  <2> QED  BY <1>2, <2>2, <2>3
             DEF WriteDevice, ReadDevice, queues, buffers, idle, OwnerKept, control, disk
<1>3. CASE ReadAhead
  BY <1>1, <1>3
    DEF ReadAhead, pool, queues, buffers, idle, OwnerKept, control, disk, ItemsKept
<1> QED  BY <1>2, <1>3 DEF IoStep

LEMMA IoStepType ==
  ASSUME TypeInv, IoStep
  PROVE  TypeInv'
<1>1. PICK l \in {"write done", "read done", "decrement"} : Goto("io", l)  BY IoStepEffect
<1>2. /\ job' = job /\ irp' = irp /\ queue' = queue
      /\ item' \in [Item -> [irp : Irp \union {NoIrp}, success : BOOLEAN]]
      /\ UNCHANGED <<bufferFree, activeBuffer, requestsInUse, outstanding>> /\ OwnerKept
      /\ DOMAIN device' = Device
  BY IoStepEffect
<1>3. "io" \in Thread /\ l \in LabelOf("io") /\ l \in LiveLabel \union ReleasingLabel
  BY Labels DEF IoLabel, Common, LiveLabel, ReleasingLabel
<1>4. OwnerType'  BY <1>2, OwnerKeptType DEF TypeInv
<1> QED  BY <1>1, <1>2, <1>3, <1>4, GoesType

\* The I/O thread is done with a write.
LEMMA WriteDoneEffect ==
  ASSUME TypeInv, WriteDone, IrpOf(job["io"]) \in Irp
  PROVE  /\ \E l \in {"decrement", "release"} :
              /\ Goto("io", l)
              /\ \/ l = "decrement" /\ job["io"].last /\ SetPhase(IrpOf(job["io"]), "done")
                 \/ l = "release" /\ ~job["io"].last /\ IrpsKept
         /\ pc["io"] = "write done" /\ job' = job /\ queue' = queue /\ item' = item
         /\ bufferFree' = [bufferFree EXCEPT ![job["io"].buffer] = TRUE]
         /\ UNCHANGED <<activeBuffer, requestsInUse, outstanding, device>> /\ OwnerKept
<1>0. IrpType  BY DEF TypeInv
<1>1. PICK i \in Irp : i = IrpOf(job["io"])  OBVIOUS
<1>2. CASE job["io"].last
  <2>1. PICK s : s = IF item[job["io"].item].success THEN "success" ELSE "error"  OBVIOUS
  <2>2. irp' = Completed(i, s, NoData) /\ Goto("io", "decrement")
    BY <1>1, <1>2, <2>1 DEF WriteDone, IrpOf
  <2>3. PICK d : d = NoData  OBVIOUS
  <2>4. SetPhase(i, "done")  BY <1>0, <2>2, <2>3, CompletedEffect
  <2> QED  BY <1>1, <1>2, <2>2, <2>4
             DEF WriteDone, pool, queues, idle, OwnerKept, control, disk
<1>3. CASE ~job["io"].last
  BY <1>0, <1>3, SameEffect DEF WriteDone, pool, queues, idle, OwnerKept, control, disk
<1> QED  BY <1>2, <1>3

LEMMA WriteDoneType ==
  ASSUME TypeInv, WriteDone, IrpOf(job["io"]) \in Irp, irp[IrpOf(job["io"])].phase # "new"
  PROVE  TypeInv'
<1>0. IrpType /\ ThreadType /\ QueueType /\ OwnerType  BY DEF TypeInv
<1>1. PICK l \in {"decrement", "release"} :
        /\ Goto("io", l)
        /\ \/ l = "decrement" /\ job["io"].last /\ SetPhase(IrpOf(job["io"]), "done")
           \/ l = "release" /\ ~job["io"].last /\ IrpsKept
  BY WriteDoneEffect
<1>2. /\ job' = job /\ queue' = queue /\ item' = item
      /\ bufferFree' = [bufferFree EXCEPT ![job["io"].buffer] = TRUE]
      /\ UNCHANGED <<activeBuffer, requestsInUse, outstanding, device>> /\ OwnerKept
  BY WriteDoneEffect
<1>3. "io" \in Thread /\ l \in LabelOf("io") /\ l \in ReleasingLabel
  BY Labels DEF IoLabel, Common, ReleasingLabel
<1>4. ThreadType'  BY <1>0, <1>1, <1>2, <1>3, ThreadGoes
<1>5. IrpType'
  <2>1. PICK i \in Irp : i = IrpOf(job["io"])  OBVIOUS
  <2>2. SetPhase(i, "done") \/ IrpsKept  BY <1>1, <2>1
  <2>3. irp[i].phase # "new" /\ "done" \in Phase  BY <2>1 DEF Phase
  <2> QED  BY <1>0, <2>2, <2>3, PhaseType, KeptType
<1>6. QueueType' /\ OwnerType'  BY <1>0, <1>2, OwnerKeptType DEF QueueType
<1>7. bufferFree' \in [Buffer -> BOOLEAN]  BY <1>2, Zenon DEF TypeInv
<1> QED  BY <1>2, <1>4, <1>5, <1>6, <1>7 DEF TypeInv

\* The I/O thread passes on what it read.
LEMMA ReadDoneEffect ==
  ASSUME TypeInv, ReadDone, IrpOf(job["io"]) \in Irp
  PROVE  /\ \E l \in {"read ahead", "dequeue"} :
              Goto("io", l) /\ outstanding' = outstanding + IF l = "read ahead" THEN 1 ELSE 0
         /\ IrpsKept /\ pc["io"] = "read done" /\ job' = [job EXCEPT !["io"] = NoJob]
         /\ queue' = [queue EXCEPT !["completion"] = Append(@, job["io"])]
         /\ item' = item /\ bufferFree' = [bufferFree EXCEPT ![job["io"].buffer] = TRUE]
         /\ UNCHANGED <<activeBuffer, requestsInUse, device>> /\ OwnerKept
<1>0. IrpType  BY DEF TypeInv
<1>1. PICK i \in Irp : i = IrpOf(job["io"])  OBVIOUS
<1>2. irp' = irp \/ \E d : irp' = [irp EXCEPT ![i].data = d]  BY <1>1, Zenon DEF ReadDone, IrpOf
<1>3. IrpsKept  BY <1>0, <1>2, SameEffect, DataEffect
<1>4. PICK b : b = (job["io"].last /\ lastRead.length > 0 /\ item[job["io"].item].success /\ pending = 0)
  OBVIOUS
<1>5. /\ Goto("io", IF b THEN "read ahead" ELSE "dequeue")
      /\ outstanding' = outstanding + IF b THEN 1 ELSE 0
  BY <1>4, Zenon DEF ReadDone
<1>6. \E l \in {"read ahead", "dequeue"} :
        Goto("io", l) /\ outstanding' = outstanding + IF l = "read ahead" THEN 1 ELSE 0
  <2>1. CASE b  BY <1>5, <2>1
  <2>2. CASE ~b  BY <1>5, <2>2
  <2> QED  BY <2>1, <2>2
<1> QED  BY <1>3, <1>6, Zenon DEF ReadDone, pool, queues, idle, OwnerKept, control, disk

LEMMA CountType ==
  ASSUME outstanding \in Int, ReadDone  PROVE outstanding' \in Int
<1>1. \E n \in {0, 1} : outstanding' = outstanding + n  BY Zenon DEF ReadDone
<1> QED  BY <1>1

LEMMA ReadDoneType ==
  ASSUME TypeInv, ReadDone, IrpOf(job["io"]) \in Irp
  PROVE  TypeInv'
<1>0. IrpType /\ ThreadType /\ QueueType /\ OwnerType  BY DEF TypeInv
<1>1. PICK l \in {"read ahead", "dequeue"} :
        Goto("io", l) /\ outstanding' = outstanding + IF l = "read ahead" THEN 1 ELSE 0
  BY ReadDoneEffect
<1>2. /\ IrpsKept /\ job' = [job EXCEPT !["io"] = NoJob]
      /\ queue' = [queue EXCEPT !["completion"] = Append(@, job["io"])]
      /\ item' = item /\ bufferFree' = [bufferFree EXCEPT ![job["io"].buffer] = TRUE]
      /\ UNCHANGED <<activeBuffer, requestsInUse, device>> /\ OwnerKept
  BY ReadDoneEffect
<1>3. "io" \in Thread /\ l \in LabelOf("io")  BY Labels DEF IoLabel, Common
<1>4. ThreadType'  BY <1>0, <1>1, <1>2, <1>3, ThreadStep, NoJobType
<1>5. IrpType' /\ OwnerType'  BY <1>0, <1>2, KeptType, OwnerKeptType
<1>6. QueueType'
  <2>1. PICK r \in Job : r = job["io"]  BY <1>0, <1>3 DEF ThreadType
  <2>2. Append(queue["completion"], r) \in Seq(Job)  BY <1>0, AppendJobs DEF QueueType
  <2> QED  BY <1>0, <1>2, <2>1, <2>2 DEF QueueType, Thread
<1>7. bufferFree' \in [Buffer -> BOOLEAN] /\ outstanding' \in Int  BY <1>2, CountType DEF TypeInv
<1> QED  BY <1>2, <1>4, <1>5, <1>6, <1>7 DEF TypeInv

LEMMA TakeCompletionEffect ==
  ASSUME TypeInv, TakeCompletion
  PROVE  \E r \in Job :
           /\ r = Head(queue["completion"]) /\ queue["completion"] # <<>>
           /\ Tail(queue["completion"]) \in Seq(Job)
           /\ Goto("completion", "decrypt") /\ job' = [job EXCEPT !["completion"] = r]
           /\ queue' = [queue EXCEPT !["completion"] = Tail(@)]
<1>1. /\ queue["completion"] # <<>> /\ Head(queue["completion"]) \in Job
      /\ Tail(queue["completion"]) \in Seq(Job)
  BY TailJobs DEF TakeCompletion, TypeInv, QueueType
<1> QED  BY <1>1 DEF TakeCompletion

LEMMA TakeCompletionType ==
  ASSUME TypeInv, TakeCompletion
  PROVE  TypeInv'
<1>0. IrpType /\ ThreadType /\ QueueType /\ OwnerType  BY DEF TypeInv
<1>1. PICK r \in Job :
           /\ Tail(queue["completion"]) \in Seq(Job)
           /\ Goto("completion", "decrypt") /\ job' = [job EXCEPT !["completion"] = r]
           /\ queue' = [queue EXCEPT !["completion"] = Tail(@)]
  BY TakeCompletionEffect
<1>2. "completion" \in Thread /\ "decrypt" \in LabelOf("completion") /\ "decrypt" \in LiveLabel
  BY Labels DEF CompletionLabel, LiveLabel
<1>3. ThreadType'  BY <1>0, <1>1, <1>2, ThreadStep
<1>4. IrpType' /\ OwnerType'
  BY <1>0, SameEffect, KeptType, OwnerKeptType DEF TakeCompletion, OwnerKept, control, disk
<1>5. QueueType'  BY <1>0, <1>1 DEF QueueType, Thread
<1>6. UNCHANGED <<item, bufferFree, activeBuffer, requestsInUse, outstanding, device>>
  BY DEF TakeCompletion, pool, idle, disk, buffers
<1> QED  BY <1>3, <1>4, <1>5, <1>6 DEF TypeInv

\* The completion thread is done with a read.
LEMMA CompleteReadEffect ==
  ASSUME TypeInv, CompleteRead, IrpOf(job["completion"]) \in Irp
  PROVE  /\ \E l \in {"decrement", "release"} :
              /\ Goto("completion", l)
              /\ \/ /\ l = "decrement" /\ job["completion"].last
                    /\ SetPhase(IrpOf(job["completion"]), "done")
                 \/ l = "release" /\ ~job["completion"].last /\ IrpsKept
         /\ pc["completion"] = "decrypt" /\ job' = job /\ queue' = queue /\ item' = item
         /\ UNCHANGED <<bufferFree, activeBuffer, requestsInUse, outstanding, device>> /\ OwnerKept
<1>0. IrpType  BY DEF TypeInv
<1>1. PICK i \in Irp : i = IrpOf(job["completion"])  OBVIOUS
<1>2. CASE job["completion"].last
  <2>1. PICK s, d : irp' = Completed(i, s, d) /\ Goto("completion", "decrement")
    BY <1>1, <1>2, Zenon DEF CompleteRead, IrpOf
  <2>2. SetPhase(i, "done")  BY <1>0, <2>1, CompletedEffect
  <2> QED
    BY <1>1, <1>2, <2>1, <2>2, Zenon
      DEF CompleteRead, pool, queues, buffers, idle, OwnerKept, control, disk
<1>3. CASE ~job["completion"].last
  <2>1. PICK d : irp' = [irp EXCEPT ![i].data = d] /\ Goto("completion", "release")
    BY <1>1, <1>3, Zenon DEF CompleteRead, IrpOf
  <2>2. IrpsKept  BY <1>0, <2>1, DataEffect
  <2> QED
    BY <1>3, <2>1, <2>2, Zenon
      DEF CompleteRead, pool, queues, buffers, idle, OwnerKept, control, disk
<1> QED  BY <1>2, <1>3

LEMMA CompleteReadType ==
  ASSUME TypeInv, CompleteRead, IrpOf(job["completion"]) \in Irp,
         irp[IrpOf(job["completion"])].phase # "new"
  PROVE  TypeInv'
<1>0. IrpType /\ ThreadType /\ QueueType /\ OwnerType  BY DEF TypeInv
<1>1. PICK l \in {"decrement", "release"} :
        /\ Goto("completion", l)
        /\ \/ /\ l = "decrement" /\ job["completion"].last
              /\ SetPhase(IrpOf(job["completion"]), "done")
           \/ l = "release" /\ ~job["completion"].last /\ IrpsKept
  BY CompleteReadEffect
<1>2. /\ job' = job /\ queue' = queue /\ item' = item
      /\ UNCHANGED <<bufferFree, activeBuffer, requestsInUse, outstanding, device>> /\ OwnerKept
  BY CompleteReadEffect
<1>3. "completion" \in Thread /\ l \in LabelOf("completion") /\ l \in ReleasingLabel
  BY Labels DEF CompletionLabel, Common, ReleasingLabel
<1>4. ThreadType'  BY <1>0, <1>1, <1>2, <1>3, ThreadGoes
<1>5. IrpType'
  <2>1. PICK i \in Irp : i = IrpOf(job["completion"])  OBVIOUS
  <2>2. SetPhase(i, "done") \/ IrpsKept  BY <1>1, <2>1
  <2>3. irp[i].phase # "new" /\ "done" \in Phase  BY <2>1 DEF Phase
  <2> QED  BY <1>0, <2>2, <2>3, PhaseType, KeptType
<1>6. QueueType' /\ OwnerType'  BY <1>0, <1>2, OwnerKeptType DEF QueueType
<1> QED  BY <1>2, <1>4, <1>5, <1>6 DEF TypeInv

LEMMA OwnerEffect ==
  ASSUME TypeInv, Owner
  PROVE  OwnerOnly /\ OwnerType' /\ DOMAIN device' = Device
<1>1. OwnerType /\ DOMAIN device = Device  BY DEF TypeInv
<1>2. CASE BeginHold \/ CheckIdle \/ AwaitIdle \/ HoldFails \/ Recheck \/ Suspend
  BY <1>1, <1>2
    DEF BeginHold, CheckIdle, AwaitIdle, HoldFails, Recheck, Suspend, Go, ownerUnchanged,
     pool, queues, buffers, disk, idle, OwnerOnly, OwnerType
<1>3. CASE ConfirmIdle \/ ResumeFromHold \/ BeginStop
  BY <1>1, <1>3 DEF ConfirmIdle, ResumeFromHold, BeginStop, Go, ownerUnchanged,
     pool, queues, buffers, disk, idle, OwnerOnly, OwnerType
<1>4. CASE Convert
  <2>1. OwnerOnly /\ DOMAIN device' = Device /\ UNCHANGED <<area, suspended, resumed, stopPending>>
    BY <1>1, <1>4 DEF Convert, OwnerOnly, pool, queues, buffers, idle
  <2>2. \/ owner' = "encrypted" /\ AreaStart + area < DeviceLength
        \/ owner' = "decrypted" /\ area > 0
    BY <1>4 DEF Convert, Go
  <2>3. IsFilterDevice  BY <1>1, <1>4 DEF Convert, OwnerType
  <2> QED  BY <1>1, <2>1, <2>2, <2>3 DEF OwnerType
<1>5. CASE MoveArea
  <2>1. /\ OwnerOnly /\ device' = device /\ UNCHANGED <<suspended, resumed, stopPending>>
        /\ owner' = "converted" /\ owner \in {"encrypted", "decrypted"}
    BY <1>5 DEF MoveArea, OwnerOnly, pool, queues, buffers, idle, Go
  <2>2. area' \in 0 .. DeviceLength - AreaStart
    <3>1. AreaStart \in Nat /\ DeviceLength \in Nat  BY QueueAssumption
    <3>2. CASE owner = "encrypted"  BY <1>1, <1>5, <3>1, <3>2 DEF MoveArea, OwnerType
    <3>3. CASE owner = "decrypted"  BY <1>5, <3>3, <1>1, <3>1 DEF MoveArea, OwnerType
    <3> QED  BY <1>5, <3>2, <3>3 DEF MoveArea
  <2> QED  BY <1>1, <2>1, <2>2 DEF OwnerType
<1>6. CASE StopQueue
  <2>1. OwnerOnly /\ device' = device /\ UNCHANGED <<area, suspended, resumed, stopPending>>
    BY <1>6 DEF StopQueue, OwnerOnly, pool, buffers, disk
  <2>2. owner' \in {"stopping", "wait stop", "main", "io", "completion", "stopped"}
    BY <1>6 DEF StopQueue, Go
  <2>3. owner' # "encrypted" /\ owner' # "decrypted"  BY <2>2
  <2> QED  BY <1>1, <2>1, <2>2, <2>3 DEF OwnerType
<1> QED  BY <1>2, <1>3, <1>4, <1>5, <1>6 DEF Owner, Holding

LEMMA OwnerStepType ==
  ASSUME TypeInv, Owner
  PROVE  TypeInv'
<1>1. OwnerOnly /\ OwnerType' /\ DOMAIN device' = Device  BY OwnerEffect
<1>2. IrpType' /\ QueueType' /\ ThreadType'
  BY <1>1, SameEffect, KeptType
    DEF TypeInv, QueueType, ThreadType, OwnerOnly, Live, Releasing
<1> QED  BY <1>1, <1>2 DEF TypeInv, OwnerOnly

-----------------------------------------------------------------------------
(* Requests in flight.                                                     *)

\* The order of the requests, as they move on.
LEMMA OrderNew ==
  ASSUME NEW hc, NEW qc, NEW hi, NEW qi, NEW j, InOrder(hc, qc, hi, qi, {}),
         \A k \in hc \union Jobs(qc) \union hi \union Jobs(qi) : k.item # j.item
  PROVE  InOrder(hc, qc, hi, qi, {j})
BY DEF InOrder, AllApart, Apart

LEMMA OrderSame ==
  ASSUME NEW hc, NEW qc, NEW hi, NEW qi, NEW j, NEW k, InOrder(hc, qc, hi, qi, {j}), k.item = j.item,
         k.from = j.from
  PROVE  InOrder(hc, qc, hi, qi, {k})
BY DEF InOrder, AllApart, Apart

LEMMA OrderQueued ==
  ASSUME NEW hc \in SUBSET Job, NEW qc, Jobs(qc) \subseteq Job, NEW hi \in SUBSET Job,
         NEW qi \in Seq(Job), NEW j \in Job, NEW f \in Job, NEW hm,
         InOrder(hc, qc, hi, qi, {j}), f.item = j.item, f.from = j.from,
         hm = {} \/ (~f.last /\ \E k \in Job : /\ hm = {k} /\ k.item = j.item
                                               /\ k.from = j.from + f.length)
  PROVE  InOrder(hc, qc, hi, Append(qi, f), hm)
<1>1. /\ Jobs(Append(qi, f)) = Jobs(qi) \union {f}
      /\ Ordered(qi) /\ (\A k \in Jobs(qi) : Apart(k, f)) => Ordered(Append(qi, f))
  BY AppendJobs
<1>2. \A k \in hc \union Jobs(qc) \union hi \union Jobs(qi) : Apart(k, j) /\ Apart(k, f)
  BY DEF InOrder, AllApart, Apart
<1>3. Ordered(Append(qi, f))  BY <1>1, <1>2 DEF InOrder
<1>4. \A l \in hm : /\ Apart(f, l) /\ l.item = j.item /\ l.from \in Nat
                   /\ j.from \in Nat /\ j.from <= l.from
  BY DEF Apart, Job
<1>5. ASSUME NEW k \in hc \union Jobs(qc) \union hi \union Jobs(qi), NEW l \in hm
      PROVE  Apart(k, l)
  <2>1. k \in Job  BY DEF Jobs
  <2>2. k.from + k.length \in Nat  BY <2>1 DEF Job
  <2> QED  BY <1>2, <1>4, <2>2 DEF Apart
<1> QED  BY <1>1, <1>2, <1>3, <1>4, <1>5 DEF InOrder, AllApart

LEMMA OrderTakenIo ==
  ASSUME NEW hc, NEW qc, NEW S, NEW qi \in Seq(S), NEW hm, NEW r, qi # <<>>, r = Head(qi),
         InOrder(hc, qc, {}, qi, hm)
  PROVE  InOrder(hc, qc, {r}, Tail(qi), hm)
<1>1. /\ Jobs(qi) = {r} \union Jobs(Tail(qi))
      /\ Ordered(qi) => Ordered(Tail(qi)) /\ \A j \in Jobs(Tail(qi)) : Apart(r, j)
  BY TailJobs
<1> QED  BY <1>1 DEF InOrder, AllApart

LEMMA OrderDone ==
  ASSUME NEW hc, NEW qc, NEW hi, NEW qi, NEW hm, InOrder(hc, qc, hi, qi, hm)
  PROVE  InOrder({}, qc, hi, qi, hm) /\ InOrder(hc, qc, {}, qi, hm) /\ InOrder(hc, qc, hi, qi, {})
BY DEF InOrder, AllApart

LEMMA OrderPassed ==
  ASSUME NEW hc, NEW S, NEW qc \in Seq(S), NEW r \in S, NEW qi, NEW hm,
         InOrder(hc, qc, {r}, qi, hm)
  PROVE  InOrder(hc, Append(qc, r), {}, qi, hm)
<1>1. /\ Jobs(Append(qc, r)) = Jobs(qc) \union {r}
      /\ Ordered(qc) /\ (\A k \in Jobs(qc) : Apart(k, r)) => Ordered(Append(qc, r))
  BY AppendJobs
<1> QED  BY <1>1 DEF InOrder, AllApart

LEMMA OrderTakenCompletion ==
  ASSUME NEW S, NEW qc \in Seq(S), NEW hi, NEW qi, NEW hm, NEW r, qc # <<>>, r = Head(qc),
         InOrder({}, qc, hi, qi, hm)
  PROVE  InOrder({r}, Tail(qc), hi, qi, hm)
<1>1. /\ Jobs(qc) = {r} \union Jobs(Tail(qc))
      /\ Ordered(qc) => Ordered(Tail(qc)) /\ \A j \in Jobs(Tail(qc)) : Apart(r, j)
  BY TailJobs
<1> QED  BY <1>1 DEF InOrder, AllApart

LEMMA SteadyAlive ==
  ASSUME Steady, NEW j, Alive(j)
  PROVE  Alive(j)' /\ (IsWrite(j)' <=> IsWrite(j)) /\ IrpOf(j)' = IrpOf(j)
BY DEF Steady, ItemsKept, Alive, IsWrite, IrpOf

LEMMA KeptSteady ==
  ASSUME IrpsKept, item' = item \/ ItemsKept  PROVE Steady
BY DEF IrpsKept, Steady, ItemsKept

\* A thread passes over to another step of what it does with what it has.
LEMMA QuietFlow ==
  ASSUME TypeInv, Flow, Steady, job' = job, queue'["io"] = queue["io"],
         queue'["completion"] = queue["completion"],
         \A t \in Thread : pc'[t] \in LiveLabel <=> pc[t] \in LiveLabel,
         \A t \in Thread : pc'[t] \in ReleasingLabel /\ job[t].last => pc[t] \in ReleasingLabel,
         pc'["main"] \in ReleasingLabel => pc["main"] \in ReleasingLabel,
         pc'["io"] \in {"write", "write done"} => pc["io"] \in {"write", "write done"},
         pc'["io"] \in {"read", "read done"} => pc["io"] \in {"read", "read done"}
  PROVE  Flow'
<1>1. \A t \in Thread : Hand(t)' = Hand(t)  BY DEF Hand, HandOf
<1>2. /\ Hand("main")' = Hand("main") /\ Hand("io")' = Hand("io")
      /\ Hand("completion")' = Hand("completion")
  BY <1>1 DEF Thread
<1>3. OrderInv'  BY <1>2 DEF OrderInv, Flow
<1>4. Flight' = Flight  BY <1>2 DEF Flight
<1>5. \A j \in Flight : Alive(j) /\ Alive(j)' /\ (IsWrite(j)' <=> IsWrite(j))
  BY SteadyAlive DEF Flow, FlightInv
<1>6. FlightInv'
  <2>1. \A j \in Jobs(queue'["completion"]) \union Hand("completion")' : ~IsWrite(j)'
    BY <1>2, <1>5 DEF Flow, FlightInv, Flight
  <2>2. pc["io"] \in LiveLabel => job["io"] \in Flight  BY DEF Flight, Hand, HandOf
  <2>3. /\ pc'["io"] \in {"write", "write done"} => IsWrite(job["io"])'
        /\ pc'["io"] \in {"read", "read done"} => ~IsWrite(job["io"])'
    BY <1>5, <2>2 DEF Flow, FlightInv, LiveLabel
  <2>4. pc'["main"] \in LiveLabel => job["main"].last  BY DEF Flow, FlightInv, Live, Thread
  <2>5. \A j \in Flight' : Alive(j)'  BY <1>4, <1>5
  <2> QED  BY <2>1, <2>3, <2>4, <2>5 DEF FlightInv, Live
<1>7. ItemInv'
  <2>1. \A x \in Item : item'[x].irp = item[x].irp  BY DEF Steady, ItemsKept
  <2>2. \A x \in Item : item[x].irp \in Irp \union {NoIrp}  BY DEF TypeInv
  <2>3. \A x, y \in Item : item'[x].irp = item'[y].irp /\ item'[x].irp # NoIrp => x = y
    BY <2>1, ZenonT(60) DEF Flow, ItemInv
  <2>4. \A x \in Item : item'[x].irp # NoIrp => irp'[item'[x].irp].phase \in {"active", "done"}
    BY <2>1, <2>2, ZenonT(60) DEF Flow, ItemInv, Steady
  <2>5. ASSUME NEW t \in Thread, pc'[t] \in ReleasingLabel, job[t].last
        PROVE  /\ job[t].item \in Item /\ item'[job[t].item].irp \in Irp
               /\ irp'[item'[job[t].item].irp].phase = "done"
               /\ \A u \in Thread : pc'[u] \in ReleasingLabel /\ job[u].last
                                      /\ job[u].item = job[t].item => u = t
    BY <2>1, <2>5 DEF Flow, ItemInv, Steady, Releasing, IrpOf
  <2>6. pc'["main"] \in ReleasingLabel => job["main"].last  BY DEF Flow, ItemInv, Releasing
  <2> QED  BY <2>3, <2>4, <2>5, <2>6 DEF ItemInv, Releasing, IrpOf
<1> QED  BY <1>3, <1>6, <1>7 DEF Flow

LEMMA ClientEffect ==
  ASSUME TypeInv, NEW i \in Irp, Client(i)
  PROVE  /\ Submitted(i) \/ Added(i) \/ Rejected(i) \/ Cancelled
         /\ UNCHANGED <<pool, pc, job, buffers, device, control>>
<1>0. IrpType  BY DEF TypeInv
<1>1. CASE Submit(i)
  <2>1. PICK r \in Request : irp' = [irp EXCEPT ![i].phase = "adding", ![i].request = r]
    BY <1>1 DEF Submit
  <2>2. OthersKept(i, "adding")  BY <1>0, <2>1, SubmitEffect DEF OthersKept
  <2> QED  BY <1>1, <2>2 DEF Submit, Submitted, queues, disk
<1>2. CASE AddIrp(i)
  <2>1. OthersKept(i, "queued")
    BY <1>0, <1>2, AddEffect, ZenonT(60) DEF AddIrp, OthersKept, SetPhase
  <2> QED  BY <1>2, <2>1 DEF AddIrp, Added, disk, idle
<1>3. CASE RejectIrp(i)
  <2>1. PICK e : irp' = [irp EXCEPT ![i].phase = "done", ![i].status = e]  BY <1>3 DEF RejectIrp
  <2>2. OthersKept(i, "done")  BY <1>0, <2>1, RejectEffect DEF OthersKept, SetPhase
  <2> QED  BY <1>3, <2>2 DEF RejectIrp, Rejected, queues, disk
<1>4. CASE CancelIrp(i)  BY <1>0, <1>4, CancelEffect DEF CancelIrp, Cancelled, queues, disk, idle
<1> QED  BY <1>1, <1>2, <1>3, <1>4 DEF Client

LEMMA ClientFlow ==
  ASSUME TypeInv, Flow, NEW i \in Irp, Client(i)
  PROVE  Flow'
<1>1. /\ Submitted(i) \/ Added(i) \/ Rejected(i) \/ Cancelled
      /\ UNCHANGED <<pool, pc, job, buffers, device, control>>
  BY ClientEffect
<1>2. pc' = pc /\ job' = job /\ item' = item  BY <1>1 DEF pool
<1>3. queue'["io"] = queue["io"] /\ queue'["completion"] = queue["completion"]
  BY <1>1 DEF Submitted, Added, Rejected, Cancelled, TypeInv, QueueType, Thread
<1>4. Steady
  <2>1. CASE Cancelled  BY <1>2, <2>1, KeptSteady DEF Cancelled
  <2>2. CASE Submitted(i) \/ Added(i) \/ Rejected(i)
    BY <2>2, QueueAssumption, <1>2 DEF Submitted, Added, Rejected, Flow, ItemInv, Steady,
       ItemsKept, OthersKept
  <2> QED  BY <1>1, <2>1, <2>2
<1> QED  BY <1>2, <1>3, <1>4, QuietFlow

LEMMA OwnerFlow ==
  ASSUME TypeInv, Flow, Owner
  PROVE  Flow'
<1>1. OwnerOnly  BY OwnerEffect
<1>2. Steady  BY <1>1, SameEffect, KeptSteady DEF TypeInv, OwnerOnly
<1> QED  BY <1>1, <1>2, QuietFlow DEF OwnerOnly

LEMMA PassOverEffect ==
  ASSUME TypeInv, NEW t \in Thread, PassOver(t)
  PROVE  /\ irp' = irp /\ item' = item /\ job' = job /\ queue' = queue
         /\ bufferFree' = bufferFree /\ requestsInUse' = requestsInUse /\ device' = device
         /\ \A u \in Thread : u # t => pc'[u] = pc[u]
         /\ pc'[t] \in LiveLabel <=> pc[t] \in LiveLabel
         /\ pc'[t] \in ReleasingLabel <=> pc[t] \in ReleasingLabel
         /\ pc'[t] \in {"write", "write done", "read", "read done", "read ahead", "buffer"}
              => pc'[t] = pc[t]
         /\ pc[t] = "buffer" => pc'[t] = pc[t]
<1>1. /\ irp' = irp /\ item' = item /\ job' = job /\ queue' = queue
      /\ bufferFree' = bufferFree /\ requestsInUse' = requestsInUse /\ device' = device
  BY
    DEF PassOver, Wait, QueueEmpty, Decrement, SignalNoOutstanding, TakeIrp, AwaitResume,
        AwaitPool,
         pool, queues, buffers, disk
<1>2. pc \in [Thread -> AnyLabel]  BY DEF TypeInv, ThreadType
<1>3. CASE Wait(t) \/ QueueEmpty(t)
  <2>1. PICK l \in {"dequeue", "wait", "stopped"} : pc' = [pc EXCEPT ![t] = l]
    BY <1>3 DEF Wait, QueueEmpty, Goto
  <2>2. pc[t] \in {"wait", "dequeue"}  BY <1>3 DEF Wait, QueueEmpty
  <2> QED  BY <1>1, <1>2, <2>1, <2>2 DEF LiveLabel, ReleasingLabel
<1>4. CASE Decrement(t) \/ SignalNoOutstanding(t)
  <2>1. PICK l \in {"signal", "release"} : pc' = [pc EXCEPT ![t] = l]
    BY <1>4 DEF Decrement, SignalNoOutstanding, Goto
  <2>2. pc[t] \in {"decrement", "signal"}  BY <1>4 DEF Decrement, SignalNoOutstanding
  <2> QED  BY <1>1, <1>2, <2>1, <2>2 DEF LiveLabel, ReleasingLabel
<1>5. CASE t = "main" /\ (TakeIrp \/ AwaitResume)
  <2>1. PICK l \in {"suspended", "item"} : pc' = [pc EXCEPT ![t] = l]
    BY <1>5 DEF TakeIrp, AwaitResume, Goto
  <2>2. pc[t] \in {"dequeue", "suspended"}  BY <1>5 DEF TakeIrp, AwaitResume
  <2> QED  BY <1>1, <1>2, <2>1, <2>2 DEF LiveLabel, ReleasingLabel
<1>6. CASE t = "main" /\ AwaitPool
  BY <1>6, <1>1, <1>2 DEF AwaitPool, Goto, LiveLabel, ReleasingLabel
<1> QED  BY <1>3, <1>4, <1>5, <1>6 DEF PassOver

LEMMA PassOverFlow ==
  ASSUME TypeInv, Flow, NEW t \in Thread, PassOver(t)
  PROVE  Flow'
<1>1. /\ irp' = irp /\ item' = item /\ job' = job /\ queue' = queue
      /\ \A u \in Thread : u # t => pc'[u] = pc[u]
      /\ pc'[t] \in LiveLabel <=> pc[t] \in LiveLabel
      /\ pc'[t] \in ReleasingLabel <=> pc[t] \in ReleasingLabel
      /\ pc'[t] \in {"write", "write done", "read", "read done", "read ahead", "buffer"}
           => pc'[t] = pc[t]
  BY PassOverEffect
<1>2. Steady  BY <1>1, SameEffect, KeptSteady DEF TypeInv
<1>3. "main" \in Thread /\ "io" \in Thread  BY DEF Thread
<1>4. \A u \in Thread : /\ pc'[u] \in LiveLabel <=> pc[u] \in LiveLabel
                        /\ pc'[u] \in ReleasingLabel <=> pc[u] \in ReleasingLabel
                        /\ pc'[u] \in {"write", "write done", "read", "read done"} => pc'[u] = pc[u]
  BY <1>1
<1> QED  BY <1>1, <1>2, <1>3, <1>4, QuietFlow

LEMMA IoStepFlow ==
  ASSUME TypeInv, Flow, IoStep
  PROVE  Flow'
<1>1. PICK l \in {"write done", "read done", "decrement"} :
              /\ Goto("io", l)
              /\ \/ l = "write done" /\ pc["io"] = "write"
                 \/ l = "read done" /\ pc["io"] = "read"
                 \/ l = "decrement" /\ pc["io"] = "read ahead"
  BY IoStepEffect
<1>2. job' = job /\ irp' = irp /\ queue' = queue /\ ItemsKept  BY IoStepEffect
<1>3. Steady  BY <1>2, SameEffect, KeptSteady DEF TypeInv
<1>4. pc \in [Thread -> AnyLabel] /\ NoJob.last = FALSE  BY NoJobType DEF TypeInv, ThreadType
<1>5. pc'["io"] = l /\ \A u \in Thread : u # "io" => pc'[u] = pc[u]  BY <1>1, <1>4 DEF Goto, Thread
<1>6. pc["io"] = "read ahead" => job["io"] = NoJob
  BY DEF TypeInv, ThreadType, Live, Releasing, LiveLabel, ReleasingLabel, Thread
<1>7. pc'["io"] \in LiveLabel <=> pc["io"] \in LiveLabel  BY <1>1, <1>5 DEF LiveLabel
<1>8. pc'["io"] \in ReleasingLabel /\ job["io"].last => pc["io"] \in ReleasingLabel
  BY <1>1, <1>4, <1>5, <1>6 DEF ReleasingLabel
<1> QED  BY <1>1, <1>2, <1>3, <1>5, <1>7, <1>8, QuietFlow DEF Thread

\* The first of the IRPs that wait.
LEMMA FirstOf ==
  ASSUME NEW S, NEW q \in Seq(S), q # <<>>
  PROVE  1 \in DOMAIN q /\ Head(q) = q[1]
OBVIOUS

LEMMA FirstWaiting ==
  ASSUME TypeInv, WaitingInv, pc["main"] \in {"item", "no item", "suspended"}
  PROVE  /\ queue["main"] # <<>> /\ Head(queue["main"]) \in Irp
         /\ irp[Head(queue["main"])].phase = "queued"
<1>1. queue["main"] # <<>> /\ queue["main"] \in Seq(Irp)  BY DEF WaitingInv, TypeInv, QueueType
<1>2. PICK q \in Seq(Irp) : q = queue["main"]  BY <1>1
<1>3. q # <<>>  BY <1>1, <1>2
<1>4. Head(q) \in Irp  BY <1>3, TailJobs
<1>5. 1 \in DOMAIN q /\ Head(q) = q[1]  BY <1>3, FirstOf
<1>6. irp[q[1]].phase = "queued"  BY <1>2, <1>5 DEF WaitingInv
<1> QED  BY <1>1, <1>2, <1>4, <1>5, <1>6

LEMMA HandIs ==
  ASSUME NEW t \in Thread
  PROVE  /\ Live(t) => Hand(t) = {job[t]} /\ job[t] \in Flight
         /\ ~Live(t) => Hand(t) = {}
BY DEF Live, Hand, HandOf, Flight, Thread

LEMMA NextHandIs ==
  ASSUME NEW t \in Thread
  PROVE  /\ pc'[t] \in LiveLabel => Hand(t)' = {job'[t]}
         /\ pc'[t] \notin LiveLabel => Hand(t)' = {}
         /\ pc'[t] = pc[t] /\ job'[t] = job[t] => Hand(t)' = Hand(t)
BY DEF Live, Hand, HandOf

LEMMA DispatchFlow ==
  ASSUME TypeInv, Flow, WaitingInv, Dispatch
  PROVE  Flow'
<1>1. /\ Head(queue["main"]) \in Irp /\ irp[Head(queue["main"])].phase = "queued"
      /\ pc["main"] = "item"
  BY FirstWaiting DEF Dispatch
<1>2. PICK i \in Irp, x \in Item, success \in BOOLEAN, phase \in {"active", "done"},
           label \in {"request", "decrement"} : Dispatched(i, x, success, phase, label)
  BY <1>1, DispatchEffect DEF TypeInv
<1>3. PICK j : j = NewJob(x, irp[i].request.offset + DataOffset, irp[i].request.length)  OBVIOUS
<1>4. j.item = x /\ j.last = TRUE /\ j.length = irp[i].request.length  BY <1>3 DEF NewJob
<1>5. /\ pc'["main"] = label /\ job'["main"] = j
      /\ pc'["io"] = pc["io"] /\ pc'["completion"] = pc["completion"]
      /\ job'["io"] = job["io"] /\ job'["completion"] = job["completion"]
  BY <1>2, <1>3 DEF Dispatched, Goto, TypeInv, ThreadType, Thread
<1>6. queue'["io"] = queue["io"] /\ queue'["completion"] = queue["completion"]
  BY <1>2 DEF Dispatched, TypeInv, QueueType, Thread
<1>7. /\ item[x].irp = NoIrp /\ item'[x].irp = i /\ irp[i].phase = "queued"
      /\ \A y \in Item : y # x => item'[y] = item[y]
      /\ \A y \in Item : item[y].irp # i
  <2>1. item[x].irp = NoIrp /\ irp[i].phase = "queued" /\ i # NoIrp
    BY <1>1, <1>2, QueueAssumption DEF Dispatched, FreeItem
  <2>2. item'[x].irp = i /\ \A y \in Item : y # x => item'[y] = item[y]
    BY <1>2 DEF Dispatched, TypeInv
  <2>3. \A y \in Item : item[y].irp # i  BY <2>1 DEF Flow, ItemInv
  <2> QED  BY <2>1, <2>2, <2>3
<1>8. /\ irp'[i].phase = phase /\ irp'[i].request = irp[i].request
      /\ \A k \in Irp \ {i} : irp'[k].phase = irp[k].phase /\ irp'[k].request = irp[k].request
  BY <1>2 DEF Dispatched, SetPhase
<1>9. NoIrp \notin Irp  BY QueueAssumption
<1>10. ASSUME NEW k \in Flight
       PROVE  k.item # x /\ Alive(k)' /\ (IsWrite(k)' <=> IsWrite(k))
  <2>1. Alive(k)  BY DEF Flow, FlightInv
  <2>2. k.item # x /\ item'[k.item] = item[k.item] /\ IrpOf(k) \in Irp \ {i}
    BY <1>7, <1>9, <2>1 DEF Alive, IrpOf
  <2> QED  BY <1>8, <2>1, <2>2 DEF Alive, IsWrite, IrpOf
<1>11. Hand("main") = {} /\ Hand("io")' = Hand("io") /\ Hand("completion")' = Hand("completion")
  BY <1>1, <1>5, HandIs, NextHandIs DEF Thread, Live, LiveLabel
<1>12. (phase = "active" /\ label = "request") \/ (phase = "done" /\ label = "decrement")
  BY <1>2 DEF Dispatched
<1>13. label = "request" => Alive(j)'
  BY <1>7, QueueAssumption, <1>4, <1>8, <1>12 DEF TypeInv, IrpType, Alive, IrpOf
<1>14. Hand("main")' = IF label = "request" THEN {j} ELSE {}
  BY <1>5, NextHandIs DEF Thread, LiveLabel
<1>15. Flight' = Flight \union Hand("main")'  BY <1>6, <1>11 DEF Flight
<1>16. FlightInv'
  <2>1. \A k \in Flight' : Alive(k)'  BY <1>10, <1>13, <1>14, <1>15
  <2>2. \A k \in Jobs(queue'["completion"]) \union Hand("completion")' : ~IsWrite(k)'
    BY <1>6, <1>10, <1>11 DEF Flow, FlightInv, Flight
  <2>3. pc["io"] \in LiveLabel => job["io"] \in Flight  BY HandIs DEF Live, Thread
  <2>4. /\ pc'["io"] \in {"write", "write done"} => IsWrite(job["io"])'
        /\ pc'["io"] \in {"read", "read done"} => ~IsWrite(job["io"])'
    <3>1. PICK r : r = job["io"]  OBVIOUS
    <3>2. /\ pc["io"] \in {"write", "write done"} => IsWrite(r)'
          /\ pc["io"] \in {"read", "read done"} => ~IsWrite(r)'
      BY <1>10, <2>3, <3>1 DEF Flow, FlightInv, LiveLabel
    <3> QED  BY <1>5, <3>1, <3>2 DEF IsWrite, IrpOf
  <2>5. job'["main"].last  BY <1>4, <1>5
  <2> QED  BY <2>1, <2>2, <2>4, <2>5 DEF FlightInv, Live
<1>17. OrderInv'
  <2>1. InOrder(Hand("completion"), queue["completion"], Hand("io"), queue["io"], {})
    BY <1>11 DEF Flow, OrderInv
  <2>2. \A k \in Hand("completion") \union Jobs(queue["completion"]) \union Hand("io")
                   \union Jobs(queue["io"]) : k.item # j.item
    BY <1>4, <1>10 DEF Flight
  <2>3. InOrder(Hand("completion"), queue["completion"], Hand("io"), queue["io"], {j})
    BY <2>1, <2>2, OrderNew
  <2> QED  BY <1>6, <1>11, <1>14, <2>1, <2>3 DEF OrderInv
<1>18. ItemInv'
  <2>1. \A y, z \in Item : item'[y].irp = item'[z].irp /\ item'[y].irp # NoIrp => y = z
    BY <1>7 DEF Flow, ItemInv
  <2>2. \A y \in Item : item'[y].irp # NoIrp => irp'[item'[y].irp].phase \in {"active", "done"}
    BY <1>7, <1>8 DEF TypeInv, Flow, ItemInv
  <2>3. \A t \in Thread : t # "main" =>
          /\ pc'[t] = pc[t] /\ job'[t] = job[t]
          /\ pc[t] \in ReleasingLabel /\ job[t].last =>
               /\ job[t].item \in Item /\ job[t].item # x
               /\ item'[job[t].item] = item[job[t].item]
               /\ item[job[t].item].irp \in Irp \ {i}
               /\ irp[item[job[t].item].irp].phase = "done"
    BY <1>5, <1>7, <1>9 DEF Flow, ItemInv, Releasing, IrpOf, Thread
  <2>4. pc'["main"] \in ReleasingLabel => phase = "done"  BY <1>5, <1>12 DEF ReleasingLabel
  <2>5. ASSUME NEW t \in Thread, pc'[t] \in ReleasingLabel, job'[t].last
        PROVE  /\ job'[t].item \in Item /\ item'[job'[t].item].irp \in Irp
               /\ irp'[item'[job'[t].item].irp].phase = "done"
               /\ \A u \in Thread : pc'[u] \in ReleasingLabel /\ job'[u].last
                                      /\ job'[u].item = job'[t].item => u = t
    <3>1. CASE t = "main"  BY <1>4, <1>5, <1>7, <1>8, <2>3, <2>4, <2>5, <3>1
    <3>2. CASE t # "main"
      <4>1. /\ job'[t].item \in Item /\ item'[job'[t].item].irp \in Irp
            /\ irp'[item'[job'[t].item].irp].phase = "done"
        BY <1>8, <2>3, <2>5, <3>2
      <4>2. ASSUME NEW u \in Thread, pc'[u] \in ReleasingLabel, job'[u].last, job'[u].item = job'[t].item
            PROVE  u = t  BY <1>4, <1>5, <2>3, <2>5, <3>2, <4>2 DEF Flow, ItemInv, Releasing
      <4> QED  BY <4>1, <4>2
    <3> QED  BY <3>1, <3>2
  <2>6. job'["main"].last  BY <1>4, <1>5
  <2> QED  BY <2>1, <2>2, <2>5, <2>6 DEF ItemInv, Releasing, IrpOf
<1> QED  BY <1>16, <1>17, <1>18, ZenonT(20) DEF Flow

\* A step after which no other request is given back.
LEMMA ItemQuiet ==
  ASSUME TypeInv, ItemInv, Steady,
         \A t \in Thread : pc'[t] \in ReleasingLabel /\ job'[t].last
                             => pc[t] \in ReleasingLabel /\ job'[t] = job[t],
         pc'["main"] \in ReleasingLabel => job'["main"].last
  PROVE  ItemInv'
<1>1. \A x \in Item : item'[x].irp = item[x].irp  BY DEF Steady, ItemsKept
<1>2. \A x \in Item : item[x].irp \in Irp \union {NoIrp}  BY DEF TypeInv
<1>3. \A x, y \in Item : item'[x].irp = item'[y].irp /\ item'[x].irp # NoIrp => x = y
  BY <1>1 DEF ItemInv
<1>4. \A x \in Item : item'[x].irp # NoIrp => irp'[item'[x].irp].phase \in {"active", "done"}
  BY <1>1, <1>2 DEF ItemInv, Steady
<1>5. ASSUME NEW t \in Thread, pc'[t] \in ReleasingLabel, job'[t].last
      PROVE  /\ job'[t].item \in Item /\ item'[job'[t].item].irp \in Irp
             /\ irp'[item'[job'[t].item].irp].phase = "done"
             /\ \A u \in Thread : pc'[u] \in ReleasingLabel /\ job'[u].last
                                    /\ job'[u].item = job'[t].item => u = t
  BY <1>1, <1>5 DEF ItemInv, Steady, Releasing, IrpOf
<1> QED  BY <1>3, <1>4, <1>5 DEF ItemInv, Releasing, IrpOf

LEMMA TakeRequestFlow ==
  ASSUME TypeInv, Flow, TakeRequest
  PROVE  Flow'
<1>1. PICK b, e : Prepared(b, e)  BY TakeRequestEffect
<1>2. PICK j \in Job : j = job["main"]  BY DEF TypeInv, ThreadType, Thread
<1>3. PICK k : k = WithArea(j, b, e)  OBVIOUS
<1>4. k.item = j.item /\ k.last = j.last /\ k.length = j.length /\ k.from = j.from
  BY <1>3 DEF WithArea
<1>5. /\ pc'["main"] = "buffer" /\ job'["main"] = k
      /\ pc'["io"] = pc["io"] /\ pc'["completion"] = pc["completion"]
      /\ job'["io"] = job["io"] /\ job'["completion"] = job["completion"]
  BY <1>1, <1>2, <1>3 DEF Prepared, Goto, TypeInv, ThreadType, Thread
<1>6. irp' = irp /\ item' = item /\ queue' = queue  BY DEF TakeRequest, queues
<1>7. Steady  BY <1>6, SameEffect, KeptSteady DEF TypeInv
<1>8. Hand("main") = {j} /\ Live("main")  BY <1>2, HandIs DEF Thread, Live, LiveLabel, TakeRequest
<1>9. /\ Hand("main")' = {k} /\ Hand("io")' = Hand("io")
      /\ Hand("completion")' = Hand("completion")
  BY <1>5, NextHandIs DEF Thread, LiveLabel
<1>10. \A f \in Flight : Alive(f)' /\ (IsWrite(f)' <=> IsWrite(f))
  BY <1>7, SteadyAlive DEF Flow, FlightInv
<1>11. Alive(k)'  BY <1>8, <1>4, <1>6 DEF Flow, FlightInv, Flight, Alive, IrpOf
<1>12. FlightInv'
  <2>1. \A f \in Flight' : Alive(f)'  BY <1>6, <1>9, <1>10, <1>11 DEF Flight
  <2>2. \A f \in Jobs(queue'["completion"]) \union Hand("completion")' : ~IsWrite(f)'
    BY <1>6, <1>9, <1>10 DEF Flow, FlightInv, Flight
  <2>3. /\ pc'["io"] \in {"write", "write done"} => IsWrite(job["io"])'
        /\ pc'["io"] \in {"read", "read done"} => ~IsWrite(job["io"])'
    BY <1>5, <1>6 DEF Flow, FlightInv, IsWrite, IrpOf
  <2>4. job'["main"].last  BY <1>2, <1>4, <1>5, <1>8 DEF Flow, FlightInv
  <2> QED  BY <2>1, <2>2, <2>3, <2>4 DEF FlightInv, Live
<1>13. OrderInv'  BY <1>8, <1>4, OrderSame, <1>6, <1>9 DEF Flow, OrderInv
<1>14. ItemInv'  BY <1>5, <1>7, ItemQuiet DEF Thread, ReleasingLabel, Flow
<1> QED  BY <1>12, <1>13, <1>14 DEF Flow

LEMMA QueueFragmentFlow ==
  ASSUME TypeInv, Flow, QueueFragment
  PROVE  Flow'
<1>1. PICK j \in Job, f \in Job : Queued(j, f)  BY QueueFragmentEffect, Zenon
<1>2. j = job["main"] /\ Live("main") /\ j \in Flight /\ Hand("main") = {j} /\ j.last
  BY <1>1, HandIs DEF Queued, Live, LiveLabel, QueueFragment, Thread, Flow, FlightInv
<1>3. irp' = irp /\ item' = item  BY DEF QueueFragment, pool
<1>4. Steady  BY <1>3, SameEffect, KeptSteady DEF TypeInv
<1>5. f.item = j.item /\ f.from = j.from /\ f.length > 0 /\ (~f.last => f.length = MaxFragment)
  <2>1. /\ f.item = j.item /\ f.from = j.from /\ f.last = (j.length <= MaxFragment)
        /\ f.length = IF j.length <= MaxFragment THEN j.length ELSE MaxFragment
    BY <1>1, FragmentFields DEF Queued
  <2>2. j.length > 0  BY <1>2 DEF Flow, FlightInv, Alive
  <2>3. MaxFragment > 0  BY QueueAssumption
  <2> QED  BY <2>1, <2>2, <2>3
<1>6. \E h \in {"dequeue", "request"}, k \in Job :
        /\ pc'["main"] = h /\ job'["main"] = k
        /\ \/ h = "dequeue"
           \/ /\ h = "request" /\ ~f.last /\ k.item = j.item /\ k.last /\ k.length > 0
              /\ k.from = j.from + MaxFragment
  <2>1. CASE f.last  BY <1>1, <2>1, NoJobType DEF Queued, Goto, TypeInv, ThreadType, Thread
  <2>2. CASE ~f.last
    <3>1. /\ pc'["main"] = "request" /\ job'["main"] = RestOf(j) /\ RestOf(j) \in Job
          /\ ~(j.length <= MaxFragment)
      BY <1>1, <2>2 DEF Queued, Goto, TypeInv, ThreadType, Thread
    <3>2. /\ RestOf(j).item = j.item /\ RestOf(j).last = j.last
          /\ RestOf(j).from = j.from + MaxFragment /\ RestOf(j).length = j.length - MaxFragment
      BY DEF RestOf
    <3>3. j.length - MaxFragment > 0  BY <3>1, QueueAssumption DEF Job
    <3> QED  BY <1>2, <2>2, <3>1, <3>2, <3>3
  <2> QED  BY <2>1, <2>2
<1>7. PICK h \in {"dequeue", "request"}, k \in Job :
        /\ pc'["main"] = h /\ job'["main"] = k
        /\ \/ h = "dequeue"
           \/ /\ h = "request" /\ ~f.last /\ k.item = j.item /\ k.last /\ k.length > 0
              /\ k.from = j.from + MaxFragment
  BY <1>6
<1>8. /\ pc'["io"] = pc["io"] /\ pc'["completion"] = pc["completion"]
      /\ job'["io"] = job["io"] /\ job'["completion"] = job["completion"]
  BY <1>1 DEF Queued, Goto, TypeInv, ThreadType, Thread
<1>9. /\ queue["io"] \in Seq(Job) /\ queue'["io"] = Append(queue["io"], f)
      /\ queue'["completion"] = queue["completion"]
  BY <1>1 DEF Queued, TypeInv, QueueType, Thread
<1>10. Jobs(queue'["io"]) = Jobs(queue["io"]) \union {f}  BY <1>9, AppendJobs
<1>11. /\ Hand("main")' = IF h = "request" THEN {k} ELSE {}
       /\ Hand("io")' = Hand("io") /\ Hand("completion")' = Hand("completion")
  BY <1>7, <1>8, NextHandIs DEF Thread, LiveLabel
<1>12. \A g \in Flight : Alive(g)' /\ (IsWrite(g)' <=> IsWrite(g))
  BY <1>4, SteadyAlive DEF Flow, FlightInv
<1>13. FlightInv'
  <2>1. Alive(j)'  BY <1>2, <1>12
  <2>2. Alive(f)' /\ (h = "request" => Alive(k)')  BY <1>5, <1>7, <2>1 DEF Alive, IrpOf
  <2>3. \A g \in Flight' : Alive(g)'  BY <1>9, <1>10, <1>11, <1>12, <2>2 DEF Flight
  <2>4. \A g \in Jobs(queue'["completion"]) \union Hand("completion")' : ~IsWrite(g)'
    BY <1>9, <1>11, <1>12 DEF Flow, FlightInv, Flight
  <2>5. /\ pc'["io"] \in {"write", "write done"} => IsWrite(job["io"])'
        /\ pc'["io"] \in {"read", "read done"} => ~IsWrite(job["io"])'
    BY <1>3, <1>8 DEF Flow, FlightInv, IsWrite, IrpOf
  <2>6. pc'["main"] \in LiveLabel => job'["main"].last  BY <1>7 DEF LiveLabel
  <2> QED  BY <2>3, <2>4, <2>5, <2>6 DEF FlightInv, Live
<1>14. OrderInv'
  <2>1. InOrder(Hand("completion"), queue["completion"], Hand("io"), queue["io"], {j})
    BY <1>2 DEF Flow, OrderInv
  <2>2. PICK hm : hm = Hand("main")'  OBVIOUS
  <2>3. hm = {} \/ (~f.last /\ \E l \in Job : /\ hm = {l} /\ l.item = j.item
                                               /\ l.from = j.from + f.length)
    BY <1>5, <1>7, <1>11, <2>2
  <2>4. /\ Hand("completion") \subseteq Job /\ Hand("io") \subseteq Job
        /\ Jobs(queue["completion"]) \subseteq Job
    BY DEF TypeInv, QueueType, ThreadType, Hand, HandOf, Jobs, Thread
  <2>5. InOrder(Hand("completion"), queue["completion"], Hand("io"), Append(queue["io"], f), hm)
    BY <1>5, <1>9, <2>1, <2>3, <2>4, OrderQueued
  <2> QED  BY <1>9, <1>11, <2>2, <2>5 DEF OrderInv
<1>15. ItemInv'  BY <1>7, <1>8, <1>4, ItemQuiet DEF Thread, ReleasingLabel, Flow
<1> QED  BY <1>13, <1>14, <1>15 DEF Flow

LEMMA TakeFragmentFlow ==
  ASSUME TypeInv, Flow, TakeFragment
  PROVE  Flow'
<1>1. PICK r \in Job, l \in {"write", "write done", "read", "read done"} :
           /\ r = Head(queue["io"]) /\ queue["io"] # <<>> /\ Tail(queue["io"]) \in Seq(Job)
           /\ Goto("io", l) /\ job' = [job EXCEPT !["io"] = r]
           /\ queue' = [queue EXCEPT !["io"] = Tail(@)]
           /\ l \in {"write", "write done"} <=> IsWrite(r)
  BY TakeFragmentEffect, ZenonT(60)
<1>2. irp' = irp /\ item' = item  BY DEF TakeFragment, pool
<1>3. Steady  BY <1>2, SameEffect, KeptSteady DEF TypeInv
<1>4. /\ pc'["io"] = l /\ pc'["main"] = pc["main"] /\ pc'["completion"] = pc["completion"]
      /\ job'["io"] = r /\ job'["main"] = job["main"] /\ job'["completion"] = job["completion"]
  BY <1>1 DEF Goto, TypeInv, ThreadType, Thread
<1>5. /\ queue["io"] \in Seq(Job) /\ queue'["io"] = Tail(queue["io"])
      /\ queue'["completion"] = queue["completion"]
  BY <1>1 DEF TypeInv, QueueType, Thread
<1>6. Jobs(queue["io"]) = {r} \union Jobs(queue'["io"])  BY <1>1, <1>5, TailJobs
<1>7. Hand("io") = {}  BY HandIs, Zenon DEF Thread, TakeFragment, Live, LiveLabel
<1>8. /\ Hand("io")' = {r} /\ Hand("main")' = Hand("main")
      /\ Hand("completion")' = Hand("completion")
  BY <1>4, NextHandIs DEF Thread, LiveLabel
<1>9. Flight' = Flight /\ r \in Flight  BY <1>5, <1>6, <1>7, <1>8 DEF Flight
<1>10. \A f \in Flight : Alive(f)' /\ (IsWrite(f)' <=> IsWrite(f))
  BY <1>3, SteadyAlive DEF Flow, FlightInv
<1>11. FlightInv'
  <2>1. \A f \in Flight' : Alive(f)'  BY <1>9, <1>10
  <2>2. \A f \in Jobs(queue'["completion"]) \union Hand("completion")' : ~IsWrite(f)'
    BY <1>5, <1>8, <1>10 DEF Flow, FlightInv, Flight
  <2>3. IsWrite(job["io"])' <=> IsWrite(r)  BY <1>2, <1>4 DEF IsWrite, IrpOf
  <2>4. /\ pc'["io"] \in {"write", "write done"} => IsWrite(job["io"])'
        /\ pc'["io"] \in {"read", "read done"} => ~IsWrite(job["io"])'
    BY <1>1, <1>4, <2>3
  <2>5. pc'["main"] \in LiveLabel => job'["main"].last  BY <1>4 DEF Flow, FlightInv, Live
  <2> QED  BY <2>1, <2>2, <2>4, <2>5 DEF FlightInv, Live
<1>12. OrderInv'
  <2>1. InOrder(Hand("completion"), queue["completion"], {}, queue["io"], Hand("main"))
    BY <1>7 DEF Flow, OrderInv
  <2>2. InOrder(Hand("completion"), queue["completion"], {r}, Tail(queue["io"]), Hand("main"))
    BY <1>1, <1>5, <2>1, OrderTakenIo
  <2> QED  BY <1>5, <1>8, <2>2 DEF OrderInv
<1>13. ItemInv'  BY <1>4, <1>3, ItemQuiet DEF Thread, ReleasingLabel, Flow, ItemInv, Releasing
<1> QED  BY <1>11, <1>12, <1>13 DEF Flow

LEMMA TakeCompletionFlow ==
  ASSUME TypeInv, Flow, TakeCompletion
  PROVE  Flow'
<1>1. PICK r \in Job :
           /\ r = Head(queue["completion"]) /\ queue["completion"] # <<>>
           /\ Tail(queue["completion"]) \in Seq(Job)
           /\ Goto("completion", "decrypt") /\ job' = [job EXCEPT !["completion"] = r]
           /\ queue' = [queue EXCEPT !["completion"] = Tail(@)]
  BY TakeCompletionEffect
<1>2. irp' = irp /\ item' = item  BY DEF TakeCompletion, pool
<1>3. Steady  BY <1>2, SameEffect, KeptSteady DEF TypeInv
<1>4. /\ pc'["completion"] = "decrypt" /\ pc'["main"] = pc["main"] /\ pc'["io"] = pc["io"]
      /\ job'["completion"] = r /\ job'["main"] = job["main"] /\ job'["io"] = job["io"]
  BY <1>1 DEF Goto, TypeInv, ThreadType, Thread
<1>5. /\ queue["completion"] \in Seq(Job) /\ queue'["completion"] = Tail(queue["completion"])
      /\ queue'["io"] = queue["io"]
  BY <1>1 DEF TypeInv, QueueType, Thread
<1>6. Jobs(queue["completion"]) = {r} \union Jobs(queue'["completion"])  BY <1>1, <1>5, TailJobs
<1>7. Hand("completion") = {}  BY HandIs DEF Thread, TakeCompletion, Live, LiveLabel
<1>8. /\ Hand("completion")' = {r} /\ Hand("main")' = Hand("main") /\ Hand("io")' = Hand("io")
  BY <1>4, NextHandIs DEF Thread, LiveLabel
<1>9. Flight' = Flight  BY <1>5, <1>6, <1>7, <1>8 DEF Flight
<1>10. \A f \in Flight : Alive(f)' /\ (IsWrite(f)' <=> IsWrite(f))
  BY <1>3, SteadyAlive DEF Flow, FlightInv
<1>11. FlightInv'
  <2>1. \A f \in Flight' : Alive(f)'  BY <1>9, <1>10
  <2>2. \A f \in Jobs(queue'["completion"]) \union Hand("completion")' : ~IsWrite(f)'
    BY <1>6, <1>8, <1>10 DEF Flow, FlightInv, Flight
  <2>3. IsWrite(job["io"])' <=> IsWrite(job["io"])  BY <1>2, <1>4 DEF IsWrite, IrpOf
  <2>4. /\ pc'["io"] \in {"write", "write done"} => IsWrite(job["io"])'
        /\ pc'["io"] \in {"read", "read done"} => ~IsWrite(job["io"])'
    BY <1>4, <2>3 DEF Flow, FlightInv
  <2>5. pc'["main"] \in LiveLabel => job'["main"].last  BY <1>4 DEF Flow, FlightInv, Live
  <2> QED  BY <2>1, <2>2, <2>4, <2>5 DEF FlightInv, Live
<1>12. OrderInv'
  <2>1. InOrder({}, queue["completion"], Hand("io"), queue["io"], Hand("main"))
    BY <1>7 DEF Flow, OrderInv
  <2>2. InOrder({r}, Tail(queue["completion"]), Hand("io"), queue["io"], Hand("main"))
    BY <1>1, <1>5, <2>1, OrderTakenCompletion
  <2> QED  BY <1>5, <1>8, <2>2 DEF OrderInv
<1>13. ItemInv'  BY <1>4, <1>3, ItemQuiet DEF Thread, ReleasingLabel, Flow, ItemInv, Releasing
<1> QED  BY <1>11, <1>12, <1>13 DEF Flow

LEMMA ReadDoneFlow ==
  ASSUME TypeInv, Flow, ReadDone
  PROVE  Flow'
<1>0. PICK r \in Job : r = job["io"]  BY DEF TypeInv, ThreadType, Thread
<1>1. Hand("io") = {r} /\ r \in Flight /\ ~IsWrite(r) /\ IrpOf(r) \in Irp
  <2>1. Hand("io") = {r} /\ r \in Flight
    BY <1>0, HandIs, Zenon DEF Thread, ReadDone, Live, LiveLabel
  <2>2. ~IsWrite(r) /\ IrpOf(r) \in Irp  BY <1>0, <2>1, Zenon DEF ReadDone, Flow, FlightInv, Alive
  <2> QED  BY <2>1, <2>2
<1>2. \E l \in {"read ahead", "dequeue"} : Goto("io", l)  BY <1>0, <1>1, ReadDoneEffect
<1>3. /\ IrpsKept /\ job' = [job EXCEPT !["io"] = NoJob] /\ item' = item
      /\ queue' = [queue EXCEPT !["completion"] = Append(@, r)]
  BY <1>0, <1>1, ReadDoneEffect
<1>4. Steady  BY <1>3, KeptSteady
<1>5. /\ pc'["io"] \in {"read ahead", "dequeue"}
      /\ pc'["main"] = pc["main"] /\ pc'["completion"] = pc["completion"]
      /\ job'["main"] = job["main"] /\ job'["completion"] = job["completion"]
  <2>1. PICK l \in {"read ahead", "dequeue"} : Goto("io", l)  BY <1>2
  <2> QED  BY <1>3, <2>1 DEF Goto, TypeInv, ThreadType, Thread
<1>6. /\ queue["completion"] \in Seq(Job) /\ queue'["completion"] = Append(queue["completion"], r)
      /\ queue'["io"] = queue["io"]
  BY <1>3 DEF TypeInv, QueueType, Thread
<1>7. Jobs(queue'["completion"]) = Jobs(queue["completion"]) \union {r}  BY <1>6, AppendJobs
<1>8. /\ Hand("io")' = {} /\ Hand("main")' = Hand("main")
      /\ Hand("completion")' = Hand("completion")
  BY <1>5, NextHandIs DEF Thread, LiveLabel
<1>9. Flight' = Flight  BY <1>1, <1>6, <1>7, <1>8 DEF Flight
<1>10. \A f \in Flight : Alive(f)' /\ (IsWrite(f)' <=> IsWrite(f))
  BY <1>4, SteadyAlive DEF Flow, FlightInv
<1>11. FlightInv'
  <2>1. \A f \in Flight' : Alive(f)'  BY <1>9, <1>10
  <2>2. \A f \in Jobs(queue'["completion"]) \union Hand("completion")' : ~IsWrite(f)'
    BY <1>1, <1>7, <1>8, <1>10 DEF Flow, FlightInv, Flight
  <2>3. pc'["io"] \notin {"write", "write done", "read", "read done"}  BY <1>5
  <2>4. pc'["main"] \in LiveLabel => job'["main"].last  BY <1>5 DEF Flow, FlightInv, Live
  <2> QED  BY <2>1, <2>2, <2>3, <2>4 DEF FlightInv, Live
<1>12. OrderInv'
  <2>1. InOrder(Hand("completion"), queue["completion"], {r}, queue["io"], Hand("main"))
    BY <1>1 DEF Flow, OrderInv
  <2>2. InOrder(Hand("completion"), Append(queue["completion"], r), {}, queue["io"], Hand("main"))
    BY <1>6, <2>1, OrderPassed
  <2> QED  BY <1>6, <1>8, <2>2 DEF OrderInv
<1>13. ItemInv'  BY <1>5, <1>4, ItemQuiet DEF Thread, ReleasingLabel, Flow, ItemInv, Releasing
<1> QED  BY <1>11, <1>12, <1>13 DEF Flow

\* A thread is done with a request; the last one of an IRP completed it.
LEMMA DoneFlow ==
  ASSUME TypeInv, Flow, NEW t \in {"io", "completion"}, Live(t), NEW r \in Job, r = job[t],
         job' = job, item' = item, queue' = queue,
         NEW l \in {"decrement", "release"}, Goto(t, l),
         (l = "decrement" /\ r.last /\ SetPhase(IrpOf(r), "done"))
           \/ (l = "release" /\ ~r.last /\ IrpsKept),
         \A j \in Jobs(queue["io"]) \union Jobs(queue["completion"]) \union Hand("main") :
            r.last => j.item # r.item,
         \A u \in {"io", "completion"} : u # t /\ Live(u) /\ r.last => job[u].item # r.item
  PROVE  Flow'
<1>1. /\ Hand(t) = {r} /\ Alive(r) /\ t \in Thread  BY HandIs DEF Thread, Flow, FlightInv
<1>2. pc'[t] = l /\ \A u \in Thread : u # t => pc'[u] = pc[u]
  BY DEF Goto, TypeInv, ThreadType, Thread
<1>3. Hand(t)' = {} /\ \A u \in Thread : u # t => Hand(u)' = Hand(u)
  BY <1>1, <1>2, NextHandIs DEF LiveLabel
<1>4. /\ Hand("io")' = {} \/ Hand("io")' = Hand("io")
      /\ Hand("completion")' = {} \/ Hand("completion")' = Hand("completion")
      /\ Hand("main")' = Hand("main")
      /\ Hand(t)' = {}
  BY <1>3 DEF Thread
<1>5. \A j \in Flight' : j \in Flight /\ (r.last => j.item # r.item)
  <2>1. ASSUME NEW u \in {"io", "completion"}, NEW j \in Hand(u)'
        PROVE  j \in Flight /\ (r.last => j.item # r.item)  BY <1>3, <2>1, HandIs DEF Thread, Flight
  <2>2. ASSUME NEW j \in Jobs(queue["io"]) \union Jobs(queue["completion"]) \union Hand("main")
        PROVE  j \in Flight /\ (r.last => j.item # r.item)
    BY DEF Flight
  <2> QED  BY <1>4, <2>1, <2>2 DEF Flight
<1>6. ASSUME NEW j \in Flight'
      PROVE  Alive(j)' /\ (IsWrite(j)' <=> IsWrite(j))
  <2>1. Alive(j) /\ j \in Flight  BY <1>5 DEF Flow, FlightInv
  <2>2. CASE r.last
    BY <1>1, <1>5, <2>1, <2>2, QueueAssumption DEF Flow, ItemInv, Alive, IrpOf, IsWrite, SetPhase
  <2>3. CASE ~r.last  BY <2>3, KeptSteady, <2>1, SteadyAlive
  <2> QED  BY <2>2, <2>3
<1>7. OrderInv'
  <2>1. InOrder(Hand("completion"), queue["completion"], Hand("io"), queue["io"], Hand("main"))
    BY DEF Flow, OrderInv
  <2>2. PICK hc, hi, hm : hc = Hand("completion") /\ hi = Hand("io") /\ hm = Hand("main")  OBVIOUS
  <2>3. /\ InOrder(hc, queue["completion"], hi, queue["io"], hm)
        /\ InOrder({}, queue["completion"], hi, queue["io"], hm)
        /\ InOrder(hc, queue["completion"], {}, queue["io"], hm)
        /\ InOrder({}, queue["completion"], {}, queue["io"], hm)
    BY <2>1, <2>2, OrderDone
  <2> QED  BY <1>4, <2>2, <2>3 DEF OrderInv
<1>8. FlightInv'
  <2>1. \A j \in Flight' : Alive(j)'  BY <1>6
  <2>2. \A j \in Jobs(queue'["completion"]) \union Hand("completion")' : ~IsWrite(j)'
    BY <1>4, <1>6 DEF Flow, FlightInv, Flight
  <2>3. /\ pc'["io"] \in {"write", "write done"} => IsWrite(job["io"])'
        /\ pc'["io"] \in {"read", "read done"} => ~IsWrite(job["io"])'
    <3>1. CASE t = "io"  BY <1>2, <3>1
    <3>2. CASE t = "completion"
      <4>1. pc'["io"] = pc["io"]  BY <1>2, <3>2 DEF Thread
      <4>2. PICK j : j = job["io"]  OBVIOUS
      <4>3. pc["io"] \in LiveLabel => j \in Flight'
        BY <4>1, <4>2, <1>3, <3>2, HandIs DEF Thread, Flight, Live
      <4>4. /\ pc["io"] \in {"write", "write done"} => IsWrite(j)'
            /\ pc["io"] \in {"read", "read done"} => ~IsWrite(j)'
        BY <1>6, <4>2, <4>3 DEF Flow, FlightInv, LiveLabel
      <4> QED  BY <4>1, <4>2, <4>4 DEF IsWrite, IrpOf
    <3> QED  BY <3>1, <3>2
  <2>4. pc'["main"] \in LiveLabel => job'["main"].last  BY <1>2 DEF Flow, FlightInv, Live, Thread
  <2> QED  BY <2>1, <2>2, <2>3, <2>4 DEF FlightInv, Live
<1>9. ItemInv'
  <2>1. pc'["main"] \in ReleasingLabel => job'["main"].last
    BY <1>2 DEF Flow, ItemInv, Releasing, Thread
  <2>2. CASE ~r.last  BY <2>2, KeptSteady, <1>2, <2>1, ItemQuiet DEF Flow
  <2>3. CASE r.last
    <3>1. PICK i \in Irp : i = IrpOf(r)  BY <1>1 DEF Alive
    <3>2. /\ irp[i].phase = "active" /\ item[r.item].irp = i /\ r.item \in Item
          /\ irp'[i].phase = "done"
          /\ \A k \in Irp \ {i} : irp'[k].phase = irp[k].phase
      BY <1>1, <2>3, <3>1 DEF Alive, IrpOf, SetPhase
    <3>3. \A x, y \in Item : item'[x].irp = item'[y].irp /\ item'[x].irp # NoIrp => x = y
      BY DEF Flow, ItemInv
    <3>4. \A x \in Item : item'[x].irp # NoIrp => irp'[item'[x].irp].phase \in {"active", "done"}
      BY <3>2 DEF TypeInv, Flow, ItemInv
    <3>5. ASSUME NEW u \in Thread, u # t, pc'[u] \in ReleasingLabel, job[u].last
          PROVE  /\ pc[u] \in ReleasingLabel /\ job[u].item \in Item
                 /\ item[job[u].item].irp \in Irp \ {i}
                 /\ irp[item[job[u].item].irp].phase = "done" /\ job[u].item # r.item
      BY <1>2, <3>2, <3>5 DEF Flow, ItemInv, Releasing, IrpOf
    <3>6. ASSUME NEW u \in Thread, pc'[u] \in ReleasingLabel, job[u].last
          PROVE  /\ job[u].item \in Item /\ item[job[u].item].irp \in Irp
                 /\ irp'[item[job[u].item].irp].phase = "done"
                 /\ \A v \in Thread : pc'[v] \in ReleasingLabel /\ job[v].last
                                        /\ job[v].item = job[u].item => v = u
      <4>1. CASE u = t  BY <3>2, <3>5, <4>1
      <4>2. CASE u # t
        <5>1. /\ job[u].item \in Item /\ item[job[u].item].irp \in Irp
              /\ irp'[item[job[u].item].irp].phase = "done"
          BY <3>2, <3>5, <3>6, <4>2
        <5>2. ASSUME NEW v \in Thread, pc'[v] \in ReleasingLabel, job[v].last,
                     job[v].item = job[u].item
              PROVE  v = u  BY <3>5, <3>6, <4>2, <5>2 DEF Flow, ItemInv, Releasing
        <5> QED  BY <5>1, <5>2
      <4> QED  BY <4>1, <4>2
    <3> QED  BY <2>1, <3>3, <3>4, <3>6 DEF ItemInv, Releasing, IrpOf
  <2> QED  BY <2>2, <2>3
<1> QED  BY <1>7, <1>8, <1>9 DEF Flow

LEMMA WriteDoneFlow ==
  ASSUME TypeInv, Flow, WriteDone
  PROVE  Flow'
<1>1. PICK r \in Job : r = job["io"]  BY DEF TypeInv, ThreadType, Thread
<1>2. Live("io") /\ Hand("io") = {r} /\ IrpOf(r) \in Irp /\ IsWrite(r)
  <2>1. Live("io") /\ Hand("io") = {r} /\ r \in Flight
    BY <1>1, HandIs DEF Thread, WriteDone, Live, LiveLabel
  <2> QED  BY <1>1, <2>1 DEF Flow, FlightInv, Alive, WriteDone
<1>3. PICK l \in {"decrement", "release"} :
        /\ Goto("io", l)
        /\ \/ l = "decrement" /\ r.last /\ SetPhase(IrpOf(r), "done")
           \/ l = "release" /\ ~r.last /\ IrpsKept
  BY <1>1, <1>2, WriteDoneEffect
<1>4. job' = job /\ queue' = queue /\ item' = item  BY <1>1, <1>2, WriteDoneEffect
<1>5. \A j \in Jobs(queue["io"]) \union Hand("main") : r.last => j.item # r.item
  BY <1>2 DEF Flow, OrderInv, InOrder, AllApart, Apart
<1>6. \A j \in Jobs(queue["completion"]) \union Hand("completion") : j.item # r.item
  BY <1>2 DEF Flow, FlightInv, IsWrite, IrpOf
<1>7. \A u \in {"io", "completion"} : u # "io" /\ Live(u) /\ r.last => job[u].item # r.item
  BY <1>6, HandIs DEF Thread
<1> QED
  <2>1. PICK t \in {"io", "completion"} : t = "io"  OBVIOUS
  <2>2. \/ l = "decrement" /\ r.last /\ SetPhase(IrpOf(r), "done")
        \/ l = "release" /\ ~r.last /\ IrpsKept
    BY <1>3
  <2>3. Live(t) /\ r = job[t] /\ Goto(t, l)  BY <1>1, <1>2, <1>3, <2>1
  <2>4. \A j \in Jobs(queue["io"]) \union Jobs(queue["completion"]) \union Hand("main") :
          r.last => j.item # r.item
    BY <1>5, <1>6
  <2>5. \A u \in {"io", "completion"} : u # t /\ Live(u) /\ r.last => job[u].item # r.item
    BY <1>7, <2>1
  <2> QED  BY <1>4, <2>2, <2>3, <2>4, <2>5, DoneFlow

LEMMA CompleteReadFlow ==
  ASSUME TypeInv, Flow, CompleteRead
  PROVE  Flow'
<1>1. PICK r \in Job : r = job["completion"]  BY DEF TypeInv, ThreadType, Thread
<1>2. Live("completion") /\ Hand("completion") = {r} /\ IrpOf(r) \in Irp
  <2>1. Live("completion") /\ Hand("completion") = {r} /\ r \in Flight
    BY <1>1, HandIs, Zenon DEF Thread, CompleteRead, Live, LiveLabel
  <2> QED  BY <2>1 DEF Flow, FlightInv, Alive
<1>3. PICK l \in {"decrement", "release"} :
        /\ Goto("completion", l)
        /\ \/ l = "decrement" /\ r.last /\ SetPhase(IrpOf(r), "done")
           \/ l = "release" /\ ~r.last /\ IrpsKept
  BY <1>1, <1>2, CompleteReadEffect
<1>4. job' = job /\ queue' = queue /\ item' = item  BY <1>1, <1>2, CompleteReadEffect
<1>5. \A j \in Jobs(queue["io"]) \union Jobs(queue["completion"]) \union Hand("main") \union Hand("io") :
        r.last => j.item # r.item
  BY <1>2 DEF Flow, OrderInv, InOrder, AllApart, Apart
<1>6. \A u \in {"io", "completion"} : u # "completion" /\ Live(u) /\ r.last => job[u].item # r.item
  BY <1>5, HandIs DEF Thread
<1> QED
  <2>1. PICK t \in {"io", "completion"} : t = "completion"  OBVIOUS
  <2>2. \/ l = "decrement" /\ r.last /\ SetPhase(IrpOf(r), "done")
        \/ l = "release" /\ ~r.last /\ IrpsKept
    BY <1>3
  <2>3. Live(t) /\ r = job[t] /\ Goto(t, l)  BY <1>1, <1>2, <1>3, <2>1
  <2>4. \A j \in Jobs(queue["io"]) \union Jobs(queue["completion"]) \union Hand("main") :
          r.last => j.item # r.item
    BY <1>5
  <2>5. \A u \in {"io", "completion"} : u # t /\ Live(u) /\ r.last => job[u].item # r.item
    BY <1>6, <2>1
  <2> QED  BY <1>4, <2>2, <2>3, <2>4, <2>5, DoneFlow

\* A thread gives back what it had, and the item of a completed IRP.
LEMMA ReleaseEffect ==
  ASSUME TypeInv, NEW t \in Thread, Release(t)
  PROVE  /\ pc[t] = "release" /\ pc'[t] = "dequeue" /\ job'[t] = NoJob
         /\ \A u \in Thread : u # t => pc'[u] = pc[u] /\ job'[u] = job[u]
         /\ irp' = irp /\ queue' = queue /\ bufferFree' = bufferFree /\ device' = device
         /\ \A x \in Item : item'[x].irp = IF job[t].last /\ job[t].item = x THEN NoIrp ELSE item[x].irp
         /\ requestsInUse' = requestsInUse - RequestsReleased(t)
<1>1. /\ pc[t] = "release" /\ pc'[t] = "dequeue" /\ job'[t] = NoJob
      /\ \A u \in Thread : u # t => pc'[u] = pc[u] /\ job'[u] = job[u]
  BY DEF Release, Goto, TypeInv, ThreadType
<1>2. \A x \in Item : item'[x].irp = IF job[t].last /\ job[t].item = x THEN NoIrp ELSE item[x].irp
  <2>1. CASE job[t].last  BY <2>1 DEF Release, TypeInv
  <2>2. CASE ~job[t].last  BY <2>2 DEF Release
  <2> QED  BY <2>1, <2>2
<1> QED  BY <1>1, <1>2 DEF Release, queues, buffers, disk

LEMMA ReleaseFlow ==
  ASSUME TypeInv, Flow, NEW t \in Thread, Release(t)
  PROVE  Flow'
<1>1. /\ pc[t] = "release" /\ pc'[t] = "dequeue" /\ job'[t] = NoJob
      /\ \A u \in Thread : u # t => pc'[u] = pc[u] /\ job'[u] = job[u]
      /\ irp' = irp /\ queue' = queue
      /\ \A x \in Item : item'[x].irp = IF job[t].last /\ job[t].item = x THEN NoIrp ELSE item[x].irp
  BY ReleaseEffect
<1>2. PICK r \in Job : r = job[t]  BY DEF TypeInv, ThreadType
<1>3. r.last => r.item \in Item /\ IrpOf(r) \in Irp /\ irp[IrpOf(r)].phase = "done"
  BY <1>1, <1>2 DEF Flow, ItemInv, Releasing, ReleasingLabel
<1>4. \A u \in Thread : Hand(u)' = Hand(u)
  <2>1. ASSUME NEW u \in Thread  PROVE Hand(u)' = Hand(u)
    <3>1. CASE u = t  BY <1>1, <3>1, HandIs, NextHandIs DEF Live, LiveLabel
    <3>2. CASE u # t  BY <1>1, <3>2, NextHandIs
    <3> QED  BY <3>1, <3>2
  <2> QED  BY <2>1
<1>5. /\ Hand("main")' = Hand("main") /\ Hand("io")' = Hand("io")
      /\ Hand("completion")' = Hand("completion")
  BY <1>4 DEF Thread
<1>6. Flight' = Flight  BY <1>1, <1>5 DEF Flight
<1>7. ASSUME NEW j \in Flight
      PROVE  Alive(j)' /\ (IsWrite(j)' <=> IsWrite(j)) /\ (r.last => j.item # r.item)
  <2>1. Alive(j)  BY DEF Flow, FlightInv
  <2>2. r.last => j.item # r.item  BY <1>3, <2>1 DEF Alive, IrpOf
  <2>3. item'[j.item].irp = item[j.item].irp  BY <1>1, <1>2, <2>1, <2>2 DEF Alive
  <2> QED  BY <1>1, <2>1, <2>2, <2>3 DEF Alive, IsWrite, IrpOf
<1>8. OrderInv'  BY <1>1, <1>5 DEF Flow, OrderInv
<1>9. FlightInv'
  <2>1. \A j \in Flight' : Alive(j)'  BY <1>6, <1>7
  <2>2. \A j \in Jobs(queue'["completion"]) \union Hand("completion")' : ~IsWrite(j)'
    BY <1>1, <1>5, <1>7 DEF Flow, FlightInv, Flight
  <2>3. /\ pc'["io"] \in {"write", "write done"} => IsWrite(job["io"])'
        /\ pc'["io"] \in {"read", "read done"} => ~IsWrite(job["io"])'
    <3>1. CASE t = "io"  BY <1>1, <3>1
    <3>2. CASE t # "io"
      <4>1. pc'["io"] = pc["io"] /\ job'["io"] = job["io"]  BY <1>1, <3>2 DEF Thread
      <4>2. PICK j : j = job["io"]  OBVIOUS
      <4>3. pc["io"] \in LiveLabel => j \in Flight  BY <4>2, HandIs DEF Thread, Live
      <4>4. /\ pc["io"] \in {"write", "write done"} => IsWrite(j)'
            /\ pc["io"] \in {"read", "read done"} => ~IsWrite(j)'
        BY <1>7, <4>2, <4>3 DEF Flow, FlightInv, LiveLabel
      <4> QED  BY <4>1, <4>2, <4>4 DEF IsWrite, IrpOf
    <3> QED  BY <3>1, <3>2
  <2>4. pc'["main"] \in LiveLabel => job'["main"].last
    BY <1>1 DEF Flow, FlightInv, Live, Thread, LiveLabel
  <2> QED  BY <2>1, <2>2, <2>3, <2>4 DEF FlightInv, Live
<1>10. ItemInv'
  <2>1. \A x, y \in Item : item'[x].irp = item'[y].irp /\ item'[x].irp # NoIrp => x = y
    BY <1>1 DEF Flow, ItemInv
  <2>2. \A x \in Item : item'[x].irp # NoIrp => irp'[item'[x].irp].phase \in {"active", "done"}
    BY <1>1 DEF Flow, ItemInv
  <2>3. ASSUME NEW u \in Thread, pc'[u] \in ReleasingLabel, job'[u].last
        PROVE  u # t /\ pc[u] \in ReleasingLabel /\ job'[u] = job[u] /\ (r.last => job[u].item # r.item)
    BY <1>1, <2>3, <1>2 DEF ReleasingLabel, Flow, ItemInv, Releasing
  <2>4. ASSUME NEW u \in Thread, pc'[u] \in ReleasingLabel, job'[u].last
        PROVE  /\ job'[u].item \in Item /\ item'[job'[u].item].irp \in Irp
               /\ irp'[item'[job'[u].item].irp].phase = "done"
               /\ \A v \in Thread : pc'[v] \in ReleasingLabel /\ job'[v].last
                                      /\ job'[v].item = job'[u].item => v = u
    <3>1. /\ pc[u] \in ReleasingLabel /\ job'[u] = job[u] /\ job[u].last
          /\ (r.last => job[u].item # r.item)
      BY <2>3, <2>4
    <3>2. /\ job[u].item \in Item /\ item[job[u].item].irp \in Irp
          /\ irp[item[job[u].item].irp].phase = "done"
      BY <3>1 DEF Flow, ItemInv, Releasing, IrpOf
    <3>3. item'[job[u].item].irp = item[job[u].item].irp  BY <1>1, <1>2, <3>1, <3>2
    <3>4. ASSUME NEW v \in Thread, pc'[v] \in ReleasingLabel, job'[v].last, job'[v].item = job'[u].item
          PROVE  v = u  BY <2>3, <3>4, <3>1 DEF Flow, ItemInv, Releasing
    <3> QED  BY <1>1, <3>1, <3>2, <3>3, <3>4
  <2>5. pc'["main"] \in ReleasingLabel => job'["main"].last
    <3>1. CASE t = "main"  BY <1>1, <3>1 DEF ReleasingLabel
    <3>2. CASE t # "main"  BY <1>1, <3>2 DEF Flow, ItemInv, Releasing, Thread
    <3> QED  BY <3>1, <3>2
  <2> QED  BY <2>1, <2>2, <2>4, <2>5 DEF ItemInv, Releasing, IrpOf
<1> QED  BY <1>8, <1>9, <1>10 DEF Flow

LEMMA StepCases ==
  ASSUME Next
  PROVE  (\E i \in Irp : Client(i)) \/ (\E t \in Thread : Work(t)) \/ Dispatch \/ Owner
<1>1. MainThread => Work("main") \/ Dispatch  BY DEF MainThread, Finishing, Work, PassOver
<1>2. IoThread => Work("io")  BY DEF IoThread, Finishing, Work, PassOver, IoStep
<1>3. CompletionThread => Work("completion")  BY DEF CompletionThread, Finishing, Work, PassOver
<1> QED  BY <1>1, <1>2, <1>3 DEF Next, Thread

\* The request that a thread has is of an IRP that was accepted.
LEMMA HandAlive ==
  ASSUME Flow, NEW t \in Thread, Live(t)
  PROVE  Alive(job[t]) /\ IrpOf(job[t]) \in Irp /\ irp[IrpOf(job[t])].phase = "active"
BY HandIs DEF Flow, FlightInv, Alive

LEMMA WorkType ==
  ASSUME TypeInv, Flow, NEW t \in Thread, Work(t)
  PROVE  TypeInv'
<1>1. CASE PassOver(t) \/ Release(t)  BY <1>1, CommonType, MainGoesType DEF PassOver, Finishing
<1>2. CASE WriteDone
  <2>1. Live("io") /\ "io" \in Thread  BY <1>2 DEF WriteDone, Live, LiveLabel, Thread
  <2> QED  BY <1>2, <2>1, HandAlive, WriteDoneType
<1>3. CASE ReadDone
  <2>1. Live("io") /\ "io" \in Thread  BY <1>3, Zenon DEF ReadDone, Live, LiveLabel, Thread
  <2> QED  BY <1>3, <2>1, HandAlive, ReadDoneType
<1>4. CASE CompleteRead
  <2>1. Live("completion") /\ "completion" \in Thread
    BY <1>4, Zenon DEF CompleteRead, Live, LiveLabel, Thread
  <2> QED  BY <1>4, <2>1, HandAlive, CompleteReadType
<1> QED
  BY <1>1, <1>2, <1>3, <1>4, TakeRequestType, QueueFragmentType, TakeFragmentType,
     IoStepType,
     TakeCompletionType DEF Work

LEMMA WorkFlow ==
  ASSUME TypeInv, Flow, NEW t \in Thread, Work(t)
  PROVE  Flow'
BY PassOverFlow, ReleaseFlow, TakeRequestFlow, QueueFragmentFlow, TakeFragmentFlow,
   IoStepFlow,
   WriteDoneFlow, ReadDoneFlow, TakeCompletionFlow, CompleteReadFlow DEF Work

LEMMA TypeAndFlow ==
  ASSUME TypeInv, Flow, WaitingInv, Next
  PROVE  TypeInv' /\ Flow'
<1>1. CASE \E i \in Irp : Client(i)  BY <1>1, ClientType, ClientFlow
<1>2. CASE \E t \in Thread : Work(t)  BY <1>2, WorkType, WorkFlow
<1>3. CASE Dispatch  BY <1>3, FirstWaiting, DispatchType, DispatchFlow, Zenon DEF Dispatch
<1>4. CASE Owner  BY <1>4, OwnerStepType, OwnerFlow
<1> QED  BY <1>1, <1>2, <1>3, <1>4, StepCases

-----------------------------------------------------------------------------
(* What waits and what is outstanding.                                     *)

LEMMA WeightInt == \A label : Weight(label) \in {0, 1}
BY DEF Weight

LEMMA Counted ==
  ASSUME TypeInv, NEW t, PhasesKept, outstanding' = outstanding, Weight(pc'[t]) = Weight(pc[t])
  PROVE  Counting(t)
<1>1. outstanding \in Int  BY DEF TypeInv
<1>2. PICK w \in Int : w = Weight(pc[t])  BY WeightInt
<1>3. outstanding' = outstanding + w - w  BY <1>1
<1> QED  BY <1>2, <1>3 DEF Counting

LEMMA CountedChange ==
  ASSUME TypeInv, NEW t, PhasesKept, NEW v \in {0, 1}, NEW w \in {0, 1},
         outstanding' = outstanding + w - v, Weight(pc[t]) = v, Weight(pc'[t]) = w
  PROVE  Counting(t)
BY DEF Counting

LEMMA CountedDone ==
  ASSUME NEW t, NEW i \in Irp, irp[i].phase = "active", SetPhase(i, "done"),
         outstanding' = outstanding, pc'[t] = "decrement",
         pc[t] \in {"write done", "decrypt"}
  PROVE  Counting(t)
<1>1. PhaseTo(i, "done")  BY DEF SetPhase, PhaseTo
<1>2. Weight(pc[t]) = 0  BY DEF Weight
<1> QED  BY <1>1, <1>2 DEF Counting

LEMMA SamePhases == ASSUME IrpsKept \/ irp' = irp  PROVE PhasesKept
BY DEF IrpsKept, PhasesKept

LEMMA PassOverWorked ==
  ASSUME TypeInv, NEW t \in Thread, PassOver(t)
  PROVE  Worked(t)
<1>1. /\ irp' = irp /\ queue' = queue /\ \A u \in Thread : u # t => pc'[u] = pc[u]
  BY PassOverEffect
<1>2. pc \in [Thread -> AnyLabel]  BY DEF TypeInv, ThreadType
<1>3. Kept
  BY
    DEF PassOver, Wait, QueueEmpty, Decrement, SignalNoOutstanding, TakeIrp, AwaitResume,
        AwaitPool,
         disk, control, Kept
<1>4. PhasesKept  BY <1>1, SamePhases
<1>5. Counting(t)
  <2>1. CASE Decrement(t)
    <3>1. PICK l \in {"signal", "release"} : pc' = [pc EXCEPT ![t] = l]  BY <2>1 DEF Decrement, Goto
    <3>2. Weight(pc[t]) = 1 /\ Weight(pc'[t]) = 0  BY <1>2, <2>1, <3>1 DEF Weight, Decrement
    <3>3. outstanding' = outstanding - 1  BY <2>1 DEF Decrement
    <3>4. PICK v \in {0, 1}, w \in {0, 1} : v = 1 /\ w = 0  OBVIOUS
    <3>5. outstanding' = outstanding + w - v  BY <3>3, <3>4 DEF TypeInv
    <3> QED  BY <1>4, <3>2, <3>4, <3>5, CountedChange
  <2>2. CASE ~Decrement(t)
    <3>1. outstanding' = outstanding
      BY <2>2
        DEF PassOver, Wait, QueueEmpty, SignalNoOutstanding, TakeIrp, AwaitResume,
            AwaitPool, idle
    <3>2. \E l \in {"stopped", "dequeue", "wait", "release", "suspended", "item", "no item", "request",
                    "no request"} : pc' = [pc EXCEPT ![t] = l]
      BY <2>2
        DEF PassOver, Wait, QueueEmpty, SignalNoOutstanding, TakeIrp, AwaitResume,
            AwaitPool, Goto
    <3>3. pc[t] \in {"wait", "dequeue", "signal", "suspended", "item", "no item", "request",
                    "no request"}
      BY <2>2
        DEF PassOver, Wait, QueueEmpty, SignalNoOutstanding, TakeIrp, AwaitResume, AwaitPool
    <3>4. Weight(pc[t]) = 0 /\ Weight(pc'[t]) = 0  BY <1>2, <3>2, <3>3 DEF Weight
    <3> QED  BY <1>4, <3>1, <3>4, Counted
  <2> QED  BY <2>1, <2>2
<1>6. pc'["main"] \in AtHead => pc["main"] \in AtHead \/ queue["main"] # <<>>
  <2>1. CASE t # "main"  BY <1>1, <2>1 DEF Thread
  <2>2. CASE t = "main" /\ TakeIrp  BY <2>2 DEF TakeIrp
  <2>3. CASE t = "main" /\ (AwaitResume \/ AwaitPool)
    BY <1>2, <2>3 DEF AwaitResume, AwaitPool, Goto, AtHead, Thread
  <2>4. CASE t = "main" /\ (Wait(t) \/ QueueEmpty(t) \/ Decrement(t) \/ SignalNoOutstanding(t))
    BY <1>2, <2>4 DEF Wait, QueueEmpty, Decrement, SignalNoOutstanding, Goto, AtHead, Thread
  <2> QED  BY <2>1, <2>2, <2>3, <2>4 DEF PassOver
<1> QED  BY <1>1, <1>3, <1>5, <1>6 DEF Worked

\* The thread t goes from a label to another one, and counts nothing.
LEMMA MovedOn ==
  ASSUME TypeInv, NEW t \in Thread, NEW l, l \notin {"read ahead", "decrement"}, l \notin AtHead,
         Goto(t, l), pc[t] \notin {"read ahead", "decrement"},
         IrpsKept \/ irp' = irp, outstanding' = outstanding,
         queue'["main"] = queue["main"], Kept
  PROVE  Worked(t)
<1>1. pc \in [Thread -> AnyLabel]  BY DEF TypeInv, ThreadType
<1>2. pc'[t] = l /\ \A u \in Thread : u # t => pc'[u] = pc[u]  BY <1>1 DEF Goto
<1>3. Weight(pc'[t]) = 0 /\ Weight(pc[t]) = 0  BY <1>2 DEF Weight
<1>4. Counting(t)  BY <1>3, Counted, SamePhases
<1>5. pc'["main"] \in AtHead => pc["main"] \in AtHead  BY <1>2 DEF Thread
<1> QED  BY <1>2, <1>4, <1>5 DEF Worked

LEMMA CountedOn ==
  ASSUME TypeInv, NEW t \in Thread, NEW l, l \notin AtHead, Goto(t, l), Counting(t),
         queue'["main"] = queue["main"], Kept
  PROVE  Worked(t)
<1>1. pc'[t] = l /\ \A u \in Thread : u # t => pc'[u] = pc[u]  BY DEF Goto, TypeInv, ThreadType
<1>2. pc'["main"] \in AtHead => pc["main"] \in AtHead  BY <1>1 DEF Thread
<1> QED  BY <1>1, <1>2 DEF Worked

LEMMA MainWorked ==
  ASSUME TypeInv, NEW t \in Thread,
         Release(t) \/ (t = "main" /\ (TakeRequest \/ QueueFragment))
  PROVE  Worked(t)
<1>1. PICK l \in {"dequeue", "buffer", "request"} : Goto(t, l)
  BY Zenon DEF Release, TakeRequest, QueueFragment
<1>2. pc[t] \in {"release", "request", "buffer"}  BY Zenon DEF Release, TakeRequest, QueueFragment
<1>3. irp' = irp /\ outstanding' = outstanding /\ Kept
  BY DEF Release, TakeRequest, QueueFragment, idle, Kept, control, disk
<1>4. queue'["main"] = queue["main"]
  BY DEF Release, TakeRequest, QueueFragment, queues, TypeInv, QueueType
<1>5. l \notin {"read ahead", "decrement"} /\ l \notin AtHead  BY <1>1 DEF AtHead
<1> QED  BY <1>1, <1>2, <1>3, <1>4, <1>5, MovedOn

LEMMA SumOf ==
  ASSUME NEW n, NEW o \in Int, NEW v \in {0, 1}, NEW w \in {0, 1}, v = 0, n = o + w
  PROVE  n = o + w - v
OBVIOUS

LEMMA IoWorked ==
  ASSUME TypeInv, Flow, TakeFragment \/ IoStep \/ WriteDone \/ ReadDone
  PROVE  Worked("io")
<1>0. "io" \in Thread /\ "io" # "main"  BY DEF Thread
<1>1. Kept
  BY Zenon
    DEF TakeFragment, IoStep, WriteDevice, ReadDevice, ReadAhead, WriteDone, ReadDone,
        Kept, control, disk
<1>2. queue'["main"] = queue["main"]
  <2>1. DOMAIN queue = Thread  BY DEF TypeInv, QueueType
  <2>2. CASE TakeFragment \/ ReadDone
    <3>1. \/ \E q : queue' = [queue EXCEPT !["io"] = q]
          \/ \E q : queue' = [queue EXCEPT !["completion"] = q]
      BY <2>2, Zenon DEF TakeFragment, ReadDone
    <3> QED  BY <2>1, <3>1 DEF Thread
  <2>3. CASE IoStep \/ WriteDone
    BY <2>3, Zenon DEF IoStep, WriteDevice, ReadDevice, ReadAhead, WriteDone, queues
  <2> QED  BY <2>2, <2>3
<1>3. CASE TakeFragment
  <2>1. PICK l \in {"write", "write done", "read", "read done"} : Goto("io", l)
    BY <1>3, TakeFragmentEffect
  <2>2. irp' = irp /\ outstanding' = outstanding /\ pc["io"] = "dequeue"
    BY <1>3, Zenon DEF TakeFragment, idle
  <2>3. l \notin {"read ahead", "decrement"} /\ l \notin AtHead  BY <2>1 DEF AtHead
  <2> QED  BY <1>0, <1>1, <1>2, <2>1, <2>2, <2>3, MovedOn
<1>4. CASE WriteDevice \/ ReadDevice
  <2>1. PICK l \in {"write done", "read done"} : Goto("io", l)  BY <1>4 DEF WriteDevice, ReadDevice
  <2>2. irp' = irp /\ outstanding' = outstanding /\ pc["io"] \in {"write", "read"}
    BY <1>4 DEF WriteDevice, ReadDevice, idle
  <2>3. l \notin {"read ahead", "decrement"} /\ l \notin AtHead  BY <2>1 DEF AtHead
  <2> QED  BY <1>0, <1>1, <1>2, <2>1, <2>2, <2>3, MovedOn
<1>5. CASE ReadAhead
  <2>1. Goto("io", "decrement") /\ irp' = irp /\ outstanding' = outstanding /\ pc["io"] = "read ahead"
    BY <1>5 DEF ReadAhead, idle
  <2>2. Weight(pc["io"]) = 1 /\ Weight(pc'["io"]) = 1
    BY <1>0, <2>1 DEF Weight, Goto, TypeInv, ThreadType
  <2>3. Counting("io")  BY <2>1, <2>2, Counted, SamePhases
  <2>4. PICK l : l = "decrement"  OBVIOUS
  <2>5. l \notin AtHead  BY <2>4 DEF AtHead
  <2> QED  BY <1>0, <1>1, <1>2, <2>1, <2>3, <2>4, <2>5, CountedOn
<1>6. CASE WriteDone
  <2>1. Live("io")  BY <1>6 DEF WriteDone, Live, LiveLabel
  <2>2. PICK i \in Irp : i = IrpOf(job["io"]) /\ irp[i].phase = "active"  BY <1>0, <2>1, HandAlive
  <2>3. PICK l \in {"decrement", "release"} :
              /\ Goto("io", l)
              /\ \/ l = "decrement" /\ SetPhase(i, "done")
                 \/ l = "release" /\ IrpsKept
    BY <1>6, <2>2, WriteDoneEffect
  <2>4. outstanding' = outstanding /\ pc["io"] = "write done"  BY <1>6 DEF WriteDone, idle
  <2>5. pc'["io"] = l /\ l \notin AtHead  BY <1>0, <2>3 DEF Goto, TypeInv, ThreadType, AtHead
  <2>6. CASE l = "release"  BY <2>3, <2>4, <2>6, <1>0, <1>1, <1>2, <2>5, MovedOn
  <2>7. CASE l = "decrement"
    BY <1>0, <2>2, <2>3, <2>4, <2>5, <2>7, CountedDone, <1>1, <1>2, CountedOn
  <2> QED  BY <2>6, <2>7
<1>7. CASE ReadDone
  <2>1. Live("io")  BY <1>7, Zenon DEF ReadDone, Live, LiveLabel
  <2>2. IrpOf(job["io"]) \in Irp  BY <1>0, <2>1, HandAlive
  <2>3. PICK l \in {"read ahead", "dequeue"} :
          Goto("io", l) /\ outstanding' = outstanding + IF l = "read ahead" THEN 1 ELSE 0
    BY <1>7, <2>2, ReadDoneEffect
  <2>4. IrpsKept  BY <1>7, <2>2, ReadDoneEffect
  <2>5. PICK v \in {0, 1}, w \in {0, 1} : v = 0 /\ w = IF l = "read ahead" THEN 1 ELSE 0  OBVIOUS
  <2>6. outstanding' = outstanding + w - v
    <3>1. outstanding' = outstanding + w /\ outstanding \in Int  BY <2>3, <2>5 DEF TypeInv
    <3> QED  BY <2>5, <3>1, SumOf, ZenonT(60)
  <2>7. Weight(pc["io"]) = v /\ Weight(pc'["io"]) = w
    BY <1>0, <1>7, <2>3, <2>5 DEF ReadDone, Weight, Goto, TypeInv, ThreadType
  <2>8. Counting("io")  BY <2>4, <2>6, <2>7, CountedChange, SamePhases
  <2>9. l \notin AtHead  BY <2>3 DEF AtHead
  <2> QED  BY <1>0, <1>1, <1>2, <2>3, <2>8, <2>9, CountedOn
<1> QED  BY <1>3, <1>4, <1>5, <1>6, <1>7 DEF IoStep

LEMMA CompletionWorked ==
  ASSUME TypeInv, Flow, TakeCompletion \/ CompleteRead
  PROVE  Worked("completion")
<1>0. "completion" \in Thread /\ "completion" # "main"  BY DEF Thread
<1>1. Kept /\ outstanding' = outstanding
  BY Zenon DEF TakeCompletion, CompleteRead, Kept, control, disk, idle
<1>2. queue'["main"] = queue["main"]
  <2>1. DOMAIN queue = Thread  BY DEF TypeInv, QueueType
  <2>2. queue' = queue \/ \E q : queue' = [queue EXCEPT !["completion"] = q]
    BY Zenon DEF TakeCompletion, CompleteRead, queues
  <2> QED  BY <2>1, <2>2 DEF Thread
<1>3. CASE TakeCompletion
  <2>1. PICK l : l = "decrypt"  OBVIOUS
  <2>2. Goto("completion", l) /\ irp' = irp /\ pc["completion"] = "dequeue"
    BY <1>3, <2>1 DEF TakeCompletion
  <2>3. l \notin {"read ahead", "decrement"} /\ l \notin AtHead  BY <2>1 DEF AtHead
  <2> QED  BY <1>0, <1>1, <1>2, <2>2, <2>3, MovedOn
<1>4. CASE CompleteRead
  <2>1. Live("completion")  BY <1>4, Zenon DEF CompleteRead, Live, LiveLabel
  <2>2. PICK i \in Irp : i = IrpOf(job["completion"]) /\ irp[i].phase = "active"
    BY <1>0, <2>1, HandAlive
  <2>3. PICK l \in {"decrement", "release"} :
              /\ Goto("completion", l)
              /\ \/ l = "decrement" /\ SetPhase(i, "done")
                 \/ l = "release" /\ IrpsKept
    BY <1>4, <2>2, CompleteReadEffect
  <2>4. pc["completion"] = "decrypt"  BY <1>4, Zenon DEF CompleteRead
  <2>5. pc'["completion"] = l /\ l \notin AtHead
    BY <1>0, <2>3 DEF Goto, TypeInv, ThreadType, AtHead
  <2>6. CASE l = "release"  BY <2>3, <2>4, <2>6, <1>0, <1>1, <1>2, <2>5, MovedOn
  <2>7. CASE l = "decrement"
    BY <1>0, <1>1, <2>2, <2>3, <2>4, <2>5, <2>7, CountedDone, <1>2, CountedOn
  <2> QED  BY <2>6, <2>7
<1> QED  BY <1>3, <1>4

LEMMA WorkWorked ==
  ASSUME TypeInv, Flow, NEW t \in Thread, Work(t)
  PROVE  Worked(t)
BY PassOverWorked, MainWorked, IoWorked, CompletionWorked DEF Work

LEMMA WaitingKept ==
  ASSUME TypeInv, WaitingInv, queue'["main"] = queue["main"],
         \A j \in Irp : irp[j].phase = "queued" => irp'[j].phase = "queued",
         pc'["main"] \in AtHead => pc["main"] \in AtHead \/ queue["main"] # <<>>
  PROVE  WaitingInv'
<1>1. \A n \in DOMAIN queue["main"] : queue["main"][n] \in Irp  BY DEF TypeInv, QueueType
<1> QED  BY <1>1 DEF WaitingInv, AtHead

\* The sum of the weights, when one thread moves.
LEMMA WeightMoves ==
  ASSUME NEW t \in Thread, \A u \in Thread : u # t => pc'[u] = pc[u]
  PROVE  /\ Uncounted \in Int /\ Uncounted' \in Int
         /\ Uncounted' = Uncounted + Weight(pc'[t]) - Weight(pc[t])
<1>1. PICK a \in Int, b \in Int, c \in Int :
        a = Weight(pc["main"]) /\ b = Weight(pc["io"]) /\ c = Weight(pc["completion"])
  BY WeightInt
<1>2. PICK d \in Int, e \in Int, f \in Int :
        d = Weight(pc'["main"]) /\ e = Weight(pc'["io"]) /\ f = Weight(pc'["completion"])
  BY WeightInt
<1>3. Uncounted = a + b + c /\ Uncounted' = d + e + f  BY <1>1, <1>2 DEF Uncounted
<1>4. CASE t = "main"  BY <1>1, <1>2, <1>4, <1>3 DEF Thread
<1>5. CASE t = "io"  BY <1>1, <1>2, <1>5, <1>3 DEF Thread
<1>6. CASE t = "completion"  BY <1>1, <1>2, <1>6, <1>3 DEF Thread
<1> QED  BY <1>4, <1>5, <1>6 DEF Thread

LEMMA CountSame ==
  ASSUME CountInv, NEW w \in Int, outstanding' = outstanding + w, Outstanding' = Outstanding,
         Uncounted \in Int, Uncounted' = Uncounted + w
  PROVE  CountInv'
<1>1. Cardinality(Outstanding) \in Nat  BY FS_CardinalityType DEF CountInv
<1> QED  BY <1>1 DEF CountInv

LEMMA CountMore ==
  ASSUME CountInv, NEW i, i \notin Outstanding, Outstanding' = Outstanding \union {i},
         Uncounted \in Int, Uncounted' = Uncounted, outstanding' = outstanding + 1
  PROVE  CountInv'
<1>1. /\ Cardinality(Outstanding) \in Nat /\ IsFiniteSet(Outstanding')
      /\ Cardinality(Outstanding') = Cardinality(Outstanding) + 1
  BY FS_CardinalityType, FS_AddElement DEF CountInv
<1> QED  BY <1>1 DEF CountInv

LEMMA CountLess ==
  ASSUME CountInv, NEW i \in Outstanding, Outstanding' = Outstanding \ {i}, NEW w \in Int,
         Uncounted \in Int, Uncounted' = Uncounted + w, outstanding' = outstanding + w - 1
  PROVE  CountInv'
<1>1. /\ Cardinality(Outstanding) \in Nat /\ IsFiniteSet(Outstanding')
      /\ Cardinality(Outstanding') = Cardinality(Outstanding) - 1
  BY FS_CardinalityType, FS_RemoveElement DEF CountInv
<1> QED  BY <1>1 DEF CountInv

LEMMA OutstandingKept == ASSUME PhasesKept  PROVE Outstanding' = Outstanding
BY DEF PhasesKept, Outstanding

LEMMA OutstandingIs ==
  ASSUME NEW i \in Irp, NEW p, PhaseTo(i, p)
  PROVE  /\ Counts(p) /\ Counts(irp[i].phase) => Outstanding' = Outstanding
         /\ Counts(p) /\ ~Counts(irp[i].phase)
              => i \notin Outstanding /\ Outstanding' = Outstanding \union {i}
         /\ ~Counts(p) /\ Counts(irp[i].phase)
              => i \in Outstanding /\ Outstanding' = Outstanding \ {i}
<1>1. /\ Outstanding = {j \in Irp : Counts(irp[j].phase)}
      /\ Outstanding' = {j \in Irp : Counts(irp'[j].phase)}
  BY DEF Outstanding, Counts
<1>2. \A j \in Irp : irp'[j].phase = IF j = i THEN p ELSE irp[j].phase  BY DEF PhaseTo
<1> QED  BY <1>1, <1>2

LEMMA ClientCounts ==
  ASSUME TypeInv, WaitingInv, CountInv, NEW i \in Irp, Client(i)
  PROVE  WaitingInv' /\ CountInv'
<1>0. pc' = pc /\ queue["main"] \in Seq(Irp) /\ DOMAIN queue = Thread
  BY ClientEffect DEF TypeInv, QueueType
<1>1. Uncounted \in Int /\ Uncounted' = Uncounted  BY <1>0, WeightInt DEF Uncounted
<1>3. CASE Submitted(i)
  <2>1. PhaseTo(i, "adding") /\ Counts("adding") /\ ~Counts(irp[i].phase)
    BY <1>3 DEF Submitted, OthersKept, PhaseTo, Counts
  <2>2. i \notin Outstanding /\ Outstanding' = Outstanding \union {i}  BY <2>1, OutstandingIs
  <2>3. CountInv'  BY <1>1, <1>3, <2>2, CountMore DEF Submitted
  <2>4. WaitingInv'  BY <1>0, <1>3, WaitingKept DEF Submitted, OthersKept
  <2> QED  BY <2>3, <2>4
<1>4. CASE Added(i)
  <2>1. PhaseTo(i, "queued") /\ Counts("queued") /\ Counts(irp[i].phase)
    BY <1>4 DEF Added, OthersKept, PhaseTo, Counts
  <2>2. Outstanding' = Outstanding  BY <2>1, OutstandingIs
  <2>3. CountInv'  BY <1>1, <1>4, <2>2 DEF Added, CountInv
  <2>4. WaitingInv'
    <3>1. PICK q \in Seq(Irp) : q = queue["main"]  BY <1>0
    <3>2. queue'["main"] = Append(q, i) /\ irp[i].phase = "adding"
      BY <1>0, <1>4, <3>1 DEF Added, Thread
    <3>3. /\ DOMAIN Append(q, i) = 1 .. Len(q) + 1 /\ DOMAIN q = 1 .. Len(q) /\ Len(q) \in Nat
          /\ \A n \in 1 .. Len(q) : Append(q, i)[n] = q[n] /\ q[n] \in Irp
          /\ Append(q, i)[Len(q) + 1] = i /\ Append(q, i) # <<>>
      OBVIOUS
    <3>4. \A n \in 1 .. Len(q) : irp[q[n]].phase = "queued" /\ q[n] # i
      BY <3>1, <3>2, <3>3 DEF WaitingInv
    <3>5. \A n \in 1 .. Len(q) + 1 : n \in 1 .. Len(q) \/ n = Len(q) + 1  BY <3>3
    <3>6. \A n \in 1 .. Len(q) + 1 : irp'[Append(q, i)[n]].phase = "queued"
      BY <1>4, <3>3, <3>4, <3>5 DEF Added, OthersKept
    <3>7. \A m, n \in 1 .. Len(q) + 1 : Append(q, i)[m] = Append(q, i)[n] => m = n
      <4>1. \A m, n \in 1 .. Len(q) : q[m] = q[n] => m = n  BY <3>1, <3>3 DEF WaitingInv
      <4>2. SUFFICES ASSUME NEW m \in 1 .. Len(q) + 1, NEW n \in 1 .. Len(q) + 1,
                            Append(q, i)[m] = Append(q, i)[n]
                     PROVE  m = n
        OBVIOUS
      <4>3. CASE m \in 1 .. Len(q) /\ n \in 1 .. Len(q)  BY <3>3, <4>1, <4>2, <4>3
      <4>4. CASE m = Len(q) + 1 \/ n = Len(q) + 1  BY <3>3, <3>4, <3>5, <4>2, <4>4
      <4> QED  BY <3>5, <4>3, <4>4
    <3> QED  BY <3>2, <3>3, <3>6, <3>7, ZenonT(60) DEF WaitingInv
  <2> QED  BY <2>3, <2>4
<1>5. CASE Rejected(i)
  <2>1. PhaseTo(i, "done") /\ ~Counts("done") /\ Counts(irp[i].phase)
    BY <1>5 DEF Rejected, OthersKept, PhaseTo, Counts
  <2>2. i \in Outstanding /\ Outstanding' = Outstanding \ {i}  BY <2>1, OutstandingIs
  <2>3. CountInv'
    <3>1. PICK w \in Int : w = 0  OBVIOUS
    <3>2. outstanding' = outstanding + w - 1 /\ Uncounted' = Uncounted + w
      BY <1>1, <1>5, <3>1 DEF Rejected, TypeInv
    <3> QED  BY <1>1, <2>2, <3>2, CountLess
  <2>4. WaitingInv'  BY <1>0, <1>5, WaitingKept DEF Rejected, OthersKept
  <2> QED  BY <2>3, <2>4
<1>6. CASE Cancelled
  <2>1. PhasesKept /\ outstanding' = outstanding /\ queue' = queue
    BY <1>6, SamePhases DEF Cancelled
  <2>2. CountInv'  BY <1>1, <2>1, OutstandingKept DEF CountInv
  <2>3. WaitingInv'  BY <1>0, <2>1, WaitingKept DEF PhasesKept
  <2> QED  BY <2>2, <2>3
<1> QED  BY <1>3, <1>4, <1>5, <1>6, ClientEffect

LEMMA WorkCounts ==
  ASSUME TypeInv, Flow, WaitingInv, CountInv, NEW t \in Thread, Work(t)
  PROVE  WaitingInv' /\ CountInv'
<1>1. /\ \A u \in Thread : u # t => pc'[u] = pc[u]
      /\ queue'["main"] = queue["main"] /\ Counting(t)
      /\ pc'["main"] \in AtHead => pc["main"] \in AtHead \/ queue["main"] # <<>>
  BY WorkWorked DEF Worked
<1>2. /\ Uncounted \in Int /\ Uncounted' \in Int
      /\ Uncounted' = Uncounted + Weight(pc'[t]) - Weight(pc[t])
  BY <1>1, WeightMoves
<1>3. PICK v \in Int, w \in Int : v = Weight(pc[t]) /\ w = Weight(pc'[t])  BY WeightInt
<1>4. outstanding \in Int  BY DEF TypeInv
<1>5. CASE PhasesKept /\ outstanding' = outstanding + w - v
  <2>1. Outstanding' = Outstanding  BY <1>5, OutstandingKept
  <2>2. PICK d \in Int : d = w - v  OBVIOUS
  <2>3. outstanding' = outstanding + d /\ Uncounted' = Uncounted + d
    BY <1>2, <1>3, <1>4, <1>5, <2>2
  <2>4. CountInv'  BY <1>2, <2>1, <2>3, CountSame
  <2>5. WaitingInv'  BY <1>1, <1>5, WaitingKept DEF PhasesKept
  <2> QED  BY <2>4, <2>5
<1>6. CASE /\ \E i \in Irp : irp[i].phase = "active" /\ PhaseTo(i, "done")
           /\ outstanding' = outstanding /\ pc'[t] = "decrement" /\ v = 0
  <2>1. PICK i \in Irp : irp[i].phase = "active" /\ PhaseTo(i, "done")  BY <1>6
  <2>2. Counts(irp[i].phase) /\ ~Counts("done")  BY <2>1 DEF Counts
  <2>3. i \in Outstanding /\ Outstanding' = Outstanding \ {i}  BY <2>1, <2>2, OutstandingIs
  <2>4. w = 1  BY <1>3, <1>6 DEF Weight
  <2>5. outstanding' = outstanding + w - 1 /\ Uncounted' = Uncounted + w
    BY <1>2, <1>3, <1>4, <1>6, <2>4
  <2>6. CountInv'  BY <1>2, <2>3, <2>5, CountLess
  <2>7. WaitingInv'  BY <1>1, <2>1, WaitingKept DEF PhaseTo
  <2> QED  BY <2>6, <2>7
<1> QED  BY <1>1, <1>3, <1>5, <1>6 DEF Counting

LEMMA TailDistinct ==
  ASSUME NEW S, NEW q \in Seq(S), q # <<>>, \A m, n \in DOMAIN q : q[m] = q[n] => m = n
  PROVE  /\ \A m, n \in DOMAIN Tail(q) : Tail(q)[m] = Tail(q)[n] => m = n
         /\ \A n \in DOMAIN Tail(q) : Tail(q)[n] # Head(q) /\ Tail(q)[n] \in Jobs(q) /\ Tail(q)[n] \in S
<1>1. /\ DOMAIN Tail(q) = 1 .. Len(q) - 1 /\ DOMAIN q = 1 .. Len(q) /\ Len(q) \in Nat /\ Len(q) > 0
      /\ \A n \in 1 .. Len(q) - 1 : Tail(q)[n] = q[n + 1] /\ n + 1 \in 1 .. Len(q) /\ n + 1 # 1
      /\ Head(q) = q[1] /\ 1 \in 1 .. Len(q) /\ \A n \in 1 .. Len(q) : q[n] \in S
  OBVIOUS
<1>2. ASSUME NEW m \in 1 .. Len(q) - 1, NEW n \in 1 .. Len(q) - 1, Tail(q)[m] = Tail(q)[n]
      PROVE  m = n  BY <1>1, <1>2
<1>3. ASSUME NEW n \in 1 .. Len(q) - 1
      PROVE  Tail(q)[n] # Head(q) /\ Tail(q)[n] \in Jobs(q) /\ Tail(q)[n] \in S
  BY <1>1 DEF Jobs
<1> QED  BY <1>1, <1>2, <1>3

LEMMA DispatchCounts ==
  ASSUME TypeInv, WaitingInv, CountInv, Dispatch
  PROVE  WaitingInv' /\ CountInv'
<1>1. /\ Head(queue["main"]) \in Irp /\ irp[Head(queue["main"])].phase = "queued"
      /\ pc["main"] = "item" /\ queue["main"] # <<>>
  BY FirstWaiting DEF Dispatch
<1>2. PICK i \in Irp, x \in Item, success \in BOOLEAN, phase \in {"active", "done"},
           label \in {"request", "decrement"} : Dispatched(i, x, success, phase, label)
  BY <1>1, DispatchEffect DEF TypeInv
<1>3. PICK q \in Seq(Irp) : q = queue["main"] /\ q # <<>> /\ i = Head(q)
  BY <1>1, <1>2 DEF TypeInv, QueueType, Dispatched
<1>4. queue'["main"] = Tail(q)  BY <1>2, <1>3 DEF Dispatched, TypeInv, QueueType, Thread
<1>5. pc'["main"] = label /\ \A u \in Thread : u # "main" => pc'[u] = pc[u]
  BY <1>2 DEF Dispatched, Goto, TypeInv, ThreadType, Thread
<1>6. PhaseTo(i, phase) /\ irp[i].phase = "queued"
  BY <1>1, <1>2, SMTT(40) DEF Dispatched, SetPhase, PhaseTo
<1>7. outstanding' = outstanding /\ outstanding \in Int  BY ZenonT(60) DEF Dispatch, idle, TypeInv
<1>8. (phase = "active" /\ label = "request") \/ (phase = "done" /\ label = "decrement")
  BY <1>2 DEF Dispatched
<1>9. WaitingInv'
  <2>1. \A m, n \in DOMAIN q : q[m] = q[n] => m = n  BY <1>3 DEF WaitingInv
  <2>2. /\ \A m, n \in DOMAIN Tail(q) : Tail(q)[m] = Tail(q)[n] => m = n
        /\ \A n \in DOMAIN Tail(q) : Tail(q)[n] # i /\ Tail(q)[n] \in Jobs(q) /\ Tail(q)[n] \in Irp
    BY <1>3, <2>1, TailDistinct
  <2>3. \A k \in Jobs(q) : irp[k].phase = "queued"  BY <1>3 DEF WaitingInv, Jobs
  <2>4. \A n \in DOMAIN Tail(q) : irp'[Tail(q)[n]].phase = "queued"  BY <1>6, <2>2, <2>3 DEF PhaseTo
  <2>5. pc'["main"] \notin {"item", "no item", "suspended"}  BY <1>5, <1>8
  <2> QED  BY <1>4, <2>2, <2>4, <2>5 DEF WaitingInv
<1>10. PICK t \in Thread : t = "main"  BY DEF Thread
<1>11. /\ Uncounted \in Int /\ Uncounted' \in Int
       /\ Uncounted' = Uncounted + Weight(pc'[t]) - Weight(pc[t])
  BY <1>5, <1>10, WeightMoves
<1>12. Weight(pc[t]) = 0  BY <1>1, <1>10 DEF Weight
<1>13. CountInv'
  <2>1. CASE phase = "active"
    <3>1. Weight(pc'[t]) = 0  BY <1>5, <1>8, <1>10, <2>1 DEF Weight
    <3>2. Counts(phase) /\ Counts(irp[i].phase)  BY <1>6, <2>1 DEF Counts
    <3>3. Outstanding' = Outstanding  BY <1>6, <3>2, OutstandingIs
    <3>4. Uncounted' = Uncounted  BY <1>11, <1>12, <3>1
    <3> QED  BY <1>7, <3>3, <3>4 DEF CountInv
  <2>2. CASE phase = "done"
    <3>1. Weight(pc'[t]) = 1  BY <1>5, <1>8, <1>10, <2>2 DEF Weight
    <3>2. ~Counts(phase) /\ Counts(irp[i].phase)  BY <1>6, <2>2 DEF Counts
    <3>3. i \in Outstanding /\ Outstanding' = Outstanding \ {i}  BY <1>6, <3>2, OutstandingIs
    <3>4. PICK w \in Int : w = 1  OBVIOUS
    <3>5. Uncounted' = Uncounted + w  BY <1>11, <1>12, <3>1, <3>4
    <3>6. outstanding' = outstanding + w - 1  BY <1>7, <3>4
    <3> QED  BY <1>11, <3>3, <3>5, <3>6, CountLess
  <2> QED  BY <2>1, <2>2
<1> QED  BY <1>9, <1>13, ZenonT(20)

LEMMA OwnerCounts ==
  ASSUME TypeInv, WaitingInv, CountInv, Owner
  PROVE  WaitingInv' /\ CountInv'
<1>1. irp' = irp /\ queue' = queue /\ pc' = pc /\ outstanding' = outstanding
  BY OwnerEffect DEF OwnerOnly
<1> QED  BY <1>1 DEF WaitingInv, CountInv, Outstanding, Uncounted

LEMMA CountedAndWaiting ==
  ASSUME TypeInv, Flow, WaitingInv, CountInv, Next
  PROVE  WaitingInv' /\ CountInv'
BY ClientCounts, WorkCounts, DispatchCounts, OwnerCounts, StepCases

-----------------------------------------------------------------------------
(* The owner of the queue.                                                 *)

\* Without an IRP that was accepted nothing is in flight, ...
LEMMA NoFlight ==
  ASSUME TypeInv, Flow, \A i \in Irp : irp[i].phase # "active"
  PROVE  /\ Flight = {} /\ queue["io"] = <<>> /\ queue["completion"] = <<>>
         /\ \A t \in Thread : ~Live(t)
<1>1. Flight = {}  BY DEF Flow, FlightInv, Alive
<1>2. Jobs(queue["io"]) = {} /\ Jobs(queue["completion"]) = {}  BY <1>1 DEF Flight
<1>3. queue["io"] = <<>> /\ queue["completion"] = <<>>  BY <1>2, EmptyJobs DEF TypeInv, QueueType
<1> QED  BY <1>1, <1>3, HandIs

\* ... and with nothing outstanding no IRP waits either, and the threads are at rest.
LEMMA NothingLeft ==
  ASSUME TypeInv, Flow, WaitingInv, CountInv, outstanding = 0
  PROVE  /\ \A i \in Irp : irp[i].phase \notin {"adding", "queued", "active"}
         /\ pc["main"] \notin AtHead
         /\ \A t \in Thread : ~Live(t) /\ pc[t] \notin {"read ahead", "decrement"}
<1>1. PICK a \in {0, 1}, b \in {0, 1}, c \in {0, 1} :
        a = Weight(pc["main"]) /\ b = Weight(pc["io"]) /\ c = Weight(pc["completion"])
  BY WeightInt
<1>2. Cardinality(Outstanding) \in Nat  BY FS_CardinalityType DEF CountInv
<1>3. 0 = Cardinality(Outstanding) + (a + b + c)  BY <1>1 DEF CountInv, Uncounted
<1>4. Cardinality(Outstanding) = 0 /\ a = 0 /\ b = 0 /\ c = 0  BY <1>2, <1>3
<1>5. Outstanding = {}  BY <1>4, FS_EmptySet DEF CountInv
<1>6. \A i \in Irp : irp[i].phase \notin {"adding", "queued", "active"}  BY <1>5 DEF Outstanding
<1>7. pc["main"] \notin AtHead  BY <1>6, FirstWaiting DEF AtHead
<1>8. \A t \in Thread : Weight(pc[t]) = 0  BY <1>1, <1>4 DEF Thread
<1>9. \A t \in Thread : pc[t] \notin {"read ahead", "decrement"}
  <2>1. SUFFICES ASSUME NEW t \in Thread, pc[t] \in {"read ahead", "decrement"}  PROVE FALSE
    OBVIOUS
  <2>2. Weight(pc[t]) = 1  BY <2>1 DEF Weight
  <2> QED  BY <1>8, <2>2
<1> QED  BY <1>6, <1>7, <1>9, NoFlight

\* No step of a thread accepts an IRP, and a thread that has ended does nothing.
LEMMA WorkOwner ==
  ASSUME TypeInv, Flow, NEW t \in Thread, Work(t)
  PROVE  /\ Kept /\ (resumed' => resumed) /\ pc[t] # "stopped"
         /\ \A u \in Thread : u # t => pc'[u] = pc[u]
         /\ \A i \in Irp : irp'[i].phase = irp[i].phase \/ irp'[i].phase = "done"
         /\ pc'[t] = "stopped" => threadExit
<1>1. /\ Kept /\ \A u \in Thread : u # t => pc'[u] = pc[u]
      /\ \A i \in Irp : irp'[i].phase = irp[i].phase \/ irp'[i].phase = "done"
  BY WorkWorked DEF Worked, Counting, PhasesKept, PhaseTo
<1>2. resumed' => resumed
  BY Zenon DEF Work, PassOver, Release, Wait, QueueEmpty, Decrement, SignalNoOutstanding, TakeIrp,
         AwaitResume, AwaitPool, TakeRequest, QueueFragment, TakeFragment, IoStep, WriteDevice,
         ReadDevice, ReadAhead, WriteDone, ReadDone, TakeCompletion, CompleteRead, control
<1>3. pc[t] # "stopped"
  BY Zenon DEF Work, PassOver, Release, Wait, QueueEmpty, Decrement, SignalNoOutstanding, TakeIrp,
         AwaitResume, AwaitPool, TakeRequest, QueueFragment, TakeFragment, IoStep, WriteDevice,
         ReadDevice, ReadAhead, WriteDone, ReadDone, TakeCompletion, CompleteRead
<1>4. pc'[t] = "stopped" => threadExit
  <2>1. \/ Goto(t, "stopped") /\ threadExit
        \/ \E l \in AnyLabel \ {"stopped"} : Goto(t, l)
    <3>1. CASE Wait(t) \/ QueueEmpty(t) \/ Decrement(t) \/ SignalNoOutstanding(t) \/ Release(t)
      BY <3>1
        DEF Wait, QueueEmpty, Decrement, SignalNoOutstanding, Release, AnyLabel, MainLabel,
            Common
    <3>2. CASE t = "main" /\ (TakeIrp \/ AwaitResume \/ AwaitPool \/ TakeRequest \/ QueueFragment)
      BY <3>2
        DEF TakeIrp, AwaitResume, AwaitPool, TakeRequest, QueueFragment, AnyLabel,
            MainLabel,
                  Common
    <3>3. CASE t = "io" /\ (TakeFragment \/ IoStep \/ WriteDone \/ ReadDone)
      <4>1. \E l \in {"write", "write done", "read", "read done", "decrement", "release",
                     "read ahead", "dequeue"} : Goto("io", l)
        BY <3>3, Zenon
          DEF TakeFragment, IoStep, WriteDevice, ReadDevice, ReadAhead, WriteDone, ReadDone
      <4> QED  BY <3>3, <4>1 DEF AnyLabel, IoLabel, Common
    <3>4. CASE t = "completion" /\ (TakeCompletion \/ CompleteRead)
      <4>1. \E l \in {"decrypt", "decrement", "release"} : Goto("completion", l)
        BY <3>4, Zenon DEF TakeCompletion, CompleteRead
      <4> QED  BY <3>4, <4>1 DEF AnyLabel, CompletionLabel, Common
    <3> QED  BY <3>1, <3>2, <3>3, <3>4 DEF Work, PassOver
  <2> QED  BY <2>1 DEF Goto, TypeInv, ThreadType
<1> QED  BY <1>1, <1>2, <1>3, <1>4

LEMMA HeldWork ==
  ASSUME TypeInv, Flow, HoldInv, StopInv, owner \in Held, NEW t \in Thread, Work(t)
  PROVE  AtRest(t)'
<1>1. /\ suspended /\ ~resumed /\ ~threadExit /\ \A i \in Irp : irp[i].phase # "active"
      /\ AtRest(t)
  BY DEF HoldInv, StopInv, Held, Stopping, HoldExcludesIo, AtRest, Thread
<1>2. queue["io"] = <<>> /\ queue["completion"] = <<>>  BY <1>1, NoFlight
<1>3. pc \in [Thread -> AnyLabel]  BY DEF TypeInv, ThreadType
<1>4. CASE Wait(t) \/ QueueEmpty(t) \/ SignalNoOutstanding(t) \/ Release(t)
  BY <1>1, <1>3, <1>4 DEF AtRest, Wait, QueueEmpty, SignalNoOutstanding, Release, Goto
<1>5. CASE Decrement(t)  BY <1>1, <1>3, <1>5, SMTT(40) DEF AtRest, Decrement, Goto
<1>6. CASE t = "main" /\ (TakeIrp \/ AwaitResume \/ AwaitPool \/ TakeRequest \/ QueueFragment)
  BY <1>1, <1>3, <1>6
    DEF AtRest, TakeIrp, AwaitResume, AwaitPool, TakeRequest, QueueFragment, Goto
<1>7. CASE t = "io" /\ (TakeFragment \/ IoStep \/ WriteDone \/ ReadDone)
  BY <1>1, <1>2, <1>7, Zenon DEF AtRest, TakeFragment, IoStep, WriteDevice, ReadDevice, ReadAhead,
                          WriteDone, ReadDone
<1>8. CASE t = "completion" /\ (TakeCompletion \/ CompleteRead)
  BY <1>1, <1>2, <1>8, Zenon DEF AtRest, TakeCompletion, CompleteRead
<1> QED  BY <1>4, <1>5, <1>6, <1>7, <1>8 DEF Work, PassOver

\* What the other steps do not do.
LEMMA ClientOwner ==
  ASSUME TypeInv, NEW i \in Irp, Client(i)
  PROVE  /\ pc' = pc /\ UNCHANGED control
         /\ \A j \in Irp : /\ irp'[j].phase = "active" => irp[j].phase = "active"
                           /\ irp'[j].phase = "queued" => irp[j].phase = "queued" \/ ~stopPending
BY ClientEffect DEF Submitted, Added, Rejected, Cancelled, OthersKept, IrpsKept

LEMMA HoldKept ==
  ASSUME TypeInv, Flow, WaitingInv, CountInv, HoldInv, StopInv, Next
  PROVE  HoldInv'
<1>1. CASE \E i \in Irp : Client(i)  BY <1>1, ClientOwner DEF HoldInv, HoldExcludesIo, control
<1>2. CASE \E t \in Thread : Work(t)
  <2>1. PICK t \in Thread : Work(t)  BY <1>2
  <2>2. owner' = owner /\ suspended' = suspended /\ (resumed' => resumed)
    BY <2>1, WorkOwner DEF Kept
  <2>3. CASE owner \in Held
    <3>1. \A u \in Thread : AtRest(u)  BY <2>3 DEF HoldInv, HoldExcludesIo, Held, AtRest, Thread
    <3>2. AtRest(t)' /\ \A u \in Thread : u # t => pc'[u] = pc[u]
      BY <2>1, <2>3, HeldWork, WorkOwner
    <3>3. \A u \in Thread : AtRest(u)'  BY <3>1, <3>2 DEF AtRest
    <3>4. \A i \in Irp : irp'[i].phase # "active"
      BY <2>1, <2>3, WorkOwner DEF HoldInv, HoldExcludesIo, Held
    <3>5. HoldExcludesIo'  BY <3>3, <3>4 DEF HoldExcludesIo, AtRest, Thread
    <3> QED  BY <2>2, <3>5 DEF HoldInv
  <2>4. CASE owner \notin Held  BY <2>2, <2>4 DEF HoldInv, HoldExcludesIo, Held
  <2> QED  BY <2>3, <2>4
<1>3. CASE Dispatch
  <2>1. owner' = owner /\ suspended' = suspended /\ resumed' = resumed /\ pc["main"] = "item"
    BY <1>3 DEF Dispatch, control
  <2>2. owner \notin Held  BY <2>1 DEF HoldInv, HoldExcludesIo, Held
  <2> QED  BY <2>1, <2>2, ZenonT(60) DEF HoldInv, HoldExcludesIo, Held
<1>4. CASE Owner
  <2>1. irp' = irp /\ pc' = pc  BY <1>4, OwnerEffect DEF OwnerOnly
  <2>2. CASE ConfirmIdle
    <3>1. CASE outstanding = 0
      <4>0. (\A t \in Thread : ~Live(t)) /\ pc["main"] \notin AtHead  BY <3>1, NothingLeft
      <4>1. /\ \A i \in Irp : irp[i].phase # "active"
            /\ \A t \in Thread : ~Live(t) /\ pc[t] \notin {"read ahead", "decrement"}
        BY <3>1, NothingLeft
      <4>2. \A t \in Thread : pc[t] # "stopped"  BY <2>2 DEF ConfirmIdle, StopInv, Stopping
      <4>3. \A t \in Thread : AtRest(t)
        <5>1. AtRest("main")
          <6>1. ~Live("main") /\ pc["main"] \notin AtHead  BY <4>0 DEF Thread
          <6>2. pc["main"] \notin {"item", "no item"}  BY <6>1 DEF AtHead
          <6>3. pc["main"] \notin {"request", "buffer", "no request"}  BY <6>1 DEF Live, LiveLabel
          <6> QED  BY <6>2, <6>3 DEF AtRest
        <5>2. pc["io"] \in IoLabel /\ pc["completion"] \in CompletionLabel
          BY Labels DEF TypeInv, ThreadType
        <5>3. AtRest("io")  BY <4>1, <4>2, <5>2 DEF AtRest, Live, LiveLabel, IoLabel, Common, Thread
        <5>4. AtRest("completion")
          BY <4>1, <4>2, <5>2 DEF AtRest, Live, LiveLabel, CompletionLabel, Common, Thread
        <5> QED  BY <5>1, <5>3, <5>4 DEF Thread
      <4>4. owner' = "held" /\ suspended' = suspended /\ resumed' = resumed
        BY <2>2, <3>1 DEF ConfirmIdle, StillIdle, Go
      <4>5. HoldExcludesIo'  BY <2>1, <4>1, <4>3 DEF HoldExcludesIo, AtRest, Thread
      <4> QED  BY <2>2, <4>4, <4>5 DEF HoldInv, ConfirmIdle
    <3>2. CASE outstanding # 0
      BY <2>2, <3>2 DEF ConfirmIdle, StillIdle, Go, HoldInv, HoldExcludesIo, Held
    <3> QED  BY <3>1, <3>2
  <2>3. CASE Convert \/ MoveArea
    <3>1. /\ owner \in Held /\ owner' \in Held
          /\ suspended' = suspended /\ resumed' = resumed
      BY <2>3 DEF Convert, MoveArea, Go, Held
    <3>2. HoldExcludesIo'  BY <2>1, <3>1 DEF HoldInv, HoldExcludesIo, Held
    <3> QED  BY <3>1, <3>2 DEF HoldInv
  <2>4. CASE Suspend  BY <2>4 DEF Suspend, Go, HoldInv, HoldExcludesIo, Held
  <2>5. CASE BeginHold \/ CheckIdle \/ AwaitIdle \/ HoldFails \/ Recheck \/ ResumeFromHold
             \/ BeginStop \/ StopQueue
    <3>1. owner' \notin Held \union {"confirm"}
      BY <2>5
        DEF BeginHold, CheckIdle, AwaitIdle, HoldFails, Recheck, ResumeFromHold, BeginStop,
                  StopQueue, Go, Held
    <3> QED  BY <3>1 DEF HoldInv, HoldExcludesIo, Held
  <2> QED  BY <1>4, <2>2, <2>3, <2>4, <2>5 DEF Owner, Holding
<1> QED  BY <1>1, <1>2, <1>3, <1>4, StepCases

LEMMA StopKept ==
  ASSUME TypeInv, Flow, WaitingInv, CountInv, StopInv, Next
  PROVE  StopInv'
<1>1. CASE \E i \in Irp : Client(i)
  <2>1. PICK i \in Irp : Client(i)  BY <1>1
  <2>2. /\ pc' = pc /\ UNCHANGED <<owner, threadExit, stopPending>>
        /\ \A j \in Irp : /\ irp'[j].phase = "active" => irp[j].phase = "active"
                          /\ irp'[j].phase = "queued" => irp[j].phase = "queued" \/ ~stopPending
    BY <2>1, ClientOwner DEF control
  <2>3. owner \in Stopping => \A j \in Irp : irp'[j].phase \notin {"queued", "active"}
    BY <2>2 DEF StopInv
  <2> QED  BY <2>2, <2>3 DEF StopInv
<1>2. CASE \E t \in Thread : Work(t)
  <2>1. PICK t \in Thread : Work(t)  BY <1>2
  <2>2. /\ UNCHANGED <<owner, threadExit, stopPending>> /\ pc[t] # "stopped"
        /\ \A u \in Thread : u # t => pc'[u] = pc[u]
        /\ \A i \in Irp : irp'[i].phase = irp[i].phase \/ irp'[i].phase = "done"
        /\ pc'[t] = "stopped" => threadExit
    BY <2>1, WorkOwner DEF Kept
  <2>3. \A u \in Thread : pc[u] = "stopped" => pc'[u] = "stopped"  BY <2>2
  <2>4. \A u \in Thread : pc'[u] = "stopped" => threadExit  BY <2>2 DEF StopInv
  <2>5. owner \in Stopping => \A i \in Irp : irp'[i].phase \notin {"queued", "active"}
    BY <2>2 DEF StopInv
  <2> QED  BY <2>2, <2>3, <2>4, <2>5 DEF StopInv, Thread
<1>3. CASE Dispatch
  <2>1. Head(queue["main"]) \in Irp /\ irp[Head(queue["main"])].phase = "queued" /\ pc["main"] = "item"
    BY <1>3, FirstWaiting DEF Dispatch
  <2>2. owner \notin Stopping  BY <2>1, ZenonT(60) DEF StopInv
  <2>3. UNCHANGED <<owner, threadExit, stopPending>>  BY <1>3 DEF Dispatch, control
  <2>4. \E l : l # "stopped" /\ Goto("main", l)
    <3>1. PICK i \in Irp, x \in Item, success \in BOOLEAN, phase \in {"active", "done"},
           label \in {"request", "decrement"} : Dispatched(i, x, success, phase, label)
      BY <1>3, <2>1, DispatchEffect DEF TypeInv
    <3> QED  BY <3>1 DEF Dispatched
  <2>5. \A t \in Thread : pc'[t] = "stopped" => pc[t] = "stopped"
    BY <2>4 DEF Goto, TypeInv, ThreadType
  <2> QED  BY <2>2, <2>3, <2>5, ZenonT(60) DEF StopInv, Stopping
<1>4. CASE Owner
  <2>1. irp' = irp /\ pc' = pc  BY <1>4, OwnerEffect DEF OwnerOnly
  <2>2. CASE StopQueue
    <3>1. stopPending' = stopPending  BY <2>2 DEF StopQueue
    <3>2. CASE owner \in {"stopping", "wait stop"} /\ owner' \in {"stopping", "wait stop"}
      <4>1. threadExit' = threadExit  BY <2>2, <3>2 DEF StopQueue, Go
      <4> QED  BY <2>1, <3>1, <3>2, <4>1 DEF StopInv, Stopping
    <3>3. CASE owner = "stopping" /\ owner' = "main"
      <4>1. outstanding = 0 /\ threadExit'  BY <2>2, <3>3 DEF StopQueue, StopReady, Go
      <4>2. \A i \in Irp : irp[i].phase \notin {"queued", "active"}  BY <4>1, NothingLeft
      <4> QED  BY <2>1, <3>1, <3>3, <4>1, <4>2 DEF StopInv, Stopping
    <3>4. CASE /\ owner \in {"main", "io", "completion"} /\ pc[owner] = "stopped"
               /\ owner' = IF owner = "main" THEN "io"
                            ELSE IF owner = "io" THEN "completion" ELSE "stopped"
      <4>1. threadExit' = threadExit  BY <2>2, <3>4 DEF StopQueue
      <4> QED  BY <2>1, <3>1, <3>4, <4>1 DEF StopInv, Stopping
    <3> QED  BY <2>2, <3>2, <3>3, <3>4 DEF StopQueue, Go
  <2>3. CASE ~StopQueue
    <3>1. /\ owner \notin Stopping /\ owner \notin {"stopping", "wait stop"}
          /\ owner' \notin Stopping /\ (owner' \in {"stopping", "wait stop"} => stopPending')
          /\ threadExit' = threadExit
      BY <1>4, <2>3
        DEF Owner, Holding, BeginHold, CheckIdle, AwaitIdle, HoldFails, Recheck, Suspend,
                  ConfirmIdle, Convert, MoveArea, ResumeFromHold, BeginStop, Go, Stopping
    <3> QED  BY <2>1, <3>1 DEF StopInv, Stopping
  <2> QED  BY <2>2, <2>3
<1> QED  BY <1>1, <1>2, <1>3, <1>4, StepCases

-----------------------------------------------------------------------------
(* What is in use.                                                         *)

\* The numbers of requests in the queues and in the hands of the threads.
LEMMA Numbers ==
  ASSUME TypeInv
  PROVE  \E a, b \in Nat, c, d, e \in {0, 1} :
           /\ a = Len(queue["io"]) /\ b = Len(queue["completion"])
           /\ c = One(pc["main"] = "buffer")
           /\ d = One(job["io"] # NoJob) /\ e = One(job["completion"] # NoJob)
<1>1. PICK a \in Nat : a = Len(queue["io"])  BY DEF TypeInv, QueueType
<1>2. PICK b \in Nat : b = Len(queue["completion"])  BY DEF TypeInv, QueueType
<1>3. PICK c \in {0, 1} : c = One(pc["main"] = "buffer")  BY DEF One
<1>4. PICK d \in {0, 1} : d = One(job["io"] # NoJob)  BY DEF One
<1>5. PICK e \in {0, 1} : e = One(job["completion"] # NoJob)  BY DEF One
<1> QED  BY <1>1, <1>2, <1>3, <1>4, <1>5

LEMMA UsedSame ==
  ASSUME UsedInv, requestsInUse' = requestsInUse,
         queue'["io"] = queue["io"], queue'["completion"] = queue["completion"],
         job'["io"] = job["io"], job'["completion"] = job["completion"],
         pc'["main"] = "buffer" <=> pc["main"] = "buffer"
  PROVE  UsedInv'
BY DEF UsedInv, Used, One

\* A request in flight is one.
LEMMA InFlightIs ==
  ASSUME Flow, NEW j \in Flight  PROVE j # NoJob
BY NoJobType DEF Flow, FlightInv, Alive

LEMMA WorkUsed ==
  ASSUME TypeInv, Flow, UsedInv, NEW t \in Thread, Work(t)
  PROVE  UsedInv'
<1>0. /\ pc \in [Thread -> AnyLabel] /\ job \in [Thread -> Job] /\ DOMAIN queue = Thread
      /\ requestsInUse \in Int
  BY DEF TypeInv, ThreadType, QueueType
<1>1. PICK a, b \in Nat, c, d, e \in {0, 1} :
           /\ a = Len(queue["io"]) /\ b = Len(queue["completion"])
           /\ c = One(pc["main"] = "buffer")
           /\ d = One(job["io"] # NoJob) /\ e = One(job["completion"] # NoJob)
  BY Numbers
<1>2. requestsInUse = a + b + c + d + e  BY <1>1 DEF UsedInv, Used
<1>3. CASE PassOver(t)  BY <1>3, PassOverEffect, UsedSame DEF Thread
<1>4. CASE Release(t)
  <2>1. /\ queue' = queue /\ job' = [job EXCEPT ![t] = NoJob]
        /\ requestsInUse' = requestsInUse - RequestsReleased(t)
        /\ pc'["main"] # "buffer" <=> pc["main"] # "buffer"
    BY <1>0, <1>4 DEF Release, queues, Goto, Thread
  <2>2. One(pc'["main"] = "buffer") = c /\ queue'["io"] = queue["io"]  BY <1>1, <2>1 DEF One
  <2>3. CASE t = "main"  BY <1>0, <2>1, <2>2, <2>3, UsedSame DEF RequestsReleased, Thread
  <2>4. CASE t = "io"
    <3>1. RequestsReleased(t) = d  BY <1>1, <2>4 DEF RequestsReleased, One
    <3>2. One(job'["io"] # NoJob) = 0 /\ One(job'["completion"] # NoJob) = e
      BY <1>0, <1>1, <2>1, <2>4 DEF One, Thread
    <3>3. Used' = a + b + c + 0 + e  BY <1>1, <2>1, <2>2, <3>2 DEF Used
    <3>4. requestsInUse' = requestsInUse - d  BY <2>1, <3>1
    <3> QED  BY <1>2, <3>3, <3>4 DEF UsedInv
  <2>5. CASE t = "completion"
    <3>1. RequestsReleased(t) = e  BY <1>1, <2>5 DEF RequestsReleased, One
    <3>2. One(job'["io"] # NoJob) = d /\ One(job'["completion"] # NoJob) = 0
      BY <1>0, <1>1, <2>1, <2>5 DEF One, Thread
    <3>3. Used' = a + b + c + d + 0  BY <1>1, <2>1, <2>2, <3>2 DEF Used
    <3>4. requestsInUse' = requestsInUse - e  BY <2>1, <3>1
    <3> QED  BY <1>2, <3>3, <3>4 DEF UsedInv
  <2> QED  BY <2>3, <2>4, <2>5 DEF Thread
<1>5. CASE TakeRequest
  <2>1. PICK x, y : Prepared(x, y)  BY <1>5, TakeRequestEffect
  <2>2. /\ queue' = queue /\ job'["io"] = job["io"] /\ job'["completion"] = job["completion"]
        /\ pc["main"] # "buffer" /\ pc'["main"] = "buffer" /\ requestsInUse' = requestsInUse + 1
    BY <1>0, <1>5, <2>1 DEF TakeRequest, Prepared, queues, Goto, Thread
  <2>3. c = 0  BY <1>1, <2>2 DEF One
  <2>4. One(pc'["main"] = "buffer") = 1  BY <2>2 DEF One
  <2>5. Used' = a + b + 1 + d + e  BY <1>1, <2>2, <2>4 DEF Used
  <2>6. requestsInUse' = requestsInUse + 1  BY <2>2
  <2> QED  BY <1>2, <2>3, <2>5, <2>6 DEF UsedInv
<1>6. CASE QueueFragment
  <2>1. PICK j, f \in Job : Queued(j, f)  BY <1>6, QueueFragmentEffect
  <2>2. /\ job'["io"] = job["io"] /\ job'["completion"] = job["completion"]
        /\ pc["main"] = "buffer" /\ pc'["main"] # "buffer"
        /\ queue'["io"] = Append(queue["io"], f) /\ queue'["completion"] = queue["completion"]
    BY <1>0, <1>6, <2>1 DEF QueueFragment, Queued, Goto, Thread
  <2>3. requestsInUse' = requestsInUse  BY <1>6 DEF QueueFragment, pool
  <2>4. c = 1  BY <1>1, <2>2 DEF One
  <2>5. One(pc'["main"] = "buffer") = 0  BY <2>2 DEF One
  <2>6. Len(queue'["io"]) = a + 1  BY <1>1, <2>2, AppendJobs DEF TypeInv, QueueType
  <2>7. Used' = a + 1 + b + 0 + d + e  BY <1>1, <2>2, <2>5, <2>6 DEF Used
  <2> QED  BY <1>2, <2>3, <2>4, <2>7 DEF UsedInv
<1>7. CASE TakeFragment
  <2>1. \E r \in Job : /\ r = Head(queue["io"]) /\ queue["io"] # <<>>
                       /\ job' = [job EXCEPT !["io"] = r]
                       /\ queue' = [queue EXCEPT !["io"] = Tail(@)]
    BY <1>7, TakeFragmentEffect
  <2>2. PICK r \in Job : /\ r = Head(queue["io"]) /\ queue["io"] # <<>>
                         /\ job' = [job EXCEPT !["io"] = r]
                         /\ queue' = [queue EXCEPT !["io"] = Tail(@)]
    BY <2>1
  <2>3. /\ job'["io"] = r /\ job'["completion"] = job["completion"]
        /\ queue'["io"] = Tail(queue["io"]) /\ queue'["completion"] = queue["completion"]
    BY <1>0, <2>2 DEF Thread
  <2>4. requestsInUse' = requestsInUse /\ pc'["main"] = pc["main"]
    BY <1>0, <1>7 DEF TakeFragment, pool, Goto, Thread
  <2>5. Len(queue'["io"]) = a - 1 /\ r \in Jobs(queue["io"])
    <3>1. PICK q \in Seq(Job) : q = queue["io"]  BY DEF TypeInv, QueueType
    <3>2. Len(Tail(q)) = Len(q) - 1 /\ Head(q) \in Jobs(q)  BY <2>2, <3>1, TailJobs
    <3> QED  BY <1>1, <2>2, <2>3, <3>1, <3>2
  <2>6. r # NoJob  BY <2>5, InFlightIs DEF Flight
  <2>7. job["io"] = NoJob
    BY <1>7, Zenon
      DEF TakeFragment, TypeInv, ThreadType, Live, Releasing, LiveLabel, ReleasingLabel,
          Thread
  <2>8. d = 0 /\ One(job'["io"] # NoJob) = 1  BY <1>1, <2>3, <2>6, <2>7 DEF One
  <2>9. Used' = a - 1 + b + c + 1 + e  BY <1>1, <2>3, <2>4, <2>5, <2>8, Zenon DEF Used
  <2> QED  BY <1>2, <2>4, <2>8, <2>9 DEF UsedInv
<1>8. CASE IoStep \/ WriteDone \/ CompleteRead
  <2>1. job' = job /\ queue' = queue /\ requestsInUse' = requestsInUse
    BY <1>8, Zenon
      DEF IoStep, WriteDevice, ReadDevice, ReadAhead, WriteDone, CompleteRead, queues, pool
  <2>2. pc'["main"] = pc["main"]
    <3>1. \/ \E l : Goto("io", l)
          \/ \E l : Goto("completion", l)
      BY <1>8, Zenon DEF IoStep, WriteDevice, ReadDevice, ReadAhead, WriteDone, CompleteRead
    <3> QED  BY <1>0, <3>1 DEF Goto, Thread
  <2> QED  BY <2>1, <2>2, UsedSame
<1>9. CASE ReadDone
  <2>1. PICK r \in Job : r = job["io"]  BY <1>0, SMTT(40) DEF Thread
  <2>2. /\ job'["io"] = NoJob /\ job'["completion"] = job["completion"]
        /\ queue'["completion"] = Append(queue["completion"], r) /\ queue'["io"] = queue["io"]
    BY <1>0, <1>9, <2>1, ZenonT(60) DEF ReadDone, Thread
  <2>3. requestsInUse' = requestsInUse /\ pc'["main"] = pc["main"]
    BY <1>0, <1>9 DEF ReadDone, pool, Goto, Thread
  <2>4. r # NoJob
    <3>1. Live("io") /\ "io" \in Thread  BY <1>9, Zenon DEF ReadDone, Live, LiveLabel, Thread
    <3> QED  BY <2>1, <3>1, HandIs, InFlightIs
  <2>5. d = 1 /\ One(job'["io"] # NoJob) = 0  BY <1>1, <2>1, <2>2, <2>4 DEF One
  <2>6. Len(queue'["completion"]) = b + 1  BY <1>1, <2>2, AppendJobs DEF TypeInv, QueueType
  <2>7. Used' = a + (b + 1) + c + 0 + e  BY <1>1, <2>2, <2>3, <2>5, <2>6 DEF Used
  <2> QED  BY <1>2, <2>3, <2>5, <2>7 DEF UsedInv
<1>10. CASE TakeCompletion
  <2>1. PICK r \in Job : /\ r = Head(queue["completion"]) /\ queue["completion"] # <<>>
                         /\ job' = [job EXCEPT !["completion"] = r]
                         /\ queue' = [queue EXCEPT !["completion"] = Tail(@)]
    BY <1>10, TakeCompletionEffect
  <2>2. /\ job'["completion"] = r /\ job'["io"] = job["io"]
        /\ queue'["completion"] = Tail(queue["completion"]) /\ queue'["io"] = queue["io"]
    BY <1>0, <2>1 DEF Thread
  <2>3. requestsInUse' = requestsInUse /\ pc'["main"] = pc["main"]
    BY <1>0, <1>10 DEF TakeCompletion, pool, Goto, Thread
  <2>4. Len(queue'["completion"]) = b - 1 /\ r \in Jobs(queue["completion"])
    <3>1. PICK q \in Seq(Job) : q = queue["completion"]  BY DEF TypeInv, QueueType
    <3>2. Len(Tail(q)) = Len(q) - 1 /\ Head(q) \in Jobs(q)  BY <2>1, <3>1, TailJobs
    <3> QED  BY <1>1, <2>1, <2>2, <3>1, <3>2
  <2>5. r # NoJob  BY <2>4, InFlightIs DEF Flight
  <2>6. job["completion"] = NoJob
    BY <1>10
      DEF TakeCompletion, TypeInv, ThreadType, Live, Releasing, LiveLabel, ReleasingLabel,
          Thread
  <2>7. e = 0 /\ One(job'["completion"] # NoJob) = 1  BY <1>1, <2>2, <2>5, <2>6 DEF One
  <2>8. Used' = a + (b - 1) + c + d + 1  BY <1>1, <2>2, <2>3, <2>4, <2>7 DEF Used
  <2> QED  BY <1>2, <2>3, <2>7, <2>8 DEF UsedInv
<1> QED  BY <1>3, <1>4, <1>5, <1>6, <1>7, <1>8, <1>9, <1>10 DEF Work

LEMMA UsedKept ==
  ASSUME TypeInv, Flow, WaitingInv, UsedInv, Next
  PROVE  UsedInv'
<1>0. /\ pc \in [Thread -> AnyLabel] /\ job \in [Thread -> Job] /\ DOMAIN queue = Thread
  BY DEF TypeInv, ThreadType, QueueType
<1>1. CASE \E i \in Irp : Client(i)
  <2>1. PICK i \in Irp : Client(i)  BY <1>1
  <2>2. requestsInUse' = requestsInUse /\ pc' = pc /\ job' = job  BY <2>1, ClientEffect DEF pool
  <2>3. queue'["io"] = queue["io"] /\ queue'["completion"] = queue["completion"]
    BY <1>0, <2>1, ClientEffect DEF Submitted, Added, Rejected, Cancelled, Thread
  <2> QED  BY <2>2, <2>3, UsedSame
<1>2. CASE Dispatch
  <2>1. requestsInUse' = requestsInUse  BY <1>2 DEF Dispatch
  <2>2. PICK i \in Irp, x \in Item, success \in BOOLEAN, phase \in {"active", "done"},
             label \in {"request", "decrement"} : Dispatched(i, x, success, phase, label)
    BY <1>2, FirstWaiting, DispatchEffect, Zenon DEF Dispatch, TypeInv
  <2>3. /\ queue'["io"] = queue["io"] /\ queue'["completion"] = queue["completion"]
        /\ job'["io"] = job["io"] /\ job'["completion"] = job["completion"]
        /\ pc'["main"] = label
    BY <1>0, <2>2, ZenonT(20) DEF Dispatched, Goto, Thread
  <2>4. pc["main"] # "buffer" /\ pc'["main"] # "buffer"  BY <1>2, <2>3 DEF Dispatch
  <2> QED  BY <2>1, <2>3, <2>4, UsedSame, ZenonT(20)
<1>3. CASE Owner  BY <1>3, OwnerEffect, UsedSame DEF OwnerOnly
<1> QED  BY <1>1, <1>2, <1>3, WorkUsed, StepCases

LEMMA ItemUseSame ==
  ASSUME TypeInv, ItemUseInv, ItemsKept,
         \A i \in Irp : irp[i].phase = "active" => irp'[i].phase = "active",
         \A t \in Thread : pc[t] \in ReleasingLabel => pc'[t] \in ReleasingLabel /\ job'[t] = job[t]
  PROVE  ItemUseInv'
<1>1. \A x \in Item : item[x].irp \in Irp \union {NoIrp} /\ item'[x].irp = item[x].irp
  BY DEF TypeInv, ItemsKept
<1>2. \A x \in Item : GivenBack(x) => GivenBack(x)'  BY DEF GivenBack, Releasing
<1> QED  BY <1>1, <1>2 DEF ItemUseInv

\* A thread with a request that is to be done, or with none, goes on.
LEMMA ItemUseGoes ==
  ASSUME TypeInv, ItemUseInv, ItemsKept, PhasesKept, NEW t \in Thread, pc[t] \notin ReleasingLabel,
         NEW l, Goto(t, l), NEW j, job' = job \/ job' = [job EXCEPT ![t] = j]
  PROVE  ItemUseInv'
<1>1. \A u \in Thread : u # t => pc'[u] = pc[u] /\ job'[u] = job[u]
  BY DEF Goto, TypeInv, ThreadType
<1>2. \A u \in Thread : pc[u] \in ReleasingLabel => pc'[u] \in ReleasingLabel /\ job'[u] = job[u]
  BY <1>1
<1> QED  BY <1>2, ItemUseSame DEF PhasesKept

LEMMA ItemUseDone ==
  ASSUME TypeInv, Flow, ItemUseInv, NEW t \in Thread, Live(t), job[t].last,
         SetPhase(IrpOf(job[t]), "done"), Goto(t, "decrement"), job' = job, item' = item
  PROVE  ItemUseInv'
<1>1. PICK i \in Irp : i = IrpOf(job[t])  BY HandAlive
<1>2. job[t].item \in Item /\ i # NoIrp  BY <1>1, HandAlive, QueueAssumption DEF Alive
<1>3. pc'[t] = "decrement" /\ \A u \in Thread : u # t => pc'[u] = pc[u]
  BY DEF Goto, TypeInv, ThreadType
<1>4. \A x \in Item : item[x].irp = i => x = job[t].item  BY <1>1, <1>2 DEF Flow, ItemInv, IrpOf
<1>5. \A x \in Item : item[x].irp \in Irp \union {NoIrp}  BY DEF TypeInv
<1>6. \A k \in Irp : k # i => irp'[k].phase = irp[k].phase  BY <1>1 DEF SetPhase
<1>7. pc[t] \notin ReleasingLabel /\ pc'[t] \in ReleasingLabel
  BY <1>3 DEF Live, LiveLabel, ReleasingLabel
<1>8. \A x \in Item : GivenBack(x) => GivenBack(x)'  BY <1>3, <1>7 DEF GivenBack, Releasing
<1>9. GivenBack(job[t].item)'  BY <1>7 DEF GivenBack, Releasing
<1>10. SUFFICES ASSUME NEW x \in Item, item[x].irp # NoIrp
                PROVE  irp'[item[x].irp].phase = "active" \/ GivenBack(x)'
  BY DEF ItemUseInv
<1>11. CASE item[x].irp = i  BY <1>4, <1>9, <1>11
<1>12. CASE item[x].irp # i  BY <1>5, <1>6, <1>8, <1>10, <1>12 DEF ItemUseInv
<1> QED  BY <1>11, <1>12

LEMMA ItemUseRelease ==
  ASSUME TypeInv, Flow, ItemUseInv, NEW t \in Thread, Release(t)
  PROVE  ItemUseInv'
<1>1. /\ irp' = irp /\ pc'[t] = "dequeue"
      /\ \A u \in Thread : u # t => pc'[u] = pc[u] /\ job'[u] = job[u]
  BY DEF Release, Goto, TypeInv, ThreadType
<1>3. \A x \in Item : /\ item'[x].irp \in {item[x].irp, NoIrp}
                      /\ job[t].last /\ x = job[t].item => item'[x].irp = NoIrp
  BY DEF Release, TypeInv
<1>4. SUFFICES ASSUME NEW x \in Item, item'[x].irp # NoIrp
               PROVE  irp'[item'[x].irp].phase = "active" \/ GivenBack(x)'
  BY DEF ItemUseInv
<1>5. item'[x].irp = item[x].irp /\ item[x].irp # NoIrp /\ ~(job[t].last /\ x = job[t].item)
  BY <1>3, <1>4
<1>6. CASE irp[item[x].irp].phase = "active"  BY <1>1, <1>5, <1>6
<1>7. CASE GivenBack(x)
  <2>1. PICK u \in Thread : Releasing(u) /\ job[u].last /\ job[u].item = x  BY <1>7 DEF GivenBack
  <2>2. u # t  BY <1>5, <2>1
  <2> QED  BY <1>1, <2>1, <2>2 DEF GivenBack, Releasing
<1> QED  BY <1>5, <1>6, <1>7 DEF ItemUseInv

LEMMA WorkItemUse ==
  ASSUME TypeInv, Flow, ItemUseInv, NEW t \in Thread, Work(t)
  PROVE  ItemUseInv'
<1>1. CASE PassOver(t)  BY <1>1, PassOverEffect, ItemUseSame DEF ItemsKept
<1>2. CASE Release(t)  BY <1>2, ItemUseRelease
<1>3. CASE \/ t = "main" /\ (TakeRequest \/ QueueFragment)
           \/ t = "io" /\ TakeFragment
           \/ t = "completion" /\ TakeCompletion
  <2>1. item' = item /\ irp' = irp
    BY <1>3, Zenon DEF TakeRequest, QueueFragment, TakeFragment, TakeCompletion, pool
  <2>2. (\E l : Goto(t, l)) /\ \E j : job' = [job EXCEPT ![t] = j]
    <3>1. CASE TakeRequest /\ t = "main"  BY <3>1, TakeRequestEffect DEF Prepared
    <3>2. CASE QueueFragment /\ t = "main"  BY <3>2, QueueFragmentEffect DEF Queued
    <3>3. CASE TakeFragment /\ t = "io"  BY <3>3, Zenon DEF TakeFragment
    <3>4. CASE TakeCompletion /\ t = "completion"  BY <3>4, Zenon DEF TakeCompletion
    <3> QED  BY <1>3, <3>1, <3>2, <3>3, <3>4
  <2>3. pc[t] \notin ReleasingLabel
    BY <1>3, Zenon DEF TakeRequest, QueueFragment, TakeFragment, TakeCompletion, ReleasingLabel
  <2>4. ItemsKept /\ PhasesKept  BY <2>1 DEF ItemsKept, PhasesKept
  <2> QED  BY <2>2, <2>3, <2>4, ItemUseGoes, Zenon
<1>4. CASE t = "io" /\ IoStep
  <2>1. (\E l : Goto(t, l)) /\ job' = job /\ irp' = irp /\ ItemsKept  BY <1>4, IoStepEffect
  <2>2. pc[t] \notin ReleasingLabel
    BY <1>4 DEF IoStep, WriteDevice, ReadDevice, ReadAhead, ReleasingLabel
  <2>3. PhasesKept  BY <2>1, SamePhases
  <2> QED  BY <2>1, <2>2, <2>3, ItemUseGoes
<1>5. CASE t = "io" /\ ReadDone
  <2>1. Live(t)  BY <1>5, Zenon DEF ReadDone, Live, LiveLabel
  <2>2. IrpOf(job["io"]) \in Irp  BY <1>5, <2>1, HandAlive
  <2>3. (\E l : Goto(t, l)) /\ IrpsKept /\ job' = [job EXCEPT ![t] = NoJob] /\ item' = item
    BY <1>5, <2>2, ReadDoneEffect
  <2>4. pc[t] \notin ReleasingLabel  BY <2>1 DEF Live, LiveLabel, ReleasingLabel
  <2>5. ItemsKept /\ PhasesKept  BY <2>3, SamePhases DEF ItemsKept
  <2> QED  BY <2>3, <2>4, <2>5, ItemUseGoes, Zenon
<1>6. CASE (t = "io" /\ WriteDone) \/ (t = "completion" /\ CompleteRead)
  <2>1. Live(t)  BY <1>6, Zenon DEF WriteDone, CompleteRead, Live, LiveLabel
  <2>2. IrpOf(job[t]) \in Irp  BY <2>1, HandAlive
  <2>3. /\ \/ Goto(t, "decrement") /\ job[t].last /\ SetPhase(IrpOf(job[t]), "done")
           \/ (\E l : Goto(t, l)) /\ IrpsKept
        /\ job' = job /\ item' = item
    BY <1>6, <2>2, WriteDoneEffect, CompleteReadEffect
  <2>4. pc[t] \notin ReleasingLabel  BY <2>1 DEF Live, LiveLabel, ReleasingLabel
  <2>5. IrpsKept => PhasesKept  BY SamePhases
  <2>6. ItemsKept  BY <2>3 DEF ItemsKept
  <2> QED  BY <2>1, <2>3, <2>4, <2>5, <2>6, ItemUseGoes, ItemUseDone
<1> QED  BY <1>1, <1>2, <1>3, <1>4, <1>5, <1>6 DEF Work

LEMMA ItemUseKept ==
  ASSUME TypeInv, Flow, WaitingInv, ItemUseInv, Next
  PROVE  ItemUseInv'
<1>1. CASE \E i \in Irp : Client(i)
  <2>1. PICK i \in Irp : Client(i)  BY <1>1
  <2>2. item' = item /\ pc' = pc /\ job' = job  BY <2>1, ClientEffect DEF pool
  <2>3. \A k \in Irp : irp[k].phase = "active" => irp'[k].phase = "active"
    BY <2>1, ClientEffect DEF Submitted, Added, Rejected, Cancelled, OthersKept, IrpsKept
  <2> QED  BY <2>2, <2>3, ItemUseSame DEF ItemsKept
<1>2. CASE Dispatch
  <2>1. /\ Head(queue["main"]) \in Irp /\ irp[Head(queue["main"])].phase = "queued"
        /\ pc["main"] = "item"
    BY <1>2, FirstWaiting, Zenon DEF Dispatch
  <2>2. PICK i \in Irp, x \in Item, success \in BOOLEAN, phase \in {"active", "done"},
             label \in {"request", "decrement"} : Dispatched(i, x, success, phase, label)
    BY <1>2, <2>1, DispatchEffect DEF TypeInv
  <2>3. /\ item[x].irp = NoIrp /\ item'[x].irp = i /\ irp[i].phase = "queued" /\ i # NoIrp
        /\ \A y \in Item : y # x => item'[y] = item[y]
    BY <2>1, <2>2, QueueAssumption DEF Dispatched, FreeItem, TypeInv
  <2>4. /\ irp'[i].phase = phase
        /\ \A k \in Irp : k # i => irp'[k].phase = irp[k].phase
    BY <2>2 DEF Dispatched, SetPhase
  <2>5. \A y \in Item : item[y].irp # i /\ item[y].irp \in Irp \union {NoIrp}
    BY <2>3 DEF Flow, ItemInv, TypeInv
  <2>6. PICK j : j = NewJob(x, irp[i].request.offset + DataOffset, irp[i].request.length)  OBVIOUS
  <2>7. j.item = x /\ j.last = TRUE  BY <2>6 DEF NewJob
  <2>8. /\ pc'["main"] = label /\ job'["main"] = j /\ "main" \in Thread
        /\ \A u \in Thread : u # "main" => pc'[u] = pc[u] /\ job'[u] = job[u]
    BY <2>2, <2>6 DEF Dispatched, Goto, TypeInv, ThreadType, Thread
  <2>9. phase = "active" \/ GivenBack(x)'
    BY <2>2, <2>7, <2>8 DEF Dispatched, ReleasingLabel, GivenBack, Releasing
  <2>10. pc["main"] \notin ReleasingLabel  BY <2>1 DEF ReleasingLabel
  <2>11. \A y \in Item : GivenBack(y) => GivenBack(y)'  BY <2>8, <2>10 DEF GivenBack, Releasing
  <2>12. SUFFICES ASSUME NEW y \in Item, item'[y].irp # NoIrp
                  PROVE  irp'[item'[y].irp].phase = "active" \/ GivenBack(y)'
    BY DEF ItemUseInv
  <2>13. CASE y = x  BY <2>3, <2>4, <2>9, <2>13
  <2>14. CASE y # x  BY <2>3, <2>12, <2>14, <2>4, <2>5, <2>11 DEF ItemUseInv
  <2> QED  BY <2>13, <2>14
<1>3. CASE Owner  BY <1>3, OwnerEffect, ItemUseSame DEF OwnerOnly, ItemsKept
<1> QED  BY <1>1, <1>2, <1>3, WorkItemUse, StepCases

LEMMA BufferSame ==
  ASSUME BufferInv, bufferFree' = bufferFree, InIo \subseteq InIo'
  PROVE  BufferInv'
BY DEF BufferInv, InIo

LEMMA InIoSame ==
  ASSUME queue'["io"] = queue["io"], ~Live("io") \/ (pc'["io"] \in LiveLabel /\ job'["io"] = job["io"])
  PROVE  InIo \subseteq InIo'
<1>1. Hand("io") \subseteq Hand("io")'  BY DEF Hand, HandOf, Live
<1> QED  BY <1>1 DEF InIo

LEMMA WorkBuffer ==
  ASSUME TypeInv, Flow, BufferInv, NEW t \in Thread, Work(t)
  PROVE  BufferInv'
<1>0. /\ pc \in [Thread -> AnyLabel] /\ job \in [Thread -> Job] /\ DOMAIN queue = Thread
      /\ bufferFree \in [Buffer -> BOOLEAN] /\ queue["io"] \in Seq(Job) /\ "io" \in Thread
  BY DEF TypeInv, ThreadType, QueueType, Thread
<1>1. CASE PassOver(t)
  <2>1. /\ queue' = queue /\ bufferFree' = bufferFree /\ job' = job
        /\ \A u \in Thread : u # t => pc'[u] = pc[u]
        /\ pc'[t] \in LiveLabel <=> pc[t] \in LiveLabel
    BY <1>1, PassOverEffect
  <2> QED  BY <1>0, <2>1, InIoSame, BufferSame DEF Live
<1>2. CASE \/ Release(t) \/ (t = "main" /\ TakeRequest)
           \/ t = "completion" /\ (TakeCompletion \/ CompleteRead)
  <2>1. bufferFree' = bufferFree
    BY <1>2, Zenon DEF Release, TakeRequest, TakeCompletion, CompleteRead, buffers
  <2>2. queue'["io"] = queue["io"]
    <3>1. queue' = queue \/ \E q : queue' = [queue EXCEPT !["completion"] = q]
      BY <1>2, Zenon DEF Release, TakeRequest, TakeCompletion, CompleteRead, queues
    <3> QED  BY <1>0, <3>1
  <2>3. CASE t = "io"  BY <1>2, <2>3, <2>1, <2>2, InIoSame, BufferSame DEF Release, Live, LiveLabel
  <2>4. CASE t # "io"
    <3>1. (\E l : Goto(t, l)) /\ (job' = job \/ \E j : job' = [job EXCEPT ![t] = j])
      <4>1. CASE t = "main" /\ TakeRequest  BY <4>1, TakeRequestEffect DEF Prepared
      <4>2. CASE Release(t) \/ (t = "completion" /\ (TakeCompletion \/ CompleteRead))
        BY <4>2, Zenon DEF Release, TakeCompletion, CompleteRead
      <4> QED  BY <1>2, <4>1, <4>2
    <3>2. pc'["io"] = pc["io"] /\ job'["io"] = job["io"]  BY <1>0, <2>4, <3>1 DEF Goto
    <3> QED  BY <2>1, <2>2, <3>2, InIoSame, BufferSame DEF Live
  <2> QED  BY <2>3, <2>4
<1>3. CASE t = "main" /\ QueueFragment
  <2>1. PICK j, f \in Job : Queued(j, f)  BY <1>3, QueueFragmentEffect
  <2>2. /\ pc'["io"] = pc["io"] /\ job'["io"] = job["io"] /\ queue'["io"] = Append(queue["io"], f)
        /\ bufferFree' = [bufferFree EXCEPT ![f.buffer] = FALSE]
    BY <1>0, <2>1 DEF Queued, Goto
  <2>3. Jobs(queue'["io"]) = Jobs(queue["io"]) \union {f}  BY <1>0, <2>2, AppendJobs
  <2>4. Hand("io")' = Hand("io")  BY <1>0, <2>2, NextHandIs
  <2> QED  BY <1>0, <2>2, <2>3, <2>4 DEF BufferInv
<1>4. CASE t = "io" /\ TakeFragment
  <2>1. PICK r \in Job, l \in {"write", "write done", "read", "read done"} :
           /\ r = Head(queue["io"]) /\ queue["io"] # <<>>
           /\ Goto("io", l) /\ job' = [job EXCEPT !["io"] = r]
           /\ queue' = [queue EXCEPT !["io"] = Tail(@)]
    BY <1>4, TakeFragmentEffect
  <2>2. pc'["io"] = l /\ job'["io"] = r /\ queue'["io"] = Tail(queue["io"])  BY <1>0, <2>1 DEF Goto
  <2>3. Jobs(queue["io"]) = {r} \union Jobs(queue'["io"])  BY <1>0, <2>1, <2>2, TailJobs
  <2>4. Hand("io") = {} /\ Hand("io")' = {r}
    BY <1>4, <2>2, <1>0, HandIs, NextHandIs, ZenonT(60) DEF TakeFragment, Live, LiveLabel
  <2>5. bufferFree' = bufferFree  BY <1>4 DEF TakeFragment, buffers
  <2> QED  BY <2>3, <2>4, <2>5, BufferSame DEF InIo
<1>5. CASE t = "io" /\ IoStep
  <2>1. PICK l \in {"write done", "read done", "decrement"} :
              /\ Goto("io", l)
              /\ \/ l = "write done" /\ pc["io"] = "write"
                 \/ l = "read done" /\ pc["io"] = "read"
                 \/ l = "decrement" /\ pc["io"] = "read ahead"
    BY <1>5, IoStepEffect
  <2>2. queue' = queue /\ bufferFree' = bufferFree /\ job' = job  BY <1>5, IoStepEffect
  <2>3. ~Live("io") \/ pc'["io"] \in LiveLabel  BY <1>0, <2>1 DEF Goto, Live, LiveLabel
  <2> QED  BY <2>2, <2>3, InIoSame, BufferSame
<1>6. CASE t = "io" /\ (WriteDone \/ ReadDone)
  <2>1. Live("io")  BY <1>6, Zenon DEF WriteDone, ReadDone, Live, LiveLabel
  <2>2. PICK r \in Job : r = job["io"]  BY <1>0
  <2>3. Hand("io") = {r}  BY <1>0, <2>1, <2>2, HandIs
  <2>4. bufferFree' = [bufferFree EXCEPT ![r.buffer] = TRUE] /\ queue'["io"] = queue["io"]
    <3>1. queue' = queue \/ \E q : queue' = [queue EXCEPT !["completion"] = q]
      BY <1>6, Zenon DEF WriteDone, ReadDone, queues
    <3>2. queue'["io"] = queue["io"]  BY <1>0, <3>1
    <3>3. bufferFree' = [bufferFree EXCEPT ![r.buffer] = TRUE]
      BY <1>6, <2>2, Zenon DEF WriteDone, ReadDone
    <3> QED  BY <3>2, <3>3
  <2>5. \A b \in Buffer : bufferFree'[b] = IF b = r.buffer THEN TRUE ELSE bufferFree[b]
    BY <1>0, <2>4
  <2> QED  BY <2>3, <2>4, <2>5, Zenon DEF BufferInv
<1> QED  BY <1>1, <1>2, <1>3, <1>4, <1>5, <1>6 DEF Work

LEMMA BufferKept ==
  ASSUME TypeInv, Flow, WaitingInv, BufferInv, Next
  PROVE  BufferInv'
<1>0. /\ pc \in [Thread -> AnyLabel] /\ job \in [Thread -> Job] /\ DOMAIN queue = Thread
      /\ "io" \in Thread
  BY DEF TypeInv, ThreadType, QueueType, Thread
<1>1. CASE \E i \in Irp : Client(i)
  <2>1. PICK i \in Irp : Client(i)  BY <1>1
  <2>2. bufferFree' = bufferFree /\ pc' = pc /\ job' = job  BY <2>1, ClientEffect DEF buffers
  <2>3. queue'["io"] = queue["io"]
    BY <1>0, <2>1, ClientEffect DEF Submitted, Added, Rejected, Cancelled
  <2> QED  BY <2>2, <2>3, InIoSame, BufferSame DEF Live
<1>2. CASE Dispatch
  <2>1. bufferFree' = bufferFree  BY <1>2 DEF Dispatch, buffers
  <2>2. PICK i \in Irp, x \in Item, success \in BOOLEAN, phase \in {"active", "done"},
             label \in {"request", "decrement"} : Dispatched(i, x, success, phase, label)
    BY <1>2, FirstWaiting, DispatchEffect DEF Dispatch, TypeInv
  <2>3. queue'["io"] = queue["io"] /\ job'["io"] = job["io"] /\ pc'["io"] = pc["io"]
    BY <1>0, <2>2 DEF Dispatched, Goto
  <2> QED  BY <2>1, <2>3, InIoSame, BufferSame, ZenonT(20) DEF Live
<1>3. CASE Owner  BY <1>3, OwnerEffect, InIoSame, BufferSame DEF OwnerOnly, Live
<1> QED  BY <1>1, <1>2, <1>3, WorkBuffer, StepCases

-----------------------------------------------------------------------------
(* The protected blocks.                                                   *)

LEMMA AwayFrom ==
  ASSUME NEW r \in Request, ~Overlaps(r)
  PROVE  \A k \in 0 .. r.length - 1 :
           r.offset + DataOffset + k \notin ProtectedStart .. ProtectedEnd
<1>1. PICK a \in Nat, n \in Nat : a = r.offset + DataOffset /\ n = r.length  BY QueueAssumption
<1>2. ProtectedStart \in Nat /\ ProtectedEnd \in Nat  BY QueueAssumption
<1>3. ~(ProtectedStart <= ProtectedEnd /\ RegionsOverlap(a, a + n - 1, ProtectedStart, ProtectedEnd))
  BY <1>1 DEF Overlaps
<1>4. ASSUME NEW k \in 0 .. n - 1, a + k \in ProtectedStart .. ProtectedEnd
      PROVE  FALSE
  BY <1>1, <1>2, <1>3, <1>4 DEF RegionsOverlap
<1> QED  BY <1>1, <1>4

\* Whether a request in flight is a write does not change.
LEMMA SameWrite ==
  ASSUME Flow, NEW j \in Flight,
         \A x \in Item : item[x].irp \in Irp /\ irp[item[x].irp].phase = "active"
                           => item'[x].irp = item[x].irp,
         \A i \in Irp : irp[i].phase = "active" => irp'[i].request = irp[i].request
  PROVE  IsWrite(j)' <=> IsWrite(j)
BY DEF Flow, FlightInv, Alive, IsWrite, IrpOf

LEMMA WorkRequests ==
  ASSUME TypeInv, Flow, NEW t \in Thread, Work(t)
  PROVE  \A i \in Irp : irp'[i].request = irp[i].request
<1>1. CASE irp' = irp  BY <1>1
<1>2. CASE t = "io" /\ WriteDone
  <2>1. Live("io") /\ "io" \in Thread  BY <1>2 DEF WriteDone, Live, LiveLabel
  <2>2. PICK i \in Irp : i = IrpOf(job["io"])  BY <2>1, HandAlive
  <2>3. SetPhase(i, "done") \/ IrpsKept  BY <1>2, <2>2, WriteDoneEffect
  <2> QED  BY <2>3 DEF SetPhase, IrpsKept
<1>3. CASE t = "io" /\ ReadDone
  <2>1. Live("io") /\ "io" \in Thread  BY <1>3, Zenon DEF ReadDone, Live, LiveLabel
  <2>2. IrpOf(job["io"]) \in Irp  BY <2>1, HandAlive
  <2>3. IrpsKept  BY <1>3, <2>2, ReadDoneEffect
  <2> QED  BY <2>3 DEF IrpsKept
<1>4. CASE t = "completion" /\ CompleteRead
  <2>1. Live("completion") /\ "completion" \in Thread
    BY <1>4, Zenon DEF CompleteRead, Live, LiveLabel
  <2>2. PICK i \in Irp : i = IrpOf(job["completion"])  BY <2>1, HandAlive
  <2>3. SetPhase(i, "done") \/ IrpsKept  BY <1>4, <2>2, CompleteReadEffect
  <2> QED  BY <2>3 DEF SetPhase, IrpsKept
<1>5. CASE ~((t = "io" /\ (WriteDone \/ ReadDone)) \/ (t = "completion" /\ CompleteRead))
  <2>1. irp' = irp
    BY <1>5, PassOverEffect, ReleaseEffect, IoStepEffect, Zenon
       DEF Work, TakeRequest, QueueFragment, TakeFragment, TakeCompletion
  <2> QED  BY <2>1
<1> QED  BY <1>2, <1>3, <1>4, <1>5

LEMMA WorkItems ==
  ASSUME TypeInv, Flow, NEW t \in Thread, Work(t)
  PROVE  \A x \in Item : item[x].irp \in Irp /\ irp[item[x].irp].phase = "active"
                           => item'[x].irp = item[x].irp
<1>1. CASE Release(t)
  <2>1. \A x \in Item : item'[x].irp = IF job[t].last /\ job[t].item = x THEN NoIrp ELSE item[x].irp
    BY <1>1, ReleaseEffect
  <2>2. job[t].last => irp[item[job[t].item].irp].phase = "done"
    BY <1>1 DEF Flow, ItemInv, Releasing, ReleasingLabel, IrpOf, Release
  <2> QED  BY <2>1, <2>2
<1>2. CASE ~Release(t)
  <2>1. item' = item \/ ItemsKept
    BY <1>2, PassOverEffect, IoStepEffect, Zenon
       DEF Work, TakeRequest, QueueFragment, TakeFragment, WriteDone, ReadDone,
           TakeCompletion,
           CompleteRead, pool
  <2> QED  BY <2>1 DEF ItemsKept
<1> QED  BY <1>1, <1>2

\* Requests move on from one thread to the next, and end.
LEMMA WorkFlight ==
  ASSUME TypeInv, NEW t \in Thread, Work(t), ~TakeRequest, ~QueueFragment
  PROVE  Flight' \subseteq Flight /\ Sent' \subseteq Sent
<1>0. /\ pc \in [Thread -> AnyLabel] /\ job \in [Thread -> Job] /\ DOMAIN queue = Thread
      /\ queue["io"] \in Seq(Job) /\ queue["completion"] \in Seq(Job)
      /\ {"main", "io", "completion"} \subseteq Thread
  BY DEF TypeInv, ThreadType, QueueType, Thread
<1>1. CASE PassOver(t) \/ Release(t)
  <2>1. /\ queue' = queue /\ \A u \in Thread : u # t => pc'[u] = pc[u] /\ job'[u] = job[u]
        /\ pc'[t] \in LiveLabel => pc[t] \in LiveLabel /\ job'[t] = job[t]
    BY <1>1, PassOverEffect, ReleaseEffect, ZenonT(60) DEF LiveLabel
  <2>2. ASSUME NEW u \in Thread  PROVE Hand(u)' \subseteq Hand(u)  BY <2>1 DEF Hand, HandOf
  <2> QED  BY <1>0, <2>1, <2>2 DEF Flight, Sent
<1>2. CASE t = "io" /\ TakeFragment
  <2>1. PICK r \in Job :
           /\ r = Head(queue["io"]) /\ queue["io"] # <<>>
           /\ job' = [job EXCEPT !["io"] = r] /\ queue' = [queue EXCEPT !["io"] = Tail(@)]
    BY <1>2, TakeFragmentEffect
  <2>2. /\ job'["io"] = r /\ queue'["io"] = Tail(queue["io"])
        /\ queue'["completion"] = queue["completion"]
        /\ job'["main"] = job["main"] /\ job'["completion"] = job["completion"]
    BY <1>0, <2>1
  <2>3. Jobs(queue["io"]) = {r} \union Jobs(queue'["io"])  BY <1>0, <2>1, <2>2, TailJobs, SMTT(40)
  <2>4. pc'["main"] = pc["main"] /\ pc'["completion"] = pc["completion"]
    BY <1>0, <1>2 DEF TakeFragment, Goto
  <2>5. Hand("main")' = Hand("main") /\ Hand("completion")' = Hand("completion")
    BY <1>0, <2>2, <2>4, NextHandIs
  <2>6. Hand("io")' \subseteq {r}  BY <2>2 DEF Hand, HandOf
  <2> QED  BY <2>2, <2>3, <2>5, <2>6 DEF Flight, Sent
<1>3. CASE t = "completion" /\ TakeCompletion
  <2>1. PICK r \in Job :
           /\ r = Head(queue["completion"]) /\ queue["completion"] # <<>>
           /\ job' = [job EXCEPT !["completion"] = r]
           /\ queue' = [queue EXCEPT !["completion"] = Tail(@)]
    BY <1>3, TakeCompletionEffect
  <2>2. /\ job'["completion"] = r /\ queue'["completion"] = Tail(queue["completion"])
        /\ queue'["io"] = queue["io"]
        /\ job'["main"] = job["main"] /\ job'["io"] = job["io"]
    BY <1>0, <2>1
  <2>3. Jobs(queue["completion"]) = {r} \union Jobs(queue'["completion"])
    BY <1>0, <2>1, <2>2, TailJobs
  <2>4. pc'["main"] = pc["main"] /\ pc'["io"] = pc["io"]  BY <1>0, <1>3 DEF TakeCompletion, Goto
  <2>5. Hand("main")' = Hand("main") /\ Hand("io")' = Hand("io")  BY <1>0, <2>2, <2>4, NextHandIs
  <2>6. Hand("completion")' \subseteq {r}  BY <2>2 DEF Hand, HandOf
  <2> QED  BY <2>2, <2>3, <2>5, <2>6 DEF Flight, Sent
<1>4. CASE (t = "io" /\ (IoStep \/ WriteDone)) \/ (t = "completion" /\ CompleteRead)
  <2>1. job' = job /\ queue' = queue
    BY <1>4, IoStepEffect, Zenon DEF WriteDone, CompleteRead, queues
  <2>2. Live(t) \/ pc'[t] = "decrement"
    BY <1>0, <1>4, Zenon
      DEF IoStep, WriteDevice, ReadDevice, ReadAhead, WriteDone, CompleteRead, Live,
          LiveLabel, Goto
  <2>3. \A u \in Thread : u # t => pc'[u] = pc[u]
    <3>1. \E l : Goto(t, l)
      BY <1>4, ZenonT(60) DEF IoStep, WriteDevice, ReadDevice, ReadAhead, WriteDone, CompleteRead
    <3> QED  BY <1>0, <3>1 DEF Goto
  <2>4. ASSUME NEW u \in Thread  PROVE Hand(u)' \subseteq Hand(u)
    BY <2>1, <2>2, <2>3 DEF Hand, HandOf, Live, LiveLabel
  <2> QED  BY <1>0, <2>1, <2>4 DEF Flight, Sent
<1>5. CASE t = "io" /\ ReadDone
  <2>1. PICK r \in Job : r = job["io"]  BY <1>0
  <2>2. /\ queue'["completion"] = Append(queue["completion"], r) /\ queue'["io"] = queue["io"]
        /\ job'["main"] = job["main"] /\ job'["completion"] = job["completion"]
    BY <1>0, <1>5, <2>1, ZenonT(60) DEF ReadDone
  <2>3. pc'["main"] = pc["main"] /\ pc'["completion"] = pc["completion"] /\ pc'["io"] \notin LiveLabel
    BY <1>0, <1>5 DEF ReadDone, Goto, LiveLabel
  <2>4. Jobs(queue'["completion"]) = Jobs(queue["completion"]) \union {r}  BY <1>0, <2>2, AppendJobs
  <2>5. /\ Hand("main")' = Hand("main") /\ Hand("completion")' = Hand("completion")
        /\ Hand("io")' = {}
    BY <1>0, <2>2, <2>3, NextHandIs
  <2>6. Hand("io") = {r}  BY <1>0, <1>5, <2>1, HandIs DEF ReadDone, Live, LiveLabel
  <2> QED  BY <2>2, <2>4, <2>5, <2>6 DEF Flight, Sent
<1> QED  BY <1>1, <1>2, <1>3, <1>4, <1>5 DEF Work

LEMMA WorkAway ==
  ASSUME TypeInv, Flow, WritesAway, NEW t \in Thread, Work(t)
  PROVE  WritesAway'
<1>0. /\ pc \in [Thread -> AnyLabel] /\ job \in [Thread -> Job] /\ DOMAIN queue = Thread
      /\ {"main", "io", "completion"} \subseteq Thread
  BY DEF TypeInv, ThreadType, QueueType, Thread
<1>1. \A j \in Flight : IsWrite(j)' <=> IsWrite(j)  BY WorkRequests, WorkItems, SameWrite
<1>2. CASE ~TakeRequest /\ ~QueueFragment  BY <1>1, <1>2, WorkFlight DEF WritesAway
<1>3. CASE TakeRequest
  <2>1. PICK b, e : Prepared(b, e)  BY <1>3, TakeRequestEffect
  <2>2. PICK j \in Job : j = job["main"]  BY <1>0
  <2>3. PICK k : k = WithArea(j, b, e)  OBVIOUS
  <2>4. /\ job'["main"] = k /\ job'["io"] = job["io"] /\ job'["completion"] = job["completion"]
        /\ pc'["main"] = "buffer" /\ pc'["io"] = pc["io"] /\ pc'["completion"] = pc["completion"]
    BY <1>0, <2>1, <2>2, <2>3 DEF Prepared, Goto
  <2>5. k.item = j.item /\ k.offset = j.offset /\ k.length = j.length  BY <2>3 DEF WithArea
  <2>6. Live("main")  BY <1>3 DEF TakeRequest, Live, LiveLabel
  <2>7. j \in Flight  BY <1>0, <2>2, <2>6, HandIs
  <2>8. Hand("io")' = Hand("io") /\ Hand("completion")' = Hand("completion") /\ Hand("main")' = {k}
    BY <1>0, <2>4, NextHandIs DEF LiveLabel
  <2>9. queue' = queue /\ irp' = irp /\ item' = item  BY <1>3 DEF TakeRequest, queues
  <2>10. Flight' \subseteq Flight \union {k}  BY <2>8, <2>9 DEF Flight
  <2>11. IsWrite(k)' <=> IsWrite(j)  BY <2>5, <2>9 DEF IsWrite, IrpOf
  <2>12. Away(j) => Away(k)  BY <2>5 DEF Away, Indices
  <2> QED  BY <1>1, <2>7, <2>10, <2>11, <2>12 DEF WritesAway
<1>4. CASE QueueFragment
  <2>1. PICK j \in Job, f \in Job : Queued(j, f)  BY <1>4, QueueFragmentEffect
  <2>2. PICK k : k = RestOf(j)  OBVIOUS
  <2>3. /\ job'["main"] \in {NoJob, k} /\ (job'["main"] # k => pc'["main"] \notin LiveLabel)
        /\ job'["io"] = job["io"] /\ job'["completion"] = job["completion"]
        /\ pc'["io"] = pc["io"] /\ pc'["completion"] = pc["completion"]
        /\ queue'["io"] = Append(queue["io"], f) /\ queue'["completion"] = queue["completion"]
        /\ j = job["main"] /\ f = FragmentOf(j)
    BY <1>0, <2>1, <2>2 DEF Queued, Goto, LiveLabel
  <2>4. Live("main")  BY <1>4 DEF QueueFragment, Live, LiveLabel
  <2>5. j \in Flight  BY <1>0, <2>3, <2>4, HandIs
  <2>6. /\ Hand("io")' = Hand("io") /\ Hand("completion")' = Hand("completion")
        /\ Hand("main")' \subseteq {k}
    BY <1>0, <2>3, NextHandIs DEF Hand, HandOf
  <2>7. Jobs(queue'["io"]) = Jobs(queue["io"]) \union {f}
    BY <2>3, AppendJobs DEF TypeInv, QueueType
  <2>8. Flight' \subseteq Flight \union {f, k}  BY <2>3, <2>6, <2>7 DEF Flight
  <2>9. irp' = irp /\ item' = item  BY <1>4 DEF QueueFragment, pool
  <2>10. /\ f.item = j.item /\ f.offset = j.offset
         /\ f.length = IF j.length <= MaxFragment THEN j.length ELSE MaxFragment
    BY <2>3, FragmentFields
  <2>11. k.item = j.item /\ k.offset = j.offset + MaxFragment /\ k.length = j.length - MaxFragment
    BY <2>2 DEF RestOf
  <2>12. (IsWrite(f)' <=> IsWrite(j)) /\ (IsWrite(k)' <=> IsWrite(j))
    BY <2>9, <2>10, <2>11 DEF IsWrite, IrpOf
  <2>13. j.offset \in Nat /\ j.length \in Nat /\ MaxFragment \in Nat  BY QueueAssumption DEF Job
  <2>14. Away(j) => Away(f)  BY <2>10, <2>13 DEF Indices, Away
  <2>15. Away(j) => Away(k)
    <3>1. \A n \in Indices(k) :
            n + MaxFragment \in Indices(j) /\ k.offset + n = j.offset + (n + MaxFragment)
      BY <2>11, <2>13 DEF Indices
    <3> QED  BY <3>1 DEF Away
  <2> QED  BY <1>1, <2>5, <2>8, <2>12, <2>14, <2>15 DEF WritesAway
<1> QED  BY <1>2, <1>3, <1>4

LEMMA WritesAwayKept ==
  ASSUME TypeInv, Flow, WaitingInv, WritesAway, Next
  PROVE  WritesAway'
<1>0. /\ pc \in [Thread -> AnyLabel] /\ job \in [Thread -> Job] /\ DOMAIN queue = Thread
      /\ {"main", "io", "completion"} \subseteq Thread
  BY DEF TypeInv, ThreadType, QueueType, Thread
<1>1. CASE \E i \in Irp : Client(i)
  <2>1. PICK i \in Irp : Client(i)  BY <1>1
  <2>2. item' = item /\ pc' = pc /\ job' = job  BY <2>1, ClientEffect DEF pool
  <2>3. queue'["io"] = queue["io"] /\ queue'["completion"] = queue["completion"]
    BY <1>0, <2>1, ClientEffect DEF Submitted, Added, Rejected, Cancelled
  <2>4. Flight' = Flight  BY <2>2, <2>3 DEF Flight, Hand
  <2>5. \A k \in Irp : irp[k].phase = "active" => irp'[k].request = irp[k].request
    BY <2>1, ClientEffect DEF Submitted, Added, Rejected, Cancelled, OthersKept, IrpsKept
  <2>6. \A j \in Flight : IsWrite(j)' <=> IsWrite(j)  BY <2>2, <2>5, SameWrite
  <2> QED  BY <2>4, <2>6 DEF WritesAway
<1>2. CASE Dispatch
  <2>1. /\ Head(queue["main"]) \in Irp /\ irp[Head(queue["main"])].phase = "queued"
        /\ pc["main"] = "item"
    BY <1>2, FirstWaiting DEF Dispatch
  <2>2. PICK i \in Irp, x \in Item, success \in BOOLEAN, phase \in {"active", "done"},
             label \in {"request", "decrement"} : Dispatched(i, x, success, phase, label)
    BY <1>2, <2>1, DispatchEffect DEF TypeInv
  <2>3. PICK r : r = irp[i].request  OBVIOUS
  <2>4. r \in Request  BY <2>1, <2>2, <2>3 DEF Dispatched, TypeInv, IrpType
  <2>5. PICK j : j = NewJob(x, r.offset + DataOffset, r.length)  OBVIOUS
  <2>6. j.item = x /\ j.offset = r.offset + DataOffset /\ j.length = r.length  BY <2>5 DEF NewJob
  <2>7. /\ job'["main"] = j /\ job'["io"] = job["io"] /\ job'["completion"] = job["completion"]
        /\ pc'["main"] = label /\ pc'["io"] = pc["io"] /\ pc'["completion"] = pc["completion"]
        /\ queue'["io"] = queue["io"] /\ queue'["completion"] = queue["completion"]
    BY <1>0, <2>2, <2>3, <2>5 DEF Dispatched, Goto
  <2>8. /\ item[x].irp = NoIrp /\ item'[x].irp = i
        /\ \A y \in Item : y # x => item'[y] = item[y]
    BY <2>2 DEF Dispatched, FreeItem, TypeInv
  <2>9. \A k \in Irp : irp'[k].request = irp[k].request  BY <2>2 DEF Dispatched, SetPhase
  <2>10. \A k \in Flight : IsWrite(k)' <=> IsWrite(k)  BY <2>8, <2>9, SameWrite, QueueAssumption
  <2>11. Hand("io")' = Hand("io") /\ Hand("completion")' = Hand("completion")
    BY <1>0, <2>7, NextHandIs
  <2>12. CASE label = "decrement"
    BY <1>0, <2>7, <2>12, NextHandIs, <2>11, <2>10 DEF LiveLabel, Flight, WritesAway
  <2>13. CASE label = "request"
    <3>1. Hand("main")' = {j}  BY <1>0, <2>7, <2>13, NextHandIs DEF LiveLabel
    <3>2. Flight' \subseteq Flight \union {j}  BY <2>7, <2>11, <3>1 DEF Flight
    <3>3. ~WriteDenied(r)  BY <2>2, <2>3, <2>13 DEF Dispatched
    <3>4. IsWrite(j)' <=> r.op = "write"
      BY <2>1, <2>2, <2>3, <2>6, <2>8, <2>9 DEF IsWrite, IrpOf, Dispatched
    <3>5. r.op = "write" => Away(j)  BY <2>4, <2>6, <3>3, AwayFrom DEF WriteDenied, Away, Indices
    <3> QED  BY <2>10, <3>2, <3>4, <3>5 DEF WritesAway
  <2> QED  BY <2>12, <2>13
<1>3. CASE Owner  BY <1>3, OwnerEffect DEF OwnerOnly, WritesAway, Flight, Hand, IsWrite, IrpOf
<1> QED  BY <1>1, <1>2, <1>3, WorkAway, StepCases

LEMMA AreaFits ==
  ASSUME OwnerType, AreaStart \in Nat, DeviceLength \in Nat
  PROVE  AreaStart <= DeviceLength
<1>1. area \in 0 .. DeviceLength - AreaStart  BY DEF OwnerType
<1> QED  BY <1>1

\* What the protected blocks hold does not depend on where the encrypted area ends.
LEMMA InitialKept ==
  ASSUME ProtectedPlace, OwnerType, NEW p \in ProtectedStart .. ProtectedEnd
  PROVE  InitialDevice'[p] = InitialDevice[p]
<1>1. p \in Device /\ p \in Nat  BY QueueAssumption DEF ProtectedPlace
<1>2. CASE ~IsFilterDevice  BY <1>2 DEF EncryptedArea, InitialDevice
<1>3. CASE IsFilterDevice
  <2>1. /\ p < AreaStart /\ AreaStart \in Nat /\ DeviceLength \in Nat /\ RemappedAreaOffset \in Nat
        /\ DataOffset = 0 /\ (RemappedAreaOffset = 0 \/ RemappedAreaOffset >= DeviceLength)
    BY <1>3, QueueAssumption DEF ProtectedPlace
  <2>2. AreaStart <= DeviceLength  BY <2>1, AreaFits
  <2>3. /\ p \notin EncryptedArea /\ p \notin EncryptedArea' /\ p < DeviceLength /\ ~(p < DataOffset)
    BY <1>1, <1>3, <2>1, <2>2 DEF EncryptedArea
  <2>4. RemappedAreaOffset > 0 => p - RemappedAreaOffset < 0  BY <1>1, <2>1, <2>2
  <2>5. /\ RemappedAreaOffset > 0 => p - RemappedAreaOffset \notin EncryptedArea
        /\ RemappedAreaOffset > 0 => p - RemappedAreaOffset \notin EncryptedArea'
    BY <1>1, <1>3, <2>1, <2>4 DEF EncryptedArea
  <2>6. ~(p >= DeviceLength)  BY <1>1, <2>1, <2>3
  <2>7. InitialDevice[p] = Plain(NoIrp, p - DataOffset)  BY <1>1, <2>3, <2>5, <2>6 DEF InitialDevice
  <2>8. InitialDevice'[p] = Plain(NoIrp, p - DataOffset)
    BY <1>1, <2>3, <2>5, <2>6 DEF InitialDevice
  <2> QED  BY <2>7, <2>8
<1> QED  BY <1>2, <1>3

\* The pieces of a fragment are blocks of it or of what is remapped.
LEMMA PiecesWithin ==
  ASSUME NEW r
  PROVE  \A n \in DOMAIN Pieces(r) : \A k \in Pieces(r)[n] :
           k \in Indices(r) \/ (RemappedAreaOffset # 0 /\ k \in r.encrypted)
<1> DEFINE before == {k \in Indices(r) : \A e \in r.encrypted : k < e}
           after == {k \in Indices(r) : \A e \in r.encrypted : k > e}
<1>1. before \subseteq Indices(r) /\ after \subseteq Indices(r)  OBVIOUS
<1>2. \/ Pieces(r) = <<Indices(r)>>
      \/ RemappedAreaOffset # 0 /\ Pieces(r) = <<r.encrypted, after>>
      \/ RemappedAreaOffset # 0 /\ Pieces(r) = <<before, r.encrypted>>
      \/ RemappedAreaOffset # 0 /\ Pieces(r) = <<before, r.encrypted, after>>
  BY DEF Pieces
<1> HIDE DEF before, after
<1> QED  BY <1>1, <1>2

LEMMA WritePlaces ==
  ASSUME ProtectedPlace, OwnerType, NEW r \in Job, Away(r), NEW k,
         k \in Indices(r) \/ (RemappedAreaOffset # 0 /\ k \in r.encrypted)
  PROVE  Place(r, k) \notin ProtectedStart .. ProtectedEnd
<1>1. k \in Nat /\ r.offset \in Nat /\ RemappedAreaOffset \in Nat
  BY QueueAssumption DEF Indices, Job
<1>2. CASE RemappedAreaOffset # 0 /\ k \in r.encrypted
  <2>1. /\ RemappedAreaOffset >= DeviceLength /\ ProtectedEnd < AreaStart /\ DeviceLength \in Nat
        /\ AreaStart \in Nat /\ ProtectedEnd \in Nat /\ ProtectedStart \in Nat
    BY <1>2, QueueAssumption DEF ProtectedPlace
  <2>2. AreaStart <= DeviceLength  BY <2>1, AreaFits
  <2>3. r.offset + k + RemappedAreaOffset > ProtectedEnd  BY <1>1, <2>1, <2>2
  <2>4. Place(r, k) = r.offset + k + RemappedAreaOffset  BY <1>2 DEF Place
  <2> QED  BY <1>1, <2>1, <2>3, <2>4
<1>3. CASE ~(RemappedAreaOffset # 0 /\ k \in r.encrypted)  BY <1>3, <1>1 DEF Away, Place
<1> QED  BY <1>2, <1>3

\* A write leaves alone every block where none of its pieces goes.
LEMMA NotWritten ==
  ASSUME WriteDevice, NEW p \in Device,
         \A n \in DOMAIN Pieces(job["io"]) : \A k \in Pieces(job["io"])[n] :
           Place(job["io"], k) # p
  PROVE  device'[p] = device[p]
<1>1. PICK failed \in Failures(Pieces(job["io"])) :
        \E part \in SUBSET In(Pieces(job["io"]), failed) :
          device' = [q \in Device |->
            IF \E k \in In(Pieces(job["io"]), DOMAIN Pieces(job["io"]) \ failed) \cup part :
                 Place(job["io"], k) = q
              THEN fragment[job["io"].buffer]
                     [CHOOSE k \in In(Pieces(job["io"]), DOMAIN Pieces(job["io"]) \ failed) \cup part :
                        Place(job["io"], k) = q]
              ELSE device[q]]
  BY DEF WriteDevice
<1>2. PICK part \in SUBSET In(Pieces(job["io"]), failed) :
        device' = [q \in Device |->
          IF \E k \in In(Pieces(job["io"]), DOMAIN Pieces(job["io"]) \ failed) \cup part :
               Place(job["io"], k) = q
            THEN fragment[job["io"].buffer]
                   [CHOOSE k \in In(Pieces(job["io"]), DOMAIN Pieces(job["io"]) \ failed) \cup part :
                      Place(job["io"], k) = q]
            ELSE device[q]]
  BY <1>1
<1>3. failed \in SUBSET DOMAIN Pieces(job["io"])  BY DEF Failures
<1>4. \A k \in In(Pieces(job["io"]), DOMAIN Pieces(job["io"]) \ failed) \cup part :
        Place(job["io"], k) # p
  BY <1>3 DEF In
<1> QED  BY <1>2, <1>4

LEMMA IntactKept ==
  ASSUME ProtectedPlace, TypeInv, Flow, AwayInv, Next
  PROVE  ProtectedIntact'
<1>1. SUFFICES ASSUME NEW p \in ProtectedStart .. ProtectedEnd
               PROVE  device'[p] = device[p]  BY InitialKept DEF TypeInv, AwayInv, ProtectedIntact
<1>2. p \in Device /\ OwnerType /\ DOMAIN device = Device  BY DEF ProtectedPlace, TypeInv
<1>3. CASE WriteDevice
  <2>1. job["io"] \in Job  BY DEF TypeInv, ThreadType, Thread
  <2>2. Away(job["io"])
    BY <1>3, HandIs DEF WriteDevice, Live, LiveLabel, Thread, Flow, FlightInv, AwayInv, WritesAway
  <2>3. \A n \in DOMAIN Pieces(job["io"]) : \A k \in Pieces(job["io"])[n] :
          Place(job["io"], k) # p  BY PiecesWithin, <1>2, <2>1, <2>2, WritePlaces
  <2> QED  BY <1>2, <1>3, <2>3, NotWritten
<1>4. CASE Convert
  <2>1. /\ IsFilterDevice /\ AreaStart \in Nat /\ area \in Nat /\ p < AreaStart /\ p \in Nat
    BY <1>2, <1>4, QueueAssumption DEF Convert, OwnerType, ProtectedPlace
  <2>2. CASE owner' = "encrypted"  BY <1>4, <2>2, <1>2, <2>1 DEF Convert, Go
  <2>3. CASE owner' = "decrypted"  BY <1>4, <2>3, <2>1, <1>2 DEF Convert, Go
  <2>4. owner' \in {"encrypted", "decrypted"}  BY <1>4 DEF Convert, Go
  <2> QED  BY <2>2, <2>3, <2>4
<1>5. CASE ~WriteDevice /\ ~Convert
  <2>1. CASE \E i \in Irp : Client(i)  BY <2>1, ClientEffect
  <2>2. CASE \E t \in Thread : Work(t)
    BY <1>5, <2>2, PassOverEffect, ReleaseEffect, ZenonT(60)
       DEF Work, TakeRequest, QueueFragment, TakeFragment, IoStep, ReadDevice, ReadAhead,
           WriteDone,
           ReadDone, TakeCompletion, CompleteRead, disk
  <2>3. CASE Dispatch  BY <2>3 DEF Dispatch, disk
  <2>4. CASE Owner
    BY <1>5, <2>4
      DEF Owner, Holding, BeginHold, CheckIdle, AwaitIdle, HoldFails, Recheck, Suspend,
                      ConfirmIdle, MoveArea, ResumeFromHold, BeginStop, StopQueue, ownerUnchanged, disk
  <2> QED  BY <2>1, <2>2, <2>3, <2>4, StepCases
<1> QED  BY <1>3, <1>4, <1>5

-----------------------------------------------------------------------------
(* The invariants hold at the start and while nothing happens.             *)

LEMMA AtStart ==
  ASSUME Init
  PROVE  /\ \A t \in Thread : pc[t] = "wait" /\ job[t] = NoJob /\ queue[t] = <<>>
         /\ \A i \in Irp : irp[i] = NewIrp
         /\ \A x \in Item : item[x] = [irp |-> NoIrp, success |-> TRUE]
         /\ Flight = {} /\ owner = "idle"
<1>1. /\ \A t \in Thread : pc[t] = "wait" /\ job[t] = NoJob /\ queue[t] = <<>>
      /\ \A i \in Irp : irp[i] = NewIrp
      /\ \A x \in Item : item[x] = [irp |-> NoIrp, success |-> TRUE]
      /\ owner = "idle"
  BY DEF Init
<1>2. Hand("main") = {} /\ Hand("io") = {} /\ Hand("completion") = {}
  BY <1>1 DEF Hand, HandOf, LiveLabel, Thread
<1>3. Jobs(queue["io"]) = {} /\ Jobs(queue["completion"]) = {}  BY <1>1 DEF Jobs, Thread
<1> QED  BY <1>1, <1>2, <1>3 DEF Flight

LEMMA InitTypes ==
  ASSUME Init
  PROVE  TypeInv
<1>1. IrpType  BY AtStart DEF Init, IrpType, IsIrp, NewIrp, Phase
<1>2. QueueType  BY DEF Init, QueueType, Thread
<1>3. NoJob \in Job  BY DEF NoJob, Job, Buffer
<1>4. ThreadType
  BY <1>3, AtStart
    DEF Init, ThreadType, AnyLabel, LabelOf, MainLabel, IoLabel, CompletionLabel,
                       Common
<1>5. area \in 0 .. DeviceLength - AreaStart  BY QueueAssumption DEF Init
<1>6. OwnerType  BY <1>5 DEF Init, OwnerType
<1>7. DOMAIN device = Device  BY DEF Init, InitialDevice
<1> QED  BY <1>1, <1>2, <1>4, <1>6, <1>7 DEF Init, TypeInv, Buffer

LEMMA InitFlow ==
  ASSUME Init
  PROVE  Flow /\ WaitingInv
<1>1. {"main", "io", "completion"} \subseteq Thread /\ queue["main"] = <<>>  BY AtStart DEF Thread
<1>2. FlightInv  BY AtStart, <1>1 DEF Flight, FlightInv, Live, LiveLabel
<1>3. OrderInv
  <2>1. queue["io"] = <<>> /\ queue["completion"] = <<>>  BY <1>1, AtStart
  <2>2. Ordered(queue["io"]) /\ Ordered(queue["completion"])  BY <2>1 DEF Ordered
  <2>3. /\ Hand("main") = {} /\ Hand("io") = {} /\ Hand("completion") = {}
        /\ Jobs(queue["io"]) = {} /\ Jobs(queue["completion"]) = {}
    BY AtStart DEF Flight
  <2> QED  BY <2>2, <2>3 DEF OrderInv, InOrder, AllApart
<1>4. \A t \in Thread : ~Releasing(t)  BY AtStart DEF Releasing, ReleasingLabel
<1>5. \A x \in Item : item[x].irp = NoIrp  BY AtStart
<1>6. ItemInv  BY <1>1, <1>4, <1>5 DEF ItemInv
<1>7. WaitingInv
  <2>1. pc["main"] = "wait" /\ DOMAIN queue["main"] = {}  BY <1>1, AtStart
  <2>2. pc["main"] \notin {"item", "no item", "suspended"}  BY <2>1
  <2> QED  BY <2>1, <2>2 DEF WaitingInv
<1> QED  BY <1>2, <1>3, <1>6, <1>7 DEF Flow

LEMMA InitCount ==
  ASSUME Init
  PROVE  CountInv
<1>1. Outstanding = {}  BY AtStart DEF Outstanding, NewIrp
<1>2. pc["main"] = "wait" /\ pc["io"] = "wait" /\ pc["completion"] = "wait"  BY AtStart DEF Thread
<1>3. Weight("wait") = 0  BY DEF Weight
<1>4. Uncounted = 0  BY <1>2, <1>3 DEF Uncounted
<1>5. IsFiniteSet({}) /\ Cardinality({}) = 0  BY FS_EmptySet
<1>6. outstanding = 0  BY DEF Init
<1> QED  BY <1>1, <1>4, <1>5, <1>6 DEF CountInv

LEMMA InitHold ==
  ASSUME Init
  PROVE  HoldInv /\ StopInv
<1>1. HoldInv  BY AtStart DEF HoldInv, HoldExcludesIo, Held
<1>2. \A t \in Thread : pc[t] # "stopped"  BY AtStart
<1>3. threadExit = FALSE  BY DEF Init
<1>4. StopInv  BY <1>2, <1>3, AtStart DEF StopInv, Stopping
<1> QED  BY <1>1, <1>4

LEMMA InitPool ==
  ASSUME Init
  PROVE  PoolInv
<1>1. /\ Len(queue["io"]) = 0 /\ Len(queue["completion"]) = 0
      /\ pc["main"] = "wait" /\ job["io"] = NoJob /\ job["completion"] = NoJob
  BY AtStart DEF Thread
<1>2. Used = 0  BY <1>1 DEF Used, One
<1>3. UsedInv  BY <1>2 DEF Init, UsedInv
<1>4. ItemUseInv  BY AtStart DEF ItemUseInv
<1>5. BufferInv  BY DEF Init, BufferInv
<1> QED  BY <1>3, <1>4, <1>5 DEF PoolInv

LEMMA InitAway ==
  ASSUME ProtectedPlace, Init
  PROVE  AwayInv
<1>1. WritesAway  BY AtStart DEF WritesAway
<1>2. device = InitialDevice  BY DEF Init
<1> QED  BY <1>1, <1>2 DEF AwayInv, ProtectedIntact

LEMMA TypesIdle ==
  ASSUME TypeInv, UNCHANGED vars
  PROVE  TypeInv'
<1>1. IrpType' /\ QueueType'  BY DEF TypeInv, IrpType, IsIrp, QueueType, vars, queues
<1>2. ThreadType'  BY DEF TypeInv, ThreadType, Live, Releasing, vars
<1>3. OwnerType'  BY DEF TypeInv, OwnerType, vars, disk, control
<1> QED  BY <1>1, <1>2, <1>3 DEF TypeInv, vars, disk, pool, buffers, idle, ahead

LEMMA FlowIdle ==
  ASSUME UNCHANGED vars
  PROVE  /\ Flow' <=> Flow
         /\ WaitingInv' <=> WaitingInv
         /\ CountInv' <=> CountInv
         /\ HoldInv' <=> HoldInv
         /\ StopInv' <=> StopInv
         /\ PoolInv' <=> PoolInv
         /\ AwayInv' <=> AwayInv
<1>1. Flow' <=> Flow
  BY
    DEF Flow, FlightInv, Flight, Hand, Alive, IrpOf, IsWrite, Live, OrderInv, ItemInv,
        Releasing,
         vars, queues, pool
<1>2. (WaitingInv' <=> WaitingInv) /\ (CountInv' <=> CountInv)
  BY DEF WaitingInv, CountInv, Outstanding, Uncounted, vars, queues, idle
<1>3. (HoldInv' <=> HoldInv) /\ (StopInv' <=> StopInv)
  BY DEF HoldInv, HoldExcludesIo, StopInv, vars, control
<1>4. PoolInv' <=> PoolInv
  BY
    DEF PoolInv, UsedInv, Used, ItemUseInv, GivenBack, Releasing, BufferInv, Hand, vars,
        queues,
         pool, buffers
<1>5. AwayInv' <=> AwayInv
  BY DEF AwayInv, WritesAway, Flight, Hand, IsWrite, IrpOf, ProtectedIntact, InitialDevice,
         EncryptedArea, vars, queues, pool, disk
<1> QED  BY <1>1, <1>2, <1>3, <1>4, <1>5

-----------------------------------------------------------------------------
(* The invariant, and what follows from it.                                *)

LEMMA InvKept ==
  ASSUME Inv, [Next]_vars
  PROVE  Inv'
<1>1. CASE Next
  <2>1. TypeInv' /\ Flow'  BY <1>1, TypeAndFlow DEF Inv
  <2>2. WaitingInv' /\ CountInv'  BY <1>1, CountedAndWaiting DEF Inv
  <2>3. HoldInv'  BY <1>1, HoldKept DEF Inv
  <2>4. StopInv'  BY <1>1, StopKept DEF Inv
  <2>5. UsedInv'  BY <1>1, UsedKept DEF Inv, PoolInv
  <2>6. ItemUseInv'  BY <1>1, ItemUseKept DEF Inv, PoolInv
  <2>7. BufferInv'  BY <1>1, BufferKept DEF Inv, PoolInv
  <2> QED  BY <2>1, <2>2, <2>3, <2>4, <2>5, <2>6, <2>7 DEF Inv, PoolInv
<1>2. CASE UNCHANGED vars  BY <1>2, TypesIdle, FlowIdle DEF Inv
<1> QED  BY <1>1, <1>2

\* The main thread, the IO thread and the completion thread only handle requests
\* of IRPs that are not completed, in an order in which the last fragment of an
\* IRP comes last; OutstandingIoCount, the buffers in use and the events of the
\* two fragment buffers say what the queues and the threads hold.
THEOREM RequestsAccountedFor == Spec => []Inv
<1>1. Init => Inv  BY InitTypes, InitFlow, InitCount, InitHold, InitPool DEF Inv
<1>2. Inv /\ [Next]_vars => Inv'  BY InvKept
<1> QED  BY <1>1, <1>2, PTL DEF Spec

\* Between the Hold that the setup thread was granted and its Resume no IRP is in
\* the hands of the threads, and none of them touches the device.
THEOREM HoldIsExclusive == Spec => []HoldExcludesIo
<1>1. Inv => HoldExcludesIo  BY DEF Inv, HoldInv
<1> QED  BY <1>1, RequestsAccountedFor, PTL

LEMMA NothingUsed ==
  ASSUME Inv, owner = "stopped"
  PROVE  /\ \A i \in Irp : irp[i].phase \in {"new", "adding", "done"}
         /\ requestsInUse = 0 /\ FreeItem = Item /\ \A b \in Buffer : bufferFree[b]
<1>1. \A i \in Irp : irp[i].phase \in {"new", "adding", "done"}
  BY DEF Inv, StopInv, Stopping, TypeInv, IrpType, Phase
<1>2. \A t \in Thread : pc[t] = "stopped"  BY DEF Inv, StopInv, Thread
<1>3. \A t \in Thread : job[t] = NoJob /\ ~Releasing(t) /\ ~Live(t)
  BY <1>2 DEF Inv, TypeInv, ThreadType, Live, Releasing, LiveLabel, ReleasingLabel
<1>4. Flight = {}  BY <1>1 DEF Inv, Flow, FlightInv, Alive
<1>5. queue["io"] = <<>> /\ queue["completion"] = <<>>
  <2>1. Jobs(queue["io"]) = {} /\ Jobs(queue["completion"]) = {}  BY <1>4 DEF Flight
  <2>2. queue["io"] \in Seq(Job) /\ queue["completion"] \in Seq(Job)  BY DEF Inv, TypeInv, QueueType
  <2>3. ASSUME NEW q \in Seq(Job), Jobs(q) = {}
        PROVE  q = <<>>
    <3>1. DOMAIN q = {}  BY <2>3 DEF Jobs
    <3> QED  BY <3>1
  <2> QED  BY <2>1, <2>2, <2>3
<1>6. requestsInUse = 0  BY <1>2, <1>3, <1>5 DEF Thread, Used, One, Inv, PoolInv, UsedInv
<1>7. \A x \in Item : item[x].irp = NoIrp
  <2>1. \A x \in Item : ~GivenBack(x)  BY <1>3 DEF GivenBack
  <2>2. \A x \in Item : item[x].irp # NoIrp => item[x].irp \in Irp  BY DEF Inv, TypeInv
  <2>3. \A x \in Item : item[x].irp # NoIrp => irp[item[x].irp].phase = "active"
    BY <2>1 DEF Inv, PoolInv, ItemUseInv
  <2> QED  BY <1>1, <2>2, <2>3
<1>8. FreeItem = Item  BY <1>7 DEF FreeItem
<1>9. \A b \in Buffer : bufferFree[b]  BY <1>4 DEF Flight, Inv, PoolInv, BufferInv
<1> QED  BY <1>1, <1>6, <1>8, <1>9

\* When EncryptedIoQueueStop returns every IRP that was accepted is completed and
\* no buffer of the pool is in use, what FreePoolBuffers asserts (line 130).
THEOREM StopLeavesNothing == Spec => []StoppedIsEmpty
<1>1. Inv => StoppedIsEmpty  BY NothingUsed DEF StoppedIsEmpty
<1> QED  BY <1>1, RequestsAccountedFor, PTL

\* The hidden volume's blocks, and on the system drive the sector of the volume
\* header, are never written: not by a request that overlaps them, not by one
\* whose fragments or remapped part would, and not by the conversion.
THEOREM ProtectedStaysIntact ==
  ASSUME ProtectedPlace
  PROVE  Spec => []ProtectedIntact
<1>1. Init => Inv /\ AwayInv
  BY InitAway, InitTypes, InitFlow, InitCount, InitHold, InitPool DEF Inv
<1>2. Inv /\ AwayInv /\ [Next]_vars => Inv' /\ AwayInv'
  <2>1. CASE Inv /\ AwayInv /\ Next  BY <2>1, IntactKept, WritesAwayKept, InvKept DEF Inv, AwayInv
  <2>2. CASE Inv /\ AwayInv /\ UNCHANGED vars  BY <2>2, InvKept, FlowIdle
  <2> QED  BY <2>1, <2>2
<1>3. AwayInv => ProtectedIntact  BY DEF AwayInv
<1> QED  BY <1>1, <1>2, <1>3, PTL DEF Spec

-----------------------------------------------------------------------------
(* The line.                                                               *)

LEMMA SeesSame ==
  ASSUME NEW W, NEW V, NEW e, NEW n \in Nat, NEW has, NEW had, Sees(W, e, n, had), had => has,
         \A m \in 0 .. n - 1 : V[m] = W[m]
  PROVE  Sees(V, e, n, has)
BY DEF Sees

\* The first in line goes.
LEMMA SeesShift ==
  ASSUME NEW W, NEW V, NEW e, NEW n \in Nat, NEW has, NEW had, Sees(W, e, n + 1, had), had => has,
         W[0] = NoIrp, \A m \in 0 .. n - 1 : V[m] = W[m + 1]
  PROVE  Sees(V, e, n, has)
<1>1. CASE had /\ \A m \in 0 .. n : W[m] = NoIrp  BY <1>1 DEF Sees
<1>2. CASE e # NoIrp /\ \E m \in 0 .. n : W[m] = e /\ \A l \in m + 1 .. n : W[l] = NoIrp
  <2>1. PICK m \in 0 .. n : W[m] = e /\ \A l \in m + 1 .. n : W[l] = NoIrp  BY <1>2
  <2>2. m - 1 \in 0 .. n - 1 /\ V[m - 1] = e
    <3>1. m # 0  BY <1>2, <2>1
    <3>2. m - 1 \in 0 .. n - 1  BY <3>1
    <3>3. V[m - 1] = W[(m - 1) + 1]  BY <3>2
    <3> QED  BY <2>1, <3>2, <3>3
  <2>3. \A l \in m .. n - 1 : V[l] = NoIrp  BY <2>1
  <2> QED  BY <1>2, <2>2, <2>3 DEF Sees
<1> QED  BY <1>1, <1>2 DEF Sees

\* The first in line has written, or failed to.
LEMMA SeesWritten ==
  ASSUME NEW W, NEW V, NEW e, NEW n \in Nat \ {0}, NEW has, NEW had, Sees(W, e, n, had),
         W[0] = NoIrp => (had => has), W[0] = e /\ e # NoIrp => has,
         V[0] = NoIrp, \A m \in 1 .. n - 1 : V[m] = W[m]
  PROVE  Sees(V, e, n, has)
<1>1. CASE had /\ \A m \in 0 .. n - 1 : W[m] = NoIrp  BY <1>1 DEF Sees
<1>2. CASE e # NoIrp /\ \E m \in 0 .. n - 1 : W[m] = e /\ \A l \in m + 1 .. n - 1 : W[l] = NoIrp
  <2>1. PICK m \in 0 .. n - 1 : W[m] = e /\ \A l \in m + 1 .. n - 1 : W[l] = NoIrp  BY <1>2
  <2>2. CASE m = 0  BY <1>2, <2>1, <2>2 DEF Sees
  <2>3. CASE m # 0  BY <1>2, <2>1, <2>3 DEF Sees
  <2> QED  BY <2>2, <2>3
<1> QED  BY <1>1, <1>2 DEF Sees

\* Behind one who does not write, ...
LEMMA SeesPast ==
  ASSUME NEW W, NEW e, NEW n \in Nat, NEW has, W[n] = NoIrp
  PROVE  Sees(W, e, n + 1, has) <=> Sees(W, e, n, has)
<1>1. ASSUME Sees(W, e, n, has)  PROVE Sees(W, e, n + 1, has)  BY <1>1 DEF Sees
<1>2. ASSUME Sees(W, e, n + 1, has)  PROVE Sees(W, e, n, has)
  <2>1. CASE has /\ \A m \in 0 .. n : W[m] = NoIrp  BY <2>1 DEF Sees
  <2>2. CASE e # NoIrp /\ \E m \in 0 .. n : W[m] = e /\ \A l \in m + 1 .. n : W[l] = NoIrp
    <3>1. PICK m \in 0 .. n : W[m] = e /\ \A l \in m + 1 .. n : W[l] = NoIrp  BY <2>2
    <3>2. m # n  BY <2>2, <3>1
    <3> QED  BY <2>2, <3>1, <3>2 DEF Sees
  <2> QED  BY <1>2, <2>1, <2>2 DEF Sees
<1> QED  BY <1>1, <1>2

\* ... behind the one who does, and where one comes in between who does not.
LEMMA SeesLast ==
  ASSUME NEW W, NEW e, NEW n \in Nat, NEW has, W[n] = e, e # NoIrp
  PROVE  Sees(W, e, n + 1, has)
BY DEF Sees

LEMMA SeesBetween ==
  ASSUME NEW W, NEW V, NEW e, NEW n \in Nat, NEW has, NEW had, Sees(W, e, n + 1, had), had => has,
         \A m \in 0 .. n - 1 : V[m] = W[m], V[n] = NoIrp, V[n + 1] = W[n]
  PROVE  Sees(V, e, n + 2, has)
<1>1. CASE had /\ \A m \in 0 .. n : W[m] = NoIrp  BY <1>1 DEF Sees
<1>2. CASE e # NoIrp /\ \E m \in 0 .. n : W[m] = e /\ \A l \in m + 1 .. n : W[l] = NoIrp
  <2>1. PICK m \in 0 .. n : W[m] = e /\ \A l \in m + 1 .. n : W[l] = NoIrp  BY <1>2
  <2>2. CASE m = n  BY <1>2, <2>1, <2>2 DEF Sees
  <2>3. CASE m # n
    <3>1. m \in 0 .. n - 1 /\ V[m] = e  BY <2>1, <2>3
    <3>2. \A l \in m + 1 .. n + 1 : l \in m + 1 .. n - 1 \/ l = n \/ l = n + 1  OBVIOUS
    <3>3. W[n] = NoIrp  BY <2>1, <2>3
    <3>4. \A l \in m + 1 .. n + 1 : V[l] = NoIrp  BY <2>1, <3>2, <3>3
    <3>5. m \in 0 .. n + 1  BY <3>1
    <3> QED  BY <1>2, <3>1, <3>4, <3>5 DEF Sees
  <2> QED  BY <2>2, <2>3
<1> QED  BY <1>1, <1>2 DEF Sees

LEMMA AheadSame ==
  ASSUME NEW E, NEW F, NEW e, NEW n \in Nat, NEW k \in Nat, n <= k, NEW over, NEW was,
         Ahead(E, e, n, was), was => over, \A m \in 0 .. n - 1 : F[m] = E[m]
  PROVE  Ahead(F, e, k, over)
BY DEF Ahead

LEMMA AheadShift ==
  ASSUME NEW E, NEW F, NEW e, NEW n \in Nat, NEW over, NEW was,
         Ahead(E, e, n + 1, was), was => over, E[0] = e => over,
         \A m \in 0 .. n - 1 : F[m] = E[m + 1]
  PROVE  Ahead(F, e, n, over)
<1>1. CASE was  BY <1>1 DEF Ahead
<1>2. CASE \E m \in 0 .. n : E[m] = e
  <2>1. PICK m \in 0 .. n : E[m] = e  BY <1>2
  <2>2. CASE m = 0  BY <2>1, <2>2 DEF Ahead
  <2>3. CASE m # 0  BY <2>3, <2>1 DEF Ahead
  <2> QED  BY <2>2, <2>3
<1> QED  BY <1>1, <1>2 DEF Ahead

\* The first in line is done.
LEMMA AheadDone ==
  ASSUME NEW E, NEW F, NEW e, NEW n \in Nat, NEW over, NEW was,
         Ahead(E, e, n, was), was => over, E[0] = e => over,
         \A m \in 1 .. n - 1 : F[m] = E[m]
  PROVE  Ahead(F, e, n, over)
<1>1. CASE was  BY <1>1 DEF Ahead
<1>2. CASE \E m \in 0 .. n - 1 : E[m] = e
  <2>1. PICK m \in 0 .. n - 1 : E[m] = e  BY <1>2
  <2>2. CASE m = 0  BY <2>1, <2>2 DEF Ahead
  <2>3. CASE m # 0  BY <2>1, <2>3 DEF Ahead
  <2> QED  BY <2>2, <2>3
<1> QED  BY <1>1, <1>2 DEF Ahead

-----------------------------------------------------------------------------
(* What a step does to an IRP.                                             *)

LEMMA CompletedFields ==
  ASSUME IrpType, NEW i \in Irp, NEW status, NEW data, irp' = Completed(i, status, data)
  PROVE  /\ OnlyIrp(i) /\ irp'[i].phase = "done" /\ irp'[i].status = status
         /\ irp'[i].data = data /\ irp'[i].request = irp[i].request
         /\ irp'[i].expected = irp[i].expected
<1>1. DOMAIN irp' = Irp /\ IsIrp(irp[i]) /\ \A j \in Irp \ {i} : irp'[j] = irp[j]
  BY DEF IrpType, Completed
<1>2. PICK r : r = irp[i]  OBVIOUS
<1>3. PICK r1 : r1 = [r EXCEPT !.phase = "done"]  OBVIOUS
<1>4. PICK r2 : r2 = [r1 EXCEPT !.status = status]  OBVIOUS
<1>5. PICK r3 : r3 = [r2 EXCEPT !.data = data]  OBVIOUS
<1>6. irp'[i] = r3  BY <1>1, <1>2, <1>3, <1>4, <1>5 DEF IrpType, Completed
<1>7. /\ IsIrp(r1) /\ r1.phase = "done" /\ r1.request = irp[i].request
      /\ r1.expected = irp[i].expected
  BY <1>1, <1>2, <1>3, PhaseSet
<1>8. /\ IsIrp(r2) /\ r2.phase = "done" /\ r2.request = irp[i].request
      /\ r2.expected = irp[i].expected /\ r2.status = status
  BY <1>4, <1>7, StatusSet
<1>9. /\ r3.phase = "done" /\ r3.request = irp[i].request
      /\ r3.expected = irp[i].expected /\ r3.status = status /\ r3.data = data
  BY <1>5, <1>8, DataSet
<1> QED  BY <1>1, <1>6, <1>9 DEF OnlyIrp

LEMMA AcceptedFields ==
  ASSUME IrpType, NEW i \in Irp, NEW e, irp' = [irp EXCEPT ![i].phase = "active", ![i].expected = e]
  PROVE  /\ OnlyIrp(i) /\ irp'[i].phase = "active" /\ irp'[i].status = irp[i].status
         /\ irp'[i].data = irp[i].data /\ irp'[i].request = irp[i].request
         /\ irp'[i].expected = e
<1>1. DOMAIN irp' = Irp /\ IsIrp(irp[i]) /\ \A j \in Irp \ {i} : irp'[j] = irp[j]  BY DEF IrpType
<1>2. PICK r : r = irp[i]  OBVIOUS
<1>3. PICK r1 : r1 = [r EXCEPT !.phase = "active"]  OBVIOUS
<1>4. PICK r2 : r2 = [r1 EXCEPT !.expected = e]  OBVIOUS
<1>5. irp'[i] = r2  BY <1>1, <1>2, <1>3, <1>4 DEF IrpType
<1>6. /\ IsIrp(r1) /\ r1.phase = "active" /\ r1.request = irp[i].request
      /\ r1.data = irp[i].data /\ r1.status = irp[i].status
  BY <1>1, <1>2, <1>3, PhaseSet
<1>7. /\ r2.phase = "active" /\ r2.request = irp[i].request
      /\ r2.data = irp[i].data /\ r2.status = irp[i].status /\ r2.expected = e
  BY <1>4, <1>6, ExpectedSet
<1> QED  BY <1>1, <1>5, <1>7 DEF OnlyIrp

LEMMA RejectedFields ==
  ASSUME IrpType, NEW i \in Irp, NEW s, irp' = [irp EXCEPT ![i].phase = "done", ![i].status = s]
  PROVE  /\ OnlyIrp(i) /\ irp'[i].phase = "done" /\ irp'[i].status = s
         /\ irp'[i].data = irp[i].data
<1>1. DOMAIN irp' = Irp /\ IsIrp(irp[i]) /\ \A j \in Irp \ {i} : irp'[j] = irp[j]  BY DEF IrpType
<1>2. PICK r : r = irp[i]  OBVIOUS
<1>3. PICK r1 : r1 = [r EXCEPT !.phase = "done"]  OBVIOUS
<1>4. PICK r2 : r2 = [r1 EXCEPT !.status = s]  OBVIOUS
<1>5. irp'[i] = r2  BY <1>1, <1>2, <1>3, <1>4 DEF IrpType
<1>6. IsIrp(r1) /\ r1.phase = "done" /\ r1.data = irp[i].data  BY <1>1, <1>2, <1>3, PhaseSet
<1>7. r2.phase = "done" /\ r2.data = irp[i].data /\ r2.status = s  BY <1>4, <1>6, StatusSet
<1> QED  BY <1>1, <1>5, <1>7 DEF OnlyIrp

LEMMA SubmittedFields ==
  ASSUME IrpType, NEW i \in Irp, NEW q, irp' = [irp EXCEPT ![i].phase = "adding", ![i].request = q]
  PROVE  /\ OnlyIrp(i) /\ irp'[i].phase = "adding" /\ irp'[i].status = irp[i].status
         /\ irp'[i].data = irp[i].data
<1>1. DOMAIN irp' = Irp /\ IsIrp(irp[i]) /\ \A j \in Irp \ {i} : irp'[j] = irp[j]  BY DEF IrpType
<1>2. PICK r : r = irp[i]  OBVIOUS
<1>3. PICK r1 : r1 = [r EXCEPT !.phase = "adding"]  OBVIOUS
<1>4. PICK r2 : r2 = [r1 EXCEPT !.request = q]  OBVIOUS
<1>5. irp'[i] = r2  BY <1>1, <1>2, <1>3, <1>4 DEF IrpType
<1>6. IsIrp(r1) /\ r1.phase = "adding" /\ r1.data = irp[i].data /\ r1.status = irp[i].status
  BY <1>1, <1>2, <1>3, PhaseSet
<1>7. r2.phase = "adding" /\ r2.data = irp[i].data /\ r2.status = irp[i].status
  BY <1>4, <1>6, RequestSet
<1> QED  BY <1>1, <1>5, <1>7 DEF OnlyIrp

LEMMA DataFields ==
  ASSUME IrpType, NEW i \in Irp, NEW d, irp' = [irp EXCEPT ![i].data = d]
  PROVE  /\ OnlyIrp(i) /\ irp'[i].phase = irp[i].phase /\ irp'[i].status = irp[i].status
         /\ irp'[i].data = d /\ irp'[i].request = irp[i].request
         /\ irp'[i].expected = irp[i].expected
<1>1. DOMAIN irp' = Irp /\ IsIrp(irp[i]) /\ \A j \in Irp \ {i} : irp'[j] = irp[j]  BY DEF IrpType
<1>2. irp'[i] = [irp[i] EXCEPT !.data = d]  BY <1>1 DEF IrpType
<1> QED  BY <1>1, <1>2, DataSet DEF OnlyIrp

LEMMA AddedFields ==
  ASSUME IrpType, NEW i \in Irp, NEW p, irp' = [irp EXCEPT ![i].phase = p]
  PROVE  /\ OnlyIrp(i) /\ irp'[i].phase = p /\ irp'[i].status = irp[i].status
         /\ irp'[i].data = irp[i].data
<1>1. DOMAIN irp' = Irp /\ IsIrp(irp[i]) /\ \A j \in Irp \ {i} : irp'[j] = irp[j]  BY DEF IrpType
<1>2. irp'[i] = [irp[i] EXCEPT !.phase = p]  BY <1>1 DEF IrpType
<1> QED  BY <1>1, <1>2, PhaseSet DEF OnlyIrp

LEMMA CancelledFields ==
  ASSUME IrpType, NEW i \in Irp, NEW c, irp' = [irp EXCEPT ![i].cancel = c]
  PROVE  /\ OnlyIrp(i) /\ irp'[i].phase = irp[i].phase /\ irp'[i].status = irp[i].status
         /\ irp'[i].data = irp[i].data
<1>1. DOMAIN irp' = Irp /\ IsIrp(irp[i]) /\ \A j \in Irp \ {i} : irp'[j] = irp[j]  BY DEF IrpType
<1>2. PICK r : r = irp[i]  OBVIOUS
<1>3. PICK q : q = [r EXCEPT !.cancel = c]  OBVIOUS
<1>4. q = [phase |-> r.phase, request |-> r.request, cancel |-> c,
           status |-> r.status, data |-> r.data, expected |-> r.expected]
  BY <1>1, <1>2, <1>3 DEF IsIrp
<1>5. irp'[i] = q  BY <1>1, <1>2, <1>3 DEF IrpType
<1> QED  BY <1>1, <1>2, <1>4, <1>5 DEF OnlyIrp

\* A client has an IRP that is not in the queue yet, or waits there.
LEMMA ClientIrp ==
  ASSUME IrpType, NEW i \in Irp, Client(i)
  PROVE  /\ OnlyIrp(i) /\ irp[i].phase \in {"new", "adding", "queued"}
         /\ irp'[i].data = irp[i].data
         /\ \/ irp'[i].phase \in {"new", "adding", "queued"} /\ irp'[i].status = irp[i].status
            \/ irp'[i].phase = "done" /\ irp'[i].status = "rejected"
<1>1. CASE Submit(i)
  <2>1. PICK r : irp' = [irp EXCEPT ![i].phase = "adding", ![i].request = r]  BY <1>1 DEF Submit
  <2>2. irp[i].phase = "new"  BY <1>1 DEF Submit
  <2> QED  BY <2>1, <2>2, SubmittedFields
<1>2. CASE AddIrp(i)  BY <1>2, AddedFields DEF AddIrp
<1>3. CASE RejectIrp(i)  BY <1>3, RejectedFields DEF RejectIrp
<1>4. CASE CancelIrp(i)  BY <1>4, CancelledFields DEF CancelIrp
<1> QED  BY <1>1, <1>2, <1>3, <1>4 DEF Client

LEMMA DispatchCases ==
  ASSUME Dispatch, NEW i, i = Head(queue["main"]), NEW x, x = CHOOSE y \in FreeItem : TRUE
  PROVE  (\E s, d : Ended(i, x, s, d) /\ EndedWell(i, s, d)) \/ (\E e : Accepted(i, x, e))
<1>1. CASE irp[i].cancel
  <2>1. PICK s : s = "cancelled"  OBVIOUS
  <2>2. PICK d : d = NoData  OBVIOUS
  <2>3. Ended(i, x, s, d)  BY <1>1, <2>1, <2>2 DEF Dispatch, Ended
  <2>4. EndedWell(i, s, d)  BY <2>1 DEF EndedWell
  <2> QED  BY <2>3, <2>4
<1>2. CASE ~irp[i].cancel /\ irp[i].request.op = "misaligned" /\ IsFilterDevice
  <2>1. PICK s : s = "success"  OBVIOUS
  <2>2. PICK t : t = "error"  OBVIOUS
  <2>3. PICK d : d = MisalignedData(irp[i].request)  OBVIOUS
  <2>4. PICK e : e = NoData  OBVIOUS
  <2>5. Ended(i, x, s, d) \/ Ended(i, x, t, e)  BY <1>2, <2>1, <2>2, <2>3, <2>4 DEF Dispatch, Ended
  <2>6. EndedWell(i, t, e) /\ EndedWell(i, s, d)  BY <1>2, <2>2, <2>3 DEF EndedWell
  <2>7. CASE Ended(i, x, s, d)  BY <2>6, <2>7
  <2>8. CASE Ended(i, x, t, e)  BY <2>6, <2>8
  <2> QED  BY <2>5, <2>7, <2>8
<1>3. CASE /\ ~irp[i].cancel /\ ~(irp[i].request.op = "misaligned" /\ IsFilterDevice)
           /\ Invalid(irp[i].request) \/ WriteDenied(irp[i].request)
  <2>1. PICK s : s = "invalid"  BY Zenon
  <2>2. PICK d : d = NoData  OBVIOUS
  <2>3. Ended(i, x, s, d)  BY <1>3, <2>1, <2>2 DEF Dispatch, Ended
  <2>4. EndedWell(i, s, d)  BY <2>1 DEF EndedWell
  <2> QED  BY <2>3, <2>4
<1>4. CASE /\ ~irp[i].cancel /\ ~(irp[i].request.op = "misaligned" /\ IsFilterDevice)
           /\ ~(Invalid(irp[i].request) \/ WriteDenied(irp[i].request))
  <2>1. PICK s : s = "error"  OBVIOUS
  <2>2. PICK d : d = NoData  OBVIOUS
  <2>3. PICK e : e = IF irp[i].request.op = "read"
                       THEN [k \in Indices(irp[i].request) |-> latest[irp[i].request.offset + k]]
                       ELSE NoData
    BY Zenon
  <2>4. Ended(i, x, s, d) \/ Accepted(i, x, e)
    BY <1>4, <2>1, <2>2, <2>3, Zenon DEF Dispatch, Ended, Accepted
  <2>5. EndedWell(i, s, d)  BY <2>1 DEF EndedWell
  <2>6. CASE Ended(i, x, s, d)  BY <2>5, <2>6
  <2>7. CASE Accepted(i, x, e)  BY <2>7
  <2> QED  BY <2>4, <2>6, <2>7
<1> QED  BY <1>1, <1>2, <1>3, <1>4

LEMMA DispatchFields ==
  ASSUME TypeInv, WaitingInv, Dispatch
  PROVE  \E i \in Irp, x \in Item :
           Picked(i, x) /\ ((\E s, d : Finished(i, x, s, d)) \/ (\E e : Taken(i, x, e)))
<1>1. /\ Head(queue["main"]) \in Irp /\ irp[Head(queue["main"])].phase = "queued"
  BY FirstWaiting DEF Dispatch
<1>2. PICK i \in Irp : i = Head(queue["main"])  BY <1>1
<1>3. PICK x : x = CHOOSE y \in FreeItem : TRUE  BY Zenon
<1>4. x \in FreeItem /\ x \in Item /\ item[x].irp = NoIrp  BY <1>3 DEF Dispatch, FreeItem
<1>5. IrpType /\ item \in [Item -> [irp : Irp \union {NoIrp}, success : BOOLEAN]]  BY DEF TypeInv
<1>6. ASSUME NEW s, NEW d, Ended(i, x, s, d), EndedWell(i, s, d)
      PROVE  Picked(i, x) /\ Finished(i, x, s, d)
  <2>1. irp' = Completed(i, s, d) /\ item' = [item EXCEPT ![x] = [irp |-> i, success |-> s = "success"]]
    BY <1>6 DEF Ended
  <2>2. /\ OnlyIrp(i) /\ irp'[i].phase = "done" /\ irp'[i].status = s
        /\ irp'[i].data = d /\ irp'[i].request = irp[i].request
    BY <1>5, <2>1, CompletedFields
  <2>3. item'[x].irp = i /\ \A y \in Item \ {x} : item'[y] = item[y]  BY <1>4, <1>5, <2>1
  <2> QED  BY <1>1, <1>2, <1>3, <1>4, <1>6, <2>2, <2>3 DEF Picked, Finished
<1>7. ASSUME NEW e, Accepted(i, x, e)
      PROVE  Picked(i, x) /\ Taken(i, x, e)
  <2>1. /\ irp' = [irp EXCEPT ![i].phase = "active", ![i].expected = e]
        /\ item' = [item EXCEPT ![x] = [irp |-> i, success |-> TRUE]]
    BY <1>7, Zenon DEF Accepted
  <2>2. /\ OnlyIrp(i) /\ irp'[i].phase = "active" /\ irp'[i].status = irp[i].status
        /\ irp'[i].data = irp[i].data /\ irp'[i].request = irp[i].request
        /\ irp'[i].expected = e
    BY <1>5, <2>1, AcceptedFields
  <2>3. item'[x].irp = i /\ item'[x].success /\ \A y \in Item \ {x} : item'[y] = item[y]
    BY <1>4, <1>5, <2>1
  <2> QED  BY <1>1, <1>2, <1>3, <1>4, <1>7, <2>2, <2>3 DEF Picked, Taken
<1>8. (\E s, d : Ended(i, x, s, d) /\ EndedWell(i, s, d)) \/ (\E e : Accepted(i, x, e))
  BY <1>2, <1>3, DispatchCases
<1> QED  BY <1>4, <1>6, <1>7, <1>8

\* The item of an IRP that is not completed stays, and so does a failure.
LEMMA ItemsStay ==
  ASSUME TypeInv, Flow, WaitingInv, SuccessInv, Next
  PROVE  \A x \in Item : item[x].irp \in Irp /\ irp[item[x].irp].phase = "active"
           => item'[x].irp = item[x].irp /\ (~item[x].success => ~item'[x].success)
<1>0. item \in [Item -> [irp : Irp \union {NoIrp}, success : BOOLEAN]]  BY DEF TypeInv
<1>1. CASE \E i \in Irp : Client(i)  BY <1>1, ClientEffect DEF pool
<1>2. CASE Dispatch
  <2>1. PICK x \in Item : item[x].irp = NoIrp /\ \A y \in Item \ {x} : item'[y] = item[y]
    BY <1>2, DispatchFields DEF Picked
  <2> QED  BY <2>1, QueueAssumption
<1>3. CASE Owner  BY <1>3, OwnerEffect DEF OwnerOnly
<1>4. CASE \E t \in Thread : Work(t)
  <2>1. PICK t \in Thread : Work(t)  BY <1>4
  <2>2. \A x \in Item : item[x].irp \in Irp /\ irp[item[x].irp].phase = "active"
           => item'[x].irp = item[x].irp
    BY <2>1, WorkItems
  <2>3. CASE WriteDevice \/ ReadDevice
    <3>1. PICK s : item' = [item EXCEPT ![job["io"].item].success = s]
      BY <2>3 DEF WriteDevice, ReadDevice
    <3>2. item[job["io"].item].success  BY <2>3 DEF WriteDevice, ReadDevice, SuccessInv
    <3> QED  BY <1>0, <2>2, <3>1, <3>2
  <2>4. CASE \E u \in Thread : Release(u)
    <3>1. PICK u \in Thread : Release(u)  BY <2>4
    <3>2. \A x \in Item : item'[x].success = item[x].success  BY <1>0, <3>1 DEF Release
    <3> QED  BY <2>2, <3>2
  <2>5. CASE ~WriteDevice /\ ~ReadDevice /\ ~\E u \in Thread : Release(u)
    <3>1. item' = item
      BY <2>1, <2>5, PassOverEffect, Zenon
         DEF Work, TakeRequest, QueueFragment, TakeFragment, IoStep, ReadAhead, WriteDone,
             ReadDone, TakeCompletion, CompleteRead, pool
    <3> QED  BY <3>1
  <2> QED  BY <2>3, <2>4, <2>5
<1> QED  BY <1>1, <1>2, <1>3, <1>4, StepCases

\* The item of an IRP in flight says whether it failed.
LEMMA FailedIs ==
  ASSUME Flow, NEW x \in Item, NEW i \in Irp, item[x].irp = i
  PROVE  Failed(i) <=> ~item[x].success
BY QueueAssumption DEF Flow, ItemInv, Failed

LEMMA WriteDoneIrp ==
  ASSUME TypeInv, Flow, WriteDone
  PROVE  LET i == IrpOf(job["io"]) IN
         /\ i \in Irp /\ irp[i].phase = "active" /\ IsWrite(job["io"])
         /\ \/ irp' = irp /\ ~job["io"].last
            \/ /\ OnlyIrp(i) /\ irp'[i].phase = "done" /\ irp'[i].data = NoData
               /\ job["io"].last
               /\ irp'[i].status = IF Failed(i) THEN "error" ELSE "success"
               /\ irp'[i].request = irp[i].request /\ irp'[i].expected = irp[i].expected
<1>1. Live("io") /\ "io" \in Thread  BY DEF WriteDone, Live, LiveLabel, Thread
<1>2. PICK j : j = job["io"]  OBVIOUS
<1>3. PICK i \in Irp : i = IrpOf(j) /\ irp[i].phase = "active"  BY <1>1, <1>2, HandAlive
<1>4. IsWrite(j) /\ j.item \in Item  BY <1>1, <1>2, HandAlive DEF WriteDone, Flow, FlightInv, Alive
<1>5. Failed(i) <=> ~item[j.item].success  BY <1>3, <1>4, FailedIs DEF IrpOf
<1>6. CASE j.last
  <2>1. PICK s : s = IF item[j.item].success THEN "success" ELSE "error"  OBVIOUS
  <2>2. PICK d : d = NoData  OBVIOUS
  <2>3. irp' = Completed(i, s, d)  BY <1>2, <1>3, <1>6, <2>1, <2>2 DEF WriteDone, IrpOf
  <2>4. /\ OnlyIrp(i) /\ irp'[i].phase = "done" /\ irp'[i].status = s /\ irp'[i].data = d
        /\ irp'[i].request = irp[i].request /\ irp'[i].expected = irp[i].expected
    BY <2>3, CompletedFields DEF TypeInv
  <2>5. s = IF Failed(i) THEN "error" ELSE "success"  BY <1>5, <2>1
  <2> QED  BY <1>2, <1>3, <1>4, <1>6, <2>2, <2>4, <2>5
<1>7. CASE ~j.last  BY <1>2, <1>7, <1>3, <1>4 DEF WriteDone
<1> QED  BY <1>6, <1>7

-----------------------------------------------------------------------------
(* What a step of the I/O and of the completion thread does to an IRP.     *)

LEMMA ReadDoneIrp ==
  ASSUME TypeInv, Flow, ReadDone
  PROVE  LET i == IrpOf(job["io"]) IN
         /\ i \in Irp /\ irp[i].phase = "active" /\ ~IsWrite(job["io"])
         /\ \/ irp' = irp /\ Failed(i)
            \/ /\ ~Failed(i) /\ OnlyIrp(i) /\ irp'[i].phase = "active"
               /\ irp'[i].status = irp[i].status /\ irp'[i].data = CopiedOf(job["io"])
               /\ irp'[i].request = irp[i].request /\ irp'[i].expected = irp[i].expected
<1>1. Live("io") /\ "io" \in Thread  BY ZenonT(60) DEF ReadDone, Live, LiveLabel, Thread
<1>2. PICK j : j = job["io"]  OBVIOUS
<1>3. PICK i \in Irp : i = IrpOf(j) /\ irp[i].phase = "active"  BY <1>1, <1>2, HandAlive
<1>4. j.item \in Item  BY <1>1, <1>2, HandAlive DEF Alive
<1>5. ~IsWrite(j)  BY <1>2, Zenon DEF ReadDone, Flow, FlightInv
<1>6. Failed(i) <=> ~item[j.item].success  BY <1>3, <1>4, FailedIs DEF IrpOf
<1>7. CASE item[j.item].success
  <2>1. PICK d : d = CopiedOf(j)  OBVIOUS
  <2>2. irp' = [irp EXCEPT ![i].data = d]
    <3>1. irp' = IF item[job["io"].item].success
                   THEN [irp EXCEPT ![IrpOf(job["io"])].data = CopiedOf(job["io"])] ELSE irp
      BY Zenon DEF ReadDone, IrpOf, CopiedOf
    <3> QED  BY <1>2, <1>3, <1>7, <2>1, <3>1
  <2>3. /\ OnlyIrp(i) /\ irp'[i].phase = irp[i].phase /\ irp'[i].status = irp[i].status
        /\ irp'[i].data = d /\ irp'[i].request = irp[i].request
        /\ irp'[i].expected = irp[i].expected
    BY <2>2, DataFields DEF TypeInv
  <2> QED  BY <1>2, <1>3, <1>5, <1>6, <1>7, <2>1, <2>3
<1>8. CASE ~item[j.item].success  BY <1>2, <1>8, <1>3, <1>5, <1>6 DEF ReadDone
<1> QED  BY <1>7, <1>8

LEMMA CompleteReadIrp ==
  ASSUME TypeInv, Flow, CompleteRead
  PROVE  LET i == IrpOf(job["completion"]) IN
         /\ i \in Irp /\ irp[i].phase = "active" /\ ~IsWrite(job["completion"]) /\ OnlyIrp(i)
         /\ irp'[i].request = irp[i].request /\ irp'[i].expected = irp[i].expected
         /\ \/ /\ irp'[i].phase = "active" /\ irp'[i].status = irp[i].status
               /\ ~job["completion"].last /\ irp'[i].data = DecodedOf(job["completion"])
            \/ /\ irp'[i].phase = "done" /\ irp'[i].status = IF Failed(i) THEN "error" ELSE "success"
               /\ job["completion"].last
               /\ irp'[i].data = IF Failed(i) THEN NoData ELSE DecodedOf(job["completion"])
<1>1. Live("completion") /\ "completion" \in Thread
  BY ZenonT(60) DEF CompleteRead, Live, LiveLabel, Thread
<1>2. PICK j : j = job["completion"]  OBVIOUS
<1>3. PICK i \in Irp : i = IrpOf(j) /\ irp[i].phase = "active"  BY <1>1, <1>2, HandAlive
<1>4. j.item \in Item  BY <1>1, <1>2, HandAlive DEF Alive
<1>5. ~IsWrite(j)  BY <1>1, <1>2, HandIs DEF Flow, FlightInv
<1>6. Failed(i) <=> ~item[j.item].success  BY <1>3, <1>4, FailedIs DEF IrpOf
<1>7. PICK d : d = DecodedOf(j)  OBVIOUS
<1>8. CASE ~j.last
  <2>1. irp' = [irp EXCEPT ![i].data = d]
    BY <1>2, <1>3, <1>7, <1>8, Zenon DEF CompleteRead, IrpOf, DecodedOf
  <2>2. /\ OnlyIrp(i) /\ irp'[i].phase = irp[i].phase /\ irp'[i].status = irp[i].status
        /\ irp'[i].data = d /\ irp'[i].request = irp[i].request
        /\ irp'[i].expected = irp[i].expected
    BY <2>1, DataFields DEF TypeInv
  <2> QED  BY <1>2, <1>3, <1>5, <1>7, <1>8, <2>2
<1>9. CASE j.last
  <2>1. PICK s : s = IF item[j.item].success THEN "success" ELSE "error"  OBVIOUS
  <2>2. PICK e : e = IF item[j.item].success THEN d ELSE NoData  OBVIOUS
  <2>3. irp' = Completed(i, s, e)
    <3>1. irp' = IF item[j.item].success THEN Completed(i, "success", DecodedOf(j))
                                         ELSE Completed(i, "error", NoData)
      BY <1>2, <1>3, <1>9, Zenon DEF CompleteRead, IrpOf, DecodedOf
    <3> QED  BY <1>7, <2>1, <2>2, <3>1
  <2>4. /\ OnlyIrp(i) /\ irp'[i].phase = "done" /\ irp'[i].status = s /\ irp'[i].data = e
        /\ irp'[i].request = irp[i].request /\ irp'[i].expected = irp[i].expected
    BY <2>3, CompletedFields DEF TypeInv
  <2>5. /\ s = IF Failed(i) THEN "error" ELSE "success"
        /\ e = IF Failed(i) THEN NoData ELSE DecodedOf(j)
    BY <1>6, <1>7, <2>1, <2>2
  <2> QED  BY <1>2, <1>3, <1>5, <1>9, <2>4, <2>5
<1> QED  BY <1>8, <1>9

\* The steps that do not look at an IRP.
LEMMA OtherIrp ==
  ASSUME TypeInv, Flow, NEW t \in Thread, Work(t), ~WriteDone, ~ReadDone, ~CompleteRead
  PROVE  irp' = irp
BY PassOverEffect, ReleaseEffect, IoStepEffect, Zenon
   DEF Work, TakeRequest, QueueFragment, TakeFragment, TakeCompletion

LEMMA AllIrpsMove ==
  ASSUME TypeInv, Flow, WaitingInv, StatusInv, Next
  PROVE  \A i \in Irp : IrpMoves(i)
<1>1. CASE irp' = irp  BY <1>1 DEF IrpMoves
<1>2. CASE \E i \in Irp : Client(i)
  <2>1. PICK i \in Irp : Client(i)  BY <1>2
  <2>2. /\ OnlyIrp(i) /\ irp[i].phase \in {"new", "adding", "queued"}
        /\ irp'[i].data = irp[i].data
        /\ \/ irp'[i].phase \in {"new", "adding", "queued"} /\ irp'[i].status = irp[i].status
           \/ irp'[i].phase = "done" /\ irp'[i].status = "rejected"
    BY <2>1, ClientIrp DEF TypeInv
  <2> QED  BY <2>2 DEF OnlyIrp, IrpMoves
<1>3. CASE Dispatch
  <2>1. PICK i \in Irp, x \in Item :
          Picked(i, x) /\ ((\E s, d : Finished(i, x, s, d)) \/ (\E e : Taken(i, x, e)))
    BY <1>3, DispatchFields
  <2>2. OnlyIrp(i) /\ irp[i].phase = "queued"  BY <2>1 DEF Picked
  <2>3. irp'[i].phase = "done" \/ (irp'[i].status = irp[i].status /\ irp'[i].data = irp[i].data)
    BY <2>1 DEF Finished, Taken
  <2> QED  BY <2>2, <2>3 DEF OnlyIrp, IrpMoves
<1>4. CASE Owner  BY <1>1, <1>4, OwnerEffect DEF OwnerOnly
<1>5. CASE WriteDone
  <2>1. PICK i : i = IrpOf(job["io"])  OBVIOUS
  <2> QED  BY <1>1, <1>5, <2>1, WriteDoneIrp DEF OnlyIrp, IrpMoves
<1>6. CASE ReadDone
  <2>1. PICK i : i = IrpOf(job["io"])  OBVIOUS
  <2> QED  BY <1>1, <1>6, <2>1, ReadDoneIrp DEF OnlyIrp, IrpMoves
<1>7. CASE CompleteRead
  <2>1. PICK i : i = IrpOf(job["completion"])  OBVIOUS
  <2> QED  BY <1>1, <1>7, <2>1, CompleteReadIrp DEF OnlyIrp, IrpMoves
<1> QED  BY <1>1, <1>2, <1>3, <1>4, <1>5, <1>6, <1>7, OtherIrp, StepCases

LEMMA StatusKeptInv ==
  ASSUME TypeInv, Flow, WaitingInv, StatusInv, Next
  PROVE  StatusInv'
<1>1. ASSUME NEW i \in Irp
      PROVE  /\ irp'[i].status # "none" => irp'[i].phase = "done"
             /\ irp'[i].phase \in {"new", "adding", "queued"} => DOMAIN irp'[i].data = {}
  BY AllIrpsMove DEF TypeInv, IrpType, StatusInv, IrpMoves, Phase
<1> QED  BY <1>1 DEF StatusInv

\* The device operation of a request is done while its item has not failed.
LEMMA SuccessKept ==
  ASSUME TypeInv, Flow, WaitingInv, SuccessInv, Next
  PROVE  SuccessInv'
<1>0. /\ pc \in [Thread -> AnyLabel] /\ job \in [Thread -> Job] /\ "io" \in Thread
      /\ item \in [Item -> [irp : Irp \union {NoIrp}, success : BOOLEAN]]
  BY DEF TypeInv, ThreadType, Thread
<1>1. CASE TakeFragment  BY <1>0, <1>1, Zenon DEF TakeFragment, Goto, pool, SuccessInv
<1>2. ASSUME pc'["io"] \in {"read", "write"} => pc["io"] = pc'["io"] /\ job'["io"] = job["io"]
      PROVE  SuccessInv'
  <2>1. SUFFICES ASSUME pc'["io"] \in {"read", "write"}
                 PROVE  item'[job'["io"].item].success
    BY DEF SuccessInv
  <2>2. pc["io"] \in {"read", "write"} /\ job'["io"] = job["io"]  BY <1>2, <2>1
  <2>3. item[job["io"].item].success  BY <2>2 DEF SuccessInv
  <2>4. Live("io")  BY <2>2 DEF Live, LiveLabel
  <2>5. job["io"].item \in Item /\ item[job["io"].item].irp \in Irp
    BY <1>0, <2>4, HandAlive DEF Alive, IrpOf
  <2>6. CASE item' = item  BY <2>2, <2>3, <2>6
  <2>7. CASE Dispatch
    <3>1. PICK x \in Item : item[x].irp = NoIrp /\ \A y \in Item \ {x} : item'[y] = item[y]
      BY <2>7, DispatchFields DEF Picked
    <3> QED  BY <2>2, <2>3, <2>5, <3>1, QueueAssumption
  <2>8. CASE \E u \in Thread : Release(u)  BY <1>0, <2>8, <2>2, <2>3, <2>5 DEF Release
  <2>9. CASE WriteDevice \/ ReadDevice
    <3>1. pc'["io"] \in {"write done", "read done"}
      BY <1>0, <2>9, Zenon DEF WriteDevice, ReadDevice, Goto
    <3> QED  BY <2>1, <3>1
  <2>10. CASE ~WriteDevice /\ ~ReadDevice /\ (\E t \in Thread : Work(t)) /\ ~\E u \in Thread : Release(u)
    <3>1. item' = item
      BY <2>10, PassOverEffect, Zenon
         DEF Work, TakeRequest, QueueFragment, TakeFragment, IoStep, ReadAhead, WriteDone,
             ReadDone, TakeCompletion, CompleteRead, pool
    <3> QED  BY <2>6, <3>1
  <2>11. CASE (\E i \in Irp : Client(i)) \/ Owner
    BY <2>6, <2>11, ClientEffect, OwnerEffect DEF pool, OwnerOnly
  <2> QED  BY <2>7, <2>8, <2>9, <2>10, <2>11, StepCases
<1>3. CASE ~TakeFragment
  <2>1. pc'["io"] \in {"read", "write"} => pc["io"] = pc'["io"] /\ job'["io"] = job["io"]
    <3>1. CASE \E i \in Irp : Client(i)  BY <3>1, ClientEffect
    <3>2. CASE Owner  BY <3>2, OwnerEffect, Zenon DEF OwnerOnly
    <3>3. CASE Dispatch  BY <1>0, <3>3 DEF Dispatch, Goto
    <3>4. CASE \E t \in Thread : PassOver(t)
      <4>1. PICK t \in Thread : PassOver(t)  BY <3>4
      <4>2. job' = job /\ (t # "io" => pc'["io"] = pc["io"])  BY <1>0, <4>1, PassOverEffect
      <4>3. pc'[t] \in {"write", "read"} => pc'[t] = pc[t]  BY <4>1, PassOverEffect
      <4> QED  BY <4>2, <4>3
    <3>5. CASE \E t \in Thread : Release(t)
      <4>1. PICK t \in Thread : Release(t)  BY <3>5
      <4>2. /\ pc'[t] = "dequeue"
            /\ \A u \in Thread : u # t => pc'[u] = pc[u] /\ job'[u] = job[u]
        BY <4>1, ReleaseEffect
      <4> QED  BY <1>0, <4>2
    <3>6. CASE TakeRequest \/ QueueFragment
      BY <3>6, TakeRequestEffect, QueueFragmentEffect, <1>0 DEF Prepared, Queued, Goto
    <3>7. CASE IoStep \/ WriteDone \/ ReadDone
      BY <1>0, <3>7, Zenon DEF IoStep, WriteDevice, ReadDevice, ReadAhead, WriteDone, ReadDone, Goto
    <3>8. CASE TakeCompletion \/ CompleteRead
      BY <1>0, <3>8, Zenon DEF TakeCompletion, CompleteRead, Goto
    <3> QED  BY <1>3, <3>1, <3>2, <3>3, <3>4, <3>5, <3>6, <3>7, <3>8, StepCases DEF Work
  <2> QED  BY <1>2, <2>1
<1> QED  BY <1>1, <1>3

\* What is said of an IRP remains true.
LEMMA Lasting ==
  ASSUME TypeInv, Flow, WaitingInv, StatusInv, SuccessInv, Next, NEW e
  PROVE  /\ Bad(e) => Bad(e)'
         /\ Over(e) => Over(e)'
         /\ \A w : Good(w, e) => Good(w, e)'
         /\ e \in Irp /\ irp[e].phase = "active" /\ Failed(e) /\ irp'[e].phase = "active" => Failed(e)'
<1>1. e \in Irp => IrpMoves(e)  BY AllIrpsMove
<1>2. e \in Irp /\ irp[e].status # "none" => irp'[e] = irp[e]  BY <1>1 DEF StatusInv, IrpMoves
<1>3. ASSUME e \in Irp, irp[e].phase = "active", Failed(e), irp'[e].phase = "active"
      PROVE  Failed(e)'
  <2>1. PICK x \in Item : item[x].irp = e /\ ~item[x].success  BY <1>3 DEF Failed
  <2>2. item'[x].irp = e /\ ~item'[x].success  BY <1>3, <2>1, ItemsStay
  <2> QED  BY <2>2 DEF Failed
<1>4. Bad(e) => Bad(e)'
  <2>1. CASE e \in Irp /\ irp[e].status = "error"  BY <1>2, <2>1 DEF Bad
  <2>2. CASE e \in Irp /\ irp[e].phase = "active" /\ Failed(e)
    BY <1>1, <2>2, <1>3 DEF IrpMoves, Bad
  <2> QED  BY <2>1, <2>2 DEF Bad
<1>5. Over(e) => Over(e)'  BY <1>1 DEF Over, IrpMoves
<1>6. \A w : Good(w, e) => Good(w, e)'  BY <1>2 DEF Good
<1> QED  BY <1>3, <1>4, <1>5, <1>6

LEMMA FlightLasts ==
  ASSUME TypeInv, Flow, WaitingInv, StatusInv, SuccessInv, Next, NEW j \in Flight
  PROVE  Lasts(j) /\ IrpOf(j) \in Irp /\ irp[IrpOf(j)].phase = "active"
<1>1. PICK i : i = IrpOf(j)  OBVIOUS
<1>2. j.item \in Item /\ i \in Irp /\ irp[i].phase = "active"  BY <1>1 DEF Flow, FlightInv, Alive
<1>3. item'[j.item].irp = i  BY <1>1, <1>2, ItemsStay DEF IrpOf
<1>4. irp'[i].request = irp[i].request /\ irp'[i].expected = irp[i].expected
  BY <1>2, AllIrpsMove DEF IrpMoves
<1> QED  BY <1>1, <1>2, <1>3, <1>4 DEF Lasts, IsWrite, IrpOf

-----------------------------------------------------------------------------
(* How the line moves.                                                     *)

LEMMA LineIs ==
  ASSUME TypeInv
  PROVE  /\ End \in Nat \ {0}
         /\ \A n : On(n) => n \in 0 .. End /\ At(n) \in Flight /\ At(n) \in Job
         /\ \A n \in 1 .. End : ToDo(n) <=> On(n)
         /\ \A n \in 1 .. End - 1 : On(n) /\ At(n) = queue["io"][n]
         /\ On(0) <=> Live("io")
         /\ On(End) <=> Live("main")
         /\ At(0) = job["io"] /\ At(End) = job["main"]
<1>1. /\ queue["io"] \in Seq(Job) /\ job \in [Thread -> Job] /\ {"main", "io"} \subseteq Thread
  BY DEF TypeInv, QueueType, ThreadType, Thread
<1>2. PICK q \in Seq(Job) : q = queue["io"]  BY <1>1
<1>3. PICK n : n = Len(q)  OBVIOUS
<1>4. n \in Nat /\ DOMAIN q = 1 .. n /\ \A k \in 1 .. n : q[k] \in Job /\ q[k] \in Jobs(q)
  BY <1>3 DEF Jobs
<1>5. End = n + 1  BY <1>2, <1>3 DEF End
<1>6. \A k \in 1 .. n : k # 0 /\ k # n + 1  BY <1>4
<1>7. \A k \in 1 .. n : On(k) /\ At(k) = q[k]  BY <1>2, <1>4, <1>5, <1>6 DEF On, At
<1>8. Jobs(q) \subseteq Flight  BY <1>2 DEF Flight
<1>9. n + 1 # 0 /\ n + 1 \notin 1 .. n /\ 0 \notin 1 .. n  BY <1>4
<1>10. /\ On(0) <=> Live("io")
       /\ On(n + 1) <=> Live("main")
       /\ At(0) = job["io"] /\ At(n + 1) = job["main"]
  BY <1>4, <1>5, <1>9 DEF On, At
<1>11. /\ Live("io") => job["io"] \in Flight /\ job["io"] \in Job
       /\ Live("main") => job["main"] \in Flight /\ job["main"] \in Job
  BY <1>1, HandIs
<1>12. \A k : On(k) => k = 0 \/ k \in 1 .. n \/ k = n + 1  BY <1>4, <1>5 DEF On
<1>13. \A k : On(k) => k \in 0 .. n + 1 /\ At(k) \in Flight /\ At(k) \in Job
  BY <1>4, <1>7, <1>8, <1>10, <1>11, <1>12
<1>14. \A k \in 1 .. n + 1 : ToDo(k) <=> On(k)  BY <1>4 DEF ToDo
<1> QED  BY <1>2, <1>4, <1>5, <1>7, <1>10, <1>13, <1>14

LEMMA QuietIs ==
  ASSUME TypeInv, queue'["io"] = queue["io"],
         pc'["io"] \in LiveLabel <=> pc["io"] \in LiveLabel,
         pc'["io"] \in {"write", "read"} <=> pc["io"] \in {"write", "read"},
         Live("io") => job'["io"] = job["io"],
         pc'["main"] \in LiveLabel <=> pc["main"] \in LiveLabel,
         Live("main") => Matches(job["main"], job'["main"])
  PROVE  Quiet
<1>1. End' = End /\ End \in Nat \ {0}  BY LineIs DEF End
<1>2. /\ Live("io")' <=> Live("io")
      /\ Live("main")' <=> Live("main")
  BY DEF Live
<1>3. ASSUME NEW n \in Nat  PROVE Rests(n) /\ (ToDo(n)' <=> ToDo(n))
  <2>1. On(n)' <=> On(n)  BY <1>1, <1>2 DEF On
  <2>2. ToDo(n)' <=> ToDo(n)  BY <2>1 DEF ToDo
  <2>3. On(n) => n \in 0 .. End  BY LineIs
  <2>4. CASE n = 0  BY <2>4, <1>2, LineIs, <2>1, <2>2 DEF At, Rests, Goes, Matches
  <2>5. CASE n \in 1 .. End - 1  BY <1>1, <2>5, <2>1, <2>2 DEF At, Rests, Goes, Matches
  <2>6. CASE n = End  BY <1>1, <2>6, LineIs, <2>1, <2>2 DEF At, Rests, Goes
  <2>7. CASE n \notin 0 .. End  BY <2>1, <2>2, <2>3, <2>7 DEF Rests, Goes
  <2> QED  BY <1>1, <2>4, <2>5, <2>6, <2>7
<1> QED  BY <1>1, <1>3 DEF Quiet

LEMMA AsideQuiet ==
  ASSUME TypeInv, Aside
  PROVE  Quiet
<1>0. /\ pc \in [Thread -> AnyLabel] /\ job \in [Thread -> Job] /\ DOMAIN queue = Thread
      /\ {"main", "io", "completion"} \subseteq Thread
  BY DEF TypeInv, ThreadType, QueueType, Thread
<1>1. ASSUME queue'["io"] = queue["io"], pc'["io"] = pc["io"],
             job'["io"] = job["io"], pc'["main"] = pc["main"], job'["main"] = job["main"]
      PROVE  Quiet
  BY <1>1, QuietIs DEF Matches
<1>2. CASE \E i \in Irp : Client(i)
  <2>1. PICK i \in Irp : Client(i)  BY <1>2
  <2>2. pc' = pc /\ job' = job  BY <2>1, ClientEffect
  <2>3. queue'["io"] = queue["io"]
    BY <1>0, <2>1, ClientEffect DEF Submitted, Added, Rejected, Cancelled
  <2> QED  BY <1>1, <2>2, <2>3
<1>3. CASE Owner  BY <1>1, <1>3, OwnerEffect DEF OwnerOnly
<1>4. CASE \E t \in Thread : PassOver(t)
  <2>1. PICK t \in Thread : PassOver(t)  BY <1>4
  <2>2. /\ job' = job /\ queue' = queue /\ \A u \in Thread : u # t => pc'[u] = pc[u]
        /\ pc'[t] \in LiveLabel <=> pc[t] \in LiveLabel
        /\ pc'[t] \in {"write", "write done", "read", "read done", "read ahead", "buffer"}
               => pc'[t] = pc[t]
    BY <2>1, PassOverEffect
  <2>3. pc[t] \in {"write", "read"} => pc'[t] = pc[t]
    BY <2>1 DEF PassOver, Wait, QueueEmpty, Decrement, SignalNoOutstanding, TakeIrp, AwaitResume,
       AwaitPool
  <2>4. pc'["io"] \in {"write", "read"} <=> pc["io"] \in {"write", "read"}  BY <2>2, <2>3, <1>0
  <2>5. /\ pc'["io"] \in LiveLabel <=> pc["io"] \in LiveLabel
        /\ pc'["main"] \in LiveLabel <=> pc["main"] \in LiveLabel
    BY <2>2, <1>0
  <2> QED  BY <2>2, <2>4, <2>5, QuietIs DEF Matches
<1>5. CASE \E t \in Thread : Release(t)
  <2>1. PICK t \in Thread : Release(t)  BY <1>5
  <2>2. /\ pc[t] = "release" /\ pc'[t] = "dequeue" /\ queue' = queue
        /\ \A u \in Thread : u # t => pc'[u] = pc[u] /\ job'[u] = job[u]
    BY <2>1, ReleaseEffect
  <2>3. \A u \in Thread : /\ pc'[u] \in LiveLabel <=> pc[u] \in LiveLabel
                          /\ pc'[u] \in {"write", "read"} <=> pc[u] \in {"write", "read"}
                          /\ pc[u] \in LiveLabel => job'[u] = job[u]
    BY <2>2 DEF LiveLabel
  <2> QED  BY <1>0, <2>2, <2>3, QuietIs DEF Matches, Live
<1>6. CASE TakeRequest
  <2>1. PICK b, e : Prepared(b, e)  BY <1>6, TakeRequestEffect
  <2>2. /\ job'["main"] = WithArea(job["main"], b, e) /\ job'["io"] = job["io"]
        /\ pc'["main"] = "buffer" /\ pc'["io"] = pc["io"]
    BY <1>0, <2>1 DEF Prepared, Goto
  <2>3. queue' = queue /\ pc["main"] = "request"  BY <1>6 DEF TakeRequest, queues
  <2>4. Matches(job["main"], job'["main"])  BY <2>2 DEF Matches, WithArea
  <2> QED  BY <2>2, <2>3, <2>4, QuietIs DEF LiveLabel
<1>7. CASE ReadAhead
  <2>1. /\ pc'["io"] = "decrement" /\ pc["io"] = "read ahead" /\ pc'["main"] = pc["main"]
        /\ job' = job /\ queue' = queue
    BY <1>0, <1>7 DEF ReadAhead, Goto, queues
  <2> QED  BY <2>1, QuietIs DEF LiveLabel, Matches, Live
<1>8. CASE TakeCompletion
  <2>1. PICK r \in Job : /\ Goto("completion", "decrypt") /\ job' = [job EXCEPT !["completion"] = r]
                         /\ queue' = [queue EXCEPT !["completion"] = Tail(@)]
    BY <1>8, TakeCompletionEffect
  <2> QED  BY <1>0, <1>1, <2>1 DEF Goto
<1>9. CASE CompleteRead
  <2>1. (\E l : Goto("completion", l)) /\ job' = job /\ queue' = queue
    BY <1>9, Zenon DEF CompleteRead, queues
  <2> QED  BY <1>0, <1>1, <2>1 DEF Goto
<1> QED  BY <1>2, <1>3, <1>4, <1>5, <1>6, <1>7, <1>8, <1>9 DEF Aside

LEMMA StepsOfLine ==
  ASSUME Next
  PROVE  \/ Aside \/ WriteDevice \/ ReadDevice \/ WriteDone \/ ReadDone
         \/ TakeFragment \/ QueueFragment \/ Dispatch
BY StepCases DEF Aside, Work, IoStep

LEMMA ThroughIs ==
  ASSUME TypeInv, WriteDevice \/ ReadDevice
  PROVE  Through
<1>0. /\ pc \in [Thread -> AnyLabel] /\ {"main", "io", "completion"} \subseteq Thread
  BY DEF TypeInv, ThreadType, Thread
<1>1. /\ pc["io"] \in {"write", "read"} /\ pc'["io"] \in {"write done", "read done"}
      /\ pc'["main"] = pc["main"] /\ job' = job /\ queue' = queue
  BY <1>0, Zenon DEF WriteDevice, ReadDevice, Goto, queues
<1>2. End' = End /\ \A n : At(n)' = At(n) /\ (On(n)' <=> On(n))
  <2>1. /\ Live("io")' <=> Live("io")
        /\ Live("main")' <=> Live("main")
    BY <1>1 DEF Live, LiveLabel
  <2>2. End' = End  BY <1>1 DEF End
  <2> QED  BY <1>1, <2>1, <2>2 DEF On, At
<1>3. \A n \in Nat : Rests(n)  BY <1>2 DEF Rests, Goes, Matches
<1>4. On(0)  BY <1>1, LineIs DEF Live, LiveLabel
<1>5. ToDo(0) /\ ~ToDo(0)'  BY <1>1, <1>4 DEF ToDo
<1>6. \A n \in Nat \ {0} : ToDo(n)' <=> ToDo(n)  BY <1>2 DEF ToDo
<1> QED  BY <1>2, <1>3, <1>5, <1>6 DEF Through

LEMMA OffIs ==
  ASSUME TypeInv, WriteDone \/ ReadDone
  PROVE  Off
<1>0. /\ pc \in [Thread -> AnyLabel] /\ job \in [Thread -> Job] /\ DOMAIN queue = Thread
      /\ {"main", "io", "completion"} \subseteq Thread
  BY DEF TypeInv, ThreadType, QueueType, Thread
<1>1. /\ pc["io"] \in {"write done", "read done"}
      /\ pc'["io"] \in {"decrement", "release", "read ahead", "dequeue"}
      /\ pc'["main"] = pc["main"]
  BY <1>0, Zenon DEF WriteDone, ReadDone, Goto
<1>2. job'["main"] = job["main"] /\ queue'["io"] = queue["io"]
  <2>1. CASE WriteDone  BY <2>1, Zenon DEF WriteDone, queues
  <2>2. CASE ReadDone  BY <2>2, <1>0 DEF ReadDone
  <2> QED  BY <2>1, <2>2
<1>3. End' = End /\ End \in Nat \ {0}  BY <1>2, LineIs DEF End
<1>4. (Live("main")' <=> Live("main")) /\ Live("io") /\ ~Live("io")'  BY <1>1 DEF Live, LiveLabel
<1>5. ASSUME NEW n \in Nat \ {0}  PROVE Rests(n) /\ (ToDo(n)' <=> ToDo(n))
  BY <1>3, <1>4, <1>2 DEF On, At, Rests, Goes, Matches, ToDo
<1>6. On(0) /\ ~On(0)' /\ ~ToDo(0)
  <2>1. On(0)  BY <1>4, LineIs
  <2>2. 0 \notin 1 .. End' - 1 /\ 0 # End'  BY <1>3
  <2>3. ~On(0)'  BY <1>4, <2>2 DEF On
  <2>4. ~ToDo(0)  BY <1>1 DEF ToDo
  <2> QED  BY <2>1, <2>3, <2>4
<1> QED  BY <1>3, <1>5, <1>6 DEF Off

LEMMA TailIs ==
  ASSUME NEW S, NEW q \in Seq(S), q # <<>>
  PROVE  /\ Len(q) \in Nat /\ Len(q) > 0 /\ Head(q) = q[1] /\ Len(Tail(q)) = Len(q) - 1
         /\ \A k \in 1 .. Len(q) - 1 : Tail(q)[k] = q[k + 1]
OBVIOUS

LEMMA ShiftOf ==
  ASSUME TypeInv, NEW q \in Seq(Job), q # <<>>, q = queue["io"], queue'["io"] = Tail(q),
         job'["io"] = q[1], job'["main"] = job["main"], ~Live("io"), Live("io")',
         Live("main")' <=> Live("main")
  PROVE  /\ End' = End - 1 /\ End > 1 /\ ~On(0) /\ On(0)' /\ At(1) = q[1]
         /\ \A m \in Nat : Goes(m + 1, m) /\ (m < End - 1 => At(m)' = At(m + 1))
         /\ \A m \in Nat \ {0} : ToDo(m)' <=> ToDo(m + 1)
<1>1. PICK n \in Nat : n = Len(q) /\ n > 0 /\ Len(Tail(q)) = n - 1
                         /\ \A k \in 1 .. n - 1 : Tail(q)[k] = q[k + 1]
  BY TailIs
<1>2. End = n + 1 /\ End' = n /\ End' = End - 1 /\ End > 1  BY <1>1 DEF End
<1>3. ~On(0) /\ On(0)'  BY <1>1, <1>2 DEF On
<1>4. At(1) = q[1]  BY <1>1, <1>2 DEF At
<1>5. ASSUME NEW m \in Nat
      PROVE  /\ On(m)' <=> On(m + 1)
             /\ m < End - 1 \/ m = End - 1 => At(m)' = At(m + 1)
  <2>1. CASE m = 0  BY <1>1, <1>2, <1>3, <1>4, <2>1 DEF On, At
  <2>2. CASE m \in 1 .. n - 1  BY <1>1, <1>2, <2>2 DEF On, At
  <2>3. CASE m = n  BY <1>1, <1>2, <2>3 DEF On, At
  <2>4. CASE m > n  BY <1>1, <1>2, <2>4 DEF On
  <2> QED  BY <1>1, <2>1, <2>2, <2>3, <2>4
<1>6. \A m \in Nat : On(m + 1) => m < End - 1 \/ m = End - 1  BY <1>1, <1>2, LineIs
<1>7. \A m \in Nat : Goes(m + 1, m)  BY <1>5, <1>6 DEF Goes, Matches
<1>8. \A m \in Nat \ {0} : ToDo(m)' <=> ToDo(m + 1)  BY <1>5 DEF ToDo
<1> QED  BY <1>2, <1>3, <1>4, <1>5, <1>7, <1>8

LEMMA ShiftIs ==
  ASSUME TypeInv, Flow, TakeFragment
  PROVE  Shift
<1>0. /\ pc \in [Thread -> AnyLabel] /\ job \in [Thread -> Job] /\ DOMAIN queue = Thread
      /\ {"main", "io", "completion"} \subseteq Thread /\ queue["io"] \in Seq(Job)
  BY DEF TypeInv, ThreadType, QueueType, Thread
<1>1. PICK q : q = queue["io"]  OBVIOUS
<1>2. q \in Seq(Job) /\ q # <<>>  BY <1>0, <1>1 DEF TakeFragment
<1>3. /\ job' = [job EXCEPT !["io"] = Head(q)]
      /\ queue' = [queue EXCEPT !["io"] = Tail(q)]
      /\ pc["io"] = "dequeue" /\ pc'["main"] = pc["main"]
      /\ pc'["io"] \in {"write", "write done", "read", "read done"}
      /\ item[Head(q).item].success => pc'["io"] \in {"write", "read"}
  BY <1>0, <1>1, Zenon DEF TakeFragment, Goto
<1>4. Head(q) = q[1]  BY <1>2, TailIs
<1>5. /\ queue'["io"] = Tail(q) /\ job'["io"] = q[1] /\ job'["main"] = job["main"]
      /\ ~Live("io") /\ Live("io")' /\ (Live("main")' <=> Live("main"))
  BY <1>0, <1>3, <1>4 DEF Live, LiveLabel
<1>6. /\ End' = End - 1 /\ End > 1 /\ ~On(0) /\ On(0)' /\ At(1) = q[1]
      /\ \A m \in Nat : Goes(m + 1, m) /\ (m < End - 1 => At(m)' = At(m + 1))
      /\ \A m \in Nat \ {0} : ToDo(m)' <=> ToDo(m + 1)
  BY <1>1, <1>2, <1>5, ShiftOf
<1>7. ~ToDo(0)' => ~item[At(1).item].success  BY <1>3, <1>4, <1>6 DEF ToDo
<1> QED  BY <1>6, <1>7 DEF Shift

LEMMA AppendIs ==
  ASSUME NEW S, NEW q \in Seq(S), NEW f \in S
  PROVE  /\ Len(q) \in Nat /\ Len(Append(q, f)) = Len(q) + 1 /\ Append(q, f)[Len(q) + 1] = f
         /\ \A k \in 1 .. Len(q) : Append(q, f)[k] = q[k]
OBVIOUS

LEMMA MoreOf ==
  ASSUME TypeInv, NEW q \in Seq(Job), NEW f \in Job, q = queue["io"], queue'["io"] = Append(q, f),
         job'["io"] = job["io"], pc'["io"] = pc["io"], Live("main"),
         Live("main")' <=> ~f.last, NEW rest, Live("main")' => job'["main"] = rest
  PROVE  More(f, rest)
<1>1. PICK n \in Nat : n = Len(q) /\ Len(Append(q, f)) = n + 1 /\ Append(q, f)[n + 1] = f
                         /\ \A k \in 1 .. n : Append(q, f)[k] = q[k]
  BY AppendIs
<1>2. End = n + 1 /\ End' = n + 2 /\ End' = End + 1  BY <1>1 DEF End
<1>3. Live("io")' <=> Live("io")  BY DEF Live
<1>4. ASSUME NEW m \in 0 .. n  PROVE Rests(m) /\ (ToDo(m)' <=> ToDo(m))
  <2>1. CASE m = 0  BY <1>1, <1>2, <2>1, <1>3 DEF On, At, Rests, Goes, Matches, ToDo
  <2>2. CASE m \in 1 .. n
    <3>1. On(m) /\ On(m)'  BY <1>1, <1>2, <2>2 DEF On
    <3>2. At(m) = q[m] /\ At(m)' = Append(q, f)[m]  BY <1>1, <1>2, <2>2 DEF At
    <3>3. At(m)' = At(m)  BY <1>1, <2>2, <3>2
    <3>4. m # 0  BY <2>2
    <3> QED  BY <3>1, <3>3, <3>4 DEF Rests, Goes, Matches, ToDo
  <2> QED  BY <1>1, <2>1, <2>2
<1>5. On(n + 1) /\ On(n + 1)' /\ At(n + 1)' = f
  <2>1. On(n + 1)  BY <1>2 DEF On
  <2>2. n + 1 \in 1 .. End' - 1  BY <1>1, <1>2
  <2>3. On(n + 1)'  BY <2>2 DEF On
  <2>4. n + 1 # 0 /\ n + 1 # End'  BY <1>1, <1>2
  <2>5. At(n + 1)' = Append(q, f)[n + 1]  BY <2>4 DEF At
  <2> QED  BY <1>1, <2>1, <2>3, <2>5
<1>6. (On(n + 2)' <=> Live("main")') /\ At(n + 2)' = job'["main"]  BY <1>1, <1>2 DEF On, At
<1>7. ASSUME NEW m \in Nat, m > n + 2  PROVE ~On(m)'  BY <1>1, <1>2, <1>7 DEF On
<1>8. 0 .. End - 1 = 0 .. n /\ End + 1 = n + 2  BY <1>1, <1>2
<1>9. \A m \in Nat : m = End => On(m)' /\ At(m)' = f  BY <1>2, <1>5
<1>10. \A m \in Nat : m = End + 1 => (On(m)' <=> ~f.last) /\ (On(m)' => At(m)' = rest)
  BY <1>6, <1>8
<1>11. \A m \in Nat : m > End + 1 => ~On(m)'  BY <1>7, <1>8
<1>12. On(End)  BY <1>2, <1>5
<1>13. \A m \in 0 .. End - 1 : Rests(m) /\ (ToDo(m)' <=> ToDo(m))  BY <1>4, <1>8
<1> QED  BY <1>2, <1>9, <1>10, <1>11, <1>12, <1>13 DEF More

LEMMA MoreIs ==
  ASSUME TypeInv, QueueFragment
  PROVE  /\ More(FragmentOf(job["main"]), RestOf(job["main"]))
         /\ job["main"] \in Job /\ FragmentOf(job["main"]) \in Job
         /\ ~FragmentOf(job["main"]).last => RestOf(job["main"]) \in Job
         /\ FragmentOf(job["main"]).last <=> job["main"].length <= MaxFragment
<1>0. /\ pc \in [Thread -> AnyLabel] /\ job \in [Thread -> Job] /\ DOMAIN queue = Thread
      /\ {"main", "io", "completion"} \subseteq Thread /\ queue["io"] \in Seq(Job)
  BY DEF TypeInv, ThreadType, QueueType, Thread
<1>1. PICK j \in Job, f \in Job : Queued(j, f)  BY QueueFragmentEffect
<1>2. /\ j = job["main"] /\ f = FragmentOf(j)
      /\ queue' = [queue EXCEPT !["io"] = Append(@, f)]
      /\ \/ /\ f.last /\ j.length <= MaxFragment
            /\ Goto("main", "dequeue") /\ job' = [job EXCEPT !["main"] = NoJob]
         \/ /\ ~f.last /\ ~(j.length <= MaxFragment) /\ Goto("main", "request")
            /\ RestOf(j) \in Job /\ job' = [job EXCEPT !["main"] = RestOf(j)]
  BY <1>1 DEF Queued
<1>3. PICK rest : rest = RestOf(j)  OBVIOUS
<1>4. /\ queue'["io"] = Append(queue["io"], f) /\ job'["io"] = job["io"] /\ pc'["io"] = pc["io"]
      /\ (f.last <=> pc'["main"] = "dequeue") /\ (~f.last <=> pc'["main"] = "request")
      /\ ~f.last => job'["main"] = rest
  BY <1>0, <1>2, <1>3 DEF Goto
<1>5. Live("main") /\ (Live("main")' <=> ~f.last)  BY <1>4 DEF QueueFragment, Live, LiveLabel
<1>6. More(f, rest)  BY <1>0, <1>4, <1>5, MoreOf
<1> QED  BY <1>2, <1>3, <1>6

LEMMA NewIs ==
  ASSUME TypeInv, WaitingInv, Dispatch
  PROVE  \/ /\ Quiet /\ \E i \in Irp, x \in Item : \E s, d : Picked(i, x) /\ Finished(i, x, s, d)
         \/ \E i \in Irp, x \in Item : \E e :
              /\ Picked(i, x) /\ Taken(i, x, e)
              /\ New(NewJob(x, irp[i].request.offset + DataOffset, irp[i].request.length))
<1>0. /\ pc \in [Thread -> AnyLabel] /\ job \in [Thread -> Job] /\ DOMAIN queue = Thread
      /\ {"main", "io", "completion"} \subseteq Thread /\ queue["io"] \in Seq(Job)
  BY DEF TypeInv, ThreadType, QueueType, Thread
<1>1. PICK i \in Irp, x \in Item :
        Picked(i, x) /\ ((\E s, d : Finished(i, x, s, d)) \/ (\E e : Taken(i, x, e)))
  BY DispatchFields
<1>2. PICK j : j = NewJob(x, irp[i].request.offset + DataOffset, irp[i].request.length)  OBVIOUS
<1>3. job' = [job EXCEPT !["main"] = j] /\ queue' = [queue EXCEPT !["main"] = Tail(@)]
  <2>1. /\ i = Head(queue["main"]) /\ x = CHOOSE y \in FreeItem : TRUE  BY <1>1 DEF Picked
  <2>2. job' = [job EXCEPT !["main"] =
          [NoJob EXCEPT !.item = x, !.last = TRUE, !.offset = irp[i].request.offset + DataOffset,
                        !.length = irp[i].request.length]]
    BY <2>1, Zenon DEF Dispatch
  <2>3. queue' = [queue EXCEPT !["main"] = Tail(@)]  BY Zenon DEF Dispatch
  <2> QED  BY <1>2, <2>2, <2>3, DispatchedJob
<1>4. job'["io"] = job["io"] /\ job'["main"] = j /\ queue'["io"] = queue["io"]  BY <1>0, <1>3, Zenon
<1>5. pc["main"] = "item" /\ ~Live("main")  BY DEF Dispatch, Live, LiveLabel
<1>6. ASSUME NEW s, NEW d, Finished(i, x, s, d)  PROVE Quiet
  BY <1>6, <1>0, <1>4, <1>5, QuietIs DEF Finished, Ended, Goto, Live, LiveLabel
<1>7. ASSUME NEW e, Taken(i, x, e)  PROVE New(j)
  <2>1. Goto("main", "request")  BY <1>7, Zenon DEF Taken, Accepted
  <2>2. pc'["main"] = "request" /\ pc'["io"] = pc["io"]  BY <1>0, <2>1 DEF Goto
  <2>3. End' = End /\ End \in Nat \ {0}  BY <1>4, LineIs DEF End
  <2>4. ASSUME NEW n \in Nat \ {End}  PROVE Rests(n) /\ (ToDo(n)' <=> ToDo(n))
    BY <2>2, <2>3, <1>4 DEF On, Live, At, Rests, Goes, Matches, ToDo
  <2>5. ~On(End)  BY <1>5, LineIs
  <2>6. ASSUME NEW n \in Nat, n = End  PROVE On(n)' /\ At(n)' = j
    BY <2>2, <1>4, <2>3, <2>6 DEF Live, LiveLabel, On, At
  <2> QED  BY <2>3, <2>4, <2>5, <2>6 DEF New
<1> QED  BY <1>1, <1>2, <1>6, <1>7

-----------------------------------------------------------------------------
(* What the line says where it stays.                                      *)

LEMMA GoesIs ==
  ASSUME TypeInv, Flow, WaitingInv, StatusInv, SuccessInv, Next, NEW m \in Nat, NEW n \in Nat, Goes(m, n)
  PROVE  /\ Ender(n)' = Ender(m)
         /\ On(m) => /\ IrpOf(At(n))' = IrpOf(At(m)) /\ (IsWrite(At(n))' <=> IsWrite(At(m)))
                     /\ \A p : (Covers(At(n), p)' <=> Covers(At(m), p))
                              /\ Expected(IrpOf(At(n)), p)' = Expected(IrpOf(At(m)), p)
         /\ (ToDo(n)' <=> ToDo(m)) => /\ \A p : Writer(n, p)' = Writer(m, p)
                                      /\ Reads(n)' <=> Reads(m)
<1>1. CASE ~On(m)  BY <1>1 DEF Goes, Ender, Writer, Reads, ToDo
<1>2. CASE On(m)
  <2>1. PICK j : j = At(m)  OBVIOUS
  <2>2. j \in Flight  BY <1>2, <2>1, LineIs
  <2>3. PICK k : k = At(n)'  OBVIOUS
  <2>4. Matches(j, k) /\ On(n)'  BY <1>2, <2>1, <2>3 DEF Goes
  <2>5. Lasts(j)  BY <2>2, FlightLasts
  <2>6. PICK i : i = IrpOf(j)  OBVIOUS
  <2>7. IrpOf(At(n))' = i /\ irp'[i].request = irp[i].request /\ irp'[i].expected = irp[i].expected
    BY <2>3, <2>4, <2>5, <2>6 DEF Matches, Lasts, IrpOf
  <2>8. IsWrite(At(n))' <=> IsWrite(At(m))  BY <2>1, <2>6, <2>7 DEF IsWrite
  <2>9. \A p : (Covers(At(n), p)' <=> Covers(At(m), p))
    BY <2>1, <2>3, <2>4 DEF Covers, Indices, Matches
  <2>10. \A p : Expected(IrpOf(At(n)), p)' = Expected(IrpOf(At(m)), p)
    BY <2>1, <2>6, <2>7 DEF Expected
  <2>11. Ender(n)' = Ender(m)  BY <1>2, <2>1, <2>3, <2>4, <2>6, <2>7, <2>8 DEF Ender, Matches
  <2>12. (ToDo(n)' <=> ToDo(m)) => /\ \A p : Writer(n, p)' = Writer(m, p)
                                   /\ Reads(n)' <=> Reads(m)
    BY <1>2, <2>1, <2>4, <2>6, <2>7, <2>8, <2>9 DEF Writer, Reads
  <2> QED  BY <2>1, <2>6, <2>7, <2>8, <2>9, <2>10, <2>11, <2>12
<1> QED  BY <1>1, <1>2

-----------------------------------------------------------------------------
(* The requests lie in the encrypted area, and every buffer is used once.  *)

LEMMA Constants ==
  /\ DeviceLength \in Nat \ {0} /\ MaxFragment \in Nat \ {0} /\ DataOffset \in Nat
  /\ RemappedAreaOffset \in Nat /\ AreaStart \in Nat /\ UnitOffset \in Int
  /\ RemappedAreaOffset = 0 \/ (IsFilterDevice /\ RemappedAreaOffset >= DeviceLength)
  /\ IsFilterDevice => DataOffset = 0
BY QueueAssumption

LEMMA AreaInt ==
  ASSUME TypeInv
  PROVE  area \in Nat /\ AreaStart + area <= DeviceLength
<1>1. area \in 0 .. DeviceLength - AreaStart  BY DEF TypeInv, OwnerType
<1> QED  BY <1>1, Constants

LEMMA CryptAreaKept ==
  ASSUME TypeInv, Flow, Next, ~Convert
  PROVE  CryptArea' = CryptArea
<1>1. CASE UNCHANGED <<area, owner>>  BY <1>1 DEF CryptArea, StoredLength
<1>2. CASE \E i \in Irp : Client(i)
  BY <1>1, <1>2 DEF Client, Submit, AddIrp, RejectIrp, CancelIrp, disk, control
<1>3. CASE \E t \in Thread : Work(t)  BY <1>1, <1>3, WorkOwner DEF Kept
<1>4. CASE Dispatch  BY <1>4, <1>1 DEF Dispatch, disk, control
<1>5. CASE Owner
  <2>1. CASE MoveArea
    <3>1. area \in Int  BY AreaInt
    <3>2. CASE owner = "encrypted"  BY <2>1, <3>2, <3>1 DEF MoveArea, Go, StoredLength, CryptArea
    <3>3. CASE owner = "decrypted"  BY <2>1, <3>3, <3>1 DEF MoveArea, Go, StoredLength, CryptArea
    <3> QED  BY <2>1, <3>2, <3>3 DEF MoveArea
  <2>2. CASE ~MoveArea
    <3>1. area' = area /\ owner \notin {"encrypted", "decrypted"} /\ owner' \notin {"encrypted", "decrypted"}
      BY <1>5, <2>2, Zenon
         DEF Owner, Holding, BeginHold, CheckIdle, AwaitIdle, HoldFails, Recheck, Suspend, ConfirmIdle,
             ResumeFromHold, BeginStop, StopQueue, Go, ownerUnchanged, disk
    <3> QED  BY <3>1 DEF CryptArea, StoredLength
  <2> QED  BY <2>1, <2>2
<1> QED  BY <1>2, <1>3, <1>4, <1>5, StepCases

\* A block is converted while nothing is in flight.
LEMMA HeldIs ==
  ASSUME TypeInv, Flow, HoldInv, owner \in Held
  PROVE  /\ Flight = {} /\ IsFilterDevice /\ \A n : ~On(n)
         /\ queue["io"] = <<>> /\ queue["completion"] = <<>> /\ \A t \in Thread : ~Live(t)
<1>1. \A i \in Irp : irp[i].phase # "active"  BY DEF HoldInv, HoldExcludesIo, Held
<1>2. /\ Flight = {} /\ queue["io"] = <<>> /\ queue["completion"] = <<>>
      /\ \A t \in Thread : ~Live(t)
  BY <1>1, NoFlight
<1>3. IsFilterDevice  BY DEF Held, TypeInv, OwnerType
<1>4. \A n : ~On(n)  BY <1>2, LineIs
<1> QED  BY <1>2, <1>3, <1>4

LEMMA AreaWhole ==
  ASSUME owner \notin {"encrypted", "decrypted"}, area \in Int
  PROVE  EncryptedArea = CryptArea
<1>1. StoredLength = area  BY DEF StoredLength
<1> QED  BY <1>1 DEF EncryptedArea, CryptArea

\* The main thread looks at the area while it is not held.
LEMMA MainArea ==
  ASSUME TypeInv, HoldInv, pc["main"] \in {"item", "request"}
  PROVE  EncryptedArea = CryptArea
<1>1. owner \notin {"encrypted", "decrypted"}  BY DEF HoldInv, HoldExcludesIo
<1> QED  BY <1>1, AreaWhole, AreaInt

LEMMA SpanSame ==
  ASSUME NEW j, NEW k, Span(j), Lasts(j), Matches(j, k)
  PROVE  Span(k)'
<1>1. PICK i : i = IrpOf(j)  OBVIOUS
<1>2. IrpOf(k)' = i /\ irp'[i].request = irp[i].request  BY <1>1 DEF Lasts, Matches, IrpOf
<1> QED  BY <1>1, <1>2 DEF Span, Matches

\* The parts into which the main thread divides an IRP.
LEMMA PartsOf ==
  ASSUME NEW j \in Job, Span(j), Lasts(j), j.length > 0, irp[IrpOf(j)].request \in Request
  PROVE  LET f == FragmentOf(j) IN
         /\ Span(f)' /\ (~f.last => Span(RestOf(j))')
         /\ InArea(j, MaxFragment) => InArea(f, f.length)
<1>1. PICK f : f = FragmentOf(j)  OBVIOUS
<1>2. /\ f \in Job /\ f.item = j.item /\ f.offset = j.offset /\ f.from = j.from
      /\ f.last = (j.length <= MaxFragment)
      /\ f.length = IF j.length <= MaxFragment THEN j.length ELSE MaxFragment
      /\ f.encrypted = j.encrypted \cap (0 .. f.length - 1)
  BY <1>1, FragmentFields
<1>3. /\ j.length \in Nat /\ MaxFragment \in Nat \ {0} /\ j.offset \in Nat /\ j.from \in Nat
      /\ DataOffset \in Nat
  BY QueueAssumption DEF Job
<1>4. PICK i : i = IrpOf(j)  OBVIOUS
<1>5. PICK k : k = RestOf(j)  OBVIOUS
<1>6. /\ k.item = j.item /\ k.offset = j.offset + MaxFragment /\ k.from = j.from + MaxFragment
      /\ k.length = j.length - MaxFragment
  BY <1>5 DEF RestOf
<1>7. IrpOf(k)' = i /\ IrpOf(f)' = i /\ irp'[i].request = irp[i].request
  BY <1>2, <1>4, <1>6 DEF Lasts, IrpOf
<1>8. PICK r : r = irp[i].request  OBVIOUS
<1>9. /\ r.op \in {"read", "write"} /\ r.offset + r.length <= DeviceLength
      /\ j.offset = r.offset + DataOffset + j.from /\ j.from + j.length <= r.length
      /\ r.offset \in Nat /\ r.length \in Nat
  BY <1>4, <1>8, QueueAssumption DEF Span
<1>10. Span(f)'
  <2>1. f.offset = r.offset + DataOffset + f.from  BY <1>2, <1>9
  <2>2. f.from + f.length <= r.length
    <3>1. CASE j.length <= MaxFragment  BY <1>2, <1>9, <3>1
    <3>2. CASE ~(j.length <= MaxFragment)  BY <1>2, <1>3, <1>9, <3>2
    <3> QED  BY <3>1, <3>2
  <2> QED  BY <1>7, <1>8, <1>9, <2>1, <2>2 DEF Span
<1>11. ~f.last => Span(k)'
  <2>1. SUFFICES ASSUME ~f.last  PROVE Span(k)'  OBVIOUS
  <2>2. k.from + k.length = j.from + j.length  BY <1>3, <1>6
  <2>3. k.offset = r.offset + DataOffset + k.from  BY <1>3, <1>6, <1>9
  <2> QED  BY <1>7, <1>8, <1>9, <2>2, <2>3 DEF Span
<1>12. InArea(j, MaxFragment) => InArea(f, f.length)  BY <1>2, <1>3 DEF InArea
<1> QED  BY <1>1, <1>5, <1>10, <1>11, <1>12

LEMMA BufferStays ==
  ASSUME TypeInv, NEW t \in Thread, Work(t), ~TakeRequest, ~QueueFragment, pc'["main"] = "buffer"
  PROVE  pc["main"] = "buffer" /\ job'["main"] = job["main"]
<1>0. /\ pc \in [Thread -> AnyLabel] /\ job \in [Thread -> Job]
      /\ {"main", "io", "completion"} \subseteq Thread
  BY DEF TypeInv, ThreadType, Thread
<1>1. CASE PassOver(t)  BY <1>0, <1>1, PassOverEffect
<1>2. CASE Release(t)
  <2>1. pc'[t] = "dequeue" /\ \A u \in Thread : u # t => pc'[u] = pc[u] /\ job'[u] = job[u]
    BY <1>2, ReleaseEffect
  <2> QED  BY <1>0, <2>1
<1>3. CASE t \in {"io", "completion"} /\ ~PassOver(t) /\ ~Release(t)
  <2>1. /\ \E l : Goto(t, l)
        /\ job' = job \/ \E j : job' = [job EXCEPT ![t] = j]
    BY <1>3, ZenonT(60)
    DEF Work, TakeFragment, IoStep, WriteDevice, ReadDevice, ReadAhead, WriteDone, ReadDone,
           TakeCompletion, CompleteRead
  <2> QED  BY <1>0, <1>3, <2>1 DEF Goto
<1> QED  BY <1>1, <1>2, <1>3 DEF Work

LEMMA WorkSpan ==
  ASSUME TypeInv, Flow, WaitingInv, HoldInv, StatusInv, SuccessInv, SpanInv, NEW t \in Thread, Work(t),
         Next, CryptArea' = CryptArea, \A j \in Flight : Span(j)'
  PROVE  SpanInv'
<1>0. /\ pc \in [Thread -> AnyLabel] /\ job \in [Thread -> Job] /\ DOMAIN queue = Thread
      /\ {"main", "io", "completion"} \subseteq Thread
  BY DEF TypeInv, ThreadType, QueueType, Thread
<1>1. \A j, n : InArea(j, n)' <=> InArea(j, n)  BY DEF InArea
<1>2. CASE ~TakeRequest /\ ~QueueFragment
  <2>1. Flight' \subseteq Flight /\ Sent' \subseteq Sent  BY <1>2, WorkFlight
  <2>2. pc'["main"] = "buffer" => pc["main"] = "buffer" /\ job'["main"] = job["main"]
    BY <1>2, BufferStays
  <2>3. /\ \A j \in Sent : InArea(j, j.length)
        /\ pc["main"] = "buffer" => InArea(job["main"], MaxFragment)
    BY DEF SpanInv
  <2>4. \A j \in Flight' : Span(j)'  BY <2>1
  <2>5. \A j \in Sent' : InArea(j, j.length)'  BY <1>1, <2>1, <2>3
  <2>6. pc'["main"] = "buffer" => InArea(job["main"], MaxFragment)'  BY <2>2, <2>3 DEF InArea
  <2> QED  BY <2>4, <2>5, <2>6 DEF SpanInv
<1>3. CASE TakeRequest
  <2>1. PICK b, e : Prepared(b, e)  BY <1>3, TakeRequestEffect
  <2>2. PICK j \in Job : j = job["main"]  BY <1>0
  <2>3. PICK k : k = WithArea(j, b, e)  OBVIOUS
  <2>4. /\ job'["main"] = k /\ job'["io"] = job["io"] /\ job'["completion"] = job["completion"]
        /\ pc'["main"] = "buffer" /\ pc'["io"] = pc["io"] /\ pc'["completion"] = pc["completion"]
    BY <1>0, <2>1, <2>2, <2>3 DEF Prepared, Goto
  <2>5. Matches(j, k) /\ k.encrypted = e /\ k.offset = j.offset  BY <2>3 DEF WithArea, Matches
  <2>6. Live("main") /\ pc["main"] = "request"  BY <1>3 DEF TakeRequest, Live, LiveLabel
  <2>7. j \in Flight  BY <1>0, <2>2, <2>6, HandIs
  <2>8. Hand("io")' = Hand("io") /\ Hand("completion")' = Hand("completion") /\ Hand("main")' = {k}
    BY <1>0, <2>4, NextHandIs DEF LiveLabel
  <2>9. queue' = queue  BY <1>3 DEF TakeRequest, queues
  <2>10. Flight' \subseteq Flight \union {k} /\ Sent' = Sent  BY <2>8, <2>9 DEF Flight, Sent
  <2>11. Span(k)'  BY <2>5, <2>7, SpanSame, FlightLasts DEF SpanInv
  <2>12. InArea(k, MaxFragment)  BY <2>1, <2>2, <2>6, MainArea, <2>5 DEF Prepared, InArea
  <2>13. InArea(job["main"], MaxFragment)'  BY <1>1, <2>4, <2>12 DEF InArea
  <2>14. \A n \in Sent' : InArea(n, n.length)'  BY <1>1, <2>10 DEF SpanInv
  <2> QED  BY <2>10, <2>11, <2>13, <2>14 DEF SpanInv
<1>4. CASE QueueFragment
  <2>1. PICK j \in Job, f \in Job : Queued(j, f)  BY <1>4, QueueFragmentEffect
  <2>2. PICK k : k = RestOf(j)  OBVIOUS
  <2>3. /\ job'["main"] \in {NoJob, k} /\ (f.last \/ job'["main"] # k => pc'["main"] \notin LiveLabel)
        /\ job'["io"] = job["io"] /\ job'["completion"] = job["completion"]
        /\ pc'["io"] = pc["io"] /\ pc'["completion"] = pc["completion"] /\ pc'["main"] # "buffer"
        /\ queue'["io"] = Append(queue["io"], f) /\ queue'["completion"] = queue["completion"]
        /\ j = job["main"] /\ f = FragmentOf(j)
    BY <1>0, <2>1, <2>2 DEF Queued, Goto, LiveLabel
  <2>4. Live("main") /\ pc["main"] = "buffer"  BY <1>4 DEF QueueFragment, Live, LiveLabel
  <2>5. j \in Flight  BY <1>0, <2>3, <2>4, HandIs
  <2>6. /\ Hand("io")' = Hand("io") /\ Hand("completion")' = Hand("completion")
        /\ Hand("main")' \subseteq {k} /\ (f.last => Hand("main")' = {})
    BY <1>0, <2>3, NextHandIs DEF Hand, HandOf
  <2>7. Jobs(queue'["io"]) = Jobs(queue["io"]) \union {f}
    BY <2>3, AppendJobs DEF TypeInv, QueueType
  <2>8. Flight' \subseteq Flight \union {f} \union Hand("main")' /\ Sent' = Sent \union {f}
    BY <2>3, <2>6, <2>7 DEF Flight, Sent
  <2>9. Span(j) /\ Lasts(j) /\ j.length > 0 /\ irp[IrpOf(j)].request \in Request
    BY <2>5, FlightLasts DEF SpanInv, Flow, FlightInv, Alive, TypeInv, IrpType
  <2>10. InArea(j, MaxFragment)  BY <2>3, <2>4 DEF SpanInv
  <2>11. Span(f)' /\ (~f.last => Span(k)') /\ InArea(f, f.length)
    BY <2>2, <2>3, <2>9, <2>10, PartsOf
  <2>12. \A n \in Flight' : Span(n)'  BY <2>6, <2>8, <2>11
  <2>13. \A n \in Sent' : InArea(n, n.length)'  BY <1>1, <2>8, <2>11 DEF SpanInv
  <2> QED  BY <2>3, <2>12, <2>13 DEF SpanInv
<1> QED  BY <1>2, <1>3, <1>4

LEMMA SpanKept ==
  ASSUME TypeInv, Flow, WaitingInv, HoldInv, StatusInv, SuccessInv, SpanInv, Next
  PROVE  SpanInv'
<1>0. /\ pc \in [Thread -> AnyLabel] /\ job \in [Thread -> Job] /\ DOMAIN queue = Thread
      /\ {"main", "io", "completion"} \subseteq Thread
  BY DEF TypeInv, ThreadType, QueueType, Thread
<1>1. \A j \in Flight : Span(j)'  BY SpanSame, FlightLasts DEF SpanInv, Matches
<1>2. CASE Convert
  <2>1. owner \in Held /\ Owner  BY <1>2 DEF Convert, Held, Owner
  <2>2. /\ \A u \in Thread : ~Live(u)
        /\ queue["io"] = <<>> /\ queue["completion"] = <<>> /\ Flight = {}
    BY <2>1, HeldIs
  <2>3. pc' = pc /\ job' = job /\ queue' = queue  BY <2>1, OwnerEffect DEF OwnerOnly
  <2>4. Flight' = {} /\ Sent' = {}
    <3>1. Flight' = Flight  BY <2>3 DEF Flight, Hand
    <3>2. Sent \subseteq Flight  BY DEF Sent, Flight
    <3>3. Sent' = Sent  BY <2>3 DEF Sent, Hand
    <3> QED  BY <2>2, <3>1, <3>2, <3>3
  <2>5. pc'["main"] # "buffer"  BY <1>0, <2>2, <2>3 DEF Live, LiveLabel
  <2> QED  BY <2>4, <2>5 DEF SpanInv
<1>3. CASE ~Convert
  <2>1. CryptArea' = CryptArea  BY <1>3, CryptAreaKept
  <2>2. \A j, n : InArea(j, n)' <=> InArea(j, n)  BY <2>1 DEF InArea
  <2>3. ASSUME Flight' \subseteq Flight, Sent' \subseteq Sent,
               pc'["main"] = "buffer" => pc["main"] = "buffer" /\ job'["main"] = job["main"]
        PROVE  SpanInv'
    <3>1. /\ \A j \in Sent : InArea(j, j.length)
          /\ pc["main"] = "buffer" => InArea(job["main"], MaxFragment)
      BY DEF SpanInv
    <3>2. \A j \in Flight' : Span(j)'  BY <1>1, <2>3
    <3>3. \A j \in Sent' : InArea(j, j.length)'  BY <2>2, <2>3, <3>1
    <3>4. pc'["main"] = "buffer" => InArea(job["main"], MaxFragment)'
      BY <2>1, <2>3, <3>1 DEF InArea
    <3> QED  BY <3>2, <3>3, <3>4 DEF SpanInv
  <2>4. CASE \E i \in Irp : Client(i)
    <3>1. PICK i \in Irp : Client(i)  BY <2>4
    <3>2. pc' = pc /\ job' = job  BY <3>1, ClientEffect
    <3>3. queue'["io"] = queue["io"] /\ queue'["completion"] = queue["completion"]
      BY <1>0, <3>1, ClientEffect DEF Submitted, Added, Rejected, Cancelled
    <3>4. Flight' = Flight /\ Sent' = Sent  BY <3>2, <3>3 DEF Flight, Sent, Hand
    <3> QED  BY <2>3, <3>2, <3>4
  <2>5. CASE Owner  BY <2>5, OwnerEffect, <2>3 DEF OwnerOnly, Flight, Sent, Hand
  <2>6. CASE \E t \in Thread : Work(t)  BY <1>1, <2>1, <2>6, WorkSpan
  <2>7. CASE Dispatch
    <3>1. PICK i \in Irp, x \in Item, success \in BOOLEAN, phase \in {"active", "done"},
               label \in {"request", "decrement"} : Dispatched(i, x, success, phase, label)
      BY <2>7, FirstWaiting, DispatchEffect, Zenon DEF Dispatch, TypeInv
    <3>2. PICK j : j = NewJob(x, irp[i].request.offset + DataOffset, irp[i].request.length)  OBVIOUS
    <3>3. /\ job'["main"] = j /\ job'["io"] = job["io"] /\ job'["completion"] = job["completion"]
          /\ pc'["main"] = label /\ pc'["io"] = pc["io"] /\ pc'["completion"] = pc["completion"]
          /\ queue'["io"] = queue["io"] /\ queue'["completion"] = queue["completion"]
      BY <1>0, <3>1, <3>2 DEF Dispatched, Goto
    <3>4. Hand("io")' = Hand("io") /\ Hand("completion")' = Hand("completion")
      BY <1>0, <3>3, NextHandIs
    <3>5. Sent' = Sent  BY <3>3, <3>4 DEF Sent
    <3>6. pc'["main"] # "buffer"  BY <3>1, <3>3
    <3>7. CASE label = "decrement"
      BY <1>0, <3>3, <3>7, NextHandIs, <3>4, <2>3, <3>5, <3>6 DEF LiveLabel, Flight
    <3>8. CASE label = "request"
      <4>1. Hand("main")' = {j}  BY <1>0, <3>3, <3>8, NextHandIs DEF LiveLabel
      <4>2. Flight' \subseteq Flight \union {j}  BY <3>3, <3>4, <4>1 DEF Flight
      <4>3. PICK n \in Irp, y \in Item : \E e : Picked(n, y) /\ Taken(n, y, e)
        BY <3>3, <3>8, <1>0, <2>7, DispatchFields DEF Finished, Ended, Goto
      <4>4. /\ irp[n].phase = "queued" /\ n = Head(queue["main"]) /\ item'[y].irp = n
            /\ irp'[n].request = irp[n].request /\ y = CHOOSE z \in FreeItem : TRUE
        BY <4>3 DEF Picked
      <4>5. n = i  BY <3>1, <4>4 DEF Dispatched
      <4>6. item' = [item EXCEPT ![x] = [irp |-> i, success |-> success]]  BY <3>1 DEF Dispatched
      <4>7. item'[x].irp = i  BY <4>6 DEF TypeInv
      <4>8. PICK r : r = irp[i].request  OBVIOUS
      <4>9. ~Invalid(r) /\ ~(r.op = "misaligned" /\ IsFilterDevice)
        BY <4>3, <4>5, <4>8, Zenon DEF Taken, Accepted
      <4>10. r \in Request  BY <4>4, <4>5, <4>8 DEF TypeInv, IrpType
      <4>11. /\ r.op \in {"read", "write"} /\ r.offset + r.length <= DeviceLength
             /\ r.offset \in Nat /\ r.length \in Nat
        <5>1. r.op \in {"read", "write", "misaligned"} /\ r.offset \in Nat /\ r.length \in Nat
          BY <4>10, QueueAssumption
        <5>2. CASE IsFilterDevice  BY <4>9, <4>10, <5>1, <5>2, QueueAssumption
        <5>3. CASE ~IsFilterDevice  BY <4>9, <5>1, <5>3, Constants DEF Invalid
        <5> QED  BY <5>2, <5>3
      <4>12. /\ j.item = x /\ j.offset = r.offset + DataOffset /\ j.length = r.length /\ j.from = 0
        BY <3>2, <4>8 DEF NewJob
      <4>13. IrpOf(j)' = i /\ irp'[i].request = r  BY <4>4, <4>5, <4>7, <4>8, <4>12 DEF IrpOf
      <4>14. Span(j)'  BY <4>11, <4>12, <4>13, Constants DEF Span
      <4>15. \A k \in Flight' : Span(k)'  BY <1>1, <4>2, <4>14
      <4>16. \A k \in Sent' : InArea(k, k.length)'  BY <2>2, <3>5 DEF SpanInv
      <4> QED  BY <3>6, <4>15, <4>16 DEF SpanInv
    <3> QED  BY <3>7, <3>8
  <2> QED  BY <2>4, <2>5, <2>6, <2>7, StepCases
<1> QED  BY <1>2, <1>3

LEMMA AsideBuffers ==
  ASSUME TypeInv, Aside
  PROVE  bufferFree' = bufferFree /\ fragment' = fragment
<1>1. CASE \E i \in Irp : Client(i)  BY <1>1, ClientEffect DEF buffers
<1>2. CASE \E t \in Thread : PassOver(t) \/ Release(t)
  BY <1>2, Zenon
     DEF PassOver, Wait, QueueEmpty, Decrement, SignalNoOutstanding, TakeIrp, AwaitResume, AwaitPool,
         Release, buffers
<1>3. CASE Owner
  BY <1>3, Zenon
     DEF Owner, Holding, BeginHold, CheckIdle, AwaitIdle, HoldFails, Recheck, Suspend, ConfirmIdle,
         ResumeFromHold, BeginStop, StopQueue, Convert, MoveArea, ownerUnchanged, buffers
<1>4. CASE TakeRequest \/ ReadAhead \/ TakeCompletion \/ CompleteRead
  BY <1>4, Zenon DEF TakeRequest, ReadAhead, TakeCompletion, CompleteRead, buffers
<1> QED  BY <1>1, <1>2, <1>3, <1>4 DEF Aside

LEMMA FilledStays ==
  ASSUME TypeInv, Flow, WaitingInv, StatusInv, SuccessInv, Next,
         NEW m \in Nat, NEW n \in Nat, Goes(m, n), On(m), At(n)' = At(m),
         fragment'[At(m).buffer] = fragment[At(m).buffer], CryptArea' = CryptArea, Filled(m)
  PROVE  Filled(n)'
<1>1. /\ IrpOf(At(n))' = IrpOf(At(m)) /\ (IsWrite(At(n))' <=> IsWrite(At(m)))
      /\ \A p : Covers(At(n), p)' <=> Covers(At(m), p)
  BY GoesIs
<1>2. \A p, w : Stored(p, w)' = Stored(p, w)  BY DEF Stored, Inside
<1>3. Block' = Block  BY DEF Block
<1>4. PICK j : j = At(m)  OBVIOUS
<1>5. PICK i : i = IrpOf(j)  OBVIOUS
<1>6. SUFFICES ASSUME IsWrite(At(n))', NEW p \in Block, Covers(At(n), p)'
               PROVE  fragment'[j.buffer][p + DataOffset - j.offset] = Stored(p, i)
  BY <1>1, <1>2, <1>3, <1>4, <1>5 DEF Filled
<1>7. IsWrite(At(m)) /\ Covers(At(m), p)  BY <1>1, <1>6
<1> QED  BY <1>4, <1>5, <1>7 DEF Filled

LEMMA BuffersInUse ==
  ASSUME TypeInv, Flow, WaitingInv, StatusInv, SuccessInv, BufferUse, Next
  PROVE  BufferUse'
<1>1. End \in Nat \ {0} /\ \A n : On(n) => At(n) \in Job /\ At(n).buffer \in Buffer
  BY LineIs DEF Job
<1>2. /\ DOMAIN fragment = Buffer
      /\ \A n \in 0 .. End - 1 : On(n) =>
           /\ ~bufferFree[At(n).buffer]
           /\ \A m \in 0 .. End - 1 : On(m) /\ At(m).buffer = At(n).buffer => m = n
  BY DEF BufferUse
<1>3. bufferFree \in [Buffer -> BOOLEAN]  BY DEF TypeInv
<1>4. ASSUME End' = End, \A n \in Nat : Rests(n), bufferFree' = bufferFree, DOMAIN fragment' = Buffer
      PROVE  BufferUse'  BY <1>1, <1>4, <1>2 DEF Rests, Goes, BufferUse
<1>5. CASE Aside  BY <1>5, AsideQuiet, AsideBuffers, <1>2, <1>4 DEF Quiet
<1>6. CASE WriteDevice \/ ReadDevice
  <2>1. bufferFree' = bufferFree /\ DOMAIN fragment' = DOMAIN fragment
    <3>1. CASE WriteDevice  BY <3>1, Zenon DEF WriteDevice, buffers
    <3>2. CASE ReadDevice
      <4>1. bufferFree' = bufferFree /\ \E d : fragment' = [fragment EXCEPT ![job["io"].buffer] = d]
        BY <3>2, Zenon DEF ReadDevice
      <4> QED  BY <4>1
    <3> QED  BY <1>6, <3>1, <3>2
  <2>2. Through  BY <1>6, ThroughIs
  <2> QED  BY <1>2, <1>4, <2>1, <2>2 DEF Through
<1>7. CASE WriteDone \/ ReadDone
  <2>1. PICK r : r = At(0)  OBVIOUS
  <2>2. /\ bufferFree' = [bufferFree EXCEPT ![r.buffer] = TRUE]
        /\ fragment' = [fragment EXCEPT ![r.buffer] = NoData]
    BY <1>7, <2>1, LineIs, Zenon DEF WriteDone, ReadDone
  <2>3. Off  BY <1>7, OffIs
  <2>4. On(0) /\ r.buffer \in Buffer  BY <1>1, <2>1, <2>3 DEF Off
  <2>5. \A n \in 0 .. End - 1 : On(n)' => n # 0 /\ On(n) /\ At(n)' = At(n)
    BY <1>1, <2>3 DEF Off, Rests, Goes
  <2>6. 0 \in 0 .. End - 1  BY <1>1
  <2>7. \A n \in 0 .. End - 1 : On(n) /\ n # 0 => At(n).buffer # r.buffer  BY <1>2, <2>1, <2>4, <2>6
  <2>8. \A n \in 0 .. End - 1 : On(n)' => bufferFree'[At(n)'.buffer] = bufferFree[At(n).buffer]
    BY <1>1, <1>3, <2>2, <2>5, <2>7
  <2>9. DOMAIN fragment' = Buffer /\ End' = End  BY <1>2, <2>2, <2>3 DEF Off
  <2> QED  BY <1>2, <2>5, <2>8, <2>9 DEF BufferUse
<1>8. CASE TakeFragment
  <2>1. Shift  BY <1>8, ShiftIs, Zenon
  <2>2. bufferFree' = bufferFree /\ fragment' = fragment  BY <1>8 DEF TakeFragment, buffers
  <2>3. \A n \in 0 .. End' - 1 : On(n)' => n + 1 \in 0 .. End - 1 /\ On(n + 1) /\ At(n)' = At(n + 1)
    BY <1>1, <2>1 DEF Shift, Goes
  <2>4. \A m, n \in 0 .. End' - 1 : m + 1 = n + 1 => m = n  BY <1>1, <2>1 DEF Shift
  <2> QED  BY <1>2, <2>2, <2>3, <2>4 DEF BufferUse
<1>9. CASE QueueFragment
  <2>1. PICK f : f = FragmentOf(job["main"])  OBVIOUS
  <2>2. /\ bufferFree[f.buffer] /\ bufferFree' = [bufferFree EXCEPT ![f.buffer] = FALSE]
        /\ fragment' = fragment \/ \E d : fragment' = [fragment EXCEPT ![f.buffer] = d]
    BY <1>9, <2>1, Zenon DEF QueueFragment, BufferReady
  <2>3. f \in Job /\ \E rest : More(f, rest)  BY <1>9, <2>1, MoreIs
  <2>4. /\ End' = End + 1 /\ \A n \in 0 .. End - 1 : (On(n)' <=> On(n)) /\ (On(n) => At(n)' = At(n))
        /\ \A n \in Nat : n = End => On(n)' /\ At(n)' = f
    BY <1>1, <2>3 DEF More, Rests, Goes
  <2>5. \A n \in 0 .. End' - 1 : n \in 0 .. End - 1 \/ (n = End /\ n \in Nat)  BY <1>1, <2>4
  <2>6. f.buffer \in Buffer  BY <2>3 DEF Job
  <2>7. \A n \in 0 .. End - 1 : On(n) => At(n).buffer # f.buffer  BY <1>2, <2>2
  <2>8. \A n \in 0 .. End' - 1 : On(n)' => ~bufferFree'[At(n)'.buffer]
    BY <1>1, <1>2, <1>3, <2>2, <2>4, <2>5, <2>6, <2>7
  <2>9. \A n \in 0 .. End' - 1 : On(n)' =>
           \A m \in 0 .. End' - 1 : On(m)' /\ At(m)'.buffer = At(n)'.buffer => m = n
    BY <1>2, <2>4, <2>5, <2>7
  <2>10. DOMAIN fragment' = Buffer  BY <1>2, <2>2
  <2> QED  BY <2>8, <2>9, <2>10 DEF BufferUse
<1>10. CASE Dispatch
  <2>1. bufferFree' = bufferFree /\ fragment' = fragment  BY <1>10, Zenon DEF Dispatch, buffers
  <2>2. Quiet \/ \E j : New(j)  BY <1>10, NewIs
  <2>3. End' = End /\ \A n \in 0 .. End - 1 : (On(n)' <=> On(n)) /\ (On(n) => At(n)' = At(n))
    BY <1>1, <2>2 DEF Quiet, New, Rests, Goes
  <2> QED  BY <1>2, <2>1, <2>3 DEF BufferUse
<1> QED  BY <1>5, <1>6, <1>7, <1>8, <1>9, <1>10, StepsOfLine

-----------------------------------------------------------------------------
(* What the buffers of the writes hold.                                    *)

\* What the main thread puts into a fragment is what the device is to have there.
LEMMA QueuedFilled ==
  ASSUME TypeInv, Flow, WaitingInv, HoldInv, StatusInv, SuccessInv, SpanInv, BufferUse, Next,
         QueueFragment, CryptArea' = CryptArea, NEW n \in Nat, n = End
  PROVE  Filled(n)'
<1>1. PICK j : j = job["main"]  OBVIOUS
<1>2. PICK f : f = FragmentOf(j)  OBVIOUS
<1>3. /\ j \in Job /\ f \in Job /\ On(n) /\ At(n)' = f /\ \E rest : More(f, rest)
  BY <1>1, <1>2, MoreIs DEF More
<1>4. /\ f.item = j.item /\ f.buffer = j.buffer
      /\ f.length = IF j.length <= MaxFragment THEN j.length ELSE MaxFragment
  BY <1>2, <1>3, FragmentFields
<1>5. /\ At(n) = j /\ j \in Flight  BY <1>1, <1>3, LineIs
<1>6. Lasts(j) /\ IrpOf(j) \in Irp  BY <1>5, FlightLasts
<1>7. PICK i : i = IrpOf(j)  OBVIOUS
<1>8. IrpOf(f)' = i /\ (IsWrite(f)' <=> irp[i].request.op = "write")
  BY <1>4, <1>6, <1>7 DEF Lasts, IsWrite, IrpOf
<1>9. ASSUME irp[i].request.op = "write"
      PROVE  fragment' = [fragment EXCEPT ![f.buffer] = [k \in Indices(f) |->
              IF k \in f.encrypted THEN Encrypted(Plain(i, f.offset + k - DataOffset), Unit(f, k))
                                   ELSE Plain(i, f.offset + k - DataOffset)]]
  BY <1>1, <1>2, <1>7, <1>9, Zenon DEF QueueFragment, IrpOf
<1>10. InArea(f, f.length)
  <2>1. f \in Sent'
    <3>1. n \in 1 .. Len(queue'["io"])  BY <1>3, LineIs DEF More, End
    <3>2. At(n)' = queue'["io"][n]  BY <1>3, LineIs DEF More, At
    <3>3. TypeInv'  BY TypeAndFlow
    <3>4. DOMAIN queue'["io"] = 1 .. Len(queue'["io"])  BY <3>3 DEF TypeInv, QueueType
    <3>5. f \in Jobs(queue'["io"])  BY <1>3, <3>1, <3>2, <3>4 DEF Jobs
    <3> QED  BY <3>5 DEF Sent
  <2>2. SpanInv'  BY SpanKept
  <2> QED  BY <2>1, <2>2 DEF SpanInv, InArea
<1>11. SUFFICES ASSUME irp[i].request.op = "write", NEW p \in Block, p + DataOffset - f.offset \in Indices(f)
                PROVE  fragment'[f.buffer][p + DataOffset - f.offset] = Stored(p, i)
  BY <1>3, <1>8 DEF Stored, Inside, Block, Filled, Covers
<1>12. PICK k : k = p + DataOffset - f.offset  OBVIOUS
<1>13. /\ p \in Int /\ f.offset \in Int /\ DataOffset \in Int /\ f.length \in Int /\ UnitOffset \in Int
  BY <1>3, Constants DEF Block, Job
<1>14. k \in Indices(f) /\ k \in Int /\ f.offset + k = p + DataOffset /\ f.offset + k - DataOffset = p
  BY <1>11, <1>12, <1>13
<1>15. k \in f.encrypted <=> Inside(p)  BY <1>14, <1>10 DEF Indices, InArea, Inside
<1>16. Unit(f, k) = p + DataOffset + UnitOffset  BY <1>14 DEF Unit
<1>17. f.buffer \in Buffer /\ DOMAIN fragment = Buffer  BY <1>3 DEF Job, BufferUse
<1>18. fragment'[f.buffer][k] =
         IF k \in f.encrypted THEN Encrypted(Plain(i, f.offset + k - DataOffset), Unit(f, k))
                                   ELSE Plain(i, f.offset + k - DataOffset)
  BY <1>9, <1>11, <1>14, <1>17
<1> QED  BY <1>12, <1>14, <1>15, <1>16, <1>18 DEF Stored

LEMMA FragmentKept ==
  ASSUME TypeInv, Flow, WaitingInv, HoldInv, StatusInv, SuccessInv, SpanInv, BufferUse, FragmentInv, Next
  PROVE  FragmentInv'
<1>1. End \in Nat \ {0} /\ \A n : On(n) => At(n) \in Job /\ At(n).buffer \in Buffer
  BY LineIs DEF Job
<1>2. /\ DOMAIN fragment = Buffer
      /\ \A n \in 0 .. End - 1 : On(n) =>
           /\ ~bufferFree[At(n).buffer]
           /\ \A m \in 0 .. End - 1 : On(m) /\ At(m).buffer = At(n).buffer => m = n
  BY DEF BufferUse
<1>3. CASE Convert
  <2>1. owner \in Held /\ Aside  BY <1>3 DEF Convert, Held, Owner, Aside
  <2>2. \A n : ~On(n)  BY <2>1, HeldIs
  <2>3. Quiet  BY <2>1, AsideQuiet
  <2>4. \A n \in 0 .. End' - 1 : ~ToDo(n)'  BY <1>1, <2>2, <2>3 DEF Quiet, ToDo
  <2> QED  BY <2>4 DEF FragmentInv
<1>4. CASE ~Convert
  <2>1. CryptArea' = CryptArea  BY <1>4, CryptAreaKept
  <2>2. ASSUME NEW m \in 0 .. End - 1, NEW n \in Nat, Goes(m, n), ToDo(m), At(n)' = At(m),
               fragment'[At(m).buffer] = fragment[At(m).buffer]
        PROVE  Filled(n)'  BY <1>1, <2>2, <2>1, FilledStays DEF FragmentInv, ToDo
  <2>3. CASE Aside
    BY <2>3, AsideQuiet, AsideBuffers, <1>1, <2>2 DEF Quiet, Rests, ToDo, FragmentInv
  <2>4. CASE WriteDevice \/ ReadDevice
    <3>1. Through  BY <2>4, ThroughIs
    <3>2. \A n \in 0 .. End' - 1 : ToDo(n)' =>
             n \in 0 .. End - 1 /\ n \in Nat /\ n # 0 /\ ToDo(n) /\ Goes(n, n) /\ At(n)' = At(n)
      BY <1>1, <3>1 DEF Through, Rests, ToDo
    <3>3. 0 \in 0 .. End - 1 /\ On(0) /\ At(0) = job["io"]  BY <1>1, <3>1, LineIs DEF Through, ToDo
    <3>4. \A n \in 0 .. End - 1 : On(n) /\ n # 0 => At(n).buffer # job["io"].buffer  BY <1>2, <3>3
    <3>5. fragment' = fragment \/ \E d : fragment' = [fragment EXCEPT ![job["io"].buffer] = d]
      <4>1. CASE WriteDevice  BY <4>1, Zenon DEF WriteDevice, buffers
      <4>2. CASE ReadDevice  BY <4>2, Zenon DEF ReadDevice
      <4> QED  BY <2>4, <4>1, <4>2
    <3>6. \A n \in 0 .. End - 1 : On(n) /\ n # 0 => fragment'[At(n).buffer] = fragment[At(n).buffer]
      BY <1>1, <1>2, <3>4, <3>5
    <3> QED  BY <2>2, <3>2, <3>6 DEF FragmentInv, ToDo
  <2>5. CASE WriteDone \/ ReadDone
    <3>1. Off  BY <2>5, OffIs
    <3>2. \A n \in 0 .. End' - 1 : ToDo(n)' =>
             n \in 0 .. End - 1 /\ n \in Nat /\ n # 0 /\ ToDo(n) /\ Goes(n, n) /\ At(n)' = At(n)
      BY <1>1, <3>1 DEF Off, Rests, ToDo
    <3>3. 0 \in 0 .. End - 1 /\ On(0) /\ At(0) = job["io"]  BY <1>1, <3>1, LineIs DEF Off
    <3>4. \A n \in 0 .. End - 1 : On(n) /\ n # 0 => At(n).buffer # job["io"].buffer  BY <1>2, <3>3
    <3>5. fragment' = [fragment EXCEPT ![job["io"].buffer] = NoData]
      BY <2>5, Zenon DEF WriteDone, ReadDone
    <3>6. \A n \in 0 .. End - 1 : On(n) /\ n # 0 => fragment'[At(n).buffer] = fragment[At(n).buffer]
      BY <1>1, <1>2, <3>4, <3>5
    <3> QED  BY <2>2, <3>2, <3>6 DEF FragmentInv, ToDo
  <2>6. CASE TakeFragment
    <3>1. Shift  BY <2>6, ShiftIs, Zenon
    <3>2. fragment' = fragment  BY <2>6 DEF TakeFragment, buffers
    <3>3. \A n \in 0 .. End' - 1 : ToDo(n)' =>
             n + 1 \in 0 .. End - 1 /\ n \in Nat /\ ToDo(n + 1) /\ Goes(n + 1, n) /\ At(n)' = At(n + 1)
      BY <1>1, <3>1 DEF Shift, ToDo, Goes
    <3> QED  BY <2>2, <3>2, <3>3 DEF FragmentInv
  <2>7. CASE QueueFragment
    <3>1. PICK f : f = FragmentOf(job["main"])  OBVIOUS
    <3>2. \E rest : More(f, rest)  BY <2>7, <3>1, MoreIs
    <3>3. \A n \in 0 .. End' - 1 : ToDo(n)' =>
             \/ n \in 0 .. End - 1 /\ n \in Nat /\ ToDo(n) /\ Goes(n, n) /\ At(n)' = At(n)
             \/ n = End /\ n \in Nat
      BY <1>1, <3>2 DEF More, Rests, ToDo
    <3>4. /\ bufferFree[f.buffer]
          /\ fragment' = fragment \/ \E d : fragment' = [fragment EXCEPT ![f.buffer] = d]
      BY <2>7, <3>1, Zenon DEF QueueFragment, BufferReady
    <3>5. \A n \in 0 .. End - 1 : On(n) => fragment'[At(n).buffer] = fragment[At(n).buffer]
      BY <1>1, <1>2, <3>4
    <3>6. \A n \in Nat : n = End => Filled(n)'  BY <2>1, <2>7, QueuedFilled
    <3> QED  BY <2>2, <3>3, <3>5, <3>6 DEF FragmentInv, ToDo
  <2>8. CASE Dispatch
    <3>1. fragment' = fragment  BY <2>8, Zenon DEF Dispatch, buffers
    <3>2. Quiet \/ \E j : New(j)  BY <2>8, NewIs
    <3>3. \A n \in 0 .. End' - 1 : ToDo(n)' =>
             n \in 0 .. End - 1 /\ n \in Nat /\ ToDo(n) /\ Goes(n, n) /\ At(n)' = At(n)
      BY <1>1, <3>2 DEF Quiet, New, Rests, ToDo
    <3> QED  BY <2>2, <3>1, <3>3 DEF FragmentInv
  <2> QED  BY <2>3, <2>4, <2>5, <2>6, <2>7, <2>8, StepsOfLine
<1> QED  BY <1>3, <1>4

-----------------------------------------------------------------------------
(* What is stored where.                                                   *)

LEMMA SpotIn ==
  ASSUME TypeInv, NEW p \in Block
  PROVE  Spot(p) \in Device
<1>1. area \in Nat /\ AreaStart + area <= DeviceLength  BY AreaInt
<1>2. p \in Nat /\ p < DeviceLength  BY Constants DEF Block
<1>3. CASE Inside(p)  BY <1>2, <1>3, Constants DEF Spot, Device
<1>4. CASE ~Inside(p)  BY <1>2, <1>4, Constants DEF Spot, Device
<1> QED  BY <1>3, <1>4

LEMMA SpotOnce ==
  ASSUME NEW p \in Block, NEW q \in Block, Spot(p) = Spot(q)
  PROVE  p = q
<1>1. p \in Nat /\ p < DeviceLength /\ q \in Nat /\ q < DeviceLength  BY Constants DEF Block
<1>2. CASE Inside(p) <=> Inside(q)  BY <1>1, <1>2, Constants DEF Spot
<1>3. CASE Inside(p) /\ ~Inside(q)  BY <1>1, <1>3, Constants DEF Spot
<1>4. CASE Inside(q) /\ ~Inside(p)  BY <1>1, <1>4, Constants DEF Spot
<1> QED  BY <1>2, <1>3, <1>4

\* Where the blocks of a request are on the device.
LEMMA PlaceIs ==
  ASSUME NEW j \in Job, InArea(j, j.length), NEW p \in Block, Covers(j, p)
  PROVE  Place(j, p + DataOffset - j.offset) = Spot(p)
<1>1. p \in Nat /\ j.offset \in Nat /\ j.length \in Nat  BY Constants DEF Block, Job
<1>2. PICK k \in 0 .. j.length - 1 : k = p + DataOffset - j.offset  BY DEF Covers, Indices
<1>3. j.offset + k = p + DataOffset  BY <1>1, <1>2, Constants
<1>4. k \in j.encrypted <=> Inside(p)  BY <1>2, <1>3 DEF InArea, Inside
<1> QED  BY <1>1, <1>2, <1>3, <1>4, Constants DEF Place, Spot

LEMMA BlockOf ==
  ASSUME NEW j \in Job, Span(j), irp[IrpOf(j)].request \in Request, NEW k \in Indices(j)
  PROVE  /\ j.offset + k - DataOffset \in Block /\ Covers(j, j.offset + k - DataOffset)
         /\ k = (j.offset + k - DataOffset) + DataOffset - j.offset
<1> DEFINE r == irp[IrpOf(j)].request
<1>1. r.offset \in Nat /\ r.length \in Nat  BY QueueAssumption
<1>2. /\ r.offset + r.length <= DeviceLength
      /\ j.offset = r.offset + DataOffset + j.from /\ j.from + j.length <= r.length
  BY DEF Span
<1>3. j.offset \in Nat /\ j.from \in Nat /\ j.length \in Nat /\ k \in 0 .. j.length - 1  BY DEF Job, Indices
<1>4. j.offset + k - DataOffset \in 0 .. DeviceLength - 1
  <2> HIDE DEF r
  <2> QED  BY <1>1, <1>2, <1>3, Constants
<1> QED  BY <1>3, <1>4, Constants DEF Block, Covers, Indices

\* The pieces of a fragment are its blocks.
LEMMA PiecesCover ==
  ASSUME NEW j \in Job, j.encrypted \subseteq Indices(j)
  PROVE  /\ \A n \in DOMAIN Pieces(j) : Pieces(j)[n] \subseteq Indices(j)
         /\ \A m, n \in DOMAIN Pieces(j) : m # n => Pieces(j)[m] \cap Pieces(j)[n] = {}
         /\ Len(Pieces(j)) \in DOMAIN Pieces(j)
         /\ RemappedAreaOffset = 0 => Pieces(j) = <<Indices(j)>>
<1> DEFINE before == {k \in Indices(j) : \A e \in j.encrypted : k < e}
           after == {k \in Indices(j) : \A e \in j.encrypted : k > e}
<1>1. j.encrypted \subseteq Int /\ Indices(j) \subseteq Int  BY DEF Job, Indices
<1>2. CASE RemappedAreaOffset = 0 \/ j.encrypted \in {{}, Indices(j)}  BY <1>2 DEF Pieces
<1>3. CASE ~(RemappedAreaOffset = 0 \/ j.encrypted \in {{}, Indices(j)})
  <2>1. before \cap j.encrypted = {} /\ after \cap j.encrypted = {} /\ before \cap after = {}
    BY <1>1, <1>3
  <2>2. Pieces(j) \in {<<j.encrypted, after>>, <<before, j.encrypted>>, <<before, j.encrypted, after>>}
    BY <1>3, Zenon DEF Pieces
  <2>3. CASE Pieces(j) = <<j.encrypted, after>>  BY <1>3, <2>1, <2>3
  <2>4. CASE Pieces(j) = <<before, j.encrypted>>  BY <1>3, <2>1, <2>4
  <2>5. CASE Pieces(j) = <<before, j.encrypted, after>>
    <3>1. before \subseteq Indices(j) /\ after \subseteq Indices(j)  OBVIOUS
    <3> HIDE DEF before, after
    <3>2. PICK P : P = Pieces(j)  OBVIOUS
    <3>3. DOMAIN P = 1 .. 3 /\ Len(P) = 3 /\ P[1] = before /\ P[2] = j.encrypted /\ P[3] = after
      BY <2>5, <3>2
    <3>4. \A n \in DOMAIN P : P[n] \subseteq Indices(j)  BY <3>1, <3>3
    <3>5. \A m, n \in DOMAIN P : m # n => P[m] \cap P[n] = {}  BY <2>1, <3>3
    <3> QED  BY <1>3, <3>2, <3>3, <3>4, <3>5
  <2> QED  BY <2>2, <2>3, <2>4, <2>5
<1> QED  BY <1>2, <1>3

\* The encrypted area is an interval: every block is in a piece.
LEMMA PiecesAll ==
  ASSUME TypeInv, NEW j \in Job, InArea(j, j.length), NEW k \in Indices(j)
  PROVE  \E n \in DOMAIN Pieces(j) : k \in Pieces(j)[n]
<1> DEFINE before == {l \in Indices(j) : \A e \in j.encrypted : l < e}
           after == {l \in Indices(j) : \A e \in j.encrypted : l > e}
<1>1. CASE RemappedAreaOffset = 0 \/ j.encrypted \in {{}, Indices(j)}  BY <1>1 DEF Pieces
<1>2. CASE ~(RemappedAreaOffset = 0 \/ j.encrypted \in {{}, Indices(j)})
  <2>1. CryptArea = AreaStart .. AreaStart + StoredLength - 1 /\ StoredLength \in Int
    BY <1>2, Constants, AreaInt DEF CryptArea, StoredLength
  <2>2. k \in j.encrypted \/ k \in before \/ k \in after
    <3> SUFFICES ASSUME k \notin j.encrypted, NEW d \in j.encrypted, NEW e \in j.encrypted, ~(k < d), ~(k > e)
                 PROVE  FALSE
      OBVIOUS
    <3>1. /\ j.offset \in Nat /\ k \in Int /\ d \in Int /\ e \in Int
          /\ d \in 0 .. j.length - 1 /\ e \in 0 .. j.length - 1 /\ k \in 0 .. j.length - 1
      BY DEF InArea, Indices, Job
    <3>2. j.offset + d \in CryptArea /\ j.offset + e \in CryptArea /\ j.offset + k \notin CryptArea
      BY <3>1 DEF InArea
    <3>3. d < k /\ k < e  BY <3>1, <3>2
    <3> QED  BY <2>1, <3>1, <3>2, <3>3, Constants
  <2>3. \/ before = {} /\ Pieces(j) = <<j.encrypted, after>>
        \/ after = {} /\ Pieces(j) = <<before, j.encrypted>>
        \/ Pieces(j) = <<before, j.encrypted, after>>
    BY <1>2, Zenon DEF Pieces
  <2> HIDE DEF before, after
  <2>4. PICK P : P = Pieces(j)  OBVIOUS
  <2>5. CASE before = {} /\ P = <<j.encrypted, after>>  BY <2>2, <2>4, <2>5
  <2>6. CASE after = {} /\ P = <<before, j.encrypted>>  BY <2>2, <2>4, <2>6
  <2>7. CASE P = <<before, j.encrypted, after>>  BY <2>7, <2>2, <2>4
  <2> QED  BY <2>3, <2>4, <2>5, <2>6, <2>7
<1> QED  BY <1>1, <1>2

-----------------------------------------------------------------------------
(* What a write brings to the device.                                      *)

\* The last piece of a fragment tells what became of all: no device fails, or none is
\* remapped, where a fragment is one piece.
StatusKept == ~MayFail \/ RemappedAreaOffset = 0

LEMMA NoneFailed ==
  ASSUME StatusKept, NEW j \in Job, j.encrypted \subseteq Indices(j),
         NEW failed \in Failures(Pieces(j)), StatusOf(Pieces(j), failed)
  PROVE  failed = {}
<1>1. CASE ~MayFail  BY <1>1 DEF Failures
<1>2. CASE MayFail
  <2>1. RemappedAreaOffset = 0  BY <1>2 DEF StatusKept
  <2>2. Pieces(j) = <<Indices(j)>>  BY <2>1, PiecesCover
  <2>3. DOMAIN Pieces(j) = {1} /\ Len(Pieces(j)) = 1  BY <2>2
  <2>4. failed \subseteq {1} /\ 1 \notin failed  BY <1>2, <2>3 DEF Failures, StatusOf
  <2> QED  BY <2>4
<1> QED  BY <1>1, <1>2

\* The request of the IO thread.
LEMMA IoJob ==
  ASSUME TypeInv, Flow, SpanInv, Live("io")
  PROVE  LET r == job["io"] IN
         /\ r \in Job /\ r \in Flight /\ r \in Sent /\ Alive(r) /\ Span(r) /\ InArea(r, r.length)
         /\ r.encrypted \subseteq Indices(r) /\ irp[IrpOf(r)].request \in Request
         /\ On(0) /\ At(0) = r
<1> DEFINE r == job["io"]
<1>1. r \in Hand("io")  BY DEF Live, Hand, HandOf
<1>2. r \in Flight /\ r \in Sent  BY <1>1 DEF Flight, Sent
<1>3. Alive(r) /\ Span(r) /\ InArea(r, r.length)  BY <1>2 DEF Flow, FlightInv, SpanInv
<1>4. r \in Job  BY DEF TypeInv, ThreadType, Thread
<1>5. irp[IrpOf(r)].request \in Request  BY <1>3 DEF Alive, TypeInv, IrpType
<1>6. r.encrypted \subseteq Indices(r)  BY <1>3 DEF InArea, Indices
<1>7. On(0) /\ At(0) = r  BY LineIs
<1> QED  BY <1>2, <1>3, <1>4, <1>5, <1>6, <1>7

\* What a write to the device does to the blocks of the users.
LEMMA WrittenIs ==
  ASSUME StatusKept, TypeInv, Flow, SpanInv, WriteDevice, NEW p \in Block
  PROVE  LET r == job["io"] IN
         \/ /\ device'[Spot(p)] = device[Spot(p)]
            /\ Covers(r, p) => ~item'[r.item].success
         \/ /\ Covers(r, p)
            /\ device'[Spot(p)] = fragment[r.buffer][p + DataOffset - r.offset]
<1> DEFINE r == job["io"]
           k == p + DataOffset - r.offset
<1>1. Live("io")  BY DEF WriteDevice, Live, LiveLabel
<1>2. /\ r \in Job /\ Alive(r) /\ Span(r) /\ InArea(r, r.length)
      /\ r.encrypted \subseteq Indices(r) /\ irp[IrpOf(r)].request \in Request
  BY <1>1, IoJob
<1>3. PICK P : P = Pieces(r)  OBVIOUS
<1>4. \A n \in DOMAIN P : P[n] \subseteq Indices(r)  BY <1>2, <1>3, PiecesCover
<1>5a. \E failed \in Failures(Pieces(r)) : \E part \in SUBSET In(Pieces(r), failed) :
          Wrote(r, In(Pieces(r), DOMAIN Pieces(r) \ failed) \cup part, StatusOf(Pieces(r), failed))
  BY Zenon DEF WriteDevice, Wrote
<1>5c. PICK failed \in Failures(P) : \E part \in SUBSET In(P, failed) :
          Wrote(r, In(P, DOMAIN P \ failed) \cup part, StatusOf(P, failed))
  BY <1>3, <1>5a
<1>5b. PICK part \in SUBSET In(P, failed) :
          Wrote(r, In(P, DOMAIN P \ failed) \cup part, StatusOf(P, failed))
  BY <1>5c
<1>6. PICK done : done = In(P, DOMAIN P \ failed) \cup part  OBVIOUS
<1>5. Wrote(r, done, StatusOf(P, failed))  BY <1>5b, <1>6
<1>7. failed \subseteq DOMAIN P  BY <1>5c DEF Failures
<1>8. done \subseteq Indices(r)  BY <1>4, <1>5b, <1>6, <1>7 DEF In
<1>9. Spot(p) \in Device  BY SpotIn
<1>10. device'[Spot(p)] = IF \E l \in done : Place(r, l) = Spot(p)
                          THEN fragment[r.buffer][CHOOSE l \in done : Place(r, l) = Spot(p)]
                          ELSE device[Spot(p)]
  BY <1>5, <1>9, Zenon DEF Wrote
<1>11. item'[r.item].success = StatusOf(P, failed)  BY <1>2, <1>5 DEF TypeInv, Alive, Wrote
<1>12. \A l \in done : Place(r, l) = Spot(p) => l = k /\ Covers(r, p)
  <2> SUFFICES ASSUME NEW l \in done, Place(r, l) = Spot(p)  PROVE l = k /\ Covers(r, p)  OBVIOUS
  <2>1. l \in Indices(r)  BY <1>8
  <2>2. PICK q : q = r.offset + l - DataOffset  OBVIOUS
  <2>3. q \in Block /\ Covers(r, q) /\ l = q + DataOffset - r.offset  BY <1>2, <2>1, <2>2, BlockOf
  <2>4. Place(r, l) = Spot(q)  BY <1>2, <2>3, PlaceIs
  <2>5. q = p  BY <2>3, <2>4, SpotOnce
  <2> QED  BY <2>3, <2>5
<1>13. CASE \E l \in done : Place(r, l) = Spot(p)
  <2>1. PICK l : l = CHOOSE h \in done : Place(r, h) = Spot(p)  OBVIOUS
  <2>2. l \in done /\ Place(r, l) = Spot(p)  BY <1>13, <2>1
  <2> QED  BY <1>10, <1>12, <1>13, <2>1, <2>2
<1>14. CASE ~\E l \in done : Place(r, l) = Spot(p)
  <2>1. ASSUME Covers(r, p), item'[r.item].success  PROVE FALSE
    <3>1. failed = {}  BY <1>2, <1>3, <1>5c, <1>11, <2>1, NoneFailed
    <3>2. k \in Indices(r)  BY <2>1 DEF Covers
    <3>3. PICK n \in DOMAIN P : k \in P[n]  BY <1>2, <1>3, <3>2, PiecesAll
    <3>4. k \in done  BY <1>6, <3>1, <3>3 DEF In
    <3>5. Place(r, k) = Spot(p)  BY <1>2, <2>1, PlaceIs, Zenon
    <3> QED  BY <1>14, <3>4, <3>5
  <2> QED  BY <1>10, <1>14, <2>1
<1> QED  BY <1>13, <1>14

\* No other step but the conversion writes to the device.
LEMMA DeviceKept ==
  ASSUME Next, ~WriteDevice, ~Convert
  PROVE  device' = device
BY Zenon DEF Next, Client, Submit, AddIrp, RejectIrp, CancelIrp, MainThread, IoThread, CompletionThread,
       Finishing, Wait, QueueEmpty, Decrement, SignalNoOutstanding, Release, TakeIrp, AwaitResume,
       AwaitPool, Dispatch, TakeRequest, QueueFragment, TakeFragment, WriteDone, ReadDevice, ReadDone,
       ReadAhead, TakeCompletion, CompleteRead, Owner, Holding, BeginHold, CheckIdle, AwaitIdle,
       HoldFails, Recheck, Suspend, ConfirmIdle, MoveArea, ResumeFromHold, BeginStop, StopQueue,
       disk, ownerUnchanged

LEMMA Ciphers ==
  ASSUME NEW w, NEW p, NEW u
  PROVE  /\ Plain(w, p) = [unit |-> Clear, by |-> w, at |-> p]
         /\ Encrypted(Plain(w, p), u) = [unit |-> u, by |-> w, at |-> p]
         /\ Decrypted([unit |-> u, by |-> w, at |-> p], u) = Plain(w, p)
BY DEF Plain, Encrypted, Decrypted

LEMMA StoredIs ==
  ASSUME NEW w, NEW p
  PROVE  Stored(p, w) = [unit |-> IF Inside(p) THEN p + DataOffset + UnitOffset ELSE Clear,
                         by |-> w, at |-> p]
BY Ciphers DEF Stored

LEMMA SpotKept ==
  ASSUME CryptArea' = CryptArea, NEW p
  PROVE  /\ Inside(p)' <=> Inside(p)
         /\ Spot(p)' = Spot(p) /\ \A w : Stored(p, w)' = Stored(p, w)
<1>1. Inside(p)' <=> Inside(p)  BY DEF Inside
<1> QED  BY <1>1 DEF Spot, Stored

LEMMA WriteAlone ==
  ASSUME TypeInv, WriteDevice
  PROVE  ~Convert
<1> SUFFICES ASSUME Convert  PROVE FALSE  OBVIOUS
<1>1. pc' = pc  BY Zenon DEF Convert
<1>2. pc["io"] = "write" /\ pc' = [pc EXCEPT !["io"] = "write done"]  BY Zenon DEF WriteDevice, Goto
<1>3. pc \in [Thread -> AnyLabel]  BY DEF TypeInv, ThreadType
<1> QED  BY <1>1, <1>2, <1>3 DEF Thread

\* A block is converted where it is.
LEMMA Converted ==
  ASSUME TypeInv, Flow, HoldInv, StoreInv, Convert, NEW p \in Block
  PROVE  /\ Spot(p)' = Spot(p) /\ device'[Spot(p)].by = device[Spot(p)].by
         /\ device'[Spot(p)] = Stored(p, device[Spot(p)].by)'
<1>1. owner = "held" /\ RemappedAreaOffset = 0 /\ IsFilterDevice /\ DataOffset = 0
  BY HeldIs, Constants DEF Convert, Held
<1>2. p \in Nat /\ p < DeviceLength /\ area \in Nat /\ AreaStart \in Nat
      /\ AreaStart + area <= DeviceLength /\ area' = area
  BY Constants, AreaInt DEF Block, Convert
<1>3. Spot(p) = p /\ Spot(p)' = p /\ p \in Device  BY <1>1, <1>2, SpotIn DEF Spot
<1>4. StoredLength = area  BY <1>1, <1>2 DEF StoredLength
<1>5. Inside(p) <=> p \in AreaStart .. AreaStart + area - 1
  BY <1>1, <1>2, <1>4 DEF Inside, CryptArea
<1>6. PICK w : w = device[p].by  OBVIOUS
<1>7. device[p] = [unit |-> IF Inside(p) THEN p + UnitOffset ELSE Clear, by |-> w, at |-> p]
  BY <1>1, <1>2, <1>3, <1>6, StoredIs DEF StoreInv
<1>8. DOMAIN device = Device  BY DEF TypeInv
<1>9. PICK next : next = AreaStart + area  OBVIOUS
<1>10. next \in Nat  BY <1>2, <1>9
<1>11. CASE owner' = "encrypted" /\ next < DeviceLength
             /\ device' = [device EXCEPT ![next] = Encrypted(@, next + UnitOffset)]
  <2>1. StoredLength' = area + 1  BY <1>2, <1>11 DEF StoredLength
  <2>2. Inside(p)' <=> p \in AreaStart .. AreaStart + area
    BY <1>1, <1>2, <2>1 DEF Inside, CryptArea
  <2>3. CASE p = next
    <3>1. device'[p] = Encrypted(device[p], p + UnitOffset)  BY <1>3, <1>8, <1>11, <2>3
    <3>2. ~Inside(p) /\ Inside(p)'  BY <1>2, <1>5, <1>9, <2>2, <2>3
    <3>3. device[p] = Plain(w, p)  BY <1>7, <3>2, Ciphers
    <3>4. device'[p] = [unit |-> p + UnitOffset, by |-> w, at |-> p]  BY <3>1, <3>3, Ciphers
    <3>5. Stored(p, w)' = [unit |-> p + UnitOffset, by |-> w, at |-> p]
      BY <1>1, <1>2, <3>2, Ciphers DEF Stored
    <3> QED  BY <1>3, <1>6, <3>4, <3>5
  <2>4. CASE p # next
    <3>1. device'[p] = device[p]  BY <1>3, <1>8, <1>11, <2>4
    <3>2. Inside(p)' <=> Inside(p)  BY <1>2, <1>5, <1>9, <2>2, <2>4
    <3>3. Stored(p, w)' = Stored(p, w)  BY <3>2 DEF Stored
    <3> QED  BY <1>3, <1>6, <3>1, <3>3 DEF StoreInv
  <2> QED  BY <2>3, <2>4
<1>12. CASE owner' = "decrypted" /\ area > 0
             /\ device' = [device EXCEPT ![next - 1] = Decrypted(@, next - 1 + UnitOffset)]
  <2>1. StoredLength' = area - 1  BY <1>2, <1>12 DEF StoredLength
  <2>2. Inside(p)' <=> p \in AreaStart .. AreaStart + area - 2
    BY <1>1, <1>2, <2>1 DEF Inside, CryptArea
  <2>3. CASE p = next - 1
    <3>1. device'[p] = Decrypted(device[p], p + UnitOffset)  BY <1>3, <1>8, <1>12, <2>3
    <3>2. Inside(p) /\ ~Inside(p)'  BY <1>2, <1>5, <1>9, <1>12, <2>2, <2>3
    <3>3. device[p] = [unit |-> p + UnitOffset, by |-> w, at |-> p]  BY <1>7, <3>2
    <3>4. device'[p] = Plain(w, p)  BY <3>1, <3>3, Ciphers
    <3>5. Stored(p, w)' = Plain(w, p)  BY <3>2 DEF Stored
    <3>6. device'[p].by = w  BY <3>4, Ciphers DEF Plain
    <3> QED  BY <1>3, <1>6, <3>4, <3>5, <3>6
  <2>4. CASE p # next - 1
    <3>1. device'[p] = device[p]  BY <1>3, <1>8, <1>12, <2>4
    <3>2. Inside(p)' <=> Inside(p)  BY <1>2, <1>5, <1>9, <2>2, <2>4
    <3>3. Stored(p, w)' = Stored(p, w)  BY <3>2 DEF Stored
    <3> QED  BY <1>3, <1>6, <3>1, <3>3 DEF StoreInv
  <2> QED  BY <2>3, <2>4
<1> QED  BY <1>9, <1>11, <1>12, Zenon DEF Convert, Go

-----------------------------------------------------------------------------
(* What the device holds.                                                  *)

\* What is written is in the fragment.
LEMMA WrittenBlock ==
  ASSUME StatusKept, TypeInv, Flow, SpanInv, FragmentInv, WriteDevice, NEW p \in Block
  PROVE  LET r == job["io"] IN
         /\ r.item \in Item /\ IrpOf(r) \in Irp /\ irp[IrpOf(r)].phase = "active" /\ irp' = irp
         /\ item'[r.item].irp = item[r.item].irp
         /\ Writer(0, p) = IF Covers(r, p) THEN IrpOf(r) ELSE NoIrp
         /\ \/ /\ device'[Spot(p)] = device[Spot(p)]
               /\ Covers(r, p) => ~item'[r.item].success
            \/ Covers(r, p) /\ device'[Spot(p)] = Stored(p, IrpOf(r))
<1> DEFINE r == job["io"]
<1>1. Live("io") /\ pc["io"] = "write"  BY DEF WriteDevice, Live, LiveLabel
<1>2. Alive(r) /\ On(0) /\ At(0) = r /\ IsWrite(r)  BY <1>1, IoJob DEF Flow, FlightInv
<1>3. ToDo(0)  BY <1>1, <1>2 DEF ToDo
<1>4. 0 \in 0 .. End - 1  BY LineIs
<1>5. Filled(0)  BY <1>3, <1>4 DEF FragmentInv
<1>6. Covers(r, p) => fragment[r.buffer][p + DataOffset - r.offset] = Stored(p, IrpOf(r))
  BY <1>2, <1>5 DEF Filled
<1>7. Writer(0, p) = IF Covers(r, p) THEN IrpOf(r) ELSE NoIrp  BY <1>2, <1>3 DEF Writer
<1>8. irp' = irp  BY DEF WriteDevice
<1>9. item'[r.item].irp = item[r.item].irp
  <2>1. PICK s : item' = [item EXCEPT ![r.item].success = s]  BY Zenon DEF WriteDevice
  <2> QED  BY <1>2, <2>1 DEF Alive, TypeInv
<1> QED  BY <1>2, <1>6, <1>7, <1>8, <1>9, WrittenIs DEF Alive

LEMMA StoreKept ==
  ASSUME StatusKept, TypeInv, Flow, HoldInv, SpanInv, FragmentInv, StoreInv, Next
  PROVE  StoreInv'
<1> SUFFICES ASSUME NEW p \in Block  PROVE (device[Spot(p)] = Stored(p, device[Spot(p)].by))'
  BY DEF StoreInv
<1>1. CASE Convert
  <2>1. PICK w : w = device[Spot(p)].by  OBVIOUS
  <2>2. Spot(p)' = Spot(p) /\ device'[Spot(p)].by = w /\ device'[Spot(p)] = Stored(p, w)'
    BY <1>1, <2>1, Converted
  <2> QED  BY <2>2
<1>2. CASE WriteDevice
  <2>1. CryptArea' = CryptArea  BY <1>2, WriteAlone, CryptAreaKept
  <2>2. Spot(p)' = Spot(p) /\ \A w : Stored(p, w)' = Stored(p, w)  BY <2>1, SpotKept
  <2>3. \/ device'[Spot(p)] = device[Spot(p)]
        \/ \E w : device'[Spot(p)] = Stored(p, w)
    BY <1>2, WrittenBlock
  <2>4. \A w : Stored(p, w).by = w  BY StoredIs
  <2> QED  BY <2>2, <2>3, <2>4 DEF StoreInv
<1>3. CASE ~Convert /\ ~WriteDevice
  <2>1. device' = device  BY <1>3, DeviceKept
  <2>2. CryptArea' = CryptArea  BY <1>3, CryptAreaKept
  <2>3. Spot(p)' = Spot(p) /\ \A w : Stored(p, w)' = Stored(p, w)  BY <2>2, SpotKept
  <2> QED  BY <2>1, <2>3 DEF StoreInv
<1> QED  BY <1>1, <1>2, <1>3

\* What a write left there remains, until another write comes through.
LEMMA HasKept ==
  ASSUME TypeInv, Flow, WaitingInv, HoldInv, StatusInv, SuccessInv, StoreInv, Next, ~WriteDevice,
         NEW p \in Block, NEW e, Has(e, p)
  PROVE  Has(e, p)'
<1>1. Bad(e) => Bad(e)'  BY Lasting
<1>2. (device[Spot(p)].by)' = device[Spot(p)].by
  <2>1. CASE Convert  BY <2>1, Converted
  <2>2. CASE ~Convert  BY <2>2, DeviceKept, CryptAreaKept, SpotKept
  <2> QED  BY <2>1, <2>2
<1> QED  BY <1>1, <1>2 DEF Has

LEMMA HasWritten ==
  ASSUME StatusKept, TypeInv, Flow, WaitingInv, HoldInv, StatusInv, SuccessInv, SpanInv, FragmentInv,
         Next, WriteDevice, NEW p \in Block, NEW e
  PROVE  /\ Writer(0, p) = NoIrp /\ Has(e, p) => Has(e, p)'
         /\ Writer(0, p) = e /\ e # NoIrp => Has(e, p)'
<1> DEFINE r == job["io"]
<1>1. Bad(e) => Bad(e)'  BY Lasting
<1>2. CryptArea' = CryptArea  BY WriteAlone, CryptAreaKept
<1>3. Spot(p)' = Spot(p)  BY <1>2, SpotKept
<1>4. /\ r.item \in Item /\ IrpOf(r) \in Irp /\ irp[IrpOf(r)].phase = "active" /\ irp' = irp
      /\ item'[r.item].irp = item[r.item].irp
      /\ Writer(0, p) = IF Covers(r, p) THEN IrpOf(r) ELSE NoIrp
      /\ \/ /\ device'[Spot(p)] = device[Spot(p)]
            /\ Covers(r, p) => ~item'[r.item].success
         \/ Covers(r, p) /\ device'[Spot(p)] = Stored(p, IrpOf(r))
  BY WrittenBlock
<1>5. IrpOf(r) # NoIrp  BY <1>4, QueueAssumption
<1>6. ASSUME Writer(0, p) = NoIrp, Has(e, p)  PROVE Has(e, p)'
  BY <1>1, <1>3, <1>4, <1>5, <1>6 DEF Has
<1>7. ASSUME Writer(0, p) = e, e # NoIrp  PROVE Has(e, p)'
  <2>1. Covers(r, p) /\ e = IrpOf(r)  BY <1>4, <1>7
  <2>2. CASE device'[Spot(p)] = Stored(p, e)  BY <1>3, <2>2, StoredIs DEF Has
  <2>3. CASE ~item'[r.item].success  BY <1>4, <2>1, <2>3 DEF Failed, IrpOf, Has, Bad
  <2> QED  BY <1>4, <2>1, <2>2, <2>3
<1> QED  BY <1>6, <1>7

-----------------------------------------------------------------------------
(* What a read brings from it.                                             *)

LEMMA FirstIs ==
  ASSUME NEW a \in Int, NEW b \in Int, a <= b
  PROVE  First(a .. b) = a /\ Cardinality(a .. b) = b - a + 1
<1>1. a \in a .. b /\ \A l \in a .. b : a <= l  OBVIOUS
<1>2. \A k \in a .. b : (\A l \in a .. b : k <= l) => k = a  OBVIOUS
<1>3. First(a .. b) = a  BY <1>1, <1>2 DEF First
<1>4. Cardinality(a .. b) = b - a + 1  BY FS_Interval
<1> QED  BY <1>3, <1>4

LEMMA NatInt == Nat \subseteq Int  OBVIOUS

LEMMA CountUpTo ==
  ASSUME NEW n \in Nat
  PROVE  Cardinality(0 .. n - 1) = n
BY FS_Interval

LEMMA HitIndex ==
  ASSUME NEW a \in Nat, NEW b \in Nat, NEW k \in a .. b, NEW n \in Nat, n >= b - a + 1
  PROVE  k - a \in 0 .. n - 1
OBVIOUS

\* What an interval has in common with the encrypted area is one.
LEMMA CommonInterval ==
  ASSUME NEW o \in Nat, NEW n \in Nat, NEW c \in Int, NEW d \in Int, NEW E,
         \A k : k \in E <=> k \in 0 .. n - 1 /\ o + k \in c .. d, E # {}
  PROVE  Interval(E, n)
<1>1. PICK k \in 0 .. n - 1 : o + k \in c .. d  OBVIOUS
<1>2. PICK lo : lo = IF c > o THEN c - o ELSE 0  OBVIOUS
<1>3. PICK hi : hi = IF d - o < n - 1 THEN d - o ELSE n - 1  OBVIOUS
<1>4. lo \in 0 .. n - 1 /\ hi \in 0 .. n - 1 /\ lo <= hi  BY <1>1, <1>2, <1>3
<1>5. \A l : l \in lo .. hi <=> l \in 0 .. n - 1 /\ o + l \in c .. d  BY <1>2, <1>3, <1>4
<1>6. E = lo .. hi  BY <1>5
<1> QED  BY <1>4, <1>6 DEF Interval

LEMMA Outside ==
  ASSUME NEW n \in Nat, NEW lo \in 0 .. n - 1, NEW hi \in 0 .. n - 1, lo <= hi
  PROVE  /\ {k \in 0 .. n - 1 : \A e \in lo .. hi : k < e} = 0 .. lo - 1
         /\ {k \in 0 .. n - 1 : \A e \in lo .. hi : k > e} = hi + 1 .. n - 1
<1>1. lo \in lo .. hi /\ hi \in lo .. hi  OBVIOUS
<1>2. \A k \in 0 .. n - 1 : (\A e \in lo .. hi : k < e) <=> k \in 0 .. lo - 1
  <2> TAKE k \in 0 .. n - 1
  <2>1. (\A e \in lo .. hi : k < e) => k < lo  BY <1>1
  <2>2. k < lo => \A e \in lo .. hi : k < e  OBVIOUS
  <2> QED  BY <2>1, <2>2
<1>3. \A k \in 0 .. n - 1 : (\A e \in lo .. hi : k > e) <=> k \in hi + 1 .. n - 1
  <2> TAKE k \in 0 .. n - 1
  <2>1. (\A e \in lo .. hi : k > e) => k > hi  BY <1>1
  <2>2. k > hi => \A e \in lo .. hi : k > e  OBVIOUS
  <2> QED  BY <2>1, <2>2
<1>4. 0 .. lo - 1 \subseteq 0 .. n - 1 /\ hi + 1 .. n - 1 \subseteq 0 .. n - 1  OBVIOUS
<1> QED  BY <1>2, <1>3, <1>4

LEMMA Within ==
  ASSUME NEW j \in Job, NEW c \in Int, NEW d \in Int, j.encrypted # {},
         j.encrypted = {k \in 0 .. j.length - 1 : j.offset + k \in c .. d}
  PROVE  Interval(j.encrypted, j.length)
<1>1. j.offset \in Nat /\ j.length \in Nat  BY Zenon DEF Job
<1>2. \A k : k \in j.encrypted <=> k \in 0 .. j.length - 1 /\ j.offset + k \in c .. d  OBVIOUS
<1> QED  BY <1>1, <1>2, CommonInterval

LEMMA PieceOf ==
  ASSUME NEW j \in Job, NEW a \in Nat, NEW b \in Nat, a <= b,
         \A k \in a .. b : k \in j.encrypted <=> a \in j.encrypted
  PROVE  Piece(j, a .. b)
<1>1. j.offset \in Nat  BY DEF Job
<1>2. \A k \in a .. b : Place(j, k) = Place(j, a) + k - a  BY <1>1, Constants DEF Place
<1> QED  BY <1>2 DEF Piece

LEMMA PiecesAre ==
  ASSUME TypeInv, NEW j \in Job, j.length > 0, InArea(j, j.length)
  PROVE  \A n \in DOMAIN Pieces(j) : Piece(j, Pieces(j)[n])
<1> DEFINE before == {k \in Indices(j) : \A e \in j.encrypted : k < e}
           after == {k \in Indices(j) : \A e \in j.encrypted : k > e}
<1>0. j.length \in Nat /\ j.offset \in Nat  BY DEF Job
<1>1. CASE RemappedAreaOffset = 0
  <2>1. Pieces(j) = <<0 .. j.length - 1>>  BY <1>1 DEF Pieces, Indices
  <2>2. \A k \in 0 .. j.length - 1 : Place(j, k) = Place(j, 0) + k - 0  BY <1>0, <1>1 DEF Place
  <2>3. Piece(j, 0 .. j.length - 1)  BY <1>0, <2>2 DEF Piece
  <2> QED  BY <2>1, <2>3
<1>2. CASE j.encrypted \in {{}, Indices(j)}
  <2>1. Pieces(j) = <<0 .. j.length - 1>>  BY <1>2 DEF Pieces, Indices
  <2>2. Piece(j, 0 .. j.length - 1)  BY <1>0, <1>2, PieceOf DEF Indices
  <2> QED  BY <2>1, <2>2
<1>3. CASE RemappedAreaOffset # 0 /\ j.encrypted \notin {{}, Indices(j)}
  <2>1. CryptArea = AreaStart .. AreaStart + StoredLength - 1 /\ StoredLength \in Int
    BY <1>3, Constants, AreaInt DEF CryptArea, StoredLength
  <2>2. PICK lo \in 0 .. j.length - 1, hi \in 0 .. j.length - 1 : lo <= hi /\ j.encrypted = lo .. hi
    <3>1. j.encrypted = {k \in 0 .. j.length - 1 : j.offset + k \in AreaStart .. AreaStart + StoredLength - 1}
      BY <2>1 DEF InArea
    <3>2. AreaStart \in Int /\ AreaStart + StoredLength - 1 \in Int  BY <2>1, Constants
    <3> HIDE DEF before, after
    <3>3. PICK c \in Int, d \in Int : c = AreaStart /\ d = AreaStart + StoredLength - 1  BY <3>2
    <3>4. j.encrypted = {k \in 0 .. j.length - 1 : j.offset + k \in c .. d}  BY <3>1, <3>3
    <3>5. Interval(j.encrypted, j.length)  BY <1>3, <3>4, Within, Zenon
    <3> QED  BY <3>5 DEF Interval
  <2>2a. /\ {k \in 0 .. j.length - 1 : \A e \in lo .. hi : k < e} = 0 .. lo - 1
         /\ {k \in 0 .. j.length - 1 : \A e \in lo .. hi : k > e} = hi + 1 .. j.length - 1
    BY <1>0, <2>2, Outside
  <2>3. before = 0 .. lo - 1  BY <2>2, <2>2a DEF Indices
  <2>4. after = hi + 1 .. j.length - 1  BY <2>2, <2>2a DEF Indices
  <2>5. Piece(j, lo .. hi)  BY <2>2, PieceOf
  <2>6. lo > 0 => Piece(j, 0 .. lo - 1)
    <3>1. ASSUME lo > 0  PROVE \A k \in 0 .. lo - 1 : k \in j.encrypted <=> 0 \in j.encrypted
      BY <2>2, <3>1
    <3> QED  BY <3>1, PieceOf
  <2>7. hi < j.length - 1 => Piece(j, hi + 1 .. j.length - 1)
    <3>1. \A k \in hi + 1 .. j.length - 1 : k \in j.encrypted <=> hi + 1 \in j.encrypted  BY <2>2
    <3> QED  BY <1>0, <3>1, PieceOf
  <2>8. \/ before = {} /\ Pieces(j) = <<j.encrypted, after>>
        \/ before # {} /\ after = {} /\ Pieces(j) = <<before, j.encrypted>>
        \/ before # {} /\ after # {} /\ Pieces(j) = <<before, j.encrypted, after>>
    BY <1>3, Zenon DEF Pieces
  <2>9. before # {} => lo > 0  BY <2>3
  <2>10. after # {} => hi < j.length - 1  BY <1>0, <2>2, <2>4
  <2>11. before = {} => after # {}
    <3>1. before = {} => lo = 0  BY <2>3
    <3>2. after = {} => hi = j.length - 1
      <4>1. hi < j.length - 1 => hi + 1 \in hi + 1 .. j.length - 1  BY <1>0, <2>2
      <4> QED  BY <1>0, <2>2, <2>4, <4>1
    <3> QED  BY <1>3, <2>2, <3>1, <3>2 DEF Indices
  <2> HIDE DEF before, after
  <2>12. PICK P : P = Pieces(j)  OBVIOUS
  <2>13. CASE before = {} /\ P = <<j.encrypted, after>>
    BY <2>2, <2>4, <2>5, <2>7, <2>10, <2>11, <2>12, <2>13
  <2>14. CASE before # {} /\ after = {} /\ P = <<before, j.encrypted>>
    BY <2>2, <2>3, <2>5, <2>6, <2>9, <2>12, <2>14
  <2>15. CASE before # {} /\ after # {} /\ P = <<before, j.encrypted, after>>
    BY <2>15, <2>2, <2>3, <2>4, <2>5, <2>6, <2>7, <2>9, <2>10, <2>12
  <2> QED  BY <2>8, <2>12, <2>13, <2>14, <2>15
<1> QED  BY <1>1, <1>2, <1>3

\* A read gets what the device holds, from the read-ahead buffer too.
LEMMA ReadBlockIs ==
  ASSUME CacheInv, pc["io"] # "write done", NEW j \in Job, NEW s, Piece(j, s), NEW k \in s
  PROVE  ReadBlock(j, s, k) = device[Place(j, k)]
<1>1. PICK a \in Nat, b \in Nat : a <= b /\ s = a .. b /\ \A l \in s : Place(j, l) = Place(j, a) + l - a
  BY DEF Piece
<1>2. First(s) = a /\ Cardinality(s) = b - a + 1  BY NatInt, <1>1, FirstIs, Zenon
<1>3. CASE CacheHit(j, s)
  <2>1. cache.valid /\ cache.offset = Place(j, a) /\ cache.offset \in Nat
    BY <1>2, <1>3 DEF CacheHit, CacheInv
  <2>2. PICK n \in Nat : DOMAIN cache.data = 0 .. n - 1  BY <2>1 DEF CacheInv
  <2>3. Cardinality(0 .. n - 1) = n  BY CountUpTo, Zenon
  <2>4. n >= b - a + 1  BY <1>2, <1>3, <2>2, <2>3 DEF CacheHit
  <2>5. k - a \in DOMAIN cache.data  BY <1>1, <2>2, <2>4, HitIndex
  <2>6. cache.data[k - a] = device[cache.offset + (k - a)]  BY <2>1, <2>5 DEF CacheInv
  <2>7. cache.offset + (k - a) = Place(j, k)  BY <1>1, <2>1
  <2> QED  BY <1>2, <1>3, <2>6, <2>7 DEF ReadBlock
<1>4. CASE ~CacheHit(j, s)  BY <1>4 DEF ReadBlock
<1> QED  BY <1>3, <1>4

\* What a read that succeeds brings are the blocks that the device holds.
LEMMA ReadIs ==
  ASSUME StatusKept, TypeInv, Flow, SpanInv, BufferUse, CacheInv, ReadDevice, NEW p \in Block
  PROVE  LET r == job["io"] IN
         item'[r.item].success /\ Covers(r, p) =>
           fragment'[r.buffer][p + DataOffset - r.offset] = device[Spot(p)]
<1> DEFINE r == job["io"]
           k == p + DataOffset - r.offset
<1>1. Live("io") /\ pc["io"] # "write done"  BY DEF ReadDevice, Live, LiveLabel
<1>2. /\ r \in Job /\ Alive(r) /\ Span(r) /\ InArea(r, r.length)
      /\ r.encrypted \subseteq Indices(r)
  BY <1>1, IoJob
<1>3. SUFFICES ASSUME item'[r.item].success, Covers(r, p)
               PROVE  fragment'[r.buffer][k] = device[Spot(p)]
  OBVIOUS
<1>4. PICK P : P = Pieces(r)  OBVIOUS
<1>5. \E failed \in Failures(Pieces(r)) : ReadEffect(r, Pieces(r), failed)
  BY Zenon DEF ReadDevice, ReadEffect
<1>6. PICK failed \in Failures(P) : ReadEffect(r, P, failed)  BY <1>4, <1>5
<1>7. item'[r.item].success = StatusOf(P, failed)  BY <1>2, <1>6 DEF TypeInv, Alive, ReadEffect
<1>8. failed = {}  BY <1>2, <1>3, <1>4, <1>6, <1>7, NoneFailed
<1>9. k \in Indices(r)  BY <1>3 DEF Covers
<1>10. PICK n : n = CHOOSE m \in DOMAIN P : k \in P[m]  OBVIOUS
<1>11. n \in DOMAIN P /\ k \in P[n]  BY <1>2, <1>4, <1>9, PiecesAll, <1>10
<1>12. fragment'[r.buffer][k] = ReadBlock(r, P[n], k)
  <2>1. PICK b : b = r.buffer /\ b \in Buffer  BY <1>2 DEF Job
  <2>2. fragment'[b] = [l \in Indices(r) |->
          LET m == CHOOSE m \in DOMAIN P : l \in P[m]
          IN IF m \in failed THEN Garbage ELSE ReadBlock(r, P[m], l)]
    BY <1>6, <2>1 DEF ReadEffect, BufferUse
  <2>3. fragment'[b][k] = IF n \in failed THEN Garbage ELSE ReadBlock(r, P[n], k)
    BY <1>9, <1>10, <2>2, Zenon
  <2> QED  BY <1>8, <2>1, <2>3
<1>13. Piece(r, P[n])  BY <1>2, <1>4, <1>11, PiecesAre DEF Alive
<1>14. ReadBlock(r, P[n], k) = device[Place(r, k)]  BY <1>1, <1>2, <1>11, <1>13, ReadBlockIs
<1>15. Place(r, k) = Spot(p)  BY <1>2, <1>3, PlaceIs, Zenon
<1> QED  BY <1>12, <1>14, <1>15

-----------------------------------------------------------------------------
(* The read-ahead buffer.                                                  *)

LEMMA CacheSame ==
  ASSUME Next, ~ReadAhead, ~WriteDone, ~ConfirmIdle
  PROVE  cache' = cache
BY Zenon DEF Next, Client, Submit, AddIrp, RejectIrp, CancelIrp, MainThread, IoThread, CompletionThread,
       Finishing, Wait, QueueEmpty, Decrement, SignalNoOutstanding, Release, TakeIrp, AwaitResume,
       AwaitPool, Dispatch, TakeRequest, QueueFragment, TakeFragment, WriteDevice, ReadDevice, ReadDone,
       TakeCompletion, CompleteRead, Owner, Holding, BeginHold, CheckIdle, AwaitIdle,
       HoldFails, Recheck, Suspend, Convert, MoveArea, ResumeFromHold, BeginStop, StopQueue, ahead

LEMMA LastReadSame ==
  ASSUME Next, ~ReadDevice
  PROVE  lastRead' = lastRead
BY Zenon DEF Next, Client, Submit, AddIrp, RejectIrp, CancelIrp, MainThread, IoThread, CompletionThread,
       Finishing, Wait, QueueEmpty, Decrement, SignalNoOutstanding, Release, TakeIrp, AwaitResume,
       AwaitPool, Dispatch, TakeRequest, QueueFragment, TakeFragment, WriteDevice, WriteDone, ReadDone,
       ReadAhead, TakeCompletion, CompleteRead, Owner, Holding, BeginHold, CheckIdle, AwaitIdle,
       HoldFails, Recheck, Suspend, ConfirmIdle, Convert, MoveArea, ResumeFromHold, BeginStop, StopQueue,
       ahead, ownerUnchanged

LEMMA LastReadIs ==
  ASSUME TypeInv, Flow, SpanInv, ReadDevice
  PROVE  lastRead'.offset \in Nat /\ lastRead'.length \in Nat
<1> DEFINE r == job["io"]
<1>1. Live("io")  BY DEF ReadDevice, Live, LiveLabel
<1>2. /\ r \in Job /\ Alive(r) /\ InArea(r, r.length) /\ r.encrypted \subseteq Indices(r)
  BY <1>1, IoJob
<1>3. PICK s : s = Pieces(r)[Len(Pieces(r))]  OBVIOUS
<1>4. lastRead' = [offset |-> Place(r, First(s)), length |-> Cardinality(s)]
  BY <1>3, Zenon DEF ReadDevice
<1>5. Piece(r, s)  BY <1>2, PiecesCover, <1>3, PiecesAre DEF Alive
<1>6. PICK a \in Nat, b \in Nat : a <= b /\ s = a .. b  BY <1>5 DEF Piece
<1>7. First(s) = a /\ Cardinality(s) = b - a + 1  BY NatInt, <1>6, FirstIs, Zenon
<1>8. b - a + 1 \in Nat  BY <1>6
<1>9. Place(r, a) \in Nat  BY <1>2, Constants DEF Job, Place
<1> QED  BY <1>4, <1>7, <1>8, <1>9

\* The label of the IO thread after a write.
LEMMA WriteDoneLeft ==
  ASSUME TypeInv, Flow, Next, pc["io"] = "write done", ~WriteDone
  PROVE  pc'["io"] = "write done"
<1>1. CASE \E i \in Irp : Client(i)  BY <1>1, ClientOwner
<1>2. CASE \E t \in Thread : Work(t)
  <2>1. PICK t \in Thread : Work(t)  BY <1>2
  <2>3. t # "io"
    BY <2>1 DEF Work, PassOver, Wait, QueueEmpty, Finishing, Decrement, SignalNoOutstanding, Release,
      TakeFragment, IoStep, WriteDevice, ReadDevice, ReadAhead, ReadDone
  <2> QED  BY <2>1, <2>3, WorkOwner DEF Thread
<1>3. CASE Dispatch
  <2>1. \E l : Goto("main", l)  BY <1>3, NewIs, Zenon DEF Finished, Ended, Taken, Accepted, Dispatch
  <2> QED  BY <2>1 DEF Goto, TypeInv, ThreadType, Thread
<1>4. CASE Owner  BY <1>4, OwnerEffect DEF OwnerOnly
<1> QED  BY <1>1, <1>2, <1>3, <1>4, StepCases

LEMMA InvalidIs == \A c : ~Invalidated(c).valid  BY DEF Invalidated

LEMMA HeldFrom ==
  ASSUME TypeInv, Flow, Next, owner' \in Held
  PROVE  owner \in Held \/ (ConfirmIdle /\ ~cache'.valid)
<1>1. CASE \E i \in Irp : Client(i)  BY <1>1, ClientOwner DEF control
<1>2. CASE \E t \in Thread : Work(t)  BY <1>2, WorkOwner DEF Kept
<1>3. CASE Dispatch  BY <1>3, Zenon DEF Dispatch, control
<1>4. CASE Owner
  <2>1. CASE ConfirmIdle
    <3>1. CASE StillIdle  BY <2>1, <3>1, InvalidIs DEF ConfirmIdle
    <3>2. CASE ~StillIdle  BY <2>1, <3>2 DEF ConfirmIdle, Go, Held
    <3> QED  BY <3>1, <3>2
  <2>2. CASE ~ConfirmIdle
    BY <1>4, <2>2 DEF Owner, Holding, BeginHold, CheckIdle, AwaitIdle, HoldFails, Recheck, Suspend,
       Convert, MoveArea, ResumeFromHold, BeginStop, StopQueue, Go, Held
  <2> QED  BY <2>1, <2>2
<1> QED  BY <1>1, <1>2, <1>3, <1>4, StepCases

LEMMA CacheKept ==
  ASSUME TypeInv, Flow, HoldInv, SpanInv, CacheInv, Next
  PROVE  CacheInv'
<1>1. lastRead'.offset \in Nat /\ lastRead'.length \in Nat  BY LastReadIs, LastReadSame DEF CacheInv
<1>2. CASE WriteDone \/ (ConfirmIdle /\ ~cache'.valid)
  <2>1. WriteDone => cache' = Invalidated(cache)  BY Zenon DEF WriteDone
  <2>2. ~cache'.valid  BY <1>2, <2>1, InvalidIs
  <2> QED  BY <1>1, <2>2 DEF CacheInv
<1>3. CASE ReadAhead
  <2>1. owner' = owner /\ device' = device /\ pc["io"] = "read ahead"
    BY <1>3 DEF ReadAhead, control, disk
  <2>2. owner' \notin Held  BY <2>1 DEF HoldInv, HoldExcludesIo, Held
  <2>3. PICK start : start = lastRead.offset + lastRead.length  OBVIOUS
  <2>4. start \in Nat /\ lastRead.length \in Nat
    <3>1. lastRead.offset \in Nat /\ lastRead.length \in Nat  BY Zenon DEF CacheInv
    <3>2. \A a, b \in Nat : a + b \in Nat  OBVIOUS
    <3> QED  BY <2>3, <3>1, <3>2, Zenon
  <2>5. CASE cache' = [valid |-> TRUE, offset |-> start,
                       data |-> [k \in 0 .. lastRead.length - 1 |-> device[start + k]]]
    BY <2>5, <2>1, <1>1, <2>2, <2>4 DEF CacheInv
  <2>6. CASE ~cache'.valid  BY <1>1, <2>6 DEF CacheInv
  <2>7. \/ cache' = [valid |-> TRUE, offset |-> start,
                      data |-> [k \in 0 .. lastRead.length - 1 |-> device[start + k]]]
        \/ \E c : cache' = Invalidated(c)
    BY <1>3, <2>3, Zenon DEF ReadAhead
  <2> QED  BY <2>5, <2>6, <2>7, InvalidIs
<1>4. CASE ~WriteDone /\ ~ReadAhead /\ ~(ConfirmIdle /\ ~cache'.valid)
  <2>1. owner' \in Held => owner \in Held  BY <1>4, HeldFrom
  <2>2. cache' = cache
    <3>1. CASE ConfirmIdle  BY <1>4, <3>1 DEF ConfirmIdle, Invalidated
    <3>2. CASE ~ConfirmIdle  BY <1>4, <3>2, CacheSame
    <3> QED  BY <3>1, <3>2
  <2>3. CASE ~cache.valid  BY <1>1, <2>2, <2>3 DEF CacheInv
  <2>4. CASE cache.valid /\ pc'["io"] # "write done"
    <3>1. pc["io"] # "write done"  BY <1>4, <2>4, WriteDoneLeft
    <3>2. ~Convert  BY <2>4 DEF CacheInv, Convert, Held
    <3>3. ~WriteDevice
      <4>1. ASSUME WriteDevice  PROVE pc'["io"] = "write done"
        BY <4>1, Labels, Zenon DEF WriteDevice, Goto, TypeInv, ThreadType
      <4> QED  BY <2>4, <4>1
    <3>4. device' = device  BY <3>2, <3>3, DeviceKept
    <3> QED  BY <1>1, <2>1, <2>2, <2>4, <3>1, <3>4 DEF CacheInv
  <2>5. CASE cache.valid /\ pc'["io"] = "write done"  BY <1>1, <2>1, <2>2, <2>5 DEF CacheInv
  <2> QED  BY <2>3, <2>4, <2>5
<1> QED  BY <1>2, <1>3, <1>4

-----------------------------------------------------------------------------
(* The line of requests: what a read is to see, and what is to be stored.  *)

LEMMA WritersAt ==
  ASSUME NEW n \in Nat, NEW p
  PROVE  /\ Writers(p)[n] = Writer(n, p) /\ Writers(p)'[n] = Writer(n, p)'
         /\ Enders[n] = Ender(n) /\ Enders'[n] = Ender(n)'
BY DEF Writers, Enders

LEMMA Resting ==
  ASSUME Course, Next, NEW n \in Nat, Rests(n), NEW p
  PROVE  /\ Enders'[n] = Enders[n]
         /\ (ToDo(n)' <=> ToDo(n)) => Writers(p)'[n] = Writers(p)[n] /\ (Reads(n)' <=> Reads(n))
<1>1. Goes(n, n)  BY DEF Rests
<1>2. /\ Ender(n)' = Ender(n)
      /\ (ToDo(n)' <=> ToDo(n)) => Writer(n, p)' = Writer(n, p) /\ (Reads(n)' <=> Reads(n))
  BY <1>1, GoesIs DEF Course
<1> QED  BY <1>2, WritersAt

\* No IRP writes where nothing is to be done, and none ends where there is none.
LEMMA NoWriter ==
  ASSUME NEW n \in Nat, NEW p
  PROVE  /\ ~ToDo(n) => Writers(p)[n] = NoIrp
         /\ ~ToDo(n)' => Writers(p)'[n] = NoIrp
         /\ ~On(n) => Enders[n] = NoIrp /\ ~ToDo(n)
         /\ ~On(n)' => Enders'[n] = NoIrp /\ ~ToDo(n)'
BY WritersAt DEF Writer, Ender, ToDo

LEMMA ExpectStays ==
  ASSUME Course, Next, ~WriteDevice, NEW p \in Block, NEW e, NEW n \in Nat, Expect(e, p, n),
         \A m \in 0 .. n - 1 : Rests(m) /\ (ToDo(m)' <=> ToDo(m))
  PROVE  Expect(e, p, n)'
<1>1. \A m \in 0 .. n - 1 : Writers(p)'[m] = Writers(p)[m] /\ Enders'[m] = Enders[m]  BY Resting
<1>2. Has(e, p) => Has(e, p)'  BY HasKept DEF Course
<1>3. Over(e) => Over(e)'  BY Lasting DEF Course
<1>4. Sees(Writers(p)', e, n, Has(e, p)')  BY <1>1, <1>2, SeesSame DEF Expect
<1>5. Ahead(Enders', e, n, Over(e)')  BY <1>1, <1>3, AheadSame DEF Expect
<1> QED  BY <1>4, <1>5 DEF Expect

\* The device operation of the first in line.
LEMMA ExpectThrough ==
  ASSUME StatusKept, Course, Next, WriteDevice \/ ReadDevice, NEW p \in Block, NEW e, NEW n \in Nat \ {0},
         Expect(e, p, n)
  PROVE  Expect(e, p, n)'
<1>1. Through  BY ThroughIs DEF Course
<1>2. \A m \in 0 .. n - 1 : Enders'[m] = Enders[m]  BY <1>1, Resting DEF Through
<1>3. \A m \in 1 .. n - 1 : Writers(p)'[m] = Writers(p)[m]  BY <1>1, Resting DEF Through
<1>4. Writers(p)'[0] = NoIrp  BY <1>1, NoWriter DEF Through
<1>5. /\ Writers(p)[0] = NoIrp => (Has(e, p) => Has(e, p)')
      /\ Writers(p)[0] = e /\ e # NoIrp => Has(e, p)'
  <2>1. CASE WriteDevice  BY <2>1, HasWritten, WritersAt DEF Course
  <2>2. CASE ~WriteDevice
    <3>1. Has(e, p) => Has(e, p)'  BY <2>2, HasKept DEF Course
    <3>2. Writers(p)[0] = NoIrp
      <4>1. ReadDevice  BY <2>2
      <4>2. pc["io"] = "read"  BY <4>1 DEF ReadDevice
      <4>3. ~IsWrite(job["io"])  BY <4>2 DEF Course, Flow, FlightInv
      <4>4. Writer(0, p) = NoIrp  BY <4>3 DEF Writer, At
      <4> QED  BY <4>4, WritersAt
    <3> QED  BY <3>1, <3>2
  <2> QED  BY <2>1, <2>2
<1>6. Over(e) => Over(e)'  BY Lasting DEF Course
<1>7. Sees(Writers(p)', e, n, Has(e, p)')  BY <1>3, <1>4, <1>5, SeesWritten DEF Expect
<1>8. Ahead(Enders', e, n, Over(e)')  BY <1>2, <1>6, AheadSame DEF Expect
<1> QED  BY <1>7, <1>8 DEF Expect

\* The first in line leaves; the last one of a write completes its IRP.
LEMMA ExpectOff ==
  ASSUME Course, Next, WriteDone \/ ReadDone, ~WriteDevice, NEW p \in Block, NEW e, NEW n \in Nat,
         Expect(e, p, n)
  PROVE  Expect(e, p, n)'
<1>1. Off  BY OffIs DEF Course
<1>2. \A m \in 1 .. n - 1 : Enders'[m] = Enders[m] /\ Writers(p)'[m] = Writers(p)[m]
  BY <1>1, Resting DEF Off
<1>3. Writers(p)[0] = NoIrp /\ Writers(p)'[0] = NoIrp  BY <1>1, NoWriter DEF Off
<1>4. \A m \in 0 .. n - 1 : Writers(p)'[m] = Writers(p)[m]  BY <1>2, <1>3
<1>5. Enders[0] = e => Over(e)'
  <2>1. SUFFICES ASSUME Ender(0) = e, e # NoIrp  PROVE Over(e)'  BY WritersAt DEF Over
  <2>2. e = IrpOf(job["io"]) /\ job["io"].last /\ IsWrite(job["io"])  BY <2>1 DEF Ender, At
  <2>3. ~ReadDone  BY <2>2, ReadDoneIrp DEF Course
  <2>4. e \in Irp /\ irp'[e].phase = "done"  BY <2>2, <2>3, WriteDoneIrp DEF Course
  <2> QED  BY <2>4 DEF Over
<1>6. Has(e, p) => Has(e, p)'  BY HasKept DEF Course
<1>7. Over(e) => Over(e)'  BY Lasting DEF Course
<1>8. Sees(Writers(p)', e, n, Has(e, p)')  BY <1>4, <1>6, SeesSame DEF Expect
<1>9. Ahead(Enders', e, n, Over(e)')  BY <1>2, <1>5, <1>7, AheadDone DEF Expect
<1> QED  BY <1>8, <1>9 DEF Expect

LEMMA Shifted ==
  ASSUME Course, Next, NEW m \in Nat, NEW n \in Nat, Goes(m, n), NEW p
  PROVE  /\ Enders'[n] = Enders[m]
         /\ (ToDo(n)' <=> ToDo(m)) => Writers(p)'[n] = Writers(p)[m] /\ (Reads(n)' <=> Reads(m))
<1>1. /\ Ender(n)' = Ender(m)
      /\ (ToDo(n)' <=> ToDo(m)) => Writer(n, p)' = Writer(m, p) /\ (Reads(n)' <=> Reads(m))
  BY GoesIs DEF Course
<1> QED  BY <1>1, WritersAt

\* The next request is taken.
LEMMA ExpectShift ==
  ASSUME Course, Next, TakeFragment, ~WriteDevice, NEW p \in Block, NEW e, NEW n \in Nat,
         Expect(e, p, n + 1)
  PROVE  Expect(e, p, n)'
<1>1. Shift  BY ShiftIs DEF Course
<1>2. \A m \in Nat : Enders'[m] = Enders[m + 1]
  <2> TAKE m \in Nat
  <2>1. m + 1 \in Nat /\ Goes(m + 1, m)  BY <1>1 DEF Shift
  <2> QED  BY <2>1, Shifted
<1>3. \A m \in Nat \ {0} : Writers(p)'[m] = Writers(p)[m + 1]
  <2> TAKE m \in Nat \ {0}
  <2>1. m + 1 \in Nat /\ m \in Nat /\ Goes(m + 1, m) /\ (ToDo(m)' <=> ToDo(m + 1))  BY <1>1 DEF Shift
  <2> QED  BY <2>1, Shifted
<1>4. Writers(p)[0] = NoIrp /\ Enders[0] = NoIrp  BY <1>1, NoWriter DEF Shift
<1>5. Has(e, p) => Has(e, p)'  BY HasKept DEF Course
<1>6. Over(e) => Over(e)'  BY Lasting DEF Course
<1>7. Ahead(Enders', e, n, Over(e)')
  <2>1. Ahead(Enders, e, n + 1, Over(e))  BY DEF Expect
  <2>2. Enders[0] = e => Over(e)'  BY <1>4, <1>6 DEF Over
  <2> QED  BY <1>2, <1>6, <2>1, <2>2, AheadShift
<1>8. Sees(Writers(p), e, n + 1, Has(e, p))  BY DEF Expect
<1>9. ToDo(1) <=> On(1)  BY <1>1, LineIs DEF Shift, Course
<1>10. Goes(1, 0) /\ On(1)  BY <1>1, LineIs DEF Shift, Course
<1>11. CASE ToDo(0)'
  <2>1. Writers(p)'[0] = Writers(p)[1]  BY <1>9, <1>10, <1>11, Shifted
  <2>2. \A m \in 0 .. n - 1 : Writers(p)'[m] = Writers(p)[m + 1]  BY <1>3, <2>1
  <2>3. Sees(Writers(p)', e, n, Has(e, p)')  BY <1>4, <1>5, <1>8, <2>2, SeesShift
  <2> QED  BY <1>7, <2>3 DEF Expect
<1>12. CASE ~ToDo(0)'
  <2>1. Writers(p)'[0] = NoIrp  BY <1>12, NoWriter
  <2>2. PICK V : V = [m \in Nat |-> Writers(p)[m + 1]]  OBVIOUS
  <2>3. \A m \in 0 .. n - 1 : V[m] = Writers(p)[m + 1]  BY <2>2
  <2>4. V[0] = Writers(p)[1]  BY <2>2
  <2>5. Sees(V, e, n, Has(e, p)')  BY <1>4, <1>5, <1>8, <2>3, SeesShift
  <2>6. V[0] = e /\ e # NoIrp => Has(e, p)'
    <3>1. SUFFICES ASSUME Writer(1, p) = e, e # NoIrp  PROVE Bad(e)'  BY <2>4, WritersAt DEF Has
    <3>2. e = IrpOf(At(1)) /\ ~item[At(1).item].success  BY <1>1, <1>12, <3>1 DEF Writer, Shift
    <3>3. Alive(At(1))  BY <1>10, LineIs DEF Course, Flow, FlightInv
    <3>4. Bad(e)  BY <3>2, <3>3 DEF Bad, Failed, Alive, IrpOf
    <3> QED  BY <3>4, Lasting DEF Course
  <2>7. CASE n = 0  BY <2>5, <2>7, <1>7 DEF Sees, Expect
  <2>8. CASE n # 0
    <3>1. \A m \in 1 .. n - 1 : Writers(p)'[m] = V[m]  BY <1>3, <2>3
    <3>2. V[0] = NoIrp => (Has(e, p)' => Has(e, p)')  OBVIOUS
    <3>3. n \in Nat \ {0}  BY <2>8
    <3>4. Sees(Writers(p)', e, n, Has(e, p)')  BY <2>1, <2>5, <2>6, <3>1, <3>2, <3>3, SeesWritten
    <3> QED  BY <1>7, <3>4 DEF Expect
  <2> QED  BY <2>7, <2>8
<1> QED  BY <1>11, <1>12

LEMMA SplitRange ==
  ASSUME NEW x \in Int, NEW l \in Nat, NEW m \in Nat, ~(l <= m)
  PROVE  /\ x \in 0 .. l - 1 <=> x \in 0 .. m - 1 \/ x - m \in 0 .. (l - m) - 1
         /\ ~(x \in 0 .. m - 1 /\ x - m \in 0 .. (l - m) - 1)
OBVIOUS

LEMMA RestIs ==
  ASSUME NEW j \in Job
  PROVE  LET k == RestOf(j) IN
         /\ k.item = j.item /\ k.last = j.last /\ k.offset = j.offset + MaxFragment
         /\ k.from = j.from + MaxFragment /\ k.length = j.length - MaxFragment
BY DEF RestOf

LEMMA Shifting ==
  ASSUME NEW a \in Int, NEW b \in Int, NEW c \in Int, NEW d \in Int
  PROVE  a + b - (c + d) = (a + b - c) - d /\ a + b - c \in Int
OBVIOUS

\* A block is in one of the two parts.
LEMMA CoverParts ==
  ASSUME NEW j \in Job, NEW p \in Block
  PROVE  LET f == FragmentOf(j)  k == RestOf(j) IN
         /\ f.last => (Covers(f, p) <=> Covers(j, p))
         /\ ~f.last => /\ Covers(j, p) <=> Covers(f, p) \/ Covers(k, p)
                       /\ ~(Covers(f, p) /\ Covers(k, p))
<1>1. PICK f : f = FragmentOf(j)  OBVIOUS
<1>2. PICK k : k = RestOf(j)  OBVIOUS
<1>3. /\ f.offset = j.offset /\ f.last = (j.length <= MaxFragment)
      /\ f.length = IF j.length <= MaxFragment THEN j.length ELSE MaxFragment
  BY <1>1, FragmentFields
<1>4. k.offset = j.offset + MaxFragment /\ k.length = j.length - MaxFragment  BY <1>2, RestIs
<1>5. PICK o \in Int : o = j.offset  BY NatInt DEF Job
<1>6. PICK l \in Nat : l = j.length  BY DEF Job
<1>7. p \in Int /\ DataOffset \in Int /\ MaxFragment \in Int /\ MaxFragment \in Nat
  BY Constants DEF Block
<1>8. PICK x : x = p + DataOffset - o  OBVIOUS
<1>9. x \in Int /\ p + DataOffset - (o + MaxFragment) = x - MaxFragment  BY <1>7, <1>8, Shifting
<1>10. Covers(j, p) <=> x \in 0 .. l - 1  BY <1>5, <1>6, <1>8 DEF Covers, Indices
<1>11. CASE f.last  BY <1>1, <1>3, <1>10, <1>11 DEF Covers, Indices
<1>12. CASE ~f.last
  <2>1. ~(l <= MaxFragment)  BY <1>3, <1>6, <1>12
  <2>2. Covers(f, p) <=> x \in 0 .. MaxFragment - 1
    BY <1>3, <1>5, <1>6, <1>8, <2>1 DEF Covers, Indices
  <2>3. Covers(k, p) <=> x - MaxFragment \in 0 .. (l - MaxFragment) - 1
    BY <1>4, <1>5, <1>6, <1>9 DEF Covers, Indices
  <2>4. /\ x \in 0 .. l - 1 <=> x \in 0 .. MaxFragment - 1 \/ x - MaxFragment \in 0 .. (l - MaxFragment) - 1
        /\ ~(x \in 0 .. MaxFragment - 1 /\ x - MaxFragment \in 0 .. (l - MaxFragment) - 1)
    BY <1>7, <1>9, <2>1, SplitRange
  <2> QED  BY <1>1, <1>2, <1>10, <1>12, <2>2, <2>3, <2>4
<1> QED  BY <1>11, <1>12

\* What the main thread divides keeps its place in the line.
LEMMA QueueParts ==
  ASSUME Course, Next, QueueFragment, NEW p \in Block, NEW n \in Nat, n = End
  PROVE  /\ End' = n + 1
         /\ \A m \in 0 .. n - 1 : Rests(m) /\ (ToDo(m)' <=> ToDo(m))
         /\ \A m \in Nat : m > n + 1 => ~On(m)'
         /\ \/ Writers(p)'[n] = Writers(p)[n] /\ Writers(p)'[n + 1] = NoIrp
            \/ Writers(p)'[n] = NoIrp /\ Writers(p)'[n + 1] = Writers(p)[n]
         /\ Enders[n] \in {NoIrp, Enders'[n], Enders'[n + 1]}
         /\ \A m \in {n, n + 1} : Reads(m)' /\ Covers(At(m), p)' =>
              /\ Reads(n) /\ Covers(At(n), p)
              /\ Expected(IrpOf(At(m)), p)' = Expected(IrpOf(At(n)), p)
         /\ Reads(n) => Writers(p)'[n] = NoIrp
<1>1. PICK j : j = job["main"]  OBVIOUS
<1>2. PICK f : f = FragmentOf(j)  OBVIOUS
<1>3. PICK k : k = RestOf(j)  OBVIOUS
<1>4. More(f, k) /\ j \in Job /\ f \in Job  BY <1>1, <1>2, <1>3, MoreIs DEF Course
<1>5. /\ On(n) /\ ToDo(n) /\ At(n) = j /\ n \in Nat \ {0}  BY <1>1, <1>4, LineIs DEF More, Course
<1>6. /\ End' = n + 1 /\ \A m \in 0 .. n - 1 : Rests(m) /\ (ToDo(m)' <=> ToDo(m))
      /\ \A m \in Nat : m > n + 1 => ~On(m)'
      /\ On(n)' /\ At(n)' = f /\ (On(n + 1)' <=> ~f.last) /\ (On(n + 1)' => At(n + 1)' = k)
  BY <1>4, <1>5 DEF More
<1>7. ToDo(n)' /\ (ToDo(n + 1)' <=> ~f.last)  BY <1>5, <1>6 DEF ToDo
<1>8. PICK i : i = IrpOf(j)  OBVIOUS
<1>9. j \in Flight  BY <1>5, LineIs DEF Course
<1>10. Lasts(j) /\ i \in Irp  BY <1>8, <1>9, FlightLasts DEF Course
<1>11. j.last  BY <1>1 DEF Course, Flow, FlightInv, Live, LiveLabel, QueueFragment
<1>12. f.item = j.item /\ k.item = j.item /\ k.last
  BY <1>2, <1>3, <1>4, <1>11, FragmentFields, RestIs
<1>13. PICK w : w = IsWrite(j)  OBVIOUS
<1>14. /\ IrpOf(f)' = i /\ IrpOf(k)' = i /\ (IsWrite(f)' <=> w) /\ (IsWrite(k)' <=> w)
       /\ irp'[i].request = irp[i].request /\ irp'[i].expected = irp[i].expected
  BY <1>8, <1>10, <1>12, <1>13 DEF Lasts, IrpOf, IsWrite
<1>15. Writers(p)[n] = IF w /\ Covers(j, p) THEN i ELSE NoIrp
  BY <1>5, <1>8, <1>13, WritersAt DEF Writer
<1>16. Writers(p)'[n] = IF w /\ Covers(f, p) THEN i ELSE NoIrp
  BY <1>6, <1>7, <1>14, WritersAt DEF Writer, Covers, Indices
<1>17. n + 1 \in Nat  OBVIOUS
<1>18. Writers(p)'[n + 1] = IF w /\ ~f.last /\ Covers(k, p) THEN i ELSE NoIrp
  BY <1>6, <1>7, <1>14, <1>17, WritersAt DEF Writer, Covers, Indices
<1>19. /\ f.last => (Covers(f, p) <=> Covers(j, p))
       /\ ~f.last => /\ Covers(j, p) <=> Covers(f, p) \/ Covers(k, p)
                     /\ ~(Covers(f, p) /\ Covers(k, p))
  BY <1>2, <1>3, <1>4, CoverParts
<1>20. \/ Writers(p)'[n] = Writers(p)[n] /\ Writers(p)'[n + 1] = NoIrp
       \/ Writers(p)'[n] = NoIrp /\ Writers(p)'[n + 1] = Writers(p)[n]
  BY <1>15, <1>16, <1>18, <1>19
<1>21. Enders[n] \in {NoIrp, Enders'[n], Enders'[n + 1]}
  <2>1. Ender(n) = IF w THEN i ELSE NoIrp  BY <1>5, <1>8, <1>11, <1>13 DEF Ender
  <2>2. w /\ f.last => Ender(n)' = i  BY <1>6, <1>14 DEF Ender
  <2>3. w /\ ~f.last => Ender(n + 1)' = i  BY <1>6, <1>12, <1>14 DEF Ender
  <2> QED  BY <1>17, <2>1, <2>2, <2>3, WritersAt
<1>22. ASSUME NEW m \in {n, n + 1}, Reads(m)', Covers(At(m), p)'
       PROVE  /\ Reads(n) /\ Covers(At(n), p)
              /\ Expected(IrpOf(At(m)), p)' = Expected(IrpOf(At(n)), p)
  <2>1. PICK h : h = At(m)'  OBVIOUS
  <2>2. (h = f /\ m = n) \/ (h = k /\ ~f.last)  BY <1>6, <1>7, <1>22, <2>1 DEF Reads
  <2>3. ~w /\ IrpOf(h)' = i  BY <1>14, <1>22, <2>1, <2>2 DEF Reads
  <2>4. Covers(h, p)  BY <1>22, <2>1 DEF Covers, Indices
  <2>5. Covers(j, p)  BY <1>19, <2>2, <2>4
  <2>6. Expected(IrpOf(At(m)), p)' = Expected(i, p)  BY <1>14, <2>1, <2>3 DEF Expected
  <2> QED  BY <1>5, <1>8, <1>13, <2>3, <2>5, <2>6 DEF Reads
<1>23. Reads(n) => Writers(p)'[n] = NoIrp  BY <1>5, <1>13, <1>16, Zenon DEF Reads
<1> QED  BY <1>6, <1>20, <1>21, <1>22, <1>23

-----------------------------------------------------------------------------
(* What is to be on the device, step by step.                              *)

LEMMA LatestSame ==
  ASSUME Next, ~Dispatch
  PROVE  latest' = latest
BY Zenon DEF Next, Client, Submit, AddIrp, RejectIrp, CancelIrp, MainThread, IoThread, CompletionThread,
       Finishing, Wait, QueueEmpty, Decrement, SignalNoOutstanding, Release, TakeIrp, AwaitResume,
       AwaitPool, TakeRequest, QueueFragment, TakeFragment, WriteDevice, WriteDone, ReadDevice, ReadDone,
       ReadAhead, TakeCompletion, CompleteRead, Owner, Holding, BeginHold, CheckIdle, AwaitIdle,
       HoldFails, Recheck, Suspend, ConfirmIdle, Convert, MoveArea, ResumeFromHold, BeginStop, StopQueue,
       ownerUnchanged

\* A reader that goes on has been one.
LEMMA ReaderGoes ==
  ASSUME Course, ReaderInv, Next, NEW m \in Nat, NEW n \in Nat, Goes(m, n), ToDo(n)' <=> ToDo(m),
         Reads(n)', NEW p \in Block, Covers(At(n), p)', NEW e, e = Expected(IrpOf(At(n)), p)'
  PROVE  Expect(e, p, m)
<1>1. Reads(m)  BY GoesIs DEF Course
<1>2. On(m)  BY <1>1 DEF Reads, ToDo
<1>3. m \in 0 .. End  BY <1>2, LineIs DEF Course
<1>4. Covers(At(m), p) /\ e = Expected(IrpOf(At(m)), p)  BY <1>2, GoesIs DEF Course
<1> QED  BY <1>1, <1>3, <1>4 DEF ReaderInv

\* What the line is, where one is to be dispatched.
LEMMA NewReader ==
  ASSUME Course, LatestInv, NEW p \in Block, ~On(End)
  PROVE  Expect(latest[p], p, End)
<1>1. PICK n \in Nat : n = End  BY LineIs DEF Course
<1>2. PICK e : e = latest[p]  OBVIOUS
<1>3. Expect(e, p, n + 1)  BY <1>1, <1>2 DEF LatestInv
<1>4. Writers(p)[n] = NoIrp /\ Enders[n] = NoIrp  BY <1>1, NoWriter
<1>5. Sees(Writers(p), e, n, Has(e, p))  BY <1>3, <1>4, SeesPast DEF Expect
<1>6. Ahead(Enders, e, n, Over(e))
  <2>1. Ahead(Enders, e, n + 1, Over(e))  BY <1>3 DEF Expect
  <2>2. CASE Over(e)  BY <2>2 DEF Ahead
  <2>3. CASE ~Over(e)
    <3>1. PICK m \in 0 .. (n + 1) - 1 : Enders[m] = e  BY <2>1, <2>3 DEF Ahead
    <3>2. e # NoIrp  BY <2>3 DEF Over
    <3>3. m # n  BY <1>4, <3>1, <3>2
    <3>4. m \in 0 .. n - 1  BY <3>3
    <3> QED  BY <3>1, <3>4 DEF Ahead
  <2> QED  BY <2>2, <2>3
<1> QED  BY <1>1, <1>2, <1>5, <1>6 DEF Expect

LEMMA AheadLonger ==
  ASSUME NEW E, NEW e, NEW n \in Nat, NEW k \in Nat, n <= k, NEW over, Ahead(E, e, n, over)
  PROVE  Ahead(E, e, k, over)
BY DEF Ahead

\* A fragment is put at the end of the line.
LEMMA ExpectMore ==
  ASSUME Course, Next, QueueFragment, ~WriteDevice, NEW p \in Block, NEW e, NEW n \in Nat, n = End
  PROVE  /\ Reads(n) /\ Expect(e, p, n) => Expect(e, p, n + 1)'
         /\ Expect(e, p, n + 1) => Expect(e, p, n + 2)'
<1>1. /\ \A m \in 0 .. n - 1 : Rests(m) /\ (ToDo(m)' <=> ToDo(m))
      /\ \/ Writers(p)'[n] = Writers(p)[n] /\ Writers(p)'[n + 1] = NoIrp
         \/ Writers(p)'[n] = NoIrp /\ Writers(p)'[n + 1] = Writers(p)[n]
      /\ Enders[n] \in {NoIrp, Enders'[n], Enders'[n + 1]}
      /\ Reads(n) => Writers(p)'[n] = NoIrp
  BY QueueParts
<1>2. \A m \in 0 .. n - 1 : Writers(p)'[m] = Writers(p)[m] /\ Enders'[m] = Enders[m]
  BY <1>1, Resting
<1>3. Has(e, p) => Has(e, p)'  BY HasKept DEF Course
<1>4. Over(e) => Over(e)'  BY Lasting DEF Course
<1>5. PICK W : W = Writers(p)  OBVIOUS
<1>6. PICK V : V = Writers(p)'  OBVIOUS
<1>7. PICK E : E = Enders  OBVIOUS
<1>8. PICK F : F = Enders'  OBVIOUS
<1>9. PICK had : had <=> Has(e, p)  OBVIOUS
<1>10. PICK has : has <=> Has(e, p)'  OBVIOUS
<1>11. PICK was : was <=> Over(e)  OBVIOUS
<1>12. PICK over : over <=> Over(e)'  OBVIOUS
<1>13. n + 1 \in Nat /\ n + 2 \in Nat /\ (n + 1) + 1 = n + 2  OBVIOUS
<1>14. ASSUME Reads(n), Expect(e, p, n)  PROVE Expect(e, p, n + 1)'
  <2>1. Expect(e, p, n)'  BY <1>1, <1>14, ExpectStays
  <2>2. Sees(Writers(p)', e, n, Has(e, p)') /\ Ahead(Enders', e, n, Over(e)')  BY <2>1 DEF Expect
  <2>3. Sees(Writers(p)', e, n + 1, Has(e, p)')  BY <1>1, <1>14, <2>2, SeesPast
  <2>4. Ahead(Enders', e, n + 1, Over(e)')  BY <1>13, <2>2, AheadLonger
  <2> QED  BY <2>3, <2>4 DEF Expect
<1>15. ASSUME Expect(e, p, n + 1)  PROVE Expect(e, p, n + 2)'
  <2>1. Sees(W, e, n + 1, had) /\ Ahead(E, e, n + 1, was)
    BY <1>5, <1>7, <1>9, <1>11, <1>15 DEF Expect, Sees, Ahead
  <2>2. had => has  BY <1>3, <1>9, <1>10
  <2>3. was => over  BY <1>4, <1>11, <1>12
  <2>4. \A m \in 0 .. n - 1 : V[m] = W[m] /\ F[m] = E[m]  BY <1>2, <1>5, <1>6, <1>7, <1>8
  <2>5. /\ (V[n] = W[n] /\ V[n + 1] = NoIrp) \/ (V[n] = NoIrp /\ V[n + 1] = W[n])
        /\ E[n] \in {NoIrp, F[n], F[n + 1]}
    BY <1>1, <1>5, <1>6, <1>7, <1>8
  <2>6. Sees(V, e, n + 2, has)
    <3>1. CASE V[n] = W[n] /\ V[n + 1] = NoIrp
      <4>1. \A m \in 0 .. n : V[m] = W[m]  BY <2>4, <3>1
      <4>2. Sees(V, e, n + 1, has)  BY <1>13, <2>1, <2>2, <4>1, SeesSame
      <4> QED  BY <1>13, <3>1, <4>2, SeesPast
    <3>2. CASE V[n] = NoIrp /\ V[n + 1] = W[n]  BY <2>1, <2>2, <2>4, <3>2, SeesBetween
    <3> QED  BY <2>5, <3>1, <3>2
  <2>7. Ahead(F, e, n + 2, over)
    <3>1. CASE over  BY <3>1 DEF Ahead
    <3>2. CASE ~over
      <4>1. PICK m \in 0 .. n : E[m] = e  BY <2>1, <2>3, <3>2 DEF Ahead
      <4>2. CASE m < n  BY <2>4, <4>1, <4>2 DEF Ahead
      <4>3. CASE m = n  BY <1>12, <3>2, <2>5, <4>1, <4>3 DEF Over, Ahead
      <4> QED  BY <4>1, <4>2, <4>3
    <3> QED  BY <3>1, <3>2
  <2> QED  BY <1>6, <1>8, <1>10, <1>12, <2>6, <2>7 DEF Expect, Sees, Ahead
<1> QED  BY <1>14, <1>15

LEMMA SameBlock ==
  ASSUME NEW p \in Int, NEW o \in Int, NEW d \in Int
  PROVE  p + d - (o + d) = p - o /\ o + (p - o) = p
OBVIOUS

\* What an accepted IRP adds to the line, and to what is to be on the device.
LEMMA NewParts ==
  ASSUME Course, Next, Dispatch, NEW i \in Irp, NEW x \in Item, NEW e, Picked(i, x), Taken(i, x, e),
         New(NewJob(x, irp[i].request.offset + DataOffset, irp[i].request.length)),
         DOMAIN latest = Block, NEW p \in Block, NEW n \in Nat, n = End
  PROVE  /\ End' = n /\ \A m \in Nat \ {n} : Rests(m) /\ (ToDo(m)' <=> ToDo(m))
         /\ ~On(End) /\ i # NoIrp /\ DOMAIN latest' = Block
         /\ \/ /\ Writers(p)'[n] = i /\ Enders'[n] = i /\ latest'[p] = i /\ ~Reads(n)'
            \/ /\ Writers(p)'[n] = NoIrp /\ latest'[p] = latest[p]
               /\ Reads(n)' /\ Covers(At(n), p)' => Expected(IrpOf(At(n)), p)' = latest[p]
<1>1. PICK r : r = irp[i].request  OBVIOUS
<1>2. PICK j : j = NewJob(x, r.offset + DataOffset, r.length)  OBVIOUS
<1>3. New(j)  BY <1>1, <1>2
<1>4. /\ End' = n /\ \A m \in Nat \ {n} : Rests(m) /\ (ToDo(m)' <=> ToDo(m))
      /\ ~On(End) /\ On(n)' /\ At(n)' = j
  BY <1>3 DEF New
<1>5. n # 0  BY LineIs DEF Course
<1>6. ToDo(n)'  BY <1>4, <1>5 DEF ToDo
<1>7. /\ j.item = x /\ j.last /\ j.offset = r.offset + DataOffset /\ j.length = r.length
  BY <1>2 DEF NewJob
<1>8. irp'[i].request = r /\ item'[x].irp = i /\ irp'[i].expected = e  BY <1>1 DEF Picked, Taken
<1>9. IrpOf(j)' = i /\ (IsWrite(j)' <=> r.op = "write")  BY <1>7, <1>8 DEF IrpOf, IsWrite
<1>10. r \in Request /\ r.offset \in Nat /\ r.length \in Nat
  BY <1>1, QueueAssumption DEF Picked, Course, TypeInv, IrpType
<1>11. r.op \in {"read", "write"}  BY <1>10, QueueAssumption, <1>1 DEF Taken, Accepted, Invalid
<1>12. Covers(j, p) <=> p - r.offset \in Indices(r)
  <2>1. p \in Int /\ r.offset \in Int /\ DataOffset \in Int  BY <1>10, Constants, NatInt DEF Block
  <2>2. p + DataOffset - j.offset = p - r.offset  BY <1>7, <2>1, SameBlock
  <2> QED  BY <1>7, <2>2 DEF Covers, Indices
<1>13. Covers(j, p)' <=> Covers(j, p)  BY DEF Covers, Indices
<1>14. i # NoIrp  BY QueueAssumption
<1>15. /\ e = IF r.op = "read" THEN [k \in Indices(r) |-> latest[r.offset + k]] ELSE NoData
       /\ latest' = IF r.op # "write" THEN latest
                    ELSE [q \in DOMAIN latest |-> IF q - r.offset \in Indices(r) THEN i ELSE latest[q]]
  BY <1>1, Zenon DEF Taken, Accepted
<1>16. Writers(p)'[n] = IF r.op = "write" /\ Covers(j, p) THEN i ELSE NoIrp
  BY <1>4, <1>6, <1>9, <1>13, WritersAt DEF Writer
<1>17. CASE r.op = "write"
  <2>1. latest' = [q \in DOMAIN latest |-> IF q - r.offset \in Indices(r) THEN i ELSE latest[q]]
    BY <1>15, <1>17
  <2>2. DOMAIN latest' = Block /\ latest'[p] = IF p - r.offset \in Indices(r) THEN i ELSE latest[p]
    BY <2>1
  <2>3. Enders'[n] = i  BY <1>4, <1>7, <1>9, <1>17, WritersAt DEF Ender
  <2>4. ~Reads(n)'  BY <1>4, <1>9, <1>17 DEF Reads
  <2> QED  BY <1>4, <1>12, <1>14, <1>16, <1>17, <2>2, <2>3, <2>4
<1>18. CASE r.op = "read"
  <2>1. latest' = latest /\ e = [k \in Indices(r) |-> latest[r.offset + k]]  BY <1>15, <1>18
  <2>2. ASSUME Covers(At(n), p)'  PROVE Expected(IrpOf(At(n)), p)' = latest[p]
    <3>1. p - r.offset \in Indices(r)  BY <1>4, <1>12, <1>13, <2>2
    <3>2. e[p - r.offset] = latest[r.offset + (p - r.offset)]  BY <2>1, <3>1
    <3>3. r.offset + (p - r.offset) = p  BY <1>10, Constants, NatInt, SameBlock DEF Block
    <3>4. Expected(i, p)' = e[p - r.offset]  BY <1>8 DEF Expected
    <3>5. IrpOf(At(n))' = i  BY <1>4, <1>9
    <3> QED  BY <3>2, <3>3, <3>4, <3>5 DEF Expected
  <2> QED  BY <1>4, <1>14, <1>16, <1>18, <2>1, <2>2
<1> QED  BY <1>11, <1>17, <1>18

-----------------------------------------------------------------------------
(* What a read is to see, step by step.                                    *)

\* Where nothing moves.
LEMMA ReaderStays ==
  ASSUME Course, ReaderInv, Next, ~WriteDevice, NEW n \in Nat,
         \A m \in 0 .. n : Rests(m) /\ (ToDo(m)' <=> ToDo(m)),
         Reads(n)', NEW p \in Block, Covers(At(n), p)', NEW e, e = Expected(IrpOf(At(n)), p)'
  PROVE  Expect(e, p, n)'
<1>1. Goes(n, n) /\ (ToDo(n)' <=> ToDo(n))  BY DEF Rests
<1>2. Expect(e, p, n)  BY <1>1, ReaderGoes
<1>3. \A m \in 0 .. n - 1 : Rests(m) /\ (ToDo(m)' <=> ToDo(m))  OBVIOUS
<1> QED  BY <1>2, <1>3, ExpectStays

LEMMA StillKept ==
  ASSUME Course, LatestInv, ReaderInv, Next, ~WriteDevice, latest' = latest,
         End' = End, \A n \in Nat : Rests(n) /\ (ToDo(n)' <=> ToDo(n))
  PROVE  LatestInv' /\ ReaderInv'
<1>1. End \in Nat  BY LineIs DEF Course
<1>2. ASSUME NEW p \in Block, NEW e, NEW n, e = latest'[p], n = End' + 1
      PROVE  Expect(e, p, n)'  BY <1>1, <1>2, ExpectStays DEF LatestInv
<1>3. ASSUME NEW n \in 0 .. End', Reads(n)', NEW p \in Block, Covers(At(n), p)', NEW e,
             e = Expected(IrpOf(At(n)), p)'
      PROVE  Expect(e, p, n)'  BY <1>3, ReaderStays
<1> QED  BY <1>2, <1>3 DEF LatestInv, ReaderInv

\* What is dispatched: what is last in the line, and what a reader there is to see.
LEMMA NewKept ==
  ASSUME Course, LatestInv, ReaderInv, Next, Dispatch, ~WriteDevice
  PROVE  LatestInv' /\ ReaderInv'
<1>1. CASE Quiet /\ \E i \in Irp, x \in Item : \E s, d : Picked(i, x) /\ Finished(i, x, s, d)
  BY <1>1, StillKept DEF Finished, Ended, Quiet
<1>2. CASE \E i \in Irp, x \in Item : \E e :
             /\ Picked(i, x) /\ Taken(i, x, e)
             /\ New(NewJob(x, irp[i].request.offset + DataOffset, irp[i].request.length))
  <2>1. PICK i \in Irp, x \in Item : \E e :
             /\ Picked(i, x) /\ Taken(i, x, e)
             /\ New(NewJob(x, irp[i].request.offset + DataOffset, irp[i].request.length))
    BY <1>2
  <2>2. PICK n \in Nat : n = End  BY LineIs DEF Course
  <2>3. ASSUME NEW p \in Block
        PROVE
         /\ End' = n /\ \A m \in Nat \ {n} : Rests(m) /\ (ToDo(m)' <=> ToDo(m))
         /\ ~On(End) /\ i # NoIrp /\ DOMAIN latest' = Block
         /\ \/ /\ Writers(p)'[n] = i /\ Enders'[n] = i /\ latest'[p] = i /\ ~Reads(n)'
            \/ /\ Writers(p)'[n] = NoIrp /\ latest'[p] = latest[p]
               /\ Reads(n)' /\ Covers(At(n), p)' => Expected(IrpOf(At(n)), p)' = latest[p]
    <3>1. PICK e : /\ Picked(i, x) /\ Taken(i, x, e)
                   /\ New(NewJob(x, irp[i].request.offset + DataOffset, irp[i].request.length))
      BY <2>1
    <3>2. DOMAIN latest = Block  BY DEF LatestInv
    <3> QED  BY <2>2, <3>1, <3>2, NewParts
  <2>4. 0 \in Block  BY Constants DEF Block
  <2>5. /\ End' = n /\ \A m \in Nat \ {n} : Rests(m) /\ (ToDo(m)' <=> ToDo(m))
        /\ ~On(End) /\ i # NoIrp /\ DOMAIN latest' = Block
    BY <2>3, <2>4
  <2>6. ASSUME NEW p \in Block, NEW a, a = latest[p]  PROVE Expect(a, p, n)'
    BY <2>2, <2>5, <2>6, NewReader, ExpectStays
  <2>7. n + 1 \in Nat /\ n <= n + 1 /\ n \in 0 .. n /\ (n + 1) - 1 = n  OBVIOUS
  <2>8. ASSUME NEW p \in Block, NEW e, NEW m, e = latest'[p], m = End' + 1
        PROVE  Expect(e, p, m)'
    <3>1. m = n + 1  BY <2>5, <2>8
    <3>2. CASE Writers(p)'[n] = i /\ Enders'[n] = i /\ latest'[p] = i
      <4>1. Sees(Writers(p)', i, n + 1, Has(i, p)')  BY <2>5, <3>2, SeesLast
      <4>2. Ahead(Enders', i, n + 1, Over(i)')  BY <2>7, <3>2 DEF Ahead
      <4>3. Expect(i, p, n + 1)'  BY <4>1, <4>2 DEF Expect
      <4>4. e = i  BY <2>8, <3>2
      <4> QED  BY <3>1, <4>3, <4>4
    <3>3. CASE Writers(p)'[n] = NoIrp /\ latest'[p] = latest[p]
      <4>1. Expect(e, p, n)'  BY <2>6, <2>8, <3>3
      <4>2. Sees(Writers(p)', e, n, Has(e, p)') /\ Ahead(Enders', e, n, Over(e)')
        BY <4>1 DEF Expect
      <4>3. Sees(Writers(p)', e, n + 1, Has(e, p)')  BY <3>3, <4>2, SeesPast
      <4>4. Ahead(Enders', e, n + 1, Over(e)')  BY <2>7, <4>2, AheadLonger
      <4>5. Expect(e, p, n + 1)'  BY <4>3, <4>4 DEF Expect
      <4> QED  BY <3>1, <4>5
    <3> QED  BY <2>3, <3>2, <3>3
  <2>9. ASSUME NEW m \in 0 .. End', Reads(m)', NEW p \in Block, Covers(At(m), p)', NEW e,
               e = Expected(IrpOf(At(m)), p)'
        PROVE  Expect(e, p, m)'
    <3>1. CASE m = n  BY <2>9, <3>1, <2>3, <2>6
    <3>2. CASE m # n  BY <2>5, <3>2, <2>9, ReaderStays
    <3> QED  BY <3>1, <3>2
  <2> QED  BY <2>5, <2>8, <2>9 DEF LatestInv, ReaderInv
<1> QED  BY <1>1, <1>2, NewIs DEF Course

LEMMA ThroughKept ==
  ASSUME StatusKept, Course, LatestInv, ReaderInv, Next, WriteDevice \/ ReadDevice, latest' = latest
  PROVE  LatestInv' /\ ReaderInv'
<1>1. End \in Nat \ {0}  BY LineIs DEF Course
<1>2. End' = End /\ ~ToDo(0)'
      /\ \A n \in Nat \ {0} : Goes(n, n) /\ (ToDo(n)' <=> ToDo(n))
  BY ThroughIs DEF Through, Rests, Course
<1>3. ASSUME NEW p \in Block, NEW e, NEW n, e = latest'[p], n = End' + 1
      PROVE  Expect(e, p, n)'  BY <1>1, <1>2, <1>3, ExpectThrough DEF LatestInv
<1>4. ASSUME NEW n \in 0 .. End', Reads(n)', NEW p \in Block, Covers(At(n), p)', NEW e,
             e = Expected(IrpOf(At(n)), p)'
      PROVE  Expect(e, p, n)'
  <2>1. n # 0  BY <1>2, <1>4 DEF Reads
  <2>2. n \in Nat /\ n \in Nat \ {0}  BY <2>1
  <2>3. Expect(e, p, n)  BY <1>2, <1>4, <2>2, ReaderGoes
  <2> QED  BY <2>2, <2>3, ExpectThrough
<1> QED  BY <1>3, <1>4 DEF LatestInv, ReaderInv

LEMMA OffKept ==
  ASSUME Course, LatestInv, ReaderInv, Next, WriteDone \/ ReadDone, ~WriteDevice, latest' = latest
  PROVE  LatestInv' /\ ReaderInv'
<1>1. End \in Nat \ {0}  BY LineIs DEF Course
<1>2. End' = End /\ ~On(0)'
      /\ \A n \in Nat \ {0} : Goes(n, n) /\ (ToDo(n)' <=> ToDo(n))
  BY OffIs DEF Off, Rests, Course
<1>3. ASSUME NEW p \in Block, NEW e, NEW n, e = latest'[p], n = End' + 1
      PROVE  Expect(e, p, n)'  BY <1>1, <1>2, <1>3, ExpectOff DEF LatestInv
<1>4. ASSUME NEW n \in 0 .. End', Reads(n)', NEW p \in Block, Covers(At(n), p)', NEW e,
             e = Expected(IrpOf(At(n)), p)'
      PROVE  Expect(e, p, n)'
  <2>1. n # 0  BY <1>2, <1>4 DEF Reads, ToDo
  <2>2. n \in Nat /\ n \in Nat \ {0}  BY <2>1
  <2>3. Expect(e, p, n)  BY <1>2, <1>4, <2>2, ReaderGoes
  <2> QED  BY <2>2, <2>3, ExpectOff
<1> QED  BY <1>3, <1>4 DEF LatestInv, ReaderInv

LEMMA ShiftKept ==
  ASSUME Course, LatestInv, ReaderInv, Next, TakeFragment, ~WriteDevice, latest' = latest
  PROVE  LatestInv' /\ ReaderInv'
<1>1. End \in Nat \ {0}  BY LineIs DEF Course
<1>2. /\ End' = End - 1 /\ End > 1
      /\ \A n \in Nat : Goes(n + 1, n)
      /\ \A n \in Nat \ {0} : ToDo(n)' <=> ToDo(n + 1)
  BY ShiftIs DEF Shift, Course
<1>3. ASSUME NEW p \in Block, NEW e, NEW n, e = latest'[p], n = End' + 1
      PROVE  Expect(e, p, n)'  BY <1>1, <1>2, <1>3, ExpectShift DEF LatestInv
<1>4. ASSUME NEW n \in 0 .. End', Reads(n)', NEW p \in Block, Covers(At(n), p)', NEW e,
             e = Expected(IrpOf(At(n)), p)'
      PROVE  Expect(e, p, n)'
  <2>1. n \in Nat /\ n + 1 \in Nat /\ 0 + 1 = 1 /\ 0 \in Nat  OBVIOUS
  <2>2. ToDo(n)' <=> ToDo(n + 1)
    <3>1. CASE n = 0
      <4>1. ToDo(1) <=> On(1)  BY <1>2, LineIs DEF Course
      <4>2. On(1)  BY <1>2, LineIs DEF Course
      <4>3. ToDo(0)'  BY <1>4, <3>1 DEF Reads
      <4> QED  BY <3>1, <4>1, <4>2, <4>3
    <3>2. CASE n # 0  BY <1>2, <2>1, <3>2
    <3> QED  BY <3>1, <3>2
  <2>3. Expect(e, p, n + 1)  BY <1>2, <1>4, <2>1, <2>2, ReaderGoes
  <2> QED  BY <2>1, <2>3, ExpectShift
<1> QED  BY <1>3, <1>4 DEF LatestInv, ReaderInv

LEMMA MoreKept ==
  ASSUME Course, LatestInv, ReaderInv, Next, QueueFragment, ~WriteDevice, latest' = latest
  PROVE  LatestInv' /\ ReaderInv'
<1>1. PICK N \in Nat : N = End  BY LineIs DEF Course
<1>2. ASSUME NEW p \in Block
      PROVE  /\ End' = N + 1
             /\ \A m \in 0 .. N - 1 : Rests(m) /\ (ToDo(m)' <=> ToDo(m))
             /\ \A m \in {N, N + 1} : Reads(m)' /\ Covers(At(m), p)' =>
                  /\ Reads(N) /\ Covers(At(N), p)
                  /\ Expected(IrpOf(At(m)), p)' = Expected(IrpOf(At(N)), p)
  BY <1>1, QueueParts
<1>3. ASSUME NEW p \in Block, NEW e, NEW n, e = latest'[p], n = End' + 1
      PROVE  Expect(e, p, n)'  BY <1>1, <1>2, <1>3, ExpectMore DEF LatestInv
<1>4. ASSUME NEW n \in 0 .. End', Reads(n)', NEW p \in Block, Covers(At(n), p)', NEW e,
             e = Expected(IrpOf(At(n)), p)'
      PROVE  Expect(e, p, n)'
  <2>1. n \in Nat /\ (n < N \/ n = N \/ n = N + 1)  BY <1>2, <1>4
  <2>2. CASE n < N  BY <1>2, <2>1, <2>2, <1>4, ReaderStays
  <2>3. CASE n = N \/ n = N + 1
    <3>1. Reads(N) /\ Covers(At(N), p) /\ e = Expected(IrpOf(At(N)), p)  BY <1>2, <1>4, <2>3
    <3>2. N \in 0 .. End  BY <1>1
    <3>3. Expect(e, p, N)  BY <1>1, <3>1, <3>2 DEF ReaderInv
    <3>4. CASE n = N  BY <1>2, <3>3, <3>4, ExpectStays
    <3>5. CASE n = N + 1  BY <1>1, <3>1, <3>3, <3>5, ExpectMore
    <3> QED  BY <2>3, <3>4, <3>5
  <2> QED  BY <2>1, <2>2, <2>3
<1> QED  BY <1>3, <1>4 DEF LatestInv, ReaderInv

\* A reader sees what was written before it; so does who looks at the device in the end.
LEMMA LineKept ==
  ASSUME StatusKept, Course, LatestInv, ReaderInv, Next
  PROVE  LatestInv' /\ ReaderInv'
<1>1. CASE WriteDevice \/ ReadDevice
  <2>1. ~Dispatch
    <3>1. pc["io"] \in {"write", "read"}  BY <1>1 DEF WriteDevice, ReadDevice
    <3>2. ToDo(0) /\ ~ToDo(0)'  BY <1>1, ThroughIs DEF Through, Course
    <3>3. 0 \in Nat /\ 0 # End  BY LineIs DEF Course
    <3>4. ~Quiet /\ \A j : ~New(j)  BY <3>2, <3>3 DEF Quiet, New
    <3> QED  BY <3>4, NewIs DEF Course
  <2> QED  BY <1>1, <2>1, LatestSame, ThroughKept
<1>2. CASE ~WriteDevice /\ ~ReadDevice
  <2>1. CASE Dispatch  BY <1>2, <2>1, NewKept
  <2>2. CASE ~Dispatch
    <3>1. latest' = latest  BY <2>2, LatestSame
    <3>2. CASE Aside  BY <3>2, AsideQuiet, <1>2, <3>1, StillKept DEF Course, Quiet
    <3>3. CASE WriteDone \/ ReadDone  BY <1>2, <3>1, <3>3, OffKept
    <3>4. CASE TakeFragment  BY <1>2, <3>1, <3>4, ShiftKept
    <3>5. CASE QueueFragment  BY <1>2, <3>1, <3>5, MoreKept
    <3> QED  BY <1>2, <2>2, <3>2, <3>3, <3>4, <3>5, StepsOfLine
  <2> QED  BY <2>1, <2>2
<1> QED  BY <1>1, <1>2

-----------------------------------------------------------------------------
(* The line of requests as an invariant: what was written arrives.         *)

LEMMA CourseKept ==
  ASSUME StatusKept, Course, CountInv, StopInv, BufferUse, Next
  PROVE  Course' /\ BufferUse'
<1>1. TypeInv' /\ Flow'  BY TypeAndFlow DEF Course
<1>2. WaitingInv'  BY CountedAndWaiting DEF Course
<1>3. HoldInv'  BY HoldKept DEF Course
<1>4. StatusInv' /\ SuccessInv'  BY StatusKeptInv, SuccessKept DEF Course
<1>5. SpanInv'  BY SpanKept DEF Course
<1>6. FragmentInv' /\ BufferUse'  BY FragmentKept, BuffersInUse DEF Course
<1>7. StoreInv'  BY StoreKept DEF Course
<1> QED  BY <1>1, <1>2, <1>3, <1>4, <1>5, <1>6, <1>7 DEF Course

\* At the start there are no requests, and the device holds what nobody wrote.
LEMMA InitArea ==
  ASSUME Init
  PROVE  CryptArea = EncryptedArea /\ area \in Nat
<1>1. area \in Nat  BY InitTypes, AreaInt
<1>2. owner = "idle"  BY AtStart
<1> QED  BY <1>1, <1>2, AreaWhole

LEMMA InitBlock ==
  ASSUME Init, NEW p \in Block
  PROVE  device[Spot(p)] = Stored(p, NoIrp)
<1>1. CryptArea = EncryptedArea /\ TypeInv  BY InitArea, InitTypes
<1>2. Spot(p) \in Device  BY <1>1, SpotIn
<1>3. p \in Int /\ p >= 0 /\ p < DeviceLength  BY Constants DEF Block
<1>4. CASE Inside(p) /\ RemappedAreaOffset > 0
  <2>1. Spot(p) - RemappedAreaOffset = p + DataOffset /\ DataOffset = 0
    BY <1>3, <1>4, Constants DEF Spot
  <2>2. Spot(p) - RemappedAreaOffset \in EncryptedArea  BY <1>1, <1>4, <2>1 DEF Inside
  <2>3. device[Spot(p)] = Encrypted(Plain(NoIrp, Spot(p) - RemappedAreaOffset),
                                    Spot(p) - RemappedAreaOffset + UnitOffset)
    BY <1>2, <1>4, <2>2 DEF Init, InitialDevice
  <2>4. p + DataOffset = p  BY <1>3, <2>1
  <2> QED  BY <1>4, <2>1, <2>3, <2>4 DEF Stored
<1>5. CASE Inside(p) /\ ~(RemappedAreaOffset > 0)
  <2>1. Spot(p) = p + DataOffset /\ ~(Spot(p) < DataOffset) /\ Spot(p) - DataOffset = p
    BY <1>3, <1>5, Constants DEF Spot
  <2>2. Spot(p) \in EncryptedArea  BY <1>1, <1>5, <2>1 DEF Inside
  <2>3. device[Spot(p)] = Encrypted(Plain(NoIrp, Spot(p) - DataOffset), Spot(p) + UnitOffset)
    BY <1>2, <1>5, <2>1, <2>2 DEF Init, InitialDevice
  <2> QED  BY <1>5, <2>1, <2>3 DEF Stored
<1>6. CASE ~Inside(p)
  <2>1. Spot(p) = p + DataOffset /\ ~(Spot(p) < DataOffset) /\ Spot(p) - DataOffset = p
    BY <1>3, <1>6, Constants DEF Spot
  <2>2. Spot(p) \notin EncryptedArea  BY <1>1, <1>6, <2>1 DEF Inside
  <2>3. ~(RemappedAreaOffset > 0 /\ Spot(p) - RemappedAreaOffset \in EncryptedArea)
    <3>1. CASE RemappedAreaOffset > 0
      <4>1. IsFilterDevice /\ RemappedAreaOffset >= DeviceLength /\ DataOffset = 0
        BY <3>1, Constants
      <4>2. \A q \in EncryptedArea : q >= 0  BY <4>1, Constants DEF EncryptedArea
      <4>3. Spot(p) - RemappedAreaOffset < 0  BY <1>3, <2>1, <4>1, Constants
      <4> QED  BY <4>2, <4>3, <2>1, <1>3, Constants
    <3> QED  BY <3>1
  <2>4. ~(RemappedAreaOffset > 0 /\ Spot(p) >= DeviceLength)  BY <1>3, <2>1, Constants
  <2>5. device[Spot(p)] = Plain(NoIrp, Spot(p) - DataOffset)
    BY <1>2, <2>1, <2>2, <2>3, <2>4 DEF Init, InitialDevice
  <2> QED  BY <1>6, <2>1, <2>5 DEF Stored
<1>7. RemappedAreaOffset > 0 \/ ~(RemappedAreaOffset > 0)  OBVIOUS
<1> QED  BY <1>4, <1>5, <1>6, <1>7

LEMMA InitLine ==
  ASSUME Init
  PROVE  Line
<1>1. TypeInv /\ Flow /\ WaitingInv /\ HoldInv  BY InitTypes, InitFlow, InitHold
<1>2. Flight = {} /\ \A t \in Thread : pc[t] = "wait"  BY AtStart
<1>3. \A n : ~On(n)  BY <1>1, <1>2, LineIs
<1>4. StatusInv  BY AtStart DEF NewIrp, NoData, StatusInv
<1>5. pc["io"] = "wait" /\ pc["main"] = "wait"  BY <1>2 DEF Thread
<1>6. SuccessInv  BY <1>5 DEF SuccessInv
<1>7. SpanInv  BY <1>2, <1>5 DEF Sent, Flight, SpanInv
<1>8. FragmentInv  BY <1>3 DEF FragmentInv, ToDo
<1>9. BufferUse  BY <1>3 DEF Init, BufferUse
<1>10. \A p \in Block : device[Spot(p)] = Stored(p, NoIrp) /\ device[Spot(p)].by = NoIrp
  <2> TAKE p \in Block
  <2>1. device[Spot(p)] = Stored(p, NoIrp)  BY InitBlock
  <2>2. Stored(p, NoIrp).by = NoIrp  BY StoredIs
  <2> QED  BY <2>1, <2>2
<1>11. StoreInv  BY <1>10 DEF StoreInv
<1>12. LatestInv
  <2>1. latest = [p \in Block |-> NoIrp]  BY DEF Init, Block
  <2>2. ASSUME NEW p \in Block, NEW n  PROVE Expect(NoIrp, p, n)
    <3>1. Has(NoIrp, p) /\ Over(NoIrp)  BY <1>10 DEF Has, Over
    <3>2. \A m \in Nat : Writers(p)[m] = NoIrp  BY <1>3, NoWriter
    <3>3. \A m \in 0 .. n - 1 : Writers(p)[m] = NoIrp  BY <3>2
    <3> QED  BY <3>1, <3>3 DEF Expect, Sees, Ahead
  <2> QED  BY <2>1, <2>2 DEF LatestInv
<1>13. ReaderInv  BY <1>3 DEF ReaderInv, Reads, ToDo
<1> QED  BY <1>1, <1>4, <1>6, <1>7, <1>8, <1>9, <1>11, <1>12, <1>13 DEF Line, Course

\* Idle steps.
LEMMA LineIdle ==
  ASSUME UNCHANGED vars, Line, TypeInv'
  PROVE  Line'
<1>1. /\ irp' = irp /\ item' = item /\ queue' = queue /\ pc' = pc /\ job' = job /\ device' = device
      /\ area' = area /\ owner' = owner /\ fragment' = fragment /\ bufferFree' = bufferFree
      /\ latest' = latest
  BY DEF vars, pool, queues, disk, control, buffers
<1>2. Flow' /\ WaitingInv' /\ HoldInv'  BY FlowIdle DEF Line, Course
<1>3. StatusInv' /\ SuccessInv'  BY <1>1 DEF Line, Course, StatusInv, SuccessInv
<1>4. SpanInv'
  BY <1>1 DEF Line, Course, SpanInv, Span, InArea, CryptArea, StoredLength, Sent, Flight, Hand, IrpOf
<1>8. /\ CryptArea' = CryptArea
      /\ \A p : /\ (Inside(p)' <=> Inside(p)) /\ Spot(p)' = Spot(p)
                /\ \A w : Stored(p, w)' = Stored(p, w)
  BY <1>1, SpotKept DEF CryptArea, StoredLength
<1>9. /\ End' = End
      /\ \A n : At(n)' = At(n) /\ (On(n)' <=> On(n)) /\ (ToDo(n)' <=> ToDo(n))
      /\ \A j : IrpOf(j)' = IrpOf(j) /\ (IsWrite(j)' <=> IsWrite(j))
      /\ \A j, p : Covers(j, p)' <=> Covers(j, p)
  <2>1. End' = End  BY <1>1 DEF End
  <2>2. \A n : At(n)' = At(n)  BY <1>1, <2>1 DEF At
  <2>3. \A n : On(n)' <=> On(n)  BY <1>1, <2>1 DEF On, Live
  <2>4. \A n : ToDo(n)' <=> ToDo(n)  BY <1>1, <2>3 DEF ToDo
  <2>5. \A j : IrpOf(j)' = IrpOf(j)  BY <1>1 DEF IrpOf
  <2>6. \A j : IsWrite(j)' <=> IsWrite(j)  BY <1>1, <2>5 DEF IsWrite
  <2>7. \A j, p : Covers(j, p)' <=> Covers(j, p)  BY DEF Covers
  <2> QED  BY <2>1, <2>2, <2>3, <2>4, <2>5, <2>6, <2>7
<1>5. FragmentInv' /\ BufferUse'
  <2>1. FragmentInv'  BY <1>1, <1>8, <1>9 DEF Filled, Line, Course, FragmentInv
  <2>2. BufferUse'  BY <1>1, <1>9 DEF Line, BufferUse
  <2> QED  BY <2>1, <2>2
<1>6. StoreInv'  BY <1>1 DEF Line, Course, StoreInv, Spot, Stored, Inside, CryptArea, StoredLength
<1>10. \A e, p, n : Expect(e, p, n)' <=> Expect(e, p, n)
  <2>1. \A p : Writers(p)' = Writers(p)  BY <1>9 DEF Writer, Writers
  <2>2. Enders' = Enders  BY <1>9 DEF Ender, Enders
  <2>3. \A e, p : Has(e, p)' <=> Has(e, p)  BY <1>1, <1>8 DEF Bad, Failed, Has
  <2>4. \A e : Over(e)' <=> Over(e)  BY <1>1 DEF Over
  <2> QED  BY <2>1, <2>2, <2>3, <2>4 DEF Expect
<1>7. LatestInv' /\ ReaderInv'
  <2>1. LatestInv'  BY <1>1, <1>9, <1>10 DEF Line, LatestInv
  <2>2. ReaderInv'  BY <1>1, <1>9, <1>10 DEF Expected, Reads, Line, ReaderInv
  <2> QED  BY <2>1, <2>2
<1> QED  BY <1>2, <1>3, <1>4, <1>5, <1>6, <1>7 DEF Line, Course

LEMMA LineNext ==
  ASSUME StatusKept, Inv, Line, [Next]_vars
  PROVE  Line'
<1>1. CASE Next  BY <1>1, CourseKept, LineKept DEF Inv, Line
<1>2. CASE UNCHANGED vars  BY <1>2, TypesIdle, LineIdle DEF Inv
<1> QED  BY <1>1, <1>2

LEMMA Deciphered ==
  ASSUME NEW p \in Block, NEW w, NEW b, b = Stored(p, w)
  PROVE  (IF Inside(p) THEN Decrypted(b, p + DataOffset + UnitOffset) ELSE b) = Plain(w, p)
<1>1. CASE Inside(p)  BY <1>1, StoredIs, Ciphers
<1>2. CASE ~Inside(p)  BY <1>2 DEF Stored
<1> QED  BY <1>1, <1>2

LEMMA LastWritten ==
  ASSUME Inv, Line, outstanding = 0, owner \notin {"encrypted", "decrypted"}, NEW p \in Block,
         NEW e, e = latest[p], e # NoIrp, irp[e].status # "error"
  PROVE  (IF p + DataOffset \in EncryptedArea
            THEN Decrypted(device[Spot(p)], p + DataOffset + UnitOffset) ELSE device[Spot(p)])
           = Plain(e, p)
<1>1. \A i \in Irp : irp[i].phase # "active"  BY NothingLeft DEF Inv
<1>2. \A n : ~On(n)  BY <1>1, NoFlight, LineIs DEF Inv
<1>3. \A n : n = End + 1 => Expect(e, p, n)  BY DEF Line, LatestInv
<1>4. PICK n : n = End + 1  OBVIOUS
<1>5. Sees(Writers(p), e, n, Has(e, p))  BY <1>3, <1>4 DEF Expect
<1>6. n \in Nat  BY <1>4, LineIs DEF Inv
<1>7. \A m \in 0 .. n - 1 : Writers(p)[m] = NoIrp  BY <1>2, <1>6, NoWriter
<1>8. Has(e, p)  BY <1>5, <1>7 DEF Sees
<1>9. device[Spot(p)].by = e  BY <1>1, <1>8 DEF Has, Bad
<1>10. device[Spot(p)] = Stored(p, e)  BY <1>9 DEF Line, Course, StoreInv
<1>11. EncryptedArea = CryptArea  BY AreaWhole, AreaInt DEF Inv
<1> QED  BY <1>10, <1>11, Deciphered DEF Inside

\* A write that was reported successful is on the device until a later write or a
\* failed one replaces it, in the place and with the unit that its block has now.
THEOREM WritesArrive ==
  ASSUME StatusKept
  PROVE  Spec => []WritesReachDevice
<1>1. Init => Line  BY InitLine
<1>2. Inv /\ Line /\ [Next]_vars => Line'  BY LineNext
<1>3. Inv /\ Line => WritesReachDevice
  <2> SUFFICES ASSUME Inv, Line, outstanding = 0, owner \notin {"encrypted", "decrypted"},
                      NEW p \in Block
               PROVE  LET e == latest[p]
                          inArea == p + DataOffset \in EncryptedArea
                          q == p + DataOffset + IF inArea THEN RemappedAreaOffset ELSE 0
                          b == IF inArea THEN Decrypted(device[q], p + DataOffset + UnitOffset) ELSE device[q]
                      IN e = NoIrp \/ irp[e].status = "error" \/ b = Plain(e, p)
    BY DEF WritesReachDevice, Block
  <2>1. EncryptedArea = CryptArea  BY AreaWhole, AreaInt DEF Inv
  <2>2. Spot(p) = p + DataOffset + IF p + DataOffset \in EncryptedArea THEN RemappedAreaOffset ELSE 0
    BY <2>1 DEF Spot, Inside
  <2> QED  BY <2>2, LastWritten
<1> QED  BY <1>1, <1>2, <1>3, RequestsAccountedFor, PTL DEF Spec

-----------------------------------------------------------------------------
(* What was read on its way to the IRP: in the buffer and in the cache.    *)

LEMMA ZeroIn ==
  ASSUME NEW n \in Nat \ {0}
  PROVE  0 \in 0 .. n - 1
OBVIOUS

\* Nobody touches what was read until the IO thread hands it on.
LEMMA ReadDoneLeft ==
  ASSUME TypeInv, Flow, WaitingInv, Next, pc'["io"] = "read done", ~ReadDevice, ~TakeFragment
  PROVE  /\ pc["io"] = "read done" /\ job'["io"] = job["io"]
         /\ fragment' = fragment \/ QueueFragment
<1>0. /\ pc \in [Thread -> AnyLabel] /\ job \in [Thread -> Job] /\ "io" \in Thread /\ "main" \in Thread
  BY DEF TypeInv, ThreadType, Thread
<1>1. CASE Aside
  <2>1. fragment' = fragment  BY <1>1, AsideBuffers
  <2>2. CASE \E i \in Irp : Client(i)  BY <2>1, <2>2, ClientEffect
  <2>3. CASE Owner  BY <2>1, <2>3, OwnerEffect DEF OwnerOnly
  <2>4. CASE \E t \in Thread : PassOver(t)
    <3>1. PICK t \in Thread : PassOver(t)  BY <2>4
    <3>2. job' = job /\ pc'["io"] = pc["io"]
      <4>1. /\ job' = job /\ \A u \in Thread : u # t => pc'[u] = pc[u]
            /\ pc'[t] \in {"write", "write done", "read", "read done", "read ahead", "buffer"}
                 => pc'[t] = pc[t]
        BY <3>1, PassOverEffect
      <4> QED  BY <1>0, <4>1
    <3> QED  BY <2>1, <3>2
  <2>5. CASE \E t \in Thread : Release(t)
    <3>1. PICK t \in Thread : Release(t)  BY <2>5
    <3>2. /\ pc'[t] = "dequeue" /\ \A u \in Thread : u # t => pc'[u] = pc[u] /\ job'[u] = job[u]
      BY <3>1, ReleaseEffect
    <3> QED  BY <1>0, <2>1, <3>2
  <2>6. CASE TakeRequest
    <3>1. PICK b, e : Prepared(b, e)  BY <2>6, TakeRequestEffect
    <3>2. pc'["io"] = pc["io"] /\ job'["io"] = job["io"]  BY <1>0, <3>1 DEF Prepared, Goto
    <3> QED  BY <2>1, <3>2
  <2>7. CASE ReadAhead
    <3>1. pc'["io"] = "decrement"  BY <1>0, <2>7 DEF ReadAhead, Goto
    <3> QED  BY <3>1
  <2>8. CASE TakeCompletion
    <3>1. PICK r \in Job : /\ Goto("completion", "decrypt") /\ job' = [job EXCEPT !["completion"] = r]
      BY <2>8, TakeCompletionEffect
    <3> QED  BY <1>0, <2>1, <3>1 DEF Goto
  <2>9. CASE CompleteRead
    <3>1. (\E l : Goto("completion", l)) /\ job' = job  BY <2>9, Zenon DEF CompleteRead
    <3> QED  BY <1>0, <2>1, <3>1 DEF Goto
  <2> QED  BY <1>1, <2>2, <2>3, <2>4, <2>5, <2>6, <2>7, <2>8, <2>9 DEF Aside
<1>2. CASE WriteDevice
  <2>1. pc'["io"] = "write done"  BY <1>0, <1>2 DEF WriteDevice, Goto
  <2> QED  BY <2>1
<1>3. CASE WriteDone \/ ReadDone
  <2>1. \E l \in {"decrement", "release", "read ahead", "dequeue"} : Goto("io", l)
    BY <1>3, Zenon DEF WriteDone, ReadDone
  <2>2. pc'["io"] \in {"decrement", "release", "read ahead", "dequeue"}  BY <1>0, <2>1 DEF Goto
  <2> QED  BY <2>2
<1>4. CASE QueueFragment
  <2>1. (\E l : Goto("main", l)) /\ \E j : job' = [job EXCEPT !["main"] = j]
    BY <1>4, Zenon DEF QueueFragment
  <2> QED  BY <1>0, <1>4, <2>1 DEF Goto
<1>5. CASE Dispatch
  <2>1. \E l : Goto("main", l)  BY <1>5, NewIs, Zenon DEF Finished, Ended, Taken, Accepted, Dispatch
  <2>2. \E j : job' = [job EXCEPT !["main"] = j]  BY <1>5, Zenon DEF Dispatch
  <2>3. fragment' = fragment  BY <1>5, Zenon DEF Dispatch, buffers
  <2> QED  BY <1>0, <2>1, <2>2, <2>3 DEF Goto
<1> QED  BY <1>1, <1>2, <1>3, <1>4, <1>5, StepsOfLine

\* What is in the fragment of the IO thread.
LEMMA ArrivedStays ==
  ASSUME Course, BufferUse, ArrivedInv, Next, pc'["io"] = "read done", ~ReadDevice, ~TakeFragment,
         item'[job["io"].item].success, NEW p \in Block, Covers(job["io"], p)
  PROVE  Arrived(job["io"], p)'
<1> DEFINE j == job["io"]
<1>1. /\ pc["io"] = "read done" /\ job'["io"] = j /\ (fragment' = fragment \/ QueueFragment)
  BY ReadDoneLeft DEF Course
<1>2. Live("io")  BY <1>1 DEF Live, LiveLabel
<1>3. j \in Job /\ j \in Flight /\ Alive(j) /\ On(0) /\ At(0) = j  BY <1>2, IoJob DEF Course
<1>4. item[j.item].success  BY <1>3, ItemsStay DEF Alive, IrpOf, Course
<1>5. Arrived(j, p)  BY <1>1, <1>4 DEF ArrivedInv
<1>6. fragment'[j.buffer] = fragment[j.buffer]
  <2>1. CASE QueueFragment
    <3>1. PICK f : f = FragmentOf(job["main"])  OBVIOUS
    <3>2. bufferFree[f.buffer]  BY <2>1, <3>1, Zenon DEF QueueFragment, BufferReady
    <3>3. \E d : fragment' = fragment \/ fragment' = [fragment EXCEPT ![f.buffer] = d]
      BY <2>1, <3>1, Zenon DEF QueueFragment
    <3>4. ~bufferFree[j.buffer]
      <4>0. PICK n : n = End  OBVIOUS
      <4>1. n \in Nat \ {0}  BY <4>0, LineIs DEF Course
      <4>2. 0 \in 0 .. n - 1  BY <4>1, ZeroIn
      <4>3. 0 \in 0 .. End - 1  BY <4>0, <4>2
      <4> QED  BY <1>3, <4>3 DEF BufferUse
    <3>5. PICK d : fragment' = fragment \/ fragment' = [fragment EXCEPT ![f.buffer] = d]  BY <3>3
    <3>6. f.buffer # j.buffer  BY <3>2, <3>4
    <3>7. DOMAIN fragment = Buffer /\ j.buffer \in Buffer  BY <1>3 DEF BufferUse, Job
    <3> QED  BY <3>5, <3>6, <3>7
  <2> QED  BY <1>1, <2>1
<1>7. CryptArea' = CryptArea
  <2>1. ~Convert
    <3>1. SUFFICES ASSUME Convert  PROVE FALSE  OBVIOUS
    <3>2. owner \in Held  BY <3>1 DEF Convert, Held
    <3> QED  BY <1>2, <3>2, HeldIs DEF Course, Thread
  <2> QED  BY <2>1, CryptAreaKept DEF Course
<1>8. \A w : Stored(p, w)' = Stored(p, w)  BY <1>7, SpotKept
<1>9. Lasts(j)  BY <1>3, FlightLasts DEF Course
<1>10. PICK i : i = IrpOf(j)  OBVIOUS
<1>11. IrpOf(j)' = i /\ Expected(i, p)' = Expected(i, p)  BY <1>9, <1>10 DEF Lasts, Expected
<1>12. PICK b : b = fragment[j.buffer][p + DataOffset - j.offset]  OBVIOUS
<1>13. fragment'[j.buffer][p + DataOffset - j.offset] = b  BY <1>6, <1>12
<1>14. b = Stored(p, b.by) /\ Good(b.by, Expected(i, p))  BY <1>5, <1>10, <1>12 DEF Arrived
<1>15. Good(b.by, Expected(i, p))'
  <2>1. PICK e : e = Expected(i, p)  OBVIOUS
  <2>2. Good(b.by, e)'  BY <1>14, <2>1, Lasting DEF Course
  <2> QED  BY <1>11, <2>1, <2>2 DEF Good
<1> QED  BY <1>1, <1>8, <1>11, <1>13, <1>14, <1>15 DEF Arrived

\* What comes from the device.
LEMMA ArrivedNow ==
  ASSUME StatusKept, Line, CacheInv, Next, ReadDevice, item'[job["io"].item].success,
         NEW p \in Block, Covers(job["io"], p)
  PROVE  Arrived(job["io"], p)'
<1> DEFINE j == job["io"]
<1>1. Live("io") /\ pc["io"] = "read"  BY DEF ReadDevice, Live, LiveLabel
<1>2. j \in Job /\ j \in Flight /\ Alive(j) /\ On(0) /\ At(0) = j  BY <1>1, IoJob DEF Line, Course
<1>3. fragment'[j.buffer][p + DataOffset - j.offset] = device[Spot(p)]  BY ReadIs DEF Line, Course
<1>4. PICK i, e, b : i = IrpOf(j) /\ e = Expected(i, p) /\ b = device[Spot(p)]  OBVIOUS
<1>5. Reads(0) /\ 0 \in 0 .. End
  <2>1. ~IsWrite(j)  BY <1>1 DEF Line, Course, Flow, FlightInv
  <2>2. ToDo(0)  BY <1>1, <1>2 DEF ToDo
  <2>3. 0 \in 0 .. End  BY LineIs DEF Line, Course
  <2> QED  BY <1>2, <2>1, <2>2, <2>3 DEF Reads
<1>6. Expect(e, p, 0)  BY <1>2, <1>4, <1>5 DEF Line, ReaderInv
<1>7. Has(e, p) /\ Over(e)  BY <1>6 DEF Expect, Sees, Ahead
<1>8. Good(b.by, e)
  <2>1. CASE b.by = e  BY <2>1 DEF Good
  <2>2. CASE Bad(e)
    <3>1. e \in Irp /\ e # NoIrp  BY <2>2, QueueAssumption DEF Bad
    <3>2. irp[e].phase = "done"  BY <1>7, <3>1 DEF Over
    <3>3. irp[e].status = "error"  BY <2>2, <3>2 DEF Bad
    <3> QED  BY <3>1, <3>3 DEF Good
  <2> QED  BY <1>4, <1>7, <2>1, <2>2 DEF Has
<1>9. b = Stored(p, b.by)  BY <1>4 DEF Line, Course, StoreInv
<1>10. ~Convert
  <2>1. SUFFICES ASSUME Convert  PROVE FALSE  OBVIOUS
  <2>2. owner \in Held  BY <2>1 DEF Convert, Held
  <2> QED  BY <1>1, <2>2, HeldIs DEF Line, Course, Thread
<1>11. \A w : Stored(p, w)' = Stored(p, w)  BY <1>10, CryptAreaKept, SpotKept DEF Line, Course
<1>12. Good(b.by, e)'  BY <1>8, Lasting DEF Line, Course
<1>13. Lasts(j)  BY <1>2, FlightLasts DEF Line, Course
<1>14. IrpOf(j)' = i /\ Expected(i, p)' = e  BY <1>4, <1>13 DEF Lasts, Expected
<1>15. Good(b.by, Expected(i, p))'  BY <1>12, <1>14 DEF Good
<1>16. job' = job  BY DEF ReadDevice
<1> QED  BY <1>3, <1>4, <1>9, <1>11, <1>14, <1>15, <1>16 DEF Arrived

LEMMA ArrivedKept ==
  ASSUME StatusKept, Line, CacheInv, ArrivedInv, Next
  PROVE  ArrivedInv'
<1> SUFFICES ASSUME pc'["io"] = "read done", NEW j, j = job'["io"], item'[j.item].success,
                    NEW p \in Block, Covers(j, p)
             PROVE  Arrived(j, p)'
  BY DEF ArrivedInv, Covers
<1>1. CASE ReadDevice
  <2>1. j = job["io"]  BY <1>1 DEF ReadDevice
  <2>2. Arrived(job["io"], p)'  BY <1>1, <2>1, ArrivedNow
  <2>3. job' = job  BY <1>1 DEF ReadDevice
  <2> QED  BY <2>1, <2>2, <2>3
<1>2. CASE TakeFragment
  <2>1. item' = item /\ job'["io"] = Head(queue["io"])
    BY <1>2, Zenon DEF TakeFragment, pool, Line, Course, TypeInv, ThreadType, Thread
  <2>2. pc' = [pc EXCEPT !["io"] = IF item[j.item].success
                 THEN IF irp[item[j.item].irp].request.op = "write" THEN "write" ELSE "read"
                 ELSE IF irp[item[j.item].irp].request.op = "write" THEN "write done" ELSE "read done"]
    BY <1>2, <2>1, Zenon DEF TakeFragment, Goto
  <2>3. pc'["io"] \in {"write", "read"}  BY <2>1, <2>2 DEF Line, Course, TypeInv, ThreadType, Thread
  <2> QED  BY <2>3
<1>3. CASE ~ReadDevice /\ ~TakeFragment
  BY <1>3, ReadDoneLeft, ArrivedStays DEF Line, Course, Arrived
<1> QED  BY <1>1, <1>2, <1>3

\* The requests that are to be decrypted.
LEMMA CompletingIs ==
  ASSUME TypeInv, queue'["completion"] = queue["completion"],
         pc'["completion"] \in LiveLabel <=> pc["completion"] \in LiveLabel,
         Live("completion") => job'["completion"] = job["completion"]
  PROVE  Completing' = Completing
BY DEF Completing, Hand, HandOf, Live

LEMMA CompletingStays ==
  ASSUME TypeInv, Flow, WaitingInv, Next, ~ReadDone, ~CompleteRead
  PROVE  Completing' = Completing
<1>0. /\ pc \in [Thread -> AnyLabel] /\ job \in [Thread -> Job] /\ DOMAIN queue = Thread
      /\ "io" \in Thread /\ "main" \in Thread /\ "completion" \in Thread
  BY DEF TypeInv, ThreadType, QueueType, Thread
<1>1. ASSUME queue'["completion"] = queue["completion"], pc'["completion"] = pc["completion"],
             job'["completion"] = job["completion"]
      PROVE  Completing' = Completing
  BY <1>1, CompletingIs
<1>2. CASE Aside
  <2>2. CASE \E i \in Irp : Client(i)
    <3>1. PICK i \in Irp : Client(i)  BY <2>2
    <3>2. pc' = pc /\ job' = job  BY <3>1, ClientEffect
    <3>3. queue'["completion"] = queue["completion"]
      BY <1>0, <3>1, ClientEffect DEF Submitted, Added, Rejected, Cancelled
    <3> QED  BY <1>1, <3>2, <3>3
  <2>3. CASE Owner  BY <1>1, <2>3, OwnerEffect DEF OwnerOnly
  <2>4. CASE \E t \in Thread : PassOver(t)
    <3>1. PICK t \in Thread : PassOver(t)  BY <2>4
    <3>2. /\ job' = job /\ queue' = queue /\ \A u \in Thread : u # t => pc'[u] = pc[u]
          /\ pc'[t] \in LiveLabel <=> pc[t] \in LiveLabel
      BY <3>1, PassOverEffect
    <3> QED  BY <1>0, <3>2, CompletingIs
  <2>5. CASE \E t \in Thread : Release(t)
    <3>1. PICK t \in Thread : Release(t)  BY <2>5
    <3>2. /\ pc[t] = "release" /\ pc'[t] = "dequeue" /\ queue' = queue
          /\ \A u \in Thread : u # t => pc'[u] = pc[u] /\ job'[u] = job[u]
      BY <3>1, ReleaseEffect
    <3>3. \A u \in Thread : /\ pc'[u] \in LiveLabel <=> pc[u] \in LiveLabel
                            /\ pc[u] \in LiveLabel => job'[u] = job[u]
      BY <3>2 DEF LiveLabel
    <3> QED  BY <1>0, <3>2, <3>3, CompletingIs DEF Live
  <2>6. CASE TakeRequest
    <3>1. PICK b, e : Prepared(b, e)  BY <2>6, TakeRequestEffect
    <3>2. pc'["completion"] = pc["completion"] /\ job'["completion"] = job["completion"]
      BY <1>0, <3>1 DEF Prepared, Goto
    <3>3. queue' = queue  BY <2>6 DEF TakeRequest, queues
    <3> QED  BY <1>1, <3>2, <3>3
  <2>7. CASE ReadAhead
    <3>1. pc'["completion"] = pc["completion"] /\ job' = job /\ queue' = queue
      BY <1>0, <2>7 DEF ReadAhead, Goto, queues
    <3> QED  BY <1>1, <3>1
  <2>8. CASE TakeCompletion
    <3>1. PICK r \in Job : /\ r = Head(queue["completion"]) /\ queue["completion"] # <<>>
                           /\ Goto("completion", "decrypt") /\ job' = [job EXCEPT !["completion"] = r]
                           /\ queue' = [queue EXCEPT !["completion"] = Tail(@)]
      BY <2>8, TakeCompletionEffect
    <3>2. queue["completion"] \in Seq(Job)  BY DEF TypeInv, QueueType
    <3>3. Jobs(queue["completion"]) = {r} \union Jobs(Tail(queue["completion"]))
      BY <3>1, <3>2, TailJobs
    <3>4. pc["completion"] = "dequeue"  BY <2>8 DEF TakeCompletion
    <3>5. Hand("completion") = {}  BY <3>4 DEF Hand, HandOf, LiveLabel
    <3>6. pc'["completion"] = "decrypt" /\ job'["completion"] = r
          /\ queue'["completion"] = Tail(queue["completion"])
      BY <1>0, <3>1 DEF Goto
    <3>7. Hand("completion")' = {r}  BY <3>6 DEF Hand, HandOf, LiveLabel
    <3>8. Completing = {r} \union Jobs(Tail(queue["completion"]))  BY <3>3, <3>5 DEF Completing
    <3>9. Completing' = Jobs(Tail(queue["completion"])) \union {r}  BY <3>6, <3>7 DEF Completing
    <3> QED  BY <3>8, <3>9
  <2> QED  BY <1>2, <2>2, <2>3, <2>4, <2>5, <2>6, <2>7, <2>8 DEF Aside
<1>3. CASE WriteDevice \/ ReadDevice  BY <1>3, IoStepEffect, <1>0, <1>1 DEF IoStep, Goto
<1>4. CASE WriteDone  BY <1>4, <1>0, <1>1 DEF WriteDone, queues, Goto
<1>5. CASE TakeFragment  BY <1>5, TakeFragmentEffect, <1>0, <1>1 DEF Goto
<1>6. CASE QueueFragment  BY <1>6, <1>0, <1>1 DEF QueueFragment, Goto
<1>7. CASE Dispatch
  <2>1. \E l : Goto("main", l)  BY <1>7, NewIs, Zenon DEF Finished, Ended, Taken, Accepted, Dispatch
  <2>2. /\ \E j : job' = [job EXCEPT !["main"] = j]
        /\ \E q : queue' = [queue EXCEPT !["main"] = q]
    BY <1>7, Zenon DEF Dispatch
  <2> QED  BY <1>0, <1>1, <2>1, <2>2, Zenon DEF Goto
<1> QED  BY <1>2, <1>3, <1>4, <1>5, <1>6, <1>7, StepsOfLine DEF Aside

LEMMA CompletingGrows ==
  ASSUME TypeInv, ReadDone
  PROVE  Completing' = Completing \union {job["io"]} /\ job["io"] \in Flight /\ Live("io")
<1>0. /\ pc \in [Thread -> AnyLabel] /\ job \in [Thread -> Job] /\ DOMAIN queue = Thread
      /\ "io" \in Thread /\ "completion" \in Thread /\ queue["completion"] \in Seq(Job)
  BY DEF TypeInv, ThreadType, QueueType, Thread
<1>1. /\ job' = [job EXCEPT !["io"] = NoJob] /\ \E l : Goto("io", l)
      /\ queue' = [queue EXCEPT !["completion"] = Append(@, job["io"])] /\ pc["io"] = "read done"
  BY Zenon DEF ReadDone
<1>2. queue'["completion"] = Append(queue["completion"], job["io"])  BY <1>0, <1>1
<1>3. Jobs(queue'["completion"]) = Jobs(queue["completion"]) \union {job["io"]}
  BY <1>0, <1>2, AppendJobs
<1>4. pc'["completion"] = pc["completion"] /\ job'["completion"] = job["completion"]
  BY <1>0, <1>1 DEF Goto
<1>5. Hand("completion")' = Hand("completion")  BY <1>4 DEF Hand
<1>6. Live("io")  BY <1>1 DEF Live, LiveLabel
<1>7. job["io"] \in Flight  BY <1>6 DEF Flight, Hand, HandOf, Live
<1> QED  BY <1>3, <1>5, <1>6, <1>7 DEF Completing

LEMMA CompletingShrinks ==
  ASSUME TypeInv, CompleteRead
  PROVE  /\ Completing' = Jobs(queue["completion"])
         /\ Completing = Jobs(queue["completion"]) \union {job["completion"]}
         /\ Hand("completion") = {job["completion"]}
<1>0. /\ pc \in [Thread -> AnyLabel] /\ "completion" \in Thread  BY DEF TypeInv, ThreadType, Thread
<1>1. /\ job' = job /\ queue' = queue /\ pc["completion"] = "decrypt"
      /\ \E l \in {"decrement", "release"} : Goto("completion", l)
  BY Zenon DEF CompleteRead, queues
<1>2. pc'["completion"] \in {"decrement", "release"}  BY <1>0, <1>1 DEF Goto
<1>3. Hand("completion")' = {}  BY <1>2 DEF Hand, HandOf, LiveLabel
<1>4. Hand("completion") = {job["completion"]}  BY <1>1 DEF Hand, HandOf, LiveLabel
<1> QED  BY <1>1, <1>3, <1>4 DEF Completing

LEMMA ToDecryptIs ==
  ASSUME Course, Next, NEW C, C = Completing', C \subseteq Flight, NEW i, NEW p
  PROVE  ToDecrypt(i, p)' <=> \E j \in C : IrpOf(j) = i /\ Covers(j, p)
<1>1. \A j \in C : IrpOf(j)' = IrpOf(j)  BY FlightLasts DEF Course, Lasts
<1>2. \A j : Covers(j, p)' <=> Covers(j, p)  BY DEF Covers
<1> QED  BY <1>1, <1>2 DEF ToDecrypt

-----------------------------------------------------------------------------
(* What was read in the IRP.                                               *)

LEMMA ReadSums ==
  ASSUME NEW o \in Nat, NEW d \in Nat, NEW f \in Nat, NEW l \in Nat, NEW n \in Nat, NEW k \in Int,
         f + l <= n, NEW m \in Nat, o + n <= m
  PROVE  /\ o + k + d - (o + d + f) = k - f /\ o + d + f + (k - f) = o + k + d
         /\ k - f \in 0 .. l - 1 => k \in 0 .. n - 1 /\ o + k \in 0 .. m - 1
         /\ o + k - o = k
OBVIOUS

\* Block k of what an IRP reads in a request for a part of it.
LEMMA ReadPlace ==
  ASSUME NEW j \in Job, Span(j), NEW r, r = irp[IrpOf(j)].request, r \in Request, NEW k \in Int,
         NEW p, p = r.offset + k
  PROVE  /\ p + DataOffset - j.offset = k - j.from /\ j.offset + (k - j.from) = p + DataOffset
         /\ Covers(j, p) <=> k - j.from \in Indices(j)
         /\ k - j.from \in Indices(j) => k \in Indices(r) /\ p \in Block
<1>1. r.offset \in Nat /\ r.length \in Nat  BY QueueAssumption
<1>2. /\ r.offset + r.length <= DeviceLength
      /\ j.offset = r.offset + DataOffset + j.from /\ j.from + j.length <= r.length
  BY DEF Span
<1>3. j.offset \in Nat /\ j.from \in Nat /\ j.length \in Nat  BY DEF Job
<1>4. DataOffset \in Nat /\ DeviceLength \in Nat  BY Constants
<1>5. /\ p + DataOffset - j.offset = k - j.from /\ j.offset + (k - j.from) = p + DataOffset
      /\ k - j.from \in 0 .. j.length - 1 => k \in 0 .. r.length - 1 /\ p \in 0 .. DeviceLength - 1
  BY <1>1, <1>2, <1>3, <1>4, ReadSums
<1> QED  BY <1>5 DEF Covers, Indices, Block

\* What an IRP has read is not touched by other steps.
LEMMA DataStays ==
  ASSUME Course, Next, ~ReadDone, ~CompleteRead, NEW i \in Irp, irp[i].phase = "active",
         irp'[i].phase = "active"
  PROVE  irp'[i].data = irp[i].data
<1>1. CASE \E m \in Irp : Client(m)
  <2>1. PICK m \in Irp : Client(m)  BY <1>1
  <2>2. OnlyIrp(m) /\ irp[m].phase \in {"new", "adding", "queued"}
    BY <2>1, ClientIrp DEF Course, TypeInv
  <2> QED  BY <2>2 DEF OnlyIrp
<1>2. CASE Dispatch
  <2>1. PICK m \in Irp, x \in Item : Picked(m, x)  BY <1>2, DispatchFields DEF Course
  <2> QED  BY <2>1 DEF Picked, OnlyIrp
<1>3. CASE Owner  BY <1>3, OwnerEffect DEF OwnerOnly, Course
<1>4. CASE WriteDone
  <2>1. PICK m : m = IrpOf(job["io"])  OBVIOUS
  <2>2. irp' = irp \/ (OnlyIrp(m) /\ irp'[m].phase = "done")  BY <1>4, <2>1, WriteDoneIrp DEF Course
  <2> QED  BY <2>2 DEF OnlyIrp
<1> QED  BY <1>1, <1>2, <1>3, <1>4, OtherIrp, StepCases DEF Course

\* A read in the hands of the threads was so before, or has read nothing yet.
LEMMA ReadingWas ==
  ASSUME Course, Next, NEW i \in Irp, Reading(i)'
  PROVE  \/ DOMAIN irp'[i].data = {}
         \/ /\ Reading(i) /\ ~Convert /\ irp'[i].phase = "active"
            /\ irp'[i].request = irp[i].request /\ irp'[i].expected = irp[i].expected
<1>1. IrpMoves(i)  BY AllIrpsMove DEF Course
<1>2. irp[i].phase \in Phase  BY DEF Course, TypeInv, IrpType
<1>3. irp'[i].phase = "active" /\ irp'[i].request.op = "read" /\ ~Failed(i)'  BY DEF Reading
<1>4. CASE irp[i].phase = "done"  BY <1>1, <1>3, <1>4 DEF IrpMoves
<1>5. CASE irp[i].phase = "active"
  <2>1. irp'[i].request = irp[i].request /\ irp'[i].expected = irp[i].expected
    BY <1>1, <1>5 DEF IrpMoves
  <2>2. ~Failed(i)  BY <1>3, <1>5, Lasting DEF Course
  <2>3. ~Convert
    <3>1. SUFFICES ASSUME Convert  PROVE FALSE  OBVIOUS
    <3>2. owner = "held"  BY <3>1 DEF Convert
    <3> QED  BY <1>5, <3>2 DEF Course, HoldInv, HoldExcludesIo
  <2> QED  BY <1>3, <1>5, <2>1, <2>2, <2>3 DEF Reading
<1>6. CASE irp[i].phase \in {"new", "adding", "queued"}
  BY <1>1, <1>3, <1>6 DEF IrpMoves, Course, StatusInv
<1> QED  BY <1>2, <1>4, <1>5, <1>6 DEF Phase

LEMMA GoodLasts ==
  ASSUME Course, Next, NEW i \in Irp, irp'[i].request = irp[i].request, irp'[i].expected = irp[i].expected,
         NEW p, NEW w, Good(w, Expected(i, p))
  PROVE  Good(w, Expected(i, p))'
<1>1. PICK e : e = Expected(i, p)  OBVIOUS
<1>2. Good(w, e)'  BY <1>1, Lasting DEF Course
<1>3. Expected(i, p)' = e  BY <1>1 DEF Expected
<1> QED  BY <1>2, <1>3 DEF Good

LEMMA DatumLasts ==
  ASSUME Course, Next, ~Convert, NEW i \in Irp, irp'[i].request = irp[i].request,
         irp'[i].expected = irp[i].expected, NEW k, NEW p, NEW b, Datum(i, k, p, b),
         ToDecrypt(i, p)' <=> ToDecrypt(i, p)
  PROVE  Datum(i, k, p, b)'
<1>1. \A w : Stored(p, w)' = Stored(p, w)  BY CryptAreaKept, SpotKept DEF Course
<1>2. Good(b.by, Expected(i, p))'  BY GoodLasts DEF Datum
<1> QED  BY <1>1, <1>2 DEF Datum, Indices

\* Block k is read by the IO thread.
LEMMA ReadDatum ==
  ASSUME Course, ArrivedInv, DataInv, Next, ReadDone, ~Convert, NEW j, j = job["io"], NEW i \in Irp,
         i = IrpOf(j), Reading(i), irp'[i].data = CopiedOf(j),
         irp'[i].request = irp[i].request, irp'[i].expected = irp[i].expected,
         NEW k \in DOMAIN irp'[i].data, NEW p, p = irp[i].request.offset + k, NEW b, b = irp'[i].data[k]
  PROVE  Datum(i, k, p, b)'
<1>1. Completing' = Completing \union {j} /\ j \in Flight /\ Live("io")
  BY CompletingGrows DEF Course
<1>2. /\ j \in Job /\ Alive(j) /\ Span(j) /\ irp[i].request \in Request  BY <1>1, IoJob DEF Course
<1>3. PICK r, d : r = irp[i].request /\ d = irp[i].data  OBVIOUS
<1>4. irp'[i].data = [l \in DOMAIN d \cup {j.from + m : m \in Indices(j)} |->
                        IF l - j.from \in Indices(j) THEN fragment[j.buffer][l - j.from] ELSE d[l]]
  BY <1>3 DEF CopiedOf
<1>5. /\ k \in DOMAIN d \/ \E m \in Indices(j) : k = j.from + m
      /\ b = IF k - j.from \in Indices(j) THEN fragment[j.buffer][k - j.from] ELSE d[k]  BY <1>4
<1>6. k \in DOMAIN d => Datum(i, k, p, d[k])  BY <1>3 DEF DataInv
<1>7. k \in Int
  <2>1. CASE k \in DOMAIN d  BY <1>3, <1>6, <2>1, <1>2, QueueAssumption DEF Datum, Indices
  <2>2. CASE \E m \in Indices(j) : k = j.from + m  BY <1>2, <2>2 DEF Job, Indices
  <2> QED  BY <1>5, <2>1, <2>2
<1>8. /\ p + DataOffset - j.offset = k - j.from
      /\ Covers(j, p) <=> k - j.from \in Indices(j)
      /\ k - j.from \in Indices(j) => k \in Indices(r) /\ p \in Block
  BY <1>2, <1>3, <1>7, ReadPlace
<1>9. ToDecrypt(i, p)' <=> ToDecrypt(i, p) \/ Covers(j, p)
  <2>1. PICK C : C = Completing  OBVIOUS
  <2>2. Completing' = C \union {j} /\ C \union {j} \subseteq Flight
    BY <1>1, <2>1 DEF Completing, Flight
  <2>3. ToDecrypt(i, p)' <=> \E m \in C \union {j} : IrpOf(m) = i /\ Covers(m, p)
    BY <2>2, ToDecryptIs, Zenon
  <2> QED  BY <2>1, <2>3 DEF ToDecrypt
<1>10. CASE Covers(j, p)
  <2>1. b = fragment[j.buffer][p + DataOffset - j.offset] /\ p \in Block /\ k \in Indices(r)
    BY <1>5, <1>8, <1>10, Zenon
  <2>2. item[j.item].success  BY <1>2 DEF Reading, Alive, Failed, IrpOf
  <2>3. pc["io"] = "read done"  BY Zenon DEF ReadDone
  <2>4. Arrived(j, p)  BY <1>10, <2>1, <2>2, <2>3 DEF ArrivedInv
  <2>5. b = Stored(p, b.by) /\ Good(b.by, Expected(i, p))  BY <2>1, <2>4, Zenon DEF Arrived
  <2>6. Good(b.by, Expected(i, p))'  BY <2>5, GoodLasts
  <2>7. \A w : Stored(p, w)' = Stored(p, w)  BY CryptAreaKept, SpotKept DEF Course
  <2>8. ToDecrypt(i, p)'  BY <1>9, <1>10
  <2> QED  BY <1>3, <2>1, <2>5, <2>6, <2>7, <2>8, Zenon DEF Datum, Indices
<1>11. CASE ~Covers(j, p)
  <2>1. k - j.from \notin Indices(j) /\ b = d[k]  BY <1>5, <1>8, <1>11
  <2>2. k \in DOMAIN d
    <3>1. ASSUME NEW m \in Indices(j), k = j.from + m  PROVE FALSE
      BY <1>2, <3>1, <2>1 DEF Job, Indices
    <3> QED  BY <1>5, <3>1
  <2>3. Datum(i, k, p, b)  BY <1>6, <2>1, <2>2
  <2> QED  BY <1>9, <1>11, <2>3, DatumLasts
<1> QED  BY <1>10, <1>11

\* The requests for the completion thread.
LEMMA CompletionJob ==
  ASSUME Course, NEW j \in Completing
  PROVE  /\ j \in Job /\ j \in Flight /\ Alive(j) /\ Span(j) /\ InArea(j, j.length)
         /\ IrpOf(j) \in Irp /\ irp[IrpOf(j)].request \in Request /\ ~IsWrite(j)
<1>1. j \in Flight /\ j \in Sent  BY DEF Completing, Flight, Sent
<1>2. Alive(j) /\ Span(j) /\ InArea(j, j.length) /\ ~IsWrite(j)
  BY <1>1 DEF Course, Flow, FlightInv, SpanInv, Completing
<1>3. j \in Job
  <2>1. CASE j \in Jobs(queue["completion"])  BY <2>1 DEF Course, TypeInv, QueueType, Jobs
  <2>2. CASE j \in Hand("completion")  BY <2>2 DEF Hand, HandOf, Course, TypeInv, ThreadType, Thread
  <2> QED  BY <2>1, <2>2 DEF Completing
<1>4. IrpOf(j) \in Irp /\ irp[IrpOf(j)].request \in Request
  BY <1>2 DEF Alive, Course, TypeInv, IrpType
<1> QED  BY <1>1, <1>2, <1>3, <1>4

LEMMA Between ==
  ASSUME NEW a \in Nat, NEW l \in Nat, NEW b \in Nat, NEW m \in Nat, NEW k \in Int, a + l <= b
  PROVE  ~(k - a \in 0 .. l - 1 /\ k - b \in 0 .. m - 1)
OBVIOUS

\* Those behind the one in its hands are for other blocks.
LEMMA OthersCover ==
  ASSUME Course, CompleteRead, NEW j, j = job["completion"], NEW i \in Irp, i = IrpOf(j),
         NEW m \in Jobs(queue["completion"]), IrpOf(m) = i
  PROVE  /\ ~j.last
         /\ \A k \in Int : \A p : p = irp[i].request.offset + k => ~(Covers(j, p) /\ Covers(m, p))
<1>1. /\ Completing = Jobs(queue["completion"]) \union {j} /\ Hand("completion") = {j}
  BY CompletingShrinks DEF Course
<1>2. /\ j \in Job /\ m \in Job /\ Alive(j) /\ Alive(m) /\ Span(j) /\ Span(m)
      /\ irp[i].request \in Request
  BY <1>1, CompletionJob
<1>3. m.item = j.item  BY <1>2, QueueAssumption DEF Alive, IrpOf, Course, Flow, ItemInv
<1>4. Apart(j, m)  BY <1>1 DEF Course, Flow, OrderInv, InOrder, AllApart
<1>5. ~j.last /\ j.from + j.length <= m.from  BY <1>3, <1>4 DEF Apart
<1>6. ASSUME NEW k \in Int, NEW p, p = irp[i].request.offset + k
      PROVE  ~(Covers(j, p) /\ Covers(m, p))
  <2>1. /\ Covers(j, p) <=> k - j.from \in Indices(j)
        /\ Covers(m, p) <=> k - m.from \in Indices(m)
    BY <1>2, <1>6, ReadPlace
  <2>2. j.from \in Nat /\ j.length \in Nat /\ m.from \in Nat /\ m.length \in Nat  BY <1>2 DEF Job
  <2> QED  BY <1>5, <2>1, <2>2, Between DEF Indices
<1> QED  BY <1>5, <1>6

LEMMA DecodedBlock ==
  ASSUME Course, DataInv, CompleteRead, NEW j, j = job["completion"], NEW i \in Irp, i = IrpOf(j),
         Reading(i), NEW k \in DOMAIN irp[i].data, NEW p, p = irp[i].request.offset + k,
         NEW b, b = DecodedOf(j)[k]
  PROVE  /\ k \in Indices(irp[i].request) /\ k \in Int /\ p \in Block
         /\ b = IF Left(i, p) THEN Stored(p, b.by) ELSE Plain(b.by, p)
         /\ Good(b.by, Expected(i, p))
<1>1. Completing = Jobs(queue["completion"]) \union {j}  BY CompletingShrinks DEF Course
<1>2. /\ j \in Job /\ Alive(j) /\ Span(j) /\ InArea(j, j.length) /\ irp[i].request \in Request
  BY <1>1, CompletionJob
<1>3. PICK r, d : r = irp[i].request /\ d = irp[i].data  OBVIOUS
<1>4. PICK w : w = d[k]  OBVIOUS
<1>5. /\ k \in Indices(r) /\ Good(w.by, Expected(i, p))
      /\ w = IF ToDecrypt(i, p) THEN Stored(p, w.by) ELSE Plain(w.by, p)
  BY <1>3, <1>4 DEF DataInv, Datum
<1>6. r.length \in Nat /\ r.offset \in Nat /\ r.offset + r.length <= DeviceLength
  BY <1>2, <1>3, QueueAssumption DEF Span
<1>7. k \in Int /\ p \in Block  BY <1>3, <1>5, <1>6, Constants DEF Indices, Block
<1>8. /\ j.offset + (k - j.from) = p + DataOffset
      /\ Covers(j, p) <=> k - j.from \in Indices(j)
  BY <1>2, <1>3, <1>7, ReadPlace
<1>9. ToDecrypt(i, p) <=> Covers(j, p) \/ Left(i, p)  BY <1>1, Zenon DEF ToDecrypt, Left
<1>10. item[j.item].success  BY <1>2 DEF Reading, Alive, Failed, IrpOf
<1>11. b = IF k - j.from \in j.encrypted THEN Decrypted(w, Unit(j, k - j.from)) ELSE w
  BY <1>3, <1>4, <1>10 DEF DecodedOf
<1>12. CASE Covers(j, p)
  <2>1. ~Left(i, p)  BY <1>7, OthersCover, <1>12 DEF Left
  <2>2. w = Stored(p, w.by)  BY <1>5, <1>9, <1>12
  <2>3. k - j.from \in j.encrypted <=> Inside(p)
    <3>1. PICK x : x = k - j.from  OBVIOUS
    <3>2. x \in 0 .. j.length - 1 /\ j.offset + x = p + DataOffset  BY <1>8, <1>12, <3>1 DEF Indices
    <3>3. x \in j.encrypted <=> x \in 0 .. j.length - 1 /\ j.offset + x \in CryptArea
      BY <1>2 DEF InArea
    <3> QED  BY <3>1, <3>2, <3>3 DEF Inside
  <2>4. Unit(j, k - j.from) = p + DataOffset + UnitOffset  BY <1>8 DEF Unit
  <2>5. b = Plain(w.by, p)  BY <1>7, <1>11, <2>2, <2>3, <2>4, Deciphered
  <2>6. b.by = w.by  BY <2>5 DEF Plain
  <2> QED  BY <1>3, <1>5, <1>7, <2>1, <2>5, <2>6
<1>13. CASE ~Covers(j, p)
  <2>1. k - j.from \notin j.encrypted  BY <1>8, <1>13, <1>2 DEF InArea, Indices
  <2>2. b = w  BY <1>11, <2>1
  <2>3. b = IF Left(i, p) THEN Stored(p, b.by) ELSE Plain(b.by, p)  BY <1>5, <1>9, <1>13, <2>2
  <2> QED  BY <1>3, <1>5, <1>7, <2>2, <2>3
<1> QED  BY <1>12, <1>13

\* Another IRP than the one whose data are copied or decrypted.
LEMMA OtherDatum ==
  ASSUME Course, DataInv, Next, ~Convert, NEW i \in Irp, Reading(i), irp'[i].request = irp[i].request,
         irp'[i].expected = irp[i].expected, irp'[i].data = irp[i].data,
         \A p : ToDecrypt(i, p)' <=> ToDecrypt(i, p),
         NEW k \in DOMAIN irp'[i].data, NEW p, p = irp[i].request.offset + k,
         NEW b, b = irp'[i].data[k]
  PROVE  Datum(i, k, p, b)'
<1>1. Datum(i, k, p, b)  BY DEF DataInv
<1> QED  BY <1>1, DatumLasts

LEMMA DataKept ==
  ASSUME Course, ArrivedInv, DataInv, Next
  PROVE  DataInv'
<1> SUFFICES ASSUME NEW i \in Irp, Reading(i)', NEW k \in DOMAIN irp'[i].data,
                    NEW p, p = irp'[i].request.offset + k, NEW b, b = irp'[i].data[k]
             PROVE  Datum(i, k, p, b)'
  BY DEF DataInv, Datum
<1>1. /\ Reading(i) /\ ~Convert /\ irp'[i].phase = "active" /\ irp[i].phase = "active"
      /\ irp'[i].request = irp[i].request /\ irp'[i].expected = irp[i].expected
  BY ReadingWas DEF Reading
<1>2. p = irp[i].request.offset + k  BY <1>1
<1>3. CASE ~ReadDone /\ ~CompleteRead
  <2>1. irp'[i].data = irp[i].data  BY <1>1, <1>3, DataStays
  <2>2. PICK C : C = Completing  OBVIOUS
  <2>3. Completing' = C  BY <1>3, <2>2, CompletingStays DEF Course
  <2>4. C \subseteq Flight  BY <2>2 DEF Completing, Flight
  <2>5. \A q : ToDecrypt(i, q)' <=> ToDecrypt(i, q)  BY <2>3, <2>4, ToDecryptIs, <2>2 DEF ToDecrypt
  <2> QED  BY <1>1, <1>2, <2>1, <2>5, OtherDatum
<1>4. CASE ReadDone
  <2>1. PICK j, m : j = job["io"] /\ m = IrpOf(j)  OBVIOUS
  <2>2. /\ m \in Irp
        /\ \/ irp' = irp /\ Failed(m)
           \/ OnlyIrp(m) /\ irp'[m].data = CopiedOf(j)
    BY <1>4, <2>1, ReadDoneIrp DEF Course
  <2>3. CASE i = m  BY <1>1, <2>3, <2>2, <1>2, <1>4, <2>1, ReadDatum DEF Reading
  <2>4. CASE i # m
    <3>1. irp'[i].data = irp[i].data  BY <2>2, <2>4 DEF OnlyIrp
    <3>2. PICK C : C = Completing  OBVIOUS
    <3>3. Completing' = C \union {j} /\ C \union {j} \subseteq Flight
      BY <1>4, <2>1, <3>2, CompletingGrows DEF Course, Completing, Flight
    <3>4. \A q : ToDecrypt(i, q)' <=> ToDecrypt(i, q)
      <4>1. \A q : ToDecrypt(i, q)' <=> \E l \in C \union {j} : IrpOf(l) = i /\ Covers(l, q)
        BY <3>3, ToDecryptIs
      <4> QED  BY <2>1, <2>4, <3>2, <4>1 DEF ToDecrypt
    <3> QED  BY <1>1, <1>2, <3>1, <3>4, OtherDatum
  <2> QED  BY <2>3, <2>4
<1>5. CASE CompleteRead
  <2>1. PICK j, m : j = job["completion"] /\ m = IrpOf(j)  OBVIOUS
  <2>2. PICK C : C = Jobs(queue["completion"])  OBVIOUS
  <2>3. Completing' = C /\ Completing = C \union {j}
    BY <1>5, <2>1, <2>2, CompletingShrinks DEF Course
  <2>4. C \subseteq Flight  BY <2>3 DEF Completing, Flight
  <2>5. \A q : ToDecrypt(i, q)' <=> \E l \in C : IrpOf(l) = i /\ Covers(l, q)
    BY <2>3, <2>4, ToDecryptIs
  <2>6. /\ m \in Irp /\ OnlyIrp(m)
        /\ irp'[m].phase = "done" \/ irp'[m].data = DecodedOf(j)
    BY <1>5, <2>1, CompleteReadIrp DEF Course
  <2>7. CASE i = m
    <3>1. irp'[i].data = DecodedOf(j)  BY <1>1, <2>6, <2>7
    <3>2. DOMAIN DecodedOf(j) = DOMAIN irp[i].data  BY <2>1, <2>7 DEF DecodedOf
    <3>4. /\ k \in Indices(irp[i].request)
          /\ b = IF Left(i, p) THEN Stored(p, b.by) ELSE Plain(b.by, p)
          /\ Good(b.by, Expected(i, p))  BY <3>1, <3>2, <1>1, <1>2, <1>5, <2>1, <2>7, DecodedBlock
    <3>5. Good(b.by, Expected(i, p))'  BY <1>1, <3>4, GoodLasts
    <3>6. \A w : Stored(p, w)' = Stored(p, w)  BY <1>1, CryptAreaKept, SpotKept DEF Course
    <3>7. ToDecrypt(i, p)' <=> Left(i, p)  BY <2>2, <2>5 DEF Left
    <3> QED  BY <1>1, <3>4, <3>5, <3>6, <3>7 DEF Datum, Indices
  <2>8. CASE i # m  BY <2>6, <2>8, <2>1, <2>3, <2>5, <1>1, <1>2, OtherDatum DEF OnlyIrp, ToDecrypt
  <2> QED  BY <2>7, <2>8
<1> QED  BY <1>3, <1>4, <1>5

-----------------------------------------------------------------------------
(* What the users get.                                                     *)

\* A misaligned read of the system drive decrypts with the unit of the address, and
\* reads where the address says: where the area is neither remapped nor numbered anew.
PlacedAtAddress ==
  IsFilterDevice /\ (\E r \in Request : r.op = "misaligned") => RemappedAreaOffset = 0 /\ UnitOffset = 0

LEMMA MisalignedBlock ==
  ASSUME PlacedAtAddress, Course, Dispatch, NEW r \in Request, r.op = "misaligned", IsFilterDevice,
         NEW k \in DOMAIN MisalignedData(r), NEW p, p = r.offset + k, NEW b, b = MisalignedData(r)[k]
  PROVE  b = Plain(b.by, p) /\ k \in Int
<1>1. RemappedAreaOffset = 0 /\ UnitOffset = 0  BY DEF PlacedAtAddress
<1>2. r.offset \in Nat /\ r.length \in Nat /\ r.offset + r.length + 1 <= DeviceLength
  BY QueueAssumption
<1>3. k \in 0 .. r.length  BY DEF MisalignedData
<1>4. p \in Block  BY <1>2, <1>3, Constants DEF Block
<1>5. DataOffset = 0 /\ p \in Int  BY <1>4, Constants DEF Block
<1>6. p + DataOffset = p /\ Spot(p) = p /\ p + DataOffset + UnitOffset = p  BY <1>1, <1>5 DEF Spot
<1>7. EncryptedArea = CryptArea  BY MainArea DEF Dispatch, Course
<1>8. PICK c : c = device[p]  OBVIOUS
<1>9. c = Stored(p, c.by)  BY <1>4, <1>6, <1>8 DEF Course, StoreInv
<1>10. b = IF p \in EncryptedArea THEN Decrypted(device[p], p) ELSE device[p]
  BY <1>3 DEF MisalignedData
<1>11. b = IF Inside(p) THEN Decrypted(c, p + DataOffset + UnitOffset) ELSE c
  BY <1>6, <1>7, <1>8, <1>10 DEF Inside
<1>12. b = Plain(c.by, p)  BY <1>4, <1>9, <1>11, Deciphered
<1>13. b.by = c.by  BY <1>12 DEF Plain
<1>14. k \in Int  BY <1>2, <1>3
<1> QED  BY <1>12, <1>13, <1>14

\* An IRP is completed with success: by the thread that decrypts its last blocks, or at
\* once, where it was misaligned.
LEMMA CompletedHow ==
  ASSUME Course, Next, NEW i \in Irp, irp'[i].status = "success", irp'[i].request.op # "write",
         irp[i].phase # "done"
  PROVE  \/ /\ CompleteRead /\ i = IrpOf(job["completion"]) /\ job["completion"].last /\ ~Failed(i)
            /\ irp[i].phase = "active" /\ irp'[i].data = DecodedOf(job["completion"])
         \/ /\ Dispatch /\ irp[i].request.op = "misaligned" /\ IsFilterDevice
            /\ irp[i].request \in Request
            /\ irp'[i].data = MisalignedData(irp[i].request) /\ irp'[i].request = irp[i].request
<1>2. irp[i].status # "success"  BY DEF Course, StatusInv
<1>3. irp' # irp  BY <1>2
<1>4. CASE \E m \in Irp : Client(m)
  <2>1. PICK m \in Irp : Client(m)  BY <1>4
  <2>2. OnlyIrp(m) /\ (irp'[m].status = irp[m].status \/ irp'[m].status = "rejected")
    BY <2>1, ClientIrp DEF Course, TypeInv
  <2> QED  BY <1>2, <2>2 DEF OnlyIrp
<1>5. CASE Dispatch
  <2>1. PICK m \in Irp, x \in Item :
          Picked(m, x) /\ ((\E s, d : Finished(m, x, s, d)) \/ (\E e : Taken(m, x, e)))
    BY <1>5, DispatchFields DEF Course
  <2>2. m = i  BY <1>2, <2>1 DEF Picked, OnlyIrp
  <2>3. \E s, d : Finished(i, x, s, d)  BY <1>2, <2>1, <2>2 DEF Taken
  <2>4. PICK s, d : Finished(i, x, s, d)  BY <2>3
  <2>5. s = "success" /\ irp'[i].data = d  BY <2>4 DEF Finished
  <2>6. irp[i].request.op = "misaligned" /\ IsFilterDevice /\ d = MisalignedData(irp[i].request)
    BY <2>4, <2>5 DEF Finished, EndedWell
  <2>7. irp[i].request \in Request /\ irp'[i].request = irp[i].request
    BY <2>1, <2>2 DEF Picked, Course, TypeInv, IrpType
  <2> QED  BY <1>5, <2>5, <2>6, <2>7
<1>6. CASE Owner  BY <1>3, <1>6, OwnerEffect DEF OwnerOnly, Course
<1>7. CASE WriteDone
  <2>1. PICK m : m = IrpOf(job["io"])  OBVIOUS
  <2>2. /\ OnlyIrp(m) /\ irp'[m].request = irp[m].request /\ irp[m].request.op = "write"
    BY <1>3, <1>7, <2>1, WriteDoneIrp DEF Course, IsWrite
  <2> QED  BY <1>2, <2>2 DEF OnlyIrp
<1>8. CASE ReadDone
  <2>1. PICK m : m = IrpOf(job["io"])  OBVIOUS
  <2>2. OnlyIrp(m) /\ irp'[m].status = irp[m].status  BY <1>3, <1>8, <2>1, ReadDoneIrp DEF Course
  <2> QED  BY <1>2, <2>2 DEF OnlyIrp
<1>9. CASE CompleteRead
  <2>1. PICK j, m : j = job["completion"] /\ m = IrpOf(j)  OBVIOUS
  <2>2. /\ m \in Irp /\ irp[m].phase = "active" /\ OnlyIrp(m)
        /\ \/ irp'[m].status = irp[m].status
           \/ /\ irp'[m].status = IF Failed(m) THEN "error" ELSE "success"
              /\ j.last /\ irp'[m].data = IF Failed(m) THEN NoData ELSE DecodedOf(j)
    BY <1>9, <2>1, CompleteReadIrp DEF Course
  <2>3. m = i  BY <1>2, <2>2 DEF OnlyIrp
  <2>4. ~Failed(i)  BY <1>2, <2>2, <2>3
  <2> QED  BY <1>2, <1>9, <2>1, <2>2, <2>3, <2>4
<1> QED  BY <1>3, <1>4, <1>5, <1>6, <1>7, <1>8, <1>9, OtherIrp, StepCases DEF Course

-----------------------------------------------------------------------------
(* What the IRP returns.                                                   *)

LEMMA ReturnedKept ==
  ASSUME PlacedAtAddress, Course, DataInv, ReturnedInv, Next
  PROVE  ReturnedInv'
<1> SUFFICES ASSUME NEW i \in Irp, irp'[i].status = "success", irp'[i].request.op # "write",
                    NEW k \in DOMAIN irp'[i].data,
                    NEW p, p = irp'[i].request.offset + k, NEW b, b = irp'[i].data[k]
             PROVE  Result(i, k, p, b)'
  BY DEF ReturnedInv, Result
<1>1. CASE irp[i].phase = "done"
  BY <1>1, AllIrpsMove, GoodLasts DEF IrpMoves, Course, ReturnedInv, Result
<1>2. CASE irp[i].phase # "done" /\ CompleteRead /\ i = IrpOf(job["completion"])
           /\ job["completion"].last /\ ~Failed(i) /\ irp[i].phase = "active"
           /\ irp'[i].data = DecodedOf(job["completion"])
  <2>1. PICK j : j = job["completion"]  OBVIOUS
  <2>2. j \in Completing  BY <1>2, <2>1, CompletingShrinks DEF Course
  <2>3. Span(j) /\ ~IsWrite(j)  BY <2>2, CompletionJob
  <2>4. irp[i].request.op = "read"  BY <1>2, <2>1, <2>3 DEF Span, IsWrite
  <2>5. Reading(i)  BY <1>2, <2>4 DEF Reading
  <2>6. irp'[i].request = irp[i].request /\ irp'[i].expected = irp[i].expected
    BY <1>2, CompleteReadIrp DEF Course
  <2>7. k \in DOMAIN irp[i].data /\ b = DecodedOf(j)[k]  BY <1>2, <2>1 DEF DecodedOf
  <2>8. p = irp[i].request.offset + k  BY <2>6
  <2>9. /\ k \in Int /\ b = (IF Left(i, p) THEN Stored(p, b.by) ELSE Plain(b.by, p))
        /\ Good(b.by, Expected(i, p))
    BY <1>2, <2>1, <2>5, <2>7, <2>8, DecodedBlock
  <2>10. ~Left(i, p)  BY <1>2, <2>1, OthersCover DEF Left
  <2>11. Good(b.by, Expected(i, p))'  BY <2>6, <2>9, GoodLasts
  <2> QED  BY <2>9, <2>10, <2>11 DEF Result
<1>3. CASE /\ Dispatch /\ irp[i].request.op = "misaligned" /\ IsFilterDevice
           /\ irp[i].request \in Request
           /\ irp'[i].data = MisalignedData(irp[i].request) /\ irp'[i].request = irp[i].request
  <2>1. PICK r : r = irp[i].request  OBVIOUS
  <2>2. b = Plain(b.by, p) /\ k \in Int  BY <1>3, <2>1, MisalignedBlock
  <2> QED  BY <1>3, <2>2 DEF Result
<1>4. CASE irp[i].phase # "done"  BY <1>2, <1>3, <1>4, CompletedHow
<1> QED  BY <1>1, <1>4

LEMMA InitRead ==
  ASSUME Init
  PROVE  ReadInv
<1>1. /\ pc["io"] = "wait" /\ owner = "idle" /\ \A i \in Irp : irp[i] = NewIrp
  BY AtStart DEF Thread
<1>2. CacheInv  BY DEF Init, CacheInv
<1>3. NewIrp.phase = "new" /\ NewIrp.status = "none"  BY DEF NewIrp
<1>4. ArrivedInv  BY <1>1 DEF ArrivedInv
<1>5. DataInv  BY <1>1, <1>3 DEF DataInv, Reading
<1>6. ReturnedInv  BY <1>1, <1>3 DEF ReturnedInv
<1> QED  BY <1>2, <1>4, <1>5, <1>6 DEF ReadInv

LEMMA ReadIdle ==
  ASSUME UNCHANGED vars, ReadInv
  PROVE  ReadInv'
<1>1. /\ irp' = irp /\ item' = item /\ queue' = queue /\ pc' = pc /\ job' = job /\ device' = device
      /\ area' = area /\ owner' = owner /\ fragment' = fragment /\ cache' = cache
      /\ lastRead' = lastRead
  BY DEF vars, pool, queues, disk, control, buffers, ahead
<1>2. \A p, w : Stored(p, w)' = Stored(p, w)  BY <1>1, SpotKept DEF CryptArea, StoredLength
<1>3. /\ \A i, p : Expected(i, p)' = Expected(i, p)
      /\ \A w, e : Good(w, e)' <=> Good(w, e)
      /\ \A j : IrpOf(j)' = IrpOf(j)
      /\ \A j, p : Covers(j, p)' <=> Covers(j, p)
  BY <1>1 DEF Expected, Good, IrpOf, Covers
<1>4. CacheInv'  BY <1>1 DEF ReadInv, CacheInv
<1>5. ArrivedInv'  BY <1>1, <1>2, <1>3 DEF Arrived, ReadInv, ArrivedInv
<1>6. DataInv'
  <2>1. Completing' = Completing  BY <1>1 DEF Completing, Hand
  <2>2. \A i, p : ToDecrypt(i, p)' <=> ToDecrypt(i, p)  BY <1>3, <2>1 DEF ToDecrypt
  <2>3. \A i, k, p, b : Datum(i, k, p, b)' <=> Datum(i, k, p, b)
    BY <1>1, <1>2, <1>3, <2>2 DEF Datum
  <2>4. \A i : Reading(i)' <=> Reading(i)  BY <1>1 DEF Reading, Failed
  <2> QED  BY <1>1, <2>3, <2>4 DEF ReadInv, DataInv
<1>7. ReturnedInv'  BY <1>1, <1>3 DEF Result, ReadInv, ReturnedInv
<1> QED  BY <1>4, <1>5, <1>6, <1>7 DEF ReadInv

LEMMA ReadNext ==
  ASSUME StatusKept, PlacedAtAddress, Line, ReadInv, [Next]_vars
  PROVE  ReadInv'
<1>1. CASE Next  BY <1>1, CacheKept, ArrivedKept, DataKept, ReturnedKept DEF Line, Course, ReadInv
<1>2. CASE UNCHANGED vars  BY <1>2, ReadIdle
<1> QED  BY <1>1, <1>2

LEMMA Difference == ASSUME NEW o \in Int, NEW k \in Int  PROVE o + k - o = k  OBVIOUS

\* A read that was completed with success.
LEMMA Returned ==
  ASSUME TypeInv, StatusInv, ReturnedInv, NEW i \in Irp, irp[i].status = "success",
         irp[i].request.op # "write", NEW k \in DOMAIN irp[i].data
  PROVE  /\ irp[i].data[k].unit = Clear /\ irp[i].data[k].at = irp[i].request.offset + k
         /\ irp[i].request.op = "read" =>
              LET e == irp[i].expected[k]
              IN irp[i].data[k].by = e \/ (e # NoIrp /\ irp[e].status = "error")
<1>1. PICK p, b : p = irp[i].request.offset + k /\ b = irp[i].data[k]  OBVIOUS
<1>2. Result(i, k, p, b)  BY <1>1 DEF ReturnedInv
<1>3. b.unit = Clear /\ b.at = p
  <2>1. b = Plain(b.by, p)  BY <1>2 DEF Result
  <2>2. PICK w : w = b.by  OBVIOUS
  <2>3. b = [unit |-> Clear, by |-> w, at |-> p]  BY <2>1, <2>2 DEF Plain
  <2> QED  BY <2>3
<1>4. irp[i].phase = "done"  BY DEF StatusInv
<1>5. irp[i].request.offset \in Int  BY <1>4, QueueAssumption DEF TypeInv, IrpType
<1>6. Expected(i, p) = irp[i].expected[k]  BY <1>1, <1>2, <1>5, Difference DEF Result, Expected
<1>7. irp[i].request.op = "read" =>
        LET e == irp[i].expected[k] IN b.by = e \/ (e # NoIrp /\ irp[e].status = "error")
  BY <1>2, <1>6, QueueAssumption DEF Result, Good
<1> QED  BY <1>1, <1>3, <1>7

\* The device behaves like one that is not encrypted and serves the IRPs in their order:
\* a read returns what was last written before it was dispatched, from the read-ahead
\* buffer, across the fragments on their way and wherever the encrypted area ends.
THEOREM ReadsSeeWrites ==
  ASSUME StatusKept, PlacedAtAddress
  PROVE  Spec => []ReadSeesWrites
<1>1. Init => Line /\ ReadInv  BY InitLine, InitRead
<1>2. Inv /\ Line /\ ReadInv /\ [Next]_vars => (Line /\ ReadInv)'  BY LineNext, ReadNext
<1>3. Inv /\ Line /\ ReadInv => ReadSeesWrites
  BY Returned DEF ReadSeesWrites, Line, Course, ReadInv
<1> QED  BY <1>1, <1>2, <1>3, RequestsAccountedFor, PTL DEF Spec
=============================================================================
