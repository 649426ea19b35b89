--------------------- MODULE EncryptionThreadPool_proof ---------------------
(* Proofs about module EncryptionThreadPool, for every number of callers,  *)
(* workers, queue slots and units.                                         *)
EXTENDS EncryptionThreadPool, FiniteSetTheorems, TLAPS

----------------------------------------------------------------------------
(* The ring, the split and the records *)

\* A field of an item of the ring may take any value of its type.
LEMMA ItemUpdate ==
  ASSUME NEW q \in [Slot -> ItemType], NEW i
  PROVE  /\ \A s \in {"Free", "Ready", "Busy"} : [q EXCEPT ![i].State = s] \in [Slot -> ItemType]
         /\ \A f \in Slot : [q EXCEPT ![i].FirstFragment = f] \in [Slot -> ItemType]
         /\ [q EXCEPT ![i].Outstanding = @ - 1] \in [Slot -> ItemType]
         /\ \A b \in BOOLEAN : /\ [q EXCEPT ![i].ItemException = b] \in [Slot -> ItemType]
                               /\ [q EXCEPT ![i].ItemCompletedEvent = b] \in [Slot -> ItemType]
         /\ \A e \in WorkType : [q EXCEPT ![i].Encryption = e] \in [Slot -> ItemType]
<1>1. \A s \in {"Free", "Ready", "Busy"} : [q EXCEPT ![i].State = s] \in [Slot -> ItemType]
  BY DEF ItemType
<1>2. \A f \in Slot : [q EXCEPT ![i].FirstFragment = f] \in [Slot -> ItemType]
  BY DEF ItemType, MaybeSlot
<1>3. [q EXCEPT ![i].Outstanding = @ - 1] \in [Slot -> ItemType]
  <2>1. CASE i \in Slot
    BY <2>1 DEF ItemType
  <2>2. CASE i \notin Slot
    BY <2>2
  <2>3. QED  BY <2>1, <2>2
<1>4. \A b \in BOOLEAN : [q EXCEPT ![i].ItemException = b] \in [Slot -> ItemType]
  BY DEF ItemType
<1>5. \A b \in BOOLEAN : [q EXCEPT ![i].ItemCompletedEvent = b] \in [Slot -> ItemType]
  BY DEF ItemType
<1>6. \A e \in WorkType : [q EXCEPT ![i].Encryption = e] \in [Slot -> ItemType]
  BY DEF ItemType
<1>7. QED  BY <1>1, <1>2, <1>3, <1>4, <1>5, <1>6

LEMMA NextSlotType == \A i \in Slot : NextSlot(i) \in Slot
  BY PoolAssumption DEF Slot, QueueSize, NextSlot

LEMMA PoolConstants == MaxThreadCount \in Nat /\ Cardinality(Worker) \in Nat
                       /\ Cardinality(Worker) >= 2 /\ SectorUnits \in Nat \ {0}
                       /\ 0 \in Slot
<1>1. Cardinality(Worker) \in Nat
  BY PoolAssumption, FS_CardinalityType
<1>2. QED  BY <1>1, PoolAssumption DEF Slot, QueueSize

LEMMA NoWorkType == NoWork \in WorkType
  BY DEF NoWork, WorkType

LEMMA NoCallType == NoCall \in CallType /\ NoCall.fragment.remainder = 0
  BY DEF NoCall, NoFragment, CallType, FragmentType, MaybeSlot

LEMMA SplitType ==
  ASSUME ThreadCount \in Nat \ {0}, NEW n \in Nat
  PROVE  /\ Split(n) \in FragmentType
         /\ Split(n).remainder > 0 => Split(n).units > 0
<1>1. n % ThreadCount \in Nat /\ n \div ThreadCount \in Nat
  OBVIOUS
<1>2. QED  BY <1>1 DEF Split, FragmentType

LEMMA NextFragmentType ==
  ASSUME NEW f \in FragmentType, f.left > 0, f.remainder > 0 => f.units > 0
  PROVE  /\ NextFragment(f) \in FragmentType
         /\ NextFragment(f).remainder > 0 => NextFragment(f).units > 0
  BY DEF NextFragment, FragmentType

----------------------------------------------------------------------------
(* Type correctness *)

\* What the steps rely on to stay within the types: a fragment is left when an
\* item is filled in, only fragments of at least one unit have a share of the
\* remainder, and a caller in the queue has a first item.
FragmentInv ==
  \A c \in Caller :
    /\ call[c].fragment.remainder > 0 => call[c].fragment.units > 0
    /\ pc[c] \in {"item", "itemWait"} => call[c].fragment.left > 0
    /\ pc[c] \in Submitted \cup {"first", "firstWait"} => call[c].first \in Slot

TypeInv == TypeOK /\ FragmentInv

LEMMA TypeInit == Init => TypeInv
<1> SUFFICES ASSUME Init
             PROVE  TypeInv
  OBVIOUS
<1>1. TypeOK
  <2>1. WorkItemQueue \in [Slot -> ItemType]
    BY NoWorkType DEF Init, ItemType, MaybeSlot
  <2>2. call \in [Caller -> CallType] /\ workItem \in [Worker -> MaybeSlot]
    BY NoCallType DEF Init, MaybeSlot
  <2>3. pc \in [Caller \cup Worker -> CallerControl \cup WorkerControl] /\ opc \in OwnerControl
    BY DEF Init, CallerControl, WorkerControl, OwnerControl
  <2>4. QED  BY <2>1, <2>2, <2>3, PoolConstants DEF Init, TypeOK
<1>2. FragmentInv
  BY NoCallType, PoolAssumption DEF Init, FragmentInv, Submitted
<1>3. QED  BY <1>1, <1>2 DEF TypeInv

LEMMA CallerType == ASSUME TypeInv, NEW c \in Caller, (DoWork(c) /\ CallerFrame) \/ CallerStep(c)
                    PROVE  TypeInv'
<1> USE PoolConstants, PoolAssumption
        DEF Goto, CallerControl, WorkerControl, Submitted, Returning, CallerFrame,
            ownerVars, headVars, tailVars, eventVars
<1>0. CallerFrame /\ WorkItemQueue \in [Slot -> ItemType]
  BY DEF CallerStep, TypeInv, TypeOK
<1>1. CASE DoWork(c)
  <2>1. PICK n \in Nat : /\ pc' = [pc EXCEPT ![c] = IF ~ThreadPoolRunning \/ n = 1
                                                  THEN "current" ELSE "split"]
                         /\ call' = [call EXCEPT ![c].unitCount = n]
    BY <1>1 DEF DoWork
  <2>2. call' \in [Caller -> CallType]
    BY <2>1 DEF TypeInv, TypeOK, CallType
  <2>3. FragmentInv'
    BY <2>1 DEF TypeInv, TypeOK, FragmentInv
  <2>4. QED  BY <1>0, <1>1, <2>1, <2>2, <2>3 DEF DoWork, TypeInv, TypeOK
<1>2. CASE CurrentThread(c)
  <2>1. CASE Goto(c, "current", "currentDone") /\ UNCHANGED call
    BY <1>0, <1>2, <2>1 DEF CurrentThread, TypeInv, TypeOK, FragmentInv
  <2>2. CASE Goto(c, "current", "return") /\ call' = [call EXCEPT ![c].thrown = TRUE]
    <3>1. call' \in [Caller -> CallType]
      BY <2>2 DEF TypeInv, TypeOK, CallType
    <3>2. QED  BY <1>0, <1>2, <2>2, <3>1 DEF CurrentThread, TypeInv, TypeOK, FragmentInv
  <2>3. QED  BY <1>2, <2>1, <2>2 DEF CurrentThread
<1>3. CASE CurrentThreadDone(c)
  BY <1>0, <1>3 DEF CurrentThreadDone, TypeInv, TypeOK, FragmentInv, CallType
<1>4. CASE SplitRequest(c)
  BY <1>0, <1>4, SplitType DEF SplitRequest, TypeInv, TypeOK, FragmentInv, CallType
<1>5. CASE LockEnqueue(c)
  BY <1>0, <1>5 DEF LockEnqueue, TypeInv, TypeOK, FragmentInv, CallType, MaybeSlot
<1>6. CASE PrepareFirst(c)
  BY <1>0, <1>6 DEF PrepareFirst, TypeInv, TypeOK, FragmentInv, CallType, FragmentType, ItemType
<1>7. CASE AwaitFreeItem(c)
  BY <1>0, <1>7 DEF AwaitFreeItem, TypeInv, TypeOK, FragmentInv
<1>8. CASE NextItem(c)
  BY <1>0, <1>8, NextSlotType DEF NextItem, TypeInv, TypeOK, FragmentInv, CallType, MaybeSlot
<1>9. CASE UnlockEnqueue(c)
  BY <1>0, <1>9 DEF UnlockEnqueue, TypeInv, TypeOK, FragmentInv, CallType, MaybeSlot
<1>10. CASE PublishItem(c)
  <2> DEFINE i == call[c].item
             f == call[c].fragment
             work == [caller |-> c, data |-> f.data, unitNo |-> f.unitNo, unitCount |-> f.units]
             q == [WorkItemQueue EXCEPT ![i].State = "Ready"]
             r == [q EXCEPT ![i].FirstFragment = call[c].first]
  <2>1. CASE WorkItemQueue[i].State = "Free"
    <3>1. /\ f \in FragmentType /\ f.left > 0 /\ (f.remainder > 0 => f.units > 0)
          /\ call[c].first \in Slot
      BY <1>10 DEF PublishItem, TypeInv, TypeOK, FragmentInv, CallType
    <3>2. /\ NextFragment(f) \in FragmentType
          /\ NextFragment(f).remainder > 0 => NextFragment(f).units > 0
      BY <3>1, NextFragmentType
    <3>3. work \in WorkType
      BY <3>1 DEF WorkType, FragmentType
    <3>4. WorkItemQueue' = [r EXCEPT ![i].Encryption = work]
      BY <1>10, <2>1 DEF PublishItem
    <3>5. q \in [Slot -> ItemType]
      BY <1>0, ItemUpdate
    <3>6. r \in [Slot -> ItemType]
      <4> HIDE DEF q
      <4>1. QED  BY <3>1, <3>5, ItemUpdate
    <3>7. WorkItemQueue' \in [Slot -> ItemType]
      <4> HIDE DEF r, work
      <4>1. QED  BY <3>3, <3>4, <3>6, ItemUpdate
    <3>8. call' = [call EXCEPT ![c].fragment = NextFragment(f)]
      BY <1>10, <2>1 DEF PublishItem
    <3>9. call' \in [Caller -> CallType] /\ FragmentInv'
      <4> HIDE DEF f
      <4>1. QED  BY <1>10, <2>1, <3>1, <3>2, <3>8 DEF PublishItem, TypeInv, TypeOK, FragmentInv, CallType
    <3>10. QED
      BY <1>0, <1>10, <2>1, <3>7, <3>9 DEF PublishItem, TypeInv, TypeOK
  <2>2. CASE WorkItemQueue[i].State # "Free"
    BY <1>0, <1>10, <2>2 DEF PublishItem, TypeInv, TypeOK, FragmentInv
  <2>3. QED  BY <2>1, <2>2
<1>11. CASE SignalReady(c)
  BY <1>0, <1>11 DEF SignalReady, TypeInv, TypeOK, FragmentInv
<1>12. CASE AwaitCompletion(c)
  <2> DEFINE i == call[c].first
             q == [WorkItemQueue EXCEPT ![i].ItemCompletedEvent = FALSE]
  <2>1. i \in Slot /\ WorkItemQueue[i].ItemException \in BOOLEAN
    BY <1>12 DEF AwaitCompletion, TypeInv, TypeOK, FragmentInv, ItemType
  <2>2. q \in [Slot -> ItemType]
    BY <1>0, ItemUpdate
  <2>3. WorkItemQueue' \in [Slot -> ItemType]
    <3>1. WorkItemQueue' = [q EXCEPT ![i].ItemException = FALSE]
      BY <1>12 DEF AwaitCompletion
    <3> HIDE DEF q
    <3>2. QED  BY <2>2, <3>1, ItemUpdate
  <2>4. call' \in [Caller -> CallType] /\ FragmentInv'
    <3> DEFINE e == WorkItemQueue[i].ItemException
    <3>1. call' = [call EXCEPT ![c].thrown = e]
      BY <1>12 DEF AwaitCompletion
    <3>2. e \in BOOLEAN
      BY <2>1
    <3> HIDE DEF e
    <3>3. call' \in [Caller -> CallType]
      BY <3>1, <3>2 DEF TypeInv, TypeOK, CallType
    <3>4. FragmentInv'
      BY <1>12, <3>1 DEF AwaitCompletion, TypeInv, TypeOK, FragmentInv
    <3>5. QED  BY <3>3, <3>4
  <2>5. QED  BY <1>0, <1>12, <2>3, <2>4 DEF AwaitCompletion, TypeInv, TypeOK
<1>13. CASE ReleaseFirst(c)
  <2> DEFINE i == call[c].first
             q == [WorkItemQueue EXCEPT ![i].State = "Free"]
  <2>1. q \in [Slot -> ItemType]
    BY <1>0, ItemUpdate
  <2>2. WorkItemQueue' \in [Slot -> ItemType]
    <3>1. WorkItemQueue' = [q EXCEPT ![i].Encryption = NoWork]
      BY <1>13 DEF ReleaseFirst
    <3> HIDE DEF q
    <3>2. QED  BY <2>1, <3>1, NoWorkType, ItemUpdate
  <2>3. QED  BY <1>0, <1>13, <2>2 DEF ReleaseFirst, TypeInv, TypeOK, FragmentInv
<1>14. CASE SignalFirstFree(c)
  BY <1>0, <1>14 DEF SignalFirstFree, TypeInv, TypeOK, FragmentInv
<1>15. CASE Return(c)
  BY <1>0, <1>15, NoCallType DEF Return, TypeInv, TypeOK, FragmentInv
<1>16. QED
  BY <1>1, <1>2, <1>3, <1>4, <1>5, <1>6, <1>7, <1>8, <1>9, <1>10, <1>11, <1>12, <1>13,
     <1>14, <1>15 DEF CallerStep, InDoWork

LEMMA WorkerType == ASSUME TypeInv, NEW w \in Worker, WorkerStep(w)
                    PROVE  TypeInv'
<1> USE PoolAssumption
    DEF Goto, CallerControl, WorkerControl, Submitted, Returning, WorkerFrame, WorkerStep,
        ownerVars, headVars, tailVars, eventVars
<1> DEFINE i == workItem[w]
           first == WorkItemQueue[i].FirstFragment
<1>0. w \notin Caller /\ WorkItemQueue \in [Slot -> ItemType]
  BY DEF TypeInv, TypeOK
<1>1. CASE WorkerLoop(w)
  BY <1>0, <1>1 DEF WorkerLoop, TypeInv, TypeOK, FragmentInv
<1>2. CASE LockDequeue(w)
  BY <1>0, <1>2, NextSlotType DEF LockDequeue, TypeInv, TypeOK, FragmentInv, MaybeSlot
<1>3. CASE ClaimItem(w)
  <2>1. WorkItemQueue' = [WorkItemQueue EXCEPT ![i].State = "Busy"]
    BY <1>3 DEF ClaimItem
  <2>2. WorkItemQueue' \in [Slot -> ItemType]
    BY <1>0, <2>1, ItemUpdate
  <2>3. QED  BY <1>0, <1>3, <2>2 DEF ClaimItem, TypeInv, TypeOK, FragmentInv, MaybeSlot
<1>4. CASE WaitForItem(w)
  BY <1>0, <1>4 DEF WaitForItem, TypeInv, TypeOK, FragmentInv
<1>5. CASE AwaitReadyItem(w)
  BY <1>0, <1>5 DEF AwaitReadyItem, TypeInv, TypeOK, FragmentInv
<1>6. CASE CheckStop(w)
  BY <1>0, <1>6 DEF CheckStop, TypeInv, TypeOK, FragmentInv
<1>7. CASE RunItem(w)
  BY <1>0, <1>7 DEF RunItem, TypeInv, TypeOK, FragmentInv
<1>8. CASE FailItem(w)
  <2>1. WorkItemQueue' = [WorkItemQueue EXCEPT ![first].ItemException = TRUE]
    BY <1>8 DEF FailItem
  <2>2. WorkItemQueue' \in [Slot -> ItemType]
    BY <1>0, <2>1, ItemUpdate
  <2>3. QED  BY <1>0, <1>8, <2>2 DEF FailItem, TypeInv, TypeOK, FragmentInv, MaybeSlot
<1>9. CASE FreeItem(w)
  <2>1. CASE FreedByWorker(i)
    <3> DEFINE q == [WorkItemQueue EXCEPT ![i].State = "Free"]
    <3>1. q \in [Slot -> ItemType]
      BY <1>0, ItemUpdate
    <3>2. WorkItemQueue' = [q EXCEPT ![i].Encryption = NoWork]
      BY <1>9, <2>1 DEF FreeItem
    <3> HIDE DEF q
    <3>3. WorkItemQueue' \in [Slot -> ItemType]
      BY <3>1, <3>2, NoWorkType, ItemUpdate
    <3>4. QED  BY <1>0, <1>9, <2>1, <3>3 DEF FreeItem, TypeInv, TypeOK, FragmentInv
  <2>2. CASE ~FreedByWorker(i)
    BY <1>0, <1>9, <2>2 DEF FreeItem, TypeInv, TypeOK, FragmentInv
  <2>3. QED  BY <2>1, <2>2
<1>10. CASE SignalItemFree(w)
  BY <1>0, <1>10 DEF SignalItemFree, TypeInv, TypeOK, FragmentInv
<1>11. CASE DecrementOutstanding(w)
  <2>1. WorkItemQueue' = [WorkItemQueue EXCEPT ![first].Outstanding = @ - 1]
    BY <1>11 DEF DecrementOutstanding
  <2>2. WorkItemQueue' \in [Slot -> ItemType]
    BY <1>0, <2>1, ItemUpdate
  <2>3. QED  BY <1>0, <1>11, <2>2 DEF DecrementOutstanding, TypeInv, TypeOK, FragmentInv, MaybeSlot
<1>12. CASE SignalCompletion(w)
  <2>1. WorkItemQueue' = [WorkItemQueue EXCEPT ![first].ItemCompletedEvent = TRUE]
    BY <1>12 DEF SignalCompletion
  <2>2. WorkItemQueue' \in [Slot -> ItemType]
    BY <1>0, <2>1, ItemUpdate
  <2>3. QED  BY <1>0, <1>12, <2>2 DEF SignalCompletion, TypeInv, TypeOK, FragmentInv, MaybeSlot
<1>13. QED
  BY <1>1, <1>2, <1>3, <1>4, <1>5, <1>6, <1>7, <1>8, <1>9, <1>10, <1>11, <1>12
     DEF InWorkThreadProc

LEMMA OwnerType == ASSUME TypeInv, OwnerStep
                   PROVE  TypeInv'
<1> USE PoolConstants, PoolAssumption
        DEF OwnerGoto, OwnerControl, OwnerFrame, StopStep, ownerVars, headVars, tailVars,
            eventVars, threadVars
<1>1. CASE Start
  <2>1. WorkItemQueue' \in [Slot -> ItemType]
    <3>1. \A i \in Slot : [WorkItemQueue[i] EXCEPT !.State = "Free"] \in ItemType
      BY DEF TypeInv, TypeOK, ItemType
    <3>2. QED  BY <1>1, <3>1 DEF Start
  <2>2. QED  BY <1>1, <2>1 DEF Start, TypeInv, TypeOK, FragmentInv
<1>2. CASE StartThread
  BY <1>2 DEF StartThread, TypeInv, TypeOK, FragmentInv, WorkerControl
<1>3. CASE StopSignal
  BY <1>3 DEF StopSignal, TypeInv, TypeOK, FragmentInv
<1>4. CASE (StopRequest \/ StopJoin \/ StopDone) /\ OwnerFrame
  <2>1. CASE StopRequest
    BY <1>4, <2>1 DEF StopRequest, TypeInv, TypeOK, FragmentInv
  <2>2. CASE StopJoin
    BY <1>4, <2>2 DEF StopJoin, TypeInv, TypeOK, FragmentInv
  <2>3. CASE StopDone
    BY <1>4, <2>3 DEF StopDone, TypeInv, TypeOK, FragmentInv
  <2>4. QED  BY <1>4, <2>1, <2>2, <2>3
<1>5. CASE (StartThreadFails \/ StartDone \/ Stop) /\ OwnerFrame
  BY <1>5 DEF StartThreadFails, StartDone, Stop, TypeInv, TypeOK, FragmentInv
<1>6. QED  BY <1>1, <1>2, <1>3, <1>4, <1>5 DEF OwnerStep

LEMMA TypeStep == TypeInv /\ [Next]_vars => TypeInv'
<1> SUFFICES ASSUME TypeInv, [Next]_vars
             PROVE  TypeInv'
  OBVIOUS
<1>1. CASE UNCHANGED vars
  BY <1>1 DEF vars, ownerVars, headVars, tailVars, eventVars, threadVars,
              TypeInv, TypeOK, FragmentInv
<1>2. QED  BY <1>1, CallerType, WorkerType, OwnerType DEF Next

----------------------------------------------------------------------------
(* The inductive invariant *)

\* Where a caller has the queue, and where its first item is set up.
Enqueuing == {"first", "firstWait", "next", "item", "itemWait", "signal"}
Active == Submitted \cup {"release"}

\* Where callers are that never touch the queue, or no longer.
Outside == {"idle", "current", "currentDone", "return"}

\* Threads are where the state of the pool lets them be.
ControlInv ==
  /\ \A c \in Caller : pc[c] \in CallerControl /\ (pc[c] \in Enqueuing <=> EnqueueMutex = c)
  /\ \A w \in Worker : /\ pc[w] \in WorkerControl /\ (w \notin RunningThreads => pc[w] = "none")
                       /\ pc[w] \notin {"none", "loop", "lock", "exit"} => workItem[w] \in Slot
  /\ opc \in {"created", "starting"} => ~ThreadPoolRunning /\ ~StopPending
  /\ ~ThreadPoolRunning => \/ \A c \in Caller : pc[c] \in Outside
                           \/ opc = "stopped"
  /\ opc = "created" => RunningThreads = {}

\* A worker has its item: it is Busy, and nobody else has it.  Once the pool
\* stops, a worker that claims an item leaves it alone.
Has(w) == pc[w] \in {"run", "ran"} \/ (pc[w] = "claimed" /\ ~StopPending)
HasInv ==
  \A w \in Worker : Has(w) =>
    /\ WorkItemQueue[workItem[w]].State = "Busy"
    /\ \A v \in Worker \ {w} : Has(v) => workItem[v] # workItem[w]

\* The slot that is filled in next, and slots between a first one and that one.
PublishPosition ==
  IF \E c \in Caller : pc[c] \in {"item", "itemWait"}
  THEN call[EnqueueMutex].item ELSE EnqueuePosition
Distance(i, j) == IF i <= j THEN j - i ELSE j - i + QueueSize
Passed(i, j, k) == Distance(i, j) < IF k = i THEN QueueSize ELSE Distance(i, k)

Position(c) ==
  /\ pc[c] \in {"first", "firstWait"} => call[c].first = EnqueuePosition
  /\ pc[c] \in {"item", "itemWait"} => /\ call[c].item \in Slot
                                       /\ EnqueuePosition = NextSlot(call[c].item)
PositionInv == \A c \in Caller : Position(c)

\* Workers with a fragment that is not counted down, or whose completion is not signalled.
Counts(w) == Has(w) \/ pc[w] \in {"freed", "decrement"}
Engaged(w) == Counts(w) \/ pc[w] = "complete"
Live(i) == WorkItemQueue[i].State = "Ready" \/ \E w \in Worker : Engaged(w) /\ workItem[w] = i

\* A live item belongs to a request in progress; its first item is in use, and
\* the ring has not gone round past it.
LiveInv ==
  \A i \in Slot : Live(i) =>
    LET f == WorkItemQueue[i].FirstFragment IN
    /\ f \in Slot /\ WorkItemQueue[f].State # "Free" /\ WorkItemQueue[f].FirstFragment = f
    /\ Passed(f, i, PublishPosition)
    /\ \E c \in Caller : pc[c] \in Submitted /\ call[c].first = f

\* The first item of a request is its own.
FirstInv ==
  \A c \in Caller : pc[c] \in Active =>
    LET f == call[c].first IN
    /\ f \in Slot
    /\ \/ WorkItemQueue[f].State # "Free" /\ WorkItemQueue[f].FirstFragment = f
       \/ /\ pc[c] \in {"next", "item", "itemWait"}
          /\ PublishPosition = f /\ call[c].fragment.data = 0
    /\ \A d \in Caller \ {c} : pc[d] \in Active => call[d].first # f

\* The count of a request: exact until the pool stops, and then never too small.
Belongs(i, c) == WorkItemQueue[i].FirstFragment = call[c].first
Working(c) == {w \in Worker : Counts(w) /\ Belongs(workItem[w], c)}
Total(c) == call[c].fragment.left + Cardinality(Waiting(c)) + Cardinality(Working(c))
Outstanding(c) == WorkItemQueue[call[c].first].Outstanding
CountInv ==
  \A c \in Caller : pc[c] \in Submitted =>
    /\ Outstanding(c) >= Total(c) /\ (~StopPending => Outstanding(c) = Total(c))
    /\ pc[c] = "await" => call[c].fragment.left = 0

\* The completion is signalled once, by the last fragment.
CompleteInv ==
  /\ \A w \in Worker : pc[w] = "complete" =>
       LET f == WorkItemQueue[workItem[w]].FirstFragment IN
       /\ WorkItemQueue[f].Outstanding = 0 /\ ~WorkItemQueue[f].ItemCompletedEvent
       /\ \A v \in Worker \ {w} :
            pc[v] = "complete" => WorkItemQueue[workItem[v]].FirstFragment # f
  /\ \A i \in Slot : WorkItemQueue[i].ItemCompletedEvent =>
       /\ WorkItemQueue[i].Outstanding = 0
       /\ \E c \in Caller : pc[c] \in Submitted /\ call[c].first = i

\* Work that waits or is about to be done is part of its request.
Workable(i) ==
  \/ WorkItemQueue[i].State = "Ready"
  \/ \E w \in Worker : workItem[w] = i /\ Has(w) /\ pc[w] # "ran"
WorkInv ==
  \A i \in Slot : Workable(i) =>
    LET e == WorkItemQueue[i].Encryption IN
    /\ e.caller \in Caller /\ pc[e.caller] \in Submitted /\ Belongs(i, e.caller)
    /\ e.unitCount > 0 /\ e.unitNo = e.data
    /\ e.data + e.unitCount <= call[e.caller].fragment.data

\* The cut of a request: what is left makes up the units that are left.
CutOf(f, n) ==
  /\ f.unitNo = f.data
  /\ f.remainder <= f.left /\ f.units > (IF f.remainder > 0 THEN 1 ELSE 0)
  /\ n = f.data + f.left * (f.units - IF f.remainder > 0 THEN 1 ELSE 0) + f.remainder
Cut(c) ==
  LET f == call[c].fragment IN
  /\ pc[c] # "idle" => call[c].unitCount \in Nat \ {0}
  /\ pc[c] \notin Outside \cup {"split", "fault"} => CutOf(f, call[c].unitCount)
  /\ pc[c] \in {"lock", "first", "firstWait"} => f.data = 0
CutInv == \A c \in Caller : Cut(c)

PoolInv ==
  /\ TypeInv /\ ControlInv /\ HasInv /\ PositionInv /\ LiveInv /\ FirstInv /\ CountInv
  /\ CompleteInv /\ WorkInv /\ CutInv

\* The buffer of a caller: untouched, or in the middle of a request.
Units(i) == LET e == WorkItemQueue[i].Encryption IN e.data .. e.data + e.unitCount - 1
Undone(c, u) == data[c][u] = <<>>
Buffer(c) ==
  /\ pc[c] # "idle" => DOMAIN data[c] = 0 .. call[c].unitCount - 1
  /\ \A u \in DOMAIN data[c] : data[c][u] \in {<<>>, <<u>>}
  /\ pc[c] \in CallerControl \ (Returning \cup {"currentDone"}) =>
       \A u \in DOMAIN data[c] :
         pc[c] \notin Submitted \/ u >= call[c].fragment.data => Undone(c, u)
  /\ pc[c] = "currentDone" => \A u \in DOMAIN data[c] : ~Undone(c, u)
  /\ pc[c] \in Returning => (call[c].thrown <=> \E u \in DOMAIN data[c] : Undone(c, u))
  /\ pc[c] \notin Returning => ~call[c].thrown
BufferInv == data = [c \in Caller |-> data[c]] /\ \A c \in Caller : Buffer(c)

\* What waits or is about to be done was not done before, and nothing else does it.
FreshInv ==
  \A i \in Slot : Workable(i) =>
    LET c == WorkItemQueue[i].Encryption.caller IN
    /\ \A u \in Units(i) : Undone(c, u)
    /\ \A j \in Slot \ {i} : Workable(j) /\ WorkItemQueue[j].Encryption.caller = c =>
         Units(i) \cap Units(j) = {}
Covered(c, u) == \E i \in Slot : Workable(i) /\ Belongs(i, c) /\ u \in Units(i)
\* What was published is done, was given up with an exception, or will be done,
\* unless a fragment was lost, and then the count does not reach zero.
Loss(c) ==
  LET thrown == WorkItemQueue[call[c].first].ItemException
      published == 0 .. call[c].fragment.data - 1 IN
  /\ Outstanding(c) = Total(c) =>
       \A u \in published : ~Undone(c, u) \/ thrown \/ Covered(c, u)
  /\ thrown => \E u \in published : Undone(c, u) /\ ~Covered(c, u)
LossInv == \A c \in Caller : pc[c] \in Submitted => Loss(c)

DataInv == BufferInv /\ FreshInv /\ LossInv

\* The ring: what was passed stays passed until the first slot is reached again.
LEMMA RingSteps ==
  ASSUME NEW i \in Slot, NEW j \in Slot, NEW k \in Slot
  PROVE  /\ Passed(i, i, k) /\ Passed(i, k, NextSlot(k))
         /\ Passed(i, j, k) /\ k # i => Passed(i, j, NextSlot(k)) /\ j # k
BY PoolAssumption DEF Passed, Distance, NextSlot, Slot, QueueSize

LEMMA InitPoolInv == Init => PoolInv
<1> SUFFICES ASSUME Init PROVE PoolInv
  OBVIOUS
<1>1. TypeInv
  BY TypeInit
<1>2. \A c \in Caller : pc[c] = "idle" /\ call[c] = NoCall
  BY DEF Init
<1>3. \A w \in Worker : pc[w] = "none"
  BY PoolAssumption DEF Init
<1>4. \A i \in Slot : /\ WorkItemQueue[i].State = "Free" /\ ~WorkItemQueue[i].ItemCompletedEvent
  BY DEF Init
<1>5. ControlInv
  BY <1>2, <1>3, PoolAssumption
     DEF Init, ControlInv, CallerControl, WorkerControl, Enqueuing, Outside
<1>6. HasInv /\ LiveInv /\ CompleteInv /\ WorkInv
  BY <1>3, <1>4 DEF HasInv, LiveInv, CompleteInv, WorkInv, Has, Live, Engaged, Counts, Workable
<1>7. PositionInv /\ FirstInv /\ CountInv /\ CutInv
  BY <1>2 DEF PositionInv, Position, FirstInv, CountInv, CutInv, Cut, Active, Submitted, Outside
<1> QED
  BY <1>1, <1>5, <1>6, <1>7 DEF PoolInv

\* Where the caller that has the queue is filling in the ring.
LEMMA PublishAt ==
  ASSUME ControlInv, NEW c \in Caller, EnqueueMutex = c
  PROVE  PublishPosition = IF pc[c] \in {"item", "itemWait"} THEN call[c].item ELSE EnqueuePosition
<1>1. \A d \in Caller : pc[d] \in {"item", "itemWait"} => d = c
  BY DEF ControlInv, Enqueuing
<1>2. QED  BY <1>1 DEF PublishPosition

\* A step of one caller between two other control states.
CallerMoves(c, from, to) ==
  /\ Goto(c, from, to) /\ TypeInv' /\ UNCHANGED <<ownerVars, tailVars, workItem>>
  /\ \A d \in Caller \ {c} : call'[d] = call[d]

LEMMA OthersStay ==
  ASSUME TypeInv, NEW c \in Caller, NEW from, NEW to, CallerMoves(c, from, to)
  PROVE  /\ pc[c] = from /\ pc'[c] = to /\ \A t \in (Caller \cup Worker) \ {c} : pc'[t] = pc[t]
         /\ \A w \in Worker : pc'[w] = pc[w] /\ workItem'[w] = workItem[w]
         /\ UNCHANGED <<ThreadPoolRunning, StopPending, RunningThreads, opc>>
BY PoolAssumption DEF CallerMoves, Goto, TypeInv, TypeOK, ownerVars

\* The count stays right, and a count that is too large stays so.
CountKeeps ==
  \A d \in Caller : pc'[d] \in Submitted =>
    /\ Outstanding(d)' >= Total(d)' /\ (~StopPending' => Outstanding(d)' = Total(d)')
    /\ pc'[d] = "await" => call'[d].fragment.left = 0
    /\ pc[d] \in Submitted /\ Outstanding(d)' = Total(d)' => Outstanding(d) = Total(d)

\* What a step of a caller or of a worker keeps.
CallerKeeps == HasInv' /\ LiveInv' /\ FirstInv' /\ CountKeeps /\ CompleteInv' /\ WorkInv'
RingKeeps == ControlInv' /\ PositionInv' /\ CutInv'

\* A caller that neither submits a request nor changes the ring.
LEMMA QuietCaller ==
  ASSUME PoolInv, NEW c \in Caller, NEW from, NEW to, CallerMoves(c, from, to),
         WorkItemQueue' = WorkItemQueue,
         from \in Submitted <=> to \in Submitted, from \in Active <=> to \in Active,
         to \in Active => call'[c].first = call[c].first /\ call'[c].fragment = call[c].fragment,
         PublishPosition' = PublishPosition,
         from \in {"next", "item", "itemWait"} =>
           to \in {"next", "item", "itemWait"} \/ call[c].fragment.data # 0,
         to = "await" => call[c].fragment.left = 0
  PROVE  CallerKeeps
<1>1. /\ pc[c] = from /\ pc'[c] = to /\ \A t \in (Caller \cup Worker) \ {c} : pc'[t] = pc[t]
      /\ \A w \in Worker : pc'[w] = pc[w] /\ workItem'[w] = workItem[w]
      /\ StopPending' = StopPending
      /\ \A d \in Caller \ {c} : call'[d] = call[d]
  BY OthersStay DEF PoolInv, CallerMoves
<1>2. \A w \in Worker : /\ Has(w)' <=> Has(w)
                        /\ Counts(w)' <=> Counts(w)
                        /\ Engaged(w)' <=> Engaged(w)
  <2> SUFFICES ASSUME NEW w \in Worker
               PROVE  (Has(w)' <=> Has(w)) /\ (Counts(w)' <=> Counts(w)) /\ (Engaged(w)' <=> Engaged(w))
    OBVIOUS
  <2>1. pc'[w] = pc[w] /\ StopPending' = StopPending
    BY <1>1
  <2>2. QED  BY <2>1 DEF Has, Counts, Engaged
<1>3. /\ \A d \in Caller : pc'[d] \in Submitted <=> pc[d] \in Submitted
      /\ \A d \in Caller : pc'[d] \in Active <=> pc[d] \in Active
      /\ \A d \in Caller : pc[d] \in Active => /\ call'[d].first = call[d].first
                                               /\ call'[d].fragment = call[d].fragment
      /\ \A d \in Caller : pc[d] \in Submitted => pc[d] \in Active
  BY <1>1 DEF Active
<1>4. HasInv'
  BY <1>1, <1>2 DEF PoolInv, HasInv
<1>5. LiveInv'
  <2>1. \A i \in Slot : Live(i)' <=> Live(i)
    BY <1>1, <1>2 DEF Live
  <2>2. \A f, i : Passed(f, i, PublishPosition)' <=> Passed(f, i, PublishPosition)
    BY DEF Passed, Distance
  <2>3. QED  BY <1>1, <1>3, <2>1, <2>2 DEF PoolInv, LiveInv, Active
<1>6. FirstInv'
  BY <1>1, <1>3 DEF PoolInv, FirstInv
<1>7. CountKeeps
  <2> SUFFICES ASSUME NEW d \in Caller, pc'[d] \in Submitted
               PROVE  /\ Outstanding(d)' >= Total(d)' 
                      /\ (~StopPending' => Outstanding(d)' = Total(d)')
                      /\ pc'[d] = "await" => call'[d].fragment.left = 0
                      /\ (pc[d] \in Submitted /\ Outstanding(d)' = Total(d)' => Outstanding(d) = Total(d))
    BY DEF CountKeeps
  <2>1. Waiting(d)' = Waiting(d) /\ Working(d)' = Working(d)
    <3>1. call'[d].first = call[d].first
      BY <1>3
    <3>2. Waiting(d)' = Waiting(d)
      BY <3>1 DEF Waiting
    <3>3. Working(d)' = Working(d)
      BY <1>1, <1>2, <3>1 DEF Working, Belongs
    <3>4. QED  BY <3>2, <3>3
  <2>2. Total(d)' = Total(d) /\ Outstanding(d)' = Outstanding(d)
    BY <1>3, <2>1 DEF Total, Outstanding
  <2>3. QED  BY <1>1, <1>3, <2>2 DEF PoolInv, CountInv
<1>8. CompleteInv'
  BY <1>1, <1>3 DEF PoolInv, CompleteInv
<1>9. WorkInv'
  <2>1. \A i \in Slot : Workable(i)' <=> Workable(i)
    BY <1>1, <1>2 DEF Workable
  <2>2. QED  BY <1>1, <1>3, <2>1 DEF PoolInv, WorkInv, Belongs
<1>10. QED  BY <1>4, <1>5, <1>6, <1>7, <1>8, <1>9 DEF CallerKeeps

\* The mutex is taken and released with the control states that need it.
LEMMA CallerControlStep ==
  ASSUME PoolInv, NEW c \in Caller, NEW from, NEW to, CallerMoves(c, from, to),
         to \in CallerControl,
         from \in Enqueuing /\ to \in Enqueuing => EnqueueMutex' = EnqueueMutex,
         from \in Enqueuing /\ to \notin Enqueuing => EnqueueMutex' = NoThread,
         from \notin Enqueuing /\ to \in Enqueuing => EnqueueMutex = NoThread /\ EnqueueMutex' = c,
         from \notin Enqueuing /\ to \notin Enqueuing => EnqueueMutex' = EnqueueMutex,
         from \in Outside /\ to \notin Outside => ThreadPoolRunning
  PROVE  ControlInv'
<1>1. /\ pc[c] = from /\ pc'[c] = to /\ \A t \in (Caller \cup Worker) \ {c} : pc'[t] = pc[t]
      /\ \A w \in Worker : pc'[w] = pc[w] /\ workItem'[w] = workItem[w]
      /\ UNCHANGED <<ThreadPoolRunning, StopPending, RunningThreads, opc>>
  BY OthersStay DEF PoolInv
<1>2. \A d \in Caller : pc'[d] \in CallerControl /\ (pc'[d] \in Enqueuing <=> EnqueueMutex' = d)
  BY <1>1, PoolAssumption DEF PoolInv, ControlInv
<1>3. /\ \A w \in Worker : /\ pc'[w] \in WorkerControl /\ (w \notin RunningThreads' => pc'[w] = "none")
                           /\ pc'[w] \notin {"none", "loop", "lock", "exit"} => workItem'[w] \in Slot
      /\ opc' \in {"created", "starting"} => ~ThreadPoolRunning' /\ ~StopPending'
      /\ opc' = "created" => RunningThreads' = {}
  BY <1>1 DEF PoolInv, ControlInv
<1>4. ~ThreadPoolRunning' => \/ \A d \in Caller : pc'[d] \in Outside
                             \/ opc' = "stopped"
  BY <1>1 DEF PoolInv, ControlInv
<1>5. QED  BY <1>2, <1>3, <1>4 DEF ControlInv

\* The other callers are not in the queue, or the queue does not change.
LEMMA CallerPositionStep ==
  ASSUME PoolInv, NEW c \in Caller, NEW from, NEW to, CallerMoves(c, from, to), ControlInv',
         to \notin Enqueuing => UNCHANGED EnqueuePosition, Position(c)'
  PROVE  PositionInv'
<1> SUFFICES ASSUME NEW d \in Caller, d # c
             PROVE  Position(d)'
  BY DEF PositionInv
<1>1. pc'[c] = to /\ pc'[d] = pc[d] /\ call'[d] = call[d]
  BY OthersStay DEF PoolInv, CallerMoves
<1>2. CASE to \in Enqueuing
  <2>1. pc'[d] \notin Enqueuing
    BY <1>1, <1>2 DEF ControlInv
  <2>2. QED  BY <2>1 DEF Position, Enqueuing
<1>3. CASE to \notin Enqueuing
  BY <1>1, <1>3 DEF PoolInv, PositionInv, Position
<1>4. QED  BY <1>2, <1>3

LEMMA CallerCutStep ==
  ASSUME PoolInv, NEW c \in Caller, NEW from, NEW to, CallerMoves(c, from, to), Cut(c)'
  PROVE  CutInv'
<1>1. \A d \in Caller \ {c} : pc'[d] = pc[d] /\ call'[d] = call[d]
  BY OthersStay DEF PoolInv, CallerMoves
<1>2. QED  BY <1>1 DEF PoolInv, CutInv, Cut

\* The position of the queue moves, and the caller that has it fills it in.
LEMMA PublishStays ==
  ASSUME PoolInv, NEW c \in Caller, NEW from, NEW to, CallerMoves(c, from, to), ControlInv',
         \/ UNCHANGED EnqueuePosition /\ {from, to} \cap {"item", "itemWait"} = {}
         \/ UNCHANGED EnqueuePosition /\ call'[c].item = call[c].item
              /\ {from, to} \subseteq {"item", "itemWait"}
         \/ from \in Enqueuing \ {"item", "itemWait"} /\ to \in {"item", "itemWait"}
              /\ call'[c].item = EnqueuePosition
  PROVE  PublishPosition' = PublishPosition
<1>1. /\ pc[c] = from /\ pc'[c] = to /\ \A d \in Caller \ {c} : pc'[d] = pc[d] /\ call'[d] = call[d]
  BY OthersStay DEF PoolInv, CallerMoves
<1>2. /\ \A d \in Caller : pc[d] \in {"item", "itemWait"} => EnqueueMutex = d
      /\ \A d \in Caller : pc'[d] \in {"item", "itemWait"} => EnqueueMutex' = d
      /\ pc[c] \in Enqueuing => EnqueueMutex = c
      /\ pc'[c] \in Enqueuing => EnqueueMutex' = c
  BY DEF PoolInv, ControlInv, Enqueuing
<1>3. CASE UNCHANGED EnqueuePosition /\ {from, to} \cap {"item", "itemWait"} = {}
  <2>1. CASE \E d \in Caller : pc[d] \in {"item", "itemWait"}
    <3>1. PICK d \in Caller : pc[d] \in {"item", "itemWait"}
      BY <2>1
    <3>2. d # c /\ pc'[d] \in {"item", "itemWait"} /\ call'[d] = call[d]
      BY <1>1, <1>3, <3>1
    <3>3. QED  BY <1>2, <3>1, <3>2 DEF PublishPosition
  <2>2. CASE ~\E d \in Caller : pc[d] \in {"item", "itemWait"}
    <3>1. ~\E d \in Caller : pc'[d] \in {"item", "itemWait"}
      BY <1>1, <1>3, <2>2
    <3>2. QED  BY <1>3, <2>2, <3>1 DEF PublishPosition
  <2>3. QED  BY <2>1, <2>2
<1>4. CASE UNCHANGED EnqueuePosition /\ call'[c].item = call[c].item
             /\ {from, to} \subseteq {"item", "itemWait"}
  BY <1>1, <1>2, <1>4 DEF PublishPosition
<1>5. CASE from \in Enqueuing \ {"item", "itemWait"} /\ to \in {"item", "itemWait"}
             /\ call'[c].item = EnqueuePosition
  <2>1. ~\E d \in Caller : pc[d] \in {"item", "itemWait"}
    BY <1>1, <1>2, <1>5
  <2>2. pc'[c] \in {"item", "itemWait"} /\ EnqueueMutex' = c
    BY <1>1, <1>2, <1>5 DEF Enqueuing
  <2>3. QED  BY <1>5, <2>1, <2>2 DEF PublishPosition
<1>6. QED  BY <1>3, <1>4, <1>5

LEMMA SplitCut ==
  ASSUME ThreadCount \in Nat \ {0}, NEW n \in Nat \ {0}
  PROVE  CutOf(Split(n), n) /\ Split(n).data = 0
<1>1. CASE n <= ThreadCount
  BY <1>1 DEF Split, CutOf
<1>2. CASE n > ThreadCount
  <2> DEFINE q == n \div ThreadCount  r == n % ThreadCount  t == ThreadCount
  <2>1. q \in Nat /\ r \in Nat /\ r < t /\ n = t * q + r /\ t \in Nat
    OBVIOUS
  <2>2. q > 0
    <3>1. SUFFICES ASSUME q = 0 PROVE FALSE
      BY <2>1
    <3>2. t * q = 0
      BY <2>1, <3>1
    <3>3. QED  BY <1>2, <2>1, <3>2
  <2>3. Split(n) = [left |-> t, remainder |-> r, data |-> 0, unitNo |-> 0,
                    units |-> q + (IF r > 0 THEN 1 ELSE 0)]
    BY <1>2 DEF Split
  <2> HIDE DEF q, r, t
  <2>4. q + 1 - 1 = q /\ q + 0 - 0 = q
    BY <2>1
  <2>5. QED  BY <2>1, <2>2, <2>3, <2>4 DEF CutOf
<1>3. QED  BY <1>1, <1>2

LEMMA NextFragmentCut ==
  ASSUME NEW f \in FragmentType, NEW n \in Nat, f.left > 0, CutOf(f, n)
  PROVE  /\ CutOf(NextFragment(f), n)
         /\ f.data + f.units = NextFragment(f).data
         /\ NextFragment(f).data <= n /\ f.units > 0
<1> DEFINE g == NextFragment(f)
           share(x) == IF x.remainder > 0 THEN 1 ELSE 0
           base == f.units - share(f)
<1>1. /\ f.left \in Nat /\ f.units \in Nat /\ f.remainder \in Nat /\ f.data \in Nat
      /\ f.unitNo = f.data /\ f.remainder <= f.left /\ base \in Nat /\ base > 0
      /\ n = f.data + f.left * base + f.remainder
  BY DEF CutOf, FragmentType
<1>2. /\ g.left = f.left - 1 /\ g.data = f.data + f.units /\ g.unitNo = g.data
      /\ g.remainder = f.remainder - share(f) /\ g.units = base + share(g)
  BY <1>1 DEF NextFragment
<1>3. f.units = base + share(f)
  BY <1>1
<1>4. g.units - share(g) = base /\ g.remainder <= g.left /\ g.units > share(g)
  BY <1>1, <1>2
<1> HIDE DEF base, g
<1>5. f.left * base = (f.left - 1) * base + base /\ (f.left - 1) * base \in Nat
  BY <1>1
<1>6. n = g.data + g.left * base + g.remainder
  <2>1. g.left * base = (f.left - 1) * base
    BY <1>2
  <2> DEFINE m == (f.left - 1) * base  k == f.left * base
  <2>2. m \in Nat /\ k = m + base /\ g.left * base = m
    BY <1>5, <2>1
  <2>3. n = f.data + k + f.remainder
    BY <1>1
  <2> HIDE DEF m, k
  <2>4. g.data + m + g.remainder = n
    BY <1>1, <1>2, <1>3, <2>2, <2>3
  <2>5. QED  BY <2>2, <2>4
<1>7. CutOf(g, n)
  BY <1>2, <1>4, <1>6 DEF CutOf
<1>8. g.left * base \in Nat /\ g.remainder \in Nat
  BY <1>1, <1>2, <1>5
<1>9. g.data <= n
  <2> DEFINE m == g.left * base
  <2>1. m \in Nat /\ n = g.data + m + g.remainder
    BY <1>6, <1>8
  <2> HIDE DEF m
  <2>2. QED  BY <1>1, <1>2, <1>8, <2>1
<1>10. QED  BY <1>1, <1>2, <1>3, <1>7, <1>9 DEF g

\* Outside the queue: the request is made, cut, done by the caller, returned.
LEMMA OutsideStep ==
  ASSUME PoolInv, TypeInv', NEW c \in Caller, CallerFrame,
         \/ DoWork(c) \/ CurrentThread(c) \/ CurrentThreadDone(c) \/ SplitRequest(c)
         \/ SignalFirstFree(c) \/ Return(c)
  PROVE  CallerKeeps /\ RingKeeps
<1> DEFINE to == pc'[c]
<1>1. /\ CallerMoves(c, pc[c], to) /\ UNCHANGED <<EnqueuePosition, EnqueueMutex, WorkItemQueue>>
      /\ call[c] \in CallType
  BY PoolAssumption
     DEF PoolInv, TypeInv, TypeOK, CallerMoves, CallerFrame, headVars, Goto, DoWork, CurrentThread,
         CurrentThreadDone, SplitRequest, SignalFirstFree, Return
<1>2. /\ pc[c] \in {"idle", "current", "currentDone", "split", "signalFree", "return"}
      /\ to \in {"idle", "current", "currentDone", "split", "return", "fault", "lock"}
      /\ pc[c] \in Outside /\ to \notin Outside => ThreadPoolRunning
  BY DEF PoolInv, TypeInv, TypeOK, Goto, DoWork, CurrentThread, CurrentThreadDone, SplitRequest,
         SignalFirstFree, Return, Outside
<1>3. Cut(c)'
  <2>1. CASE DoWork(c)
    <3>1. PICK n \in UnitCounts : /\ Goto(c, "idle", IF ~ThreadPoolRunning \/ n = 1 THEN "current" ELSE "split")
                                  /\ call' = [call EXCEPT ![c].unitCount = n]
      BY <2>1 DEF DoWork
    <3>2. to \in {"current", "split"} /\ call'[c].unitCount = n
      BY <3>1 DEF PoolInv, TypeInv, TypeOK, Goto, CallType
    <3>3. QED  BY <3>2, PoolAssumption DEF Cut, Outside
  <2>2. CASE SplitRequest(c)
    <3>1. /\ pc[c] = "split" /\ to = IF ThreadCount = 0 THEN "fault" ELSE "lock"
          /\ ThreadCount # 0 => call'[c].fragment = Split(call[c].unitCount)
          /\ call'[c].unitCount = call[c].unitCount
      BY <2>2, <1>1 DEF PoolInv, TypeInv, TypeOK, Goto, SplitRequest, CallType
    <3>2. call[c].unitCount \in Nat \ {0} /\ ThreadCount \in Nat
      BY <3>1 DEF PoolInv, TypeInv, TypeOK, CutInv, Cut
    <3>3. CASE ThreadCount = 0
      BY <3>1, <3>2, <3>3 DEF Cut
    <3>4. CASE ThreadCount # 0
      BY <3>1, <3>2, <3>4, SplitCut DEF Cut
    <3>5. QED  BY <3>3, <3>4
  <2>3. CASE CurrentThread(c) \/ CurrentThreadDone(c) \/ SignalFirstFree(c)
    <3>1. /\ pc[c] # "idle" /\ to \in {"currentDone", "return"}
          /\ call'[c].unitCount = call[c].unitCount
      BY <2>3 DEF CurrentThread, CurrentThreadDone, SignalFirstFree, PoolInv, TypeInv, TypeOK, Goto, CallType
    <3>2. QED  BY <3>1 DEF PoolInv, CutInv, Cut, Outside
  <2>4. CASE Return(c)
    BY <2>4 DEF Return, PoolInv, TypeInv, TypeOK, Goto, Cut, Outside
  <2>5. QED  BY <2>1, <2>2, <2>3, <2>4
<1>4. ControlInv'
  <2> HIDE DEF to
  <2>1. /\ to \in CallerControl /\ pc[c] \notin Enqueuing /\ to \notin Enqueuing
        /\ EnqueueMutex' = EnqueueMutex
    BY <1>1, <1>2 DEF CallerControl, Returning, Enqueuing
  <2>2. QED  BY <1>1, <1>2, <2>1, CallerControlStep
<1>5. PositionInv'
  <2> HIDE DEF to
  <2>1. Position(c)'
    BY <1>2 DEF Position, to
  <2>2. QED  BY <1>1, <1>4, <2>1, CallerPositionStep
<1>6. CutInv'
  BY <1>1, <1>3, CallerCutStep
<1>7. PublishPosition' = PublishPosition
  <2>1. {pc[c], to} \cap {"item", "itemWait"} = {}
    BY <1>2
  <2> HIDE DEF to
  <2>2. QED  BY <1>1, <1>4, <2>1, PublishStays
<1>8. CallerKeeps
  <2>1. /\ pc[c] \notin Submitted /\ to \notin Submitted /\ pc[c] \notin Active /\ to \notin Active
        /\ pc[c] \notin {"next", "item", "itemWait"} /\ to # "await"
    BY <1>2 DEF Submitted, Active
  <2> HIDE DEF to
  <2>2. QED  BY <1>1, <1>7, <2>1, QuietCaller
<1>9. QED  BY <1>4, <1>5, <1>6, <1>8 DEF RingKeeps

\* The queue is taken, the next item of the ring is chosen, a wait ends.
LEMMA QueueStep ==
  ASSUME PoolInv, TypeInv', NEW c \in Caller, CallerFrame,
         \/ LockEnqueue(c) \/ AwaitFreeItem(c) \/ NextItem(c) \/ UnlockEnqueue(c)
         \/ SignalReady(c)
  PROVE  CallerKeeps /\ RingKeeps
<1> DEFINE to == pc'[c]
<1>1. CallerMoves(c, pc[c], to) /\ WorkItemQueue' = WorkItemQueue /\ call[c] \in CallType
  BY PoolAssumption
     DEF PoolInv, TypeInv, TypeOK, CallerMoves, CallerFrame, headVars, Goto, LockEnqueue, AwaitFreeItem,
         NextItem, UnlockEnqueue, SignalReady
<1>2. \/ /\ pc[c] = "lock" /\ to = "first" /\ EnqueueMutex = NoThread /\ EnqueueMutex' = c
         /\ call'[c].first = EnqueuePosition /\ UNCHANGED EnqueuePosition
      \/ /\ UNCHANGED <<EnqueueMutex, EnqueuePosition, call>>
         /\ \/ pc[c] = "firstWait" /\ to = "first"
            \/ pc[c] = "itemWait" /\ to = "item"
            \/ pc[c] = "signal" /\ to = "next"
      \/ /\ pc[c] = "next" /\ to = "item" /\ UNCHANGED EnqueueMutex
         /\ call'[c].item = EnqueuePosition /\ EnqueuePosition' = NextSlot(EnqueuePosition)
      \/ /\ pc[c] = "next" /\ to = "await" /\ EnqueueMutex' = NoThread /\ UNCHANGED EnqueuePosition
         /\ call[c].fragment.left = 0
  BY DEF PoolInv, TypeInv, TypeOK, CallType, headVars, Goto, LockEnqueue, AwaitFreeItem,
         NextItem, UnlockEnqueue, SignalReady
<1>3. /\ call'[c].fragment = call[c].fragment /\ call'[c].unitCount = call[c].unitCount
      /\ pc[c] # "lock" => call'[c].first = call[c].first
  BY DEF PoolInv, TypeInv, TypeOK, CallType, Goto, LockEnqueue, AwaitFreeItem,
         NextItem, UnlockEnqueue, SignalReady
<1> HIDE DEF to
<1>4. ControlInv'
  BY <1>1, <1>2, CallerControlStep DEF CallerControl, Submitted, Enqueuing, Outside
<1>5. PositionInv'
  <2>1. Position(c)'
    <3>1. Position(c) /\ EnqueuePosition \in Slot
      BY DEF PoolInv, PositionInv, TypeInv, TypeOK
    <3>2. QED  BY <1>2, <3>1 DEF Position, to
  <2>2. to \notin Enqueuing => UNCHANGED EnqueuePosition
    BY <1>2 DEF Enqueuing
  <2>3. QED  BY <1>1, <1>4, <2>1, <2>2, CallerPositionStep
<1>6. CutInv'
  <2>1. Cut(c)'
    BY <1>2, <1>3 DEF PoolInv, CutInv, Cut, Outside, to
  <2>2. QED  BY <1>1, <2>1, CallerCutStep
<1>7. PublishPosition' = PublishPosition
  BY <1>1, <1>2, <1>4, PublishStays DEF Enqueuing
<1>8. CallerKeeps
  <2>1. /\ pc[c] \in Submitted <=> to \in Submitted
        /\ pc[c] \in Active <=> to \in Active
        /\ to \in Active => pc[c] # "lock"
        /\ to = "await" => call[c].fragment.left = 0
    BY <1>2 DEF Submitted, Active
  <2>2. pc[c] \in {"next", "item", "itemWait"} =>
          to \in {"next", "item", "itemWait"} \/ call[c].fragment.data # 0
    <3>1. SUFFICES ASSUME pc[c] = "next", call[c].fragment.left = 0
                   PROVE  call[c].fragment.data # 0
      BY <1>2
    <3>2. /\ CutOf(call[c].fragment, call[c].unitCount) /\ call[c].unitCount \in Nat \ {0}
          /\ call[c].fragment \in FragmentType
      BY <1>1, <3>1 DEF PoolInv, CutInv, Cut, Outside, CallType
    <3>3. QED  BY <3>1, <3>2 DEF CutOf, FragmentType
  <2>3. QED  BY <1>1, <1>3, <1>7, <2>1, <2>2, QuietCaller
<1>9. QED  BY <1>4, <1>5, <1>6, <1>8 DEF RingKeeps

\* The first item of a request is set up: it is Free, so nothing live is part of it.
LEMMA PrepareStep ==
  ASSUME PoolInv, TypeInv', NEW c \in Caller, CallerFrame, PrepareFirst(c)
  PROVE  CallerKeeps /\ RingKeeps
<1> DEFINE to == pc'[c]  first == call[c].first  left == call[c].fragment.left
<1>1. /\ CallerMoves(c, "first", to) /\ UNCHANGED <<EnqueuePosition, EnqueueMutex, call>>
      /\ first = EnqueuePosition /\ first \in Slot /\ left \in Nat
      /\ pc[c] = "first" /\ EnqueueMutex = c
  BY PoolAssumption
     DEF PoolInv, TypeInv, TypeOK, CallType, FragmentType, CallerMoves, CallerFrame, headVars, Goto,
         PrepareFirst, PositionInv, Position, ControlInv, Enqueuing
<1>2. \/ to = "next" /\ WorkItemQueue[first].State = "Free"
      \/ to = "firstWait" /\ WorkItemQueue' = WorkItemQueue
  BY <1>1 DEF PrepareFirst, PoolInv, TypeInv, TypeOK, Goto
<1>3. ControlInv'
  <2> HIDE DEF to
  <2>1. QED  BY <1>1, <1>2, CallerControlStep DEF CallerControl, Submitted, Enqueuing, Outside
<1>4. PositionInv'
  <2>1. Position(c)'
    BY <1>1, <1>2 DEF Position
  <2> HIDE DEF to
  <2>2. QED  BY <1>1, <1>3, <2>1, CallerPositionStep
<1>5. CutInv'
  <2>1. Cut(c)'
    BY <1>1, <1>2 DEF PoolInv, CutInv, Cut, Outside
  <2> HIDE DEF to
  <2>2. QED  BY <1>1, <2>1, CallerCutStep
<1>6. PublishPosition' = PublishPosition
  <2> HIDE DEF to
  <2>1. QED  BY <1>1, <1>2, <1>3, PublishStays
<1> SUFFICES CallerKeeps
  BY <1>3, <1>4, <1>5 DEF RingKeeps
<1>7. CASE to = "firstWait" /\ WorkItemQueue' = WorkItemQueue
  <2> HIDE DEF to
  <2>1. QED  BY <1>1, <1>6, <1>7, QuietCaller DEF Submitted, Active
<1>8. CASE to = "next" /\ WorkItemQueue[first].State = "Free"
  <2>1. /\ \A i \in Slot : /\ WorkItemQueue'[i].State = WorkItemQueue[i].State
                           /\ WorkItemQueue'[i].FirstFragment = WorkItemQueue[i].FirstFragment
                           /\ WorkItemQueue'[i].ItemCompletedEvent = WorkItemQueue[i].ItemCompletedEvent
                           /\ WorkItemQueue'[i].Encryption = WorkItemQueue[i].Encryption
        /\ \A i \in Slot \ {first} : WorkItemQueue'[i].Outstanding = WorkItemQueue[i].Outstanding
        /\ WorkItemQueue'[first].Outstanding = left
    BY <1>1, <1>8 DEF PrepareFirst, PoolInv, TypeInv, TypeOK, ItemType
  <2>2. /\ pc'[c] = "next" /\ \A d \in Caller \ {c} : pc'[d] = pc[d]
        /\ \A w \in Worker : pc'[w] = pc[w] /\ workItem'[w] = workItem[w]
        /\ StopPending' = StopPending /\ call' = call
    BY <1>1, <1>8, OthersStay DEF PoolInv
  <2>3. \A w \in Worker : /\ Has(w)' <=> Has(w)
                          /\ Counts(w)' <=> Counts(w)
                          /\ Engaged(w)' <=> Engaged(w)
    BY <2>2 DEF Has, Counts, Engaged
  <2>4. \A i \in Slot : Live(i)' <=> Live(i)
    BY <2>1, <2>2, <2>3 DEF Live
  <2>5. \A i \in Slot : Live(i) => WorkItemQueue[i].FirstFragment # first
    BY <1>8 DEF PoolInv, LiveInv
  <2>6. \A w \in Worker : Engaged(w) => workItem[w] \in Slot /\ Live(workItem[w])
    BY DEF PoolInv, ControlInv, Engaged, Counts, Has, Live
  <2>7. \A d \in Caller \ {c} : pc[d] \in Active => /\ WorkItemQueue[call[d].first].State # "Free"
                                                    /\ call[d].first # first /\ call[d].first \in Slot
    <3>1. \A d \in Caller \ {c} : pc[d] \notin Enqueuing
      BY <1>1 DEF PoolInv, ControlInv
    <3>2. QED  BY <1>8, <3>1 DEF PoolInv, FirstInv, Enqueuing
  <2>8. HasInv'
    BY <2>1, <2>2, <2>3, <2>6 DEF PoolInv, HasInv, Engaged, Counts
  <2>9. LiveInv'
    <3>1. \A d \in Caller : pc[d] \in Submitted => pc'[d] \in Submitted
      BY <2>2 DEF Submitted
    <3>2. \A f, i : Passed(f, i, PublishPosition)' <=> Passed(f, i, PublishPosition)
      BY <1>6 DEF Passed, Distance
    <3>3. QED  BY <2>1, <2>2, <2>4, <3>1, <3>2 DEF PoolInv, LiveInv
  <2>10. FirstInv'
    <3> SUFFICES ASSUME NEW d \in Caller, pc'[d] \in Active
                 PROVE  LET f == call[d].first IN
                        /\ f \in Slot
                        /\ \/ WorkItemQueue'[f].State # "Free" /\ WorkItemQueue'[f].FirstFragment = f
                           \/ /\ pc'[d] \in {"next", "item", "itemWait"}
                              /\ PublishPosition' = f /\ call[d].fragment.data = 0
                        /\ \A e \in Caller \ {d} : pc'[e] \in Active => call[e].first # f
      BY <2>2 DEF FirstInv
    <3>1. CASE d = c
      <4>1. PublishPosition' = first
        BY <1>1, <1>6, PublishAt DEF PoolInv
      <4>2. call[c].fragment.data = 0
        BY <1>1 DEF PoolInv, CutInv, Cut
      <4>3. QED  BY <1>1, <2>2, <2>7, <3>1, <4>1, <4>2
    <3>2. CASE d # c
      <4>1. pc[d] \in Active /\ pc[d] \notin Enqueuing
        BY <1>1, <2>2, <3>2 DEF PoolInv, ControlInv
      <4>2. QED  BY <1>6, <2>1, <2>2, <2>7, <3>2, <4>1 DEF PoolInv, FirstInv, Enqueuing
    <3>3. QED  BY <3>1, <3>2
  <2>11. CountKeeps
    <3> SUFFICES ASSUME NEW d \in Caller, pc'[d] \in Submitted
                 PROVE  /\ Outstanding(d)' >= Total(d)'
                        /\ (~StopPending' => Outstanding(d)' = Total(d)')
                        /\ pc'[d] = "await" => call'[d].fragment.left = 0
                        /\ (pc[d] \in Submitted /\ Outstanding(d)' = Total(d)' => Outstanding(d) = Total(d))
      BY DEF CountKeeps
    <3>1. Waiting(d)' = Waiting(d)
      BY <2>1, <2>2 DEF Waiting
    <3>2. Working(d)' = Working(d)
      BY <2>1, <2>2, <2>3, <2>6 DEF Working, Belongs, Engaged
    <3>3. CASE d = c
      <4>1. Waiting(c) = {} /\ Working(c) = {}
        BY <2>5, <2>6 DEF Waiting, Working, Belongs, Live, Engaged
      <4>2. Total(c)' = left
        <5>1. Waiting(c)' = {} /\ Working(c)' = {} /\ Cardinality({}) = 0
          BY <3>1, <3>2, <3>3, <4>1, FS_EmptySet
        <5>2. call'[c].fragment.left = left
          BY <2>2
        <5>3. QED  BY <1>1, <5>1, <5>2 DEF Total
      <4>3. QED  BY <1>1, <2>1, <2>2, <3>3, <4>2 DEF Outstanding, Submitted
    <3>4. CASE d # c
      <4>1. pc[d] \in Submitted /\ pc[d] \in Active
        BY <2>2, <3>4 DEF Active
      <4>2. Outstanding(d)' = Outstanding(d) /\ Total(d)' = Total(d)
        BY <2>1, <2>2, <2>7, <3>1, <3>2, <3>4, <4>1 DEF Outstanding, Total
      <4>3. QED  BY <2>2, <3>4, <4>1, <4>2 DEF PoolInv, CountInv
    <3>5. QED  BY <3>3, <3>4
  <2>12. CompleteInv'
    <3>1. \A w \in Worker : pc[w] = "complete" =>
            /\ workItem[w] \in Slot /\ WorkItemQueue[workItem[w]].FirstFragment \in Slot \ {first}
      BY <2>5, <2>6 DEF PoolInv, LiveInv, Engaged
    <3>2. ~WorkItemQueue[first].ItemCompletedEvent
      BY <1>1, <2>7 DEF PoolInv, CompleteInv, Active, Submitted
    <3>3. QED  BY <2>1, <2>2, <3>1, <3>2 DEF PoolInv, CompleteInv, Submitted
  <2>13. WorkInv'
    <3>1. \A i \in Slot : Workable(i)' <=> Workable(i)
      BY <2>1, <2>2, <2>3 DEF Workable
    <3>2. QED  BY <2>1, <2>2, <3>1 DEF PoolInv, WorkInv, Belongs, Submitted
  <2>14. QED  BY <2>8, <2>9, <2>10, <2>11, <2>12, <2>13 DEF CallerKeeps
<1>9. QED  BY <1>2, <1>7, <1>8

\* Worker threads are not touched by a caller.
LEMMA WorkersStay ==
  ASSUME PoolInv, NEW c \in Caller, NEW from, NEW to, CallerMoves(c, from, to), NEW w \in Worker
  PROVE  /\ Has(w)' <=> Has(w)
         /\ Counts(w)' <=> Counts(w)
         /\ Engaged(w)' <=> Engaged(w)
<1>1. pc'[w] = pc[w] /\ StopPending' = StopPending
  BY OthersStay DEF PoolInv
<1>2. QED  BY <1>1 DEF Has, Counts, Engaged

LEMMA EngagedLive ==
  ASSUME PoolInv
  PROVE  \A w \in Worker : /\ pc[w] \notin {"none", "loop", "lock", "exit"} => workItem[w] \in Slot
                           /\ Engaged(w) => workItem[w] \in Slot /\ Live(workItem[w])
                           /\ Has(w) => Counts(w)
                           /\ Counts(w) => Engaged(w)
BY DEF PoolInv, ControlInv, Engaged, Counts, Has, Live

LEMMA WaitingFinite ==
  ASSUME NEW c \in Caller
  PROVE  /\ IsFiniteSet(Waiting(c)) /\ Cardinality(Waiting(c)) \in Nat
         /\ IsFiniteSet(Working(c)) /\ Cardinality(Working(c)) \in Nat
<1>1. IsFiniteSet(Slot)
  BY PoolConstants, FS_Interval DEF Slot, QueueSize
<1>2. IsFiniteSet(Waiting(c)) /\ IsFiniteSet(Working(c))
  BY <1>1, PoolAssumption, FS_Subset DEF Waiting, Working
<1>3. QED  BY <1>2, FS_CardinalityType

\* When the count has reached zero, nothing of the request is left.
LEMMA NothingLeft ==
  ASSUME PoolInv, NEW c \in Caller, pc[c] \in Submitted, Outstanding(c) = 0
  PROVE  call[c].fragment.left = 0 /\ Waiting(c) = {} /\ Working(c) = {} /\ Total(c) = 0
<1> DEFINE l == call[c].fragment.left  m == Cardinality(Waiting(c))  n == Cardinality(Working(c))
<1>1. l \in Nat /\ m \in Nat /\ n \in Nat /\ IsFiniteSet(Waiting(c)) /\ IsFiniteSet(Working(c))
  BY WaitingFinite DEF PoolInv, TypeInv, TypeOK, CallType, FragmentType
<1>2. l + m + n <= 0 /\ Total(c) = l + m + n
  <2>1. 0 >= Total(c) /\ Total(c) = l + m + n
    BY DEF PoolInv, CountInv, Total
  <2> HIDE DEF l, m, n
  <2>2. QED  BY <1>1, <2>1
<1>3. l = 0 /\ m = 0 /\ n = 0 /\ Total(c) = 0
  <2> HIDE DEF l, m, n
  <2>1. QED  BY <1>1, <1>2
<1>4. Waiting(c) = {} /\ Working(c) = {}
  BY <1>1, <1>3, FS_EmptySet
<1>5. QED  BY <1>3, <1>4

LEMMA CompletedEmpty ==
  ASSUME PoolInv, NEW c \in Caller, pc[c] \in Submitted,
         WorkItemQueue[call[c].first].ItemCompletedEvent
  PROVE  /\ Outstanding(c) = 0
         /\ \A i \in Slot : Live(i) => WorkItemQueue[i].FirstFragment # call[c].first
<1>1. call[c].first \in Slot
  BY DEF PoolInv, FirstInv, Active
<1>2. Outstanding(c) = 0
  BY <1>1 DEF PoolInv, CompleteInv, Outstanding
<1>3. Waiting(c) = {} /\ Working(c) = {}
  BY <1>2, NothingLeft
<1>4. ASSUME NEW i \in Slot, Live(i), WorkItemQueue[i].FirstFragment = call[c].first
      PROVE  FALSE
  <2>1. CASE WorkItemQueue[i].State = "Ready"
    BY <1>3, <1>4, <2>1 DEF Waiting
  <2>2. CASE \E w \in Worker : Counts(w) /\ workItem[w] = i
    BY <1>3, <1>4, <2>2 DEF Working, Belongs
  <2>3. CASE \E w \in Worker : pc[w] = "complete" /\ workItem[w] = i
    BY <1>4, <2>3 DEF PoolInv, CompleteInv
  <2>4. QED  BY <1>4, <2>1, <2>2, <2>3 DEF Live, Engaged
<1>5. QED  BY <1>2, <1>4

\* A request that is completed is taken off the queue: nothing live is part of it.
LEMMA AwaitStep ==
  ASSUME PoolInv, TypeInv', NEW c \in Caller, CallerFrame, AwaitCompletion(c)
  PROVE  CallerKeeps /\ RingKeeps
<1> DEFINE first == call[c].first
<1>1. /\ CallerMoves(c, "await", "release") /\ UNCHANGED <<EnqueuePosition, EnqueueMutex>>
      /\ pc[c] = "await" /\ first \in Slot /\ WorkItemQueue[first].ItemCompletedEvent
      /\ \A d \in Caller : /\ call'[d].first = call[d].first /\ call'[d].fragment = call[d].fragment
                           /\ call'[d].unitCount = call[d].unitCount
      /\ \A i \in Slot : /\ WorkItemQueue'[i].State = WorkItemQueue[i].State
                         /\ WorkItemQueue'[i].FirstFragment = WorkItemQueue[i].FirstFragment
                         /\ WorkItemQueue'[i].Encryption = WorkItemQueue[i].Encryption
                         /\ WorkItemQueue'[i].Outstanding = WorkItemQueue[i].Outstanding
                         /\ WorkItemQueue'[i].ItemCompletedEvent
                              <=> i # first /\ WorkItemQueue[i].ItemCompletedEvent
  <2>1. /\ CallerMoves(c, "await", "release") /\ UNCHANGED <<EnqueuePosition, EnqueueMutex>>
        /\ pc[c] = "await" /\ first \in Slot /\ WorkItemQueue[first].ItemCompletedEvent
    BY DEF PoolInv, TypeInv, TypeOK, CallerMoves, CallerFrame, headVars, Goto, AwaitCompletion,
           FirstInv, Active, Submitted
  <2>2. \A d \in Caller : /\ call'[d].first = call[d].first /\ call'[d].fragment = call[d].fragment
                          /\ call'[d].unitCount = call[d].unitCount
    BY DEF PoolInv, TypeInv, TypeOK, CallType, AwaitCompletion
  <2>3. WorkItemQueue' = [WorkItemQueue EXCEPT ![first].ItemCompletedEvent = FALSE,
                                               ![first].ItemException = FALSE]
    BY DEF AwaitCompletion
  <2>4. QED  BY <2>1, <2>2, <2>3 DEF PoolInv, TypeInv, TypeOK, ItemType
<1>2. /\ pc'[c] = "release" /\ \A d \in Caller \ {c} : pc'[d] = pc[d]
      /\ \A w \in Worker : pc'[w] = pc[w] /\ workItem'[w] = workItem[w]
      /\ StopPending' = StopPending
  BY <1>1, OthersStay DEF PoolInv
<1>3. ControlInv'
  BY <1>1, CallerControlStep DEF CallerControl, Returning, Enqueuing, Outside
<1>4. PositionInv'
  BY <1>1, <1>2, <1>3, CallerPositionStep DEF Position
<1>5. CutInv'
  <2>1. Cut(c)'
    BY <1>1, <1>2 DEF PoolInv, CutInv, Cut, Outside
  <2>2. QED  BY <1>1, <2>1, CallerCutStep
<1>6. PublishPosition' = PublishPosition
  BY <1>1, <1>3, PublishStays
<1>7. \A w \in Worker : /\ Has(w)' <=> Has(w)
                        /\ Counts(w)' <=> Counts(w)
                        /\ Engaged(w)' <=> Engaged(w)
  BY <1>1, WorkersStay
<1>8. \A i \in Slot : Live(i) => WorkItemQueue[i].FirstFragment # first
  BY <1>1, CompletedEmpty DEF Submitted
<1>9. \A d \in Caller : /\ pc'[d] \in Submitted <=> pc[d] \in Submitted /\ d # c
                        /\ pc'[d] \in Active <=> pc[d] \in Active
  BY <1>1, <1>2 DEF Active, Submitted
<1>10. HasInv'
  BY <1>1, <1>2, <1>7, EngagedLive DEF PoolInv, HasInv
<1>11. \A i \in Slot : Live(i)' <=> Live(i)
  BY <1>1, <1>2, <1>7 DEF Live
<1>12. LiveInv'
  <2>1. \A f, i : Passed(f, i, PublishPosition)' <=> Passed(f, i, PublishPosition)
    BY <1>6 DEF Passed, Distance
  <2>2. QED  BY <1>1, <1>8, <1>9, <1>11, <2>1 DEF PoolInv, LiveInv
<1>13. FirstInv'
  BY <1>1, <1>2, <1>6, <1>9 DEF PoolInv, FirstInv
<1>14. CountKeeps
  <2> SUFFICES ASSUME NEW d \in Caller, pc'[d] \in Submitted
               PROVE  /\ Outstanding(d)' >= Total(d)'
                      /\ (~StopPending' => Outstanding(d)' = Total(d)')
                      /\ pc'[d] = "await" => call'[d].fragment.left = 0
                      /\ (pc[d] \in Submitted /\ Outstanding(d)' = Total(d)' => Outstanding(d) = Total(d))
    BY DEF CountKeeps
  <2>1. Waiting(d)' = Waiting(d)
    BY <1>1 DEF Waiting
  <2>2. Working(d)' = Working(d)
    BY <1>1, <1>2, <1>7, EngagedLive DEF Working, Belongs
  <2>3. call[d].first \in Slot
    BY <1>9 DEF PoolInv, FirstInv, Active
  <2>4. Outstanding(d)' = Outstanding(d) /\ Total(d)' = Total(d)
    BY <1>1, <2>1, <2>2, <2>3 DEF Outstanding, Total
  <2>5. QED  BY <1>1, <1>2, <1>9, <2>4 DEF PoolInv, CountInv
<1>15. CompleteInv'
  <2>1. \A w \in Worker : pc[w] = "complete" =>
          /\ workItem[w] \in Slot /\ WorkItemQueue[workItem[w]].FirstFragment \in Slot \ {first}
    BY <1>8, EngagedLive DEF PoolInv, LiveInv, Engaged
  <2>2. QED  BY <1>1, <1>2, <1>9, <2>1 DEF PoolInv, CompleteInv
<1>16. WorkInv'
  <2>1. \A i \in Slot : Workable(i)' <=> Workable(i)
    BY <1>1, <1>2, <1>7 DEF Workable
  <2>2. \A i \in Slot : Workable(i) => Live(i)
    BY EngagedLive DEF Workable, Live
  <2>3. QED  BY <1>1, <1>8, <1>9, <2>1, <2>2 DEF PoolInv, WorkInv, Belongs
<1>17. QED
  BY <1>3, <1>4, <1>5, <1>10, <1>12, <1>13, <1>14, <1>15, <1>16 DEF CallerKeeps, RingKeeps

\* The first item is given back: nothing live uses it.
LEMMA ReleaseStep ==
  ASSUME PoolInv, TypeInv', NEW c \in Caller, CallerFrame, ReleaseFirst(c)
  PROVE  CallerKeeps /\ RingKeeps
<1> DEFINE first == call[c].first
<1>1. /\ CallerMoves(c, "release", "signalFree") /\ UNCHANGED <<EnqueuePosition, EnqueueMutex, call>>
      /\ pc[c] = "release" /\ first \in Slot
      /\ \A i \in Slot :
           /\ WorkItemQueue'[i].State = (IF i = first THEN "Free" ELSE WorkItemQueue[i].State)
           /\ WorkItemQueue'[i].FirstFragment = WorkItemQueue[i].FirstFragment
           /\ i # first => WorkItemQueue'[i].Encryption = WorkItemQueue[i].Encryption
           /\ WorkItemQueue'[i].Outstanding = WorkItemQueue[i].Outstanding
           /\ WorkItemQueue'[i].ItemCompletedEvent = WorkItemQueue[i].ItemCompletedEvent
  BY PoolAssumption
     DEF PoolInv, TypeInv, TypeOK, CallType, ItemType, CallerMoves, CallerFrame, headVars, Goto,
         ReleaseFirst, FirstInv, Active, Submitted
<1>2. /\ pc'[c] = "signalFree" /\ \A d \in Caller \ {c} : pc'[d] = pc[d]
      /\ \A w \in Worker : pc'[w] = pc[w] /\ workItem'[w] = workItem[w]
      /\ StopPending' = StopPending
  BY <1>1, OthersStay DEF PoolInv
<1>3. ControlInv'
  BY <1>1, CallerControlStep DEF CallerControl, Returning, Enqueuing, Outside
<1>4. PositionInv'
  BY <1>1, <1>2, <1>3, CallerPositionStep DEF Position
<1>5. CutInv'
  <2>1. Cut(c)'
    BY <1>1, <1>2 DEF PoolInv, CutInv, Cut, Outside
  <2>2. QED  BY <1>1, <2>1, CallerCutStep
<1>6. PublishPosition' = PublishPosition
  BY <1>1, <1>3, PublishStays
<1>7. \A w \in Worker : /\ Has(w)' <=> Has(w)
                        /\ Counts(w)' <=> Counts(w)
                        /\ Engaged(w)' <=> Engaged(w)
  BY <1>1, WorkersStay
<1>8. \A d \in Caller : /\ pc'[d] \in Submitted <=> pc[d] \in Submitted
                        /\ pc'[d] \in Active <=> pc[d] \in Active /\ d # c
                        /\ pc[d] \in Submitted => pc[d] \in Active /\ d # c
  BY <1>1, <1>2 DEF Active, Submitted
<1>9. \A d \in Caller \ {c} : pc[d] \in Active => call[d].first # first
  BY <1>1 DEF PoolInv, FirstInv, Active
<1>10. \A i \in Slot : Live(i) => i # first /\ WorkItemQueue[i].FirstFragment # first
  <2>1. \A i \in Slot : Live(i) => WorkItemQueue[i].FirstFragment # first
    BY <1>8, <1>9 DEF PoolInv, LiveInv
  <2>2. WorkItemQueue[first].FirstFragment = first
    BY <1>1 DEF PoolInv, FirstInv, Active
  <2>3. QED  BY <2>1, <2>2
<1>11. HasInv'
  BY <1>1, <1>2, <1>7, <1>10, EngagedLive DEF PoolInv, HasInv
<1>12. \A i \in Slot : Live(i)' <=> Live(i)
  BY <1>1, <1>2, <1>7, <1>10 DEF Live
<1>13. LiveInv'
  <2>1. \A f, i : Passed(f, i, PublishPosition)' <=> Passed(f, i, PublishPosition)
    BY <1>6 DEF Passed, Distance
  <2>2. QED  BY <1>1, <1>8, <1>10, <1>12, <2>1 DEF PoolInv, LiveInv
<1>14. FirstInv'
  BY <1>1, <1>2, <1>6, <1>8, <1>9 DEF PoolInv, FirstInv
<1>15. CountKeeps
  <2> SUFFICES ASSUME NEW d \in Caller, pc'[d] \in Submitted
               PROVE  /\ Outstanding(d)' >= Total(d)'
                      /\ (~StopPending' => Outstanding(d)' = Total(d)')
                      /\ pc'[d] = "await" => call'[d].fragment.left = 0
                      /\ (pc[d] \in Submitted /\ Outstanding(d)' = Total(d)' => Outstanding(d) = Total(d))
    BY DEF CountKeeps
  <2>1. Waiting(d)' = Waiting(d)
    BY <1>1, <1>10 DEF Waiting, Live
  <2>2. Working(d)' = Working(d)
    BY <1>1, <1>2, <1>7, EngagedLive DEF Working, Belongs
  <2>3. call[d].first \in Slot
    BY <1>8 DEF PoolInv, FirstInv
  <2>4. Outstanding(d)' = Outstanding(d) /\ Total(d)' = Total(d)
    BY <1>1, <2>1, <2>2, <2>3 DEF Outstanding, Total
  <2>5. QED  BY <1>1, <1>2, <1>8, <2>4 DEF PoolInv, CountInv
<1>16. CompleteInv'
  <2>1. \A w \in Worker : pc[w] = "complete" =>
          /\ workItem[w] \in Slot /\ WorkItemQueue[workItem[w]].FirstFragment \in Slot
    BY EngagedLive DEF PoolInv, LiveInv, Engaged
  <2>2. QED  BY <1>1, <1>2, <1>8, <2>1 DEF PoolInv, CompleteInv
<1>17. WorkInv'
  <2>1. \A i \in Slot : Workable(i) => Live(i)
    BY EngagedLive DEF Workable, Live
  <2>2. \A i \in Slot : Workable(i)' <=> Workable(i)
    BY <1>1, <1>2, <1>7, <1>10, <2>1 DEF Workable, Live
  <2>3. QED  BY <1>1, <1>8, <1>10, <2>1, <2>2 DEF PoolInv, WorkInv, Belongs
<1>18. QED
  BY <1>3, <1>4, <1>5, <1>11, <1>13, <1>14, <1>15, <1>16, <1>17 DEF CallerKeeps, RingKeeps

\* An item is filled in.  It was Free and next in the ring: no worker has it any
\* more, and it is the first item of no other request.
LEMMA PublishStep ==
  ASSUME PoolInv, TypeInv', NEW c \in Caller, CallerFrame, PublishItem(c)
  PROVE  CallerKeeps /\ RingKeeps
<1> DEFINE k == call[c].item  f == call[c].fragment  first == call[c].first
           to == IF WorkItemQueue[k].State = "Free" THEN "signal" ELSE "itemWait"
<1>1. /\ CallerMoves(c, "item", to) /\ UNCHANGED <<EnqueuePosition, EnqueueMutex>>
      /\ pc[c] = "item" /\ EnqueueMutex = c /\ k \in Slot /\ EnqueuePosition = NextSlot(k)
      /\ PublishPosition = k
  <2>1. /\ CallerMoves(c, "item", to) /\ UNCHANGED <<EnqueuePosition, EnqueueMutex>>
        /\ pc[c] = "item"
    BY DEF PoolInv, TypeInv, TypeOK, CallerMoves, CallerFrame, headVars, Goto, PublishItem
  <2>2. EnqueueMutex = c /\ k \in Slot /\ EnqueuePosition = NextSlot(k)
    BY <2>1 DEF PoolInv, ControlInv, Enqueuing, PositionInv, Position
  <2>3. QED  BY <2>1, <2>2, PublishAt DEF PoolInv
<1>2. ControlInv'
  <2>1. to \in CallerControl /\ to \in Enqueuing
    BY DEF CallerControl, Submitted, Enqueuing
  <2> HIDE DEF to
  <2>2. QED  BY <1>1, <2>1, CallerControlStep DEF Enqueuing, Outside
<1>3. /\ pc'[c] = to /\ \A d \in Caller \ {c} : pc'[d] = pc[d] /\ call'[d] = call[d]
      /\ \A w \in Worker : pc'[w] = pc[w] /\ workItem'[w] = workItem[w]
      /\ StopPending' = StopPending
  <2> HIDE DEF to
  <2>1. QED  BY <1>1, OthersStay DEF PoolInv, CallerMoves
<1>4. CASE WorkItemQueue[k].State # "Free"
  <2>1. to = "itemWait" /\ WorkItemQueue' = WorkItemQueue /\ call' = call
    BY <1>4 DEF PublishItem
  <2> HIDE DEF to
  <2>2. PositionInv'
    <3>1. Position(c)'
      BY <1>1, <1>3, <2>1 DEF Position
    <3>2. QED  BY <1>1, <1>2, <3>1, CallerPositionStep
  <2>3. CutInv'
    <3>1. Cut(c)'
      BY <1>1, <1>3, <2>1 DEF PoolInv, CutInv, Cut, Outside
    <3>2. QED  BY <1>1, <3>1, CallerCutStep
  <2>4. PublishPosition' = PublishPosition
    BY <1>1, <1>2, <2>1, PublishStays
  <2>5. CallerKeeps
    BY <1>1, <2>1, <2>4, QuietCaller DEF Submitted, Active
  <2>6. QED  BY <1>2, <2>2, <2>3, <2>5 DEF RingKeeps
<1>5. CASE WorkItemQueue[k].State = "Free"
  <2> DEFINE g == NextFragment(f)
  <2>1. /\ to = "signal" /\ call'[c].fragment = g /\ call'[c].first = first
        /\ call'[c].unitCount = call[c].unitCount
        /\ f \in FragmentType /\ f.left \in Nat \ {0} /\ first \in Slot
        /\ call[c].unitCount \in Nat
    BY <1>1, <1>5 DEF PublishItem, PoolInv, TypeInv, TypeOK, FragmentInv, CallType, FragmentType,
                      FirstInv, Active, Submitted
  <2>2. CutOf(g, call[c].unitCount) /\ f.data + f.units <= g.data /\ f.units > 0 /\ f.unitNo = f.data
        /\ f.data <= g.data /\ g.left = f.left - 1
    <3>1. CutOf(f, call[c].unitCount)
      BY <1>1 DEF PoolInv, CutInv, Cut, Outside
    <3>2. CutOf(g, call[c].unitCount) /\ f.data + f.units = g.data /\ f.units > 0
      BY <2>1, <3>1, NextFragmentCut
    <3>3. f.unitNo = f.data /\ g.left = f.left - 1
      BY <3>1 DEF CutOf, NextFragment
    <3> HIDE DEF f, g
    <3>4. f.data \in Nat /\ f.units \in Nat
      BY <2>1 DEF FragmentType
    <3>5. QED  BY <3>2, <3>3, <3>4
  <2>3. /\ \A i \in Slot \ {k} : WorkItemQueue'[i] = WorkItemQueue[i]
        /\ WorkItemQueue'[k].State = "Ready" /\ WorkItemQueue'[k].FirstFragment = first
        /\ WorkItemQueue'[k].Outstanding = WorkItemQueue[k].Outstanding
        /\ WorkItemQueue'[k].ItemCompletedEvent = WorkItemQueue[k].ItemCompletedEvent
        /\ WorkItemQueue'[k].Encryption =
             [caller |-> c, data |-> f.data, unitNo |-> f.unitNo, unitCount |-> f.units]
    <3> DEFINE work == [caller |-> c, data |-> f.data, unitNo |-> f.unitNo, unitCount |-> f.units]
    <3>1. WorkItemQueue' = [WorkItemQueue EXCEPT ![k].State = "Ready", ![k].FirstFragment = first,
                                                 ![k].Encryption = work]
      BY <1>5 DEF PublishItem
    <3> HIDE DEF work, first
    <3>2. /\ \A i \in Slot \ {k} : WorkItemQueue'[i] = WorkItemQueue[i]
          /\ WorkItemQueue'[k].State = "Ready" /\ WorkItemQueue'[k].FirstFragment = first
          /\ WorkItemQueue'[k].Outstanding = WorkItemQueue[k].Outstanding
          /\ WorkItemQueue'[k].ItemCompletedEvent = WorkItemQueue[k].ItemCompletedEvent
          /\ WorkItemQueue'[k].Encryption = work
      BY <1>1, <3>1 DEF PoolInv, TypeInv, TypeOK, ItemType
    <3>3. QED  BY <3>2 DEF work
  <2>4. ~Live(k)
    <3>1. SUFFICES ASSUME Live(k) PROVE FALSE
      OBVIOUS
    <3> DEFINE h == WorkItemQueue[k].FirstFragment
    <3>2. h \in Slot /\ WorkItemQueue[h].State # "Free" /\ Passed(h, k, k)
      BY <1>1, <3>1 DEF PoolInv, LiveInv
    <3>3. h # k
      BY <1>5, <3>2
    <3>4. QED  BY <1>1, <3>2, <3>3, PoolConstants DEF Passed, Distance, Slot, QueueSize
  <2>5. PublishPosition' = NextSlot(k)
    <3>1. EnqueueMutex' = c /\ pc'[c] = "signal"
      BY <1>1, <1>3, <2>1
    <3>2. \A d \in Caller : pc'[d] \notin {"item", "itemWait"}
      BY <1>2, <3>1 DEF ControlInv, Enqueuing
    <3>3. QED  BY <1>1, <3>2 DEF PublishPosition
  <2> HIDE DEF to, f, g
  <2>6. PositionInv'
    <3>1. Position(c)'
      BY <1>3, <2>1 DEF Position
    <3>2. QED  BY <1>1, <1>2, <3>1, CallerPositionStep
  <2>7. CutInv'
    <3>1. Cut(c)'
      BY <1>1, <1>3, <2>1, <2>2 DEF PoolInv, CutInv, Cut, Outside
    <3>2. QED  BY <1>1, <3>1, CallerCutStep
  <2>8. \A w \in Worker : /\ Has(w)' <=> Has(w)
                          /\ Counts(w)' <=> Counts(w)
                          /\ Engaged(w)' <=> Engaged(w)
    BY <1>1, WorkersStay
  <2>9. \A w \in Worker : Engaged(w) => workItem[w] \in Slot \ {k} /\ Live(workItem[w])
    BY <2>4, EngagedLive
  <2>10. \A d \in Caller : /\ pc'[d] \in Submitted <=> pc[d] \in Submitted
                           /\ pc'[d] \in Active <=> pc[d] \in Active
                           /\ pc[d] \in Submitted => pc[d] \in Active
                           /\ call'[d].first = call[d].first
    BY <1>1, <1>3, <2>1 DEF Active, Submitted
  <2>11. \A d \in Caller \ {c} : pc[d] \in Active =>
           /\ WorkItemQueue[call[d].first].State # "Free" /\ WorkItemQueue[call[d].first].FirstFragment = call[d].first
           /\ call[d].first \in Slot \ {k} /\ call[d].first # first
    <3>1. \A d \in Caller \ {c} : pc[d] \notin Enqueuing
      BY <1>1 DEF PoolInv, ControlInv
    <3>2. pc[c] \in Active
      BY <1>1 DEF Active, Submitted
    <3>3. QED  BY <1>5, <3>1, <3>2 DEF PoolInv, FirstInv, Enqueuing
  <2>12. WorkItemQueue'[first].State # "Free" /\ WorkItemQueue'[first].FirstFragment = first
    <3>1. \/ WorkItemQueue[first].State # "Free" /\ WorkItemQueue[first].FirstFragment = first
          \/ first = k
      BY <1>1 DEF PoolInv, FirstInv, Active, Submitted
    <3>2. QED  BY <1>5, <2>1, <2>3, <3>1
  <2>13. \A i \in Slot : Live(i)' <=> Live(i) \/ i = k
    BY <1>1, <1>3, <2>3, <2>8 DEF Live
  <2>14. HasInv'
    BY <1>3, <2>3, <2>8, <2>9, EngagedLive DEF PoolInv, HasInv
  <2>15. LiveInv'
    <3> SUFFICES ASSUME NEW i \in Slot, Live(i)'
                 PROVE  LET h == WorkItemQueue'[i].FirstFragment IN
                        /\ h \in Slot /\ WorkItemQueue'[h].State # "Free"
                        /\ WorkItemQueue'[h].FirstFragment = h
                        /\ Passed(h, i, PublishPosition')
                        /\ \E d \in Caller : pc'[d] \in Submitted /\ call'[d].first = h
      BY DEF LiveInv, Passed, Distance
    <3>1. CASE i = k
      <4>1. pc'[c] \in Submitted
        BY <1>3, <2>1 DEF Submitted
      <4>2. QED  BY <1>1, <2>1, <2>3, <2>5, <2>12, <3>1, <4>1, RingSteps
    <3>2. CASE i # k
      <4> DEFINE h == WorkItemQueue[i].FirstFragment
      <4>1. Live(i) /\ WorkItemQueue'[i].FirstFragment = h
        BY <2>3, <2>13, <3>2
      <4>2. /\ h \in Slot /\ WorkItemQueue[h].State # "Free" /\ WorkItemQueue[h].FirstFragment = h
            /\ Passed(h, i, k) /\ \E d \in Caller : pc[d] \in Submitted /\ call[d].first = h
        BY <1>1, <4>1 DEF PoolInv, LiveInv
      <4>3. h # k
        BY <1>5, <4>2
      <4> HIDE DEF h
      <4>4. Passed(h, i, NextSlot(k))
        BY <1>1, <4>2, <4>3, RingSteps
      <4>5. QED  BY <2>3, <2>5, <2>10, <4>1, <4>2, <4>3, <4>4
    <3>3. QED  BY <3>1, <3>2
  <2>16. FirstInv'
    <3> SUFFICES ASSUME NEW d \in Caller, pc'[d] \in Active
                 PROVE  LET h == call'[d].first IN
                        /\ h \in Slot
                        /\ WorkItemQueue'[h].State # "Free" /\ WorkItemQueue'[h].FirstFragment = h
                        /\ \A e \in Caller \ {d} : pc'[e] \in Active => call'[e].first # h
      BY DEF FirstInv
    <3>1. \A e \in Caller \ {d} : pc'[e] \in Active => call'[e].first # call'[d].first
      BY <2>10 DEF PoolInv, FirstInv
    <3>2. CASE d = c
      BY <2>1, <2>12, <3>1, <3>2
    <3>3. CASE d # c
      BY <2>3, <2>10, <2>11, <3>1, <3>3
    <3>4. QED  BY <3>2, <3>3
  <2>17. CountKeeps
    <3> SUFFICES ASSUME NEW d \in Caller, pc'[d] \in Submitted
                 PROVE  /\ Outstanding(d)' >= Total(d)'
                        /\ (~StopPending' => Outstanding(d)' = Total(d)')
                        /\ pc'[d] = "await" => call'[d].fragment.left = 0
                        /\ (pc[d] \in Submitted /\ Outstanding(d)' = Total(d)' => Outstanding(d) = Total(d))
      BY DEF CountKeeps
    <3>1. Working(d)' = Working(d)
      BY <1>3, <2>3, <2>8, <2>9, <2>10, EngagedLive DEF Working, Belongs
    <3>2. pc[d] \in Submitted /\ call[d].first \in Slot
      BY <2>10 DEF PoolInv, FirstInv
    <3>3. Outstanding(d)' = Outstanding(d)
      BY <2>3, <2>10, <3>2 DEF Outstanding
    <3>4. CASE d = c
      <4>1. Waiting(c)' = Waiting(c) \cup {k} /\ k \notin Waiting(c)
        BY <1>1, <1>5, <2>1, <2>3 DEF Waiting
      <4>2. Cardinality(Waiting(c) \cup {k}) = Cardinality(Waiting(c)) + 1
        BY <4>1, WaitingFinite, FS_AddElement
      <4>3. Total(c)' = Total(c)
        <5> DEFINE m == Cardinality(Waiting(c))  n == Cardinality(Working(c))
        <5>1. m \in Nat /\ n \in Nat
          BY WaitingFinite
        <5>2. Total(c)' = g.left + (m + 1) + n
          BY <2>1, <3>1, <3>4, <4>1, <4>2 DEF Total
        <5>3. Total(c) = f.left + m + n
          BY DEF Total, f
        <5> HIDE DEF m, n
        <5>4. QED  BY <2>1, <2>2, <5>1, <5>2, <5>3
      <4>4. QED  BY <1>3, <2>1, <3>2, <3>3, <3>4, <4>3 DEF PoolInv, CountInv
    <3>5. CASE d # c
      <4>1. Waiting(d)' = Waiting(d)
        BY <1>5, <2>3, <2>10, <2>11, <3>2, <3>5 DEF Waiting
      <4>2. Total(d)' = Total(d) /\ pc'[d] = pc[d] /\ call'[d].fragment = call[d].fragment
        BY <1>3, <3>1, <3>5, <4>1 DEF Total
      <4>3. QED  BY <1>3, <3>2, <3>3, <4>2 DEF PoolInv, CountInv
    <3>6. QED  BY <3>4, <3>5
  <2>18. CompleteInv'
    <3>1. \A w \in Worker : pc[w] = "complete" =>
            /\ workItem[w] \in Slot \ {k} /\ WorkItemQueue[workItem[w]].FirstFragment \in Slot
      BY <2>9 DEF PoolInv, LiveInv, Engaged
    <3>2. \A i \in Slot : /\ WorkItemQueue'[i].Outstanding = WorkItemQueue[i].Outstanding
                          /\ WorkItemQueue'[i].ItemCompletedEvent = WorkItemQueue[i].ItemCompletedEvent
      BY <2>3
    <3>3. QED  BY <1>3, <2>3, <2>10, <3>1, <3>2 DEF PoolInv, CompleteInv
  <2>19. WorkInv'
    <3> SUFFICES ASSUME NEW i \in Slot, Workable(i)'
                 PROVE  LET e == WorkItemQueue'[i].Encryption IN
                        /\ e.caller \in Caller /\ pc'[e.caller] \in Submitted
                        /\ WorkItemQueue'[i].FirstFragment = call'[e.caller].first
                        /\ e.unitCount > 0 /\ e.unitNo = e.data
                        /\ e.data + e.unitCount <= call'[e.caller].fragment.data
      BY DEF WorkInv, Belongs
    <3>1. CASE i = k
      <4>1. pc'[c] \in Submitted
        BY <1>3, <2>1 DEF Submitted
      <4>2. QED  BY <2>1, <2>2, <2>3, <3>1, <4>1
    <3>2. CASE i # k
      <4> DEFINE e == WorkItemQueue[i].Encryption
      <4>1. Workable(i) /\ WorkItemQueue'[i] = WorkItemQueue[i]
        BY <1>3, <2>3, <2>8, <3>2 DEF Workable
      <4>2. /\ e.caller \in Caller /\ pc[e.caller] \in Submitted
            /\ WorkItemQueue[i].FirstFragment = call[e.caller].first
            /\ e.unitCount > 0 /\ e.unitNo = e.data
            /\ e.data + e.unitCount <= call[e.caller].fragment.data
        BY <4>1 DEF PoolInv, WorkInv, Belongs
      <4>3. e \in WorkType /\ f \in FragmentType /\ g.data \in Nat
        BY <2>1 DEF PoolInv, TypeInv, TypeOK, ItemType, f, g, NextFragment, FragmentType
      <4>4. e.data + e.unitCount <= call'[e.caller].fragment.data
        <5>1. CASE e.caller = c
          <6> HIDE DEF e
          <6>1. e.data + e.unitCount <= f.data
            BY <4>2, <5>1 DEF f
          <6>2. e.data \in Nat /\ e.unitCount \in Nat /\ f.data \in Nat
            BY <4>3 DEF WorkType, FragmentType
          <6>3. e.data + e.unitCount <= g.data
            BY <2>2, <4>3, <6>1, <6>2
          <6>4. QED  BY <2>1, <5>1, <6>3
        <5>2. CASE e.caller # c
          BY <1>3, <4>2, <5>2
        <5>3. QED  BY <5>1, <5>2
      <4>5. QED  BY <2>10, <4>1, <4>2, <4>4
    <3>3. QED  BY <3>1, <3>2
  <2>20. QED
    BY <1>2, <2>6, <2>7, <2>14, <2>15, <2>16, <2>17, <2>18, <2>19 DEF CallerKeeps, RingKeeps
<1>6. QED  BY <1>4, <1>5

LEMMA CallerPoolStep ==
  ASSUME PoolInv, NEW c \in Caller, (DoWork(c) /\ CallerFrame) \/ CallerStep(c)
  PROVE  PoolInv' /\ CountKeeps
<1>1. CallerFrame /\ TypeInv'
  BY CallerType DEF CallerStep, PoolInv
<1>2. CallerKeeps /\ RingKeeps
  BY <1>1, OutsideStep, QueueStep, PrepareStep, PublishStep, AwaitStep, ReleaseStep
     DEF CallerStep, InDoWork
<1>3. QED  BY <1>1, <1>2 DEF PoolInv, CallerKeeps, RingKeeps, CountKeeps, CountInv

\* A step of one worker between two control states.
WorkerMoves(w, from, to) ==
  /\ Goto(w, from, to) /\ TypeInv' /\ UNCHANGED <<ownerVars, headVars, call>>
  /\ \A v \in Worker \ {w} : workItem'[v] = workItem[v]

LEMMA OtherWorkersStay ==
  ASSUME TypeInv, NEW w \in Worker, NEW from, NEW to, WorkerMoves(w, from, to)
  PROVE  /\ pc[w] = from /\ pc'[w] = to /\ \A c \in Caller : pc'[c] = pc[c]
         /\ \A v \in Worker \ {w} : pc'[v] = pc[v] /\ workItem'[v] = workItem[v]
         /\ UNCHANGED <<ThreadPoolRunning, StopPending, RunningThreads, opc, EnqueuePosition,
                        EnqueueMutex, call>>
BY PoolAssumption DEF WorkerMoves, Goto, TypeInv, TypeOK, ownerVars, headVars

\* Callers are not touched by a worker.
LEMMA WorkerRing ==
  ASSUME PoolInv, NEW w \in Worker, NEW from, NEW to, WorkerMoves(w, from, to),
         from # "none", to \in WorkerControl,
         to \notin {"none", "loop", "lock", "exit"} => workItem'[w] \in Slot
  PROVE  RingKeeps /\ PublishPosition' = PublishPosition
<1>1. /\ pc[w] = from /\ pc'[w] = to /\ \A c \in Caller : pc'[c] = pc[c]
      /\ \A v \in Worker \ {w} : pc'[v] = pc[v] /\ workItem'[v] = workItem[v]
      /\ UNCHANGED <<ThreadPoolRunning, StopPending, RunningThreads, opc, EnqueuePosition,
                     EnqueueMutex, call>>
  BY OtherWorkersStay DEF PoolInv
<1>2. ControlInv'
  BY <1>1 DEF PoolInv, ControlInv
<1>3. PositionInv'
  BY <1>1 DEF PoolInv, PositionInv, Position
<1>4. CutInv'
  BY <1>1 DEF PoolInv, CutInv, Cut
<1>5. PublishPosition' = PublishPosition
  BY <1>1 DEF PublishPosition
<1>6. QED  BY <1>2, <1>3, <1>4, <1>5 DEF RingKeeps

\* What the other workers have is not touched by a worker.
LEMMA OtherWorkers ==
  ASSUME PoolInv, NEW w \in Worker, NEW from, NEW to, WorkerMoves(w, from, to),
         NEW v \in Worker \ {w}
  PROVE  /\ Has(v)' <=> Has(v)
         /\ Counts(v)' <=> Counts(v)
         /\ Engaged(v)' <=> Engaged(v)
<1>1. pc'[v] = pc[v] /\ StopPending' = StopPending
  BY OtherWorkersStay DEF PoolInv
<1>2. QED  BY <1>1 DEF Has, Counts, Engaged

\* A worker that neither takes, frees, counts nor completes anything.
LEMMA QuietWorker ==
  ASSUME PoolInv, NEW w \in Worker, NEW from, NEW to, WorkerMoves(w, from, to),
         from # "none", to \in WorkerControl,
         to \notin {"none", "loop", "lock", "exit"} => workItem'[w] \in Slot,
         Has(w)' <=> Has(w), Counts(w)' <=> Counts(w), Engaged(w)' <=> Engaged(w),
         Engaged(w) => workItem'[w] = workItem[w],
         from # "complete", to # "complete", from = "ran" => to = "ran",
         \A i \in Slot : /\ WorkItemQueue'[i].State = WorkItemQueue[i].State
                         /\ WorkItemQueue'[i].FirstFragment = WorkItemQueue[i].FirstFragment
                         /\ WorkItemQueue'[i].Encryption = WorkItemQueue[i].Encryption
                         /\ WorkItemQueue'[i].Outstanding = WorkItemQueue[i].Outstanding
                         /\ WorkItemQueue'[i].ItemCompletedEvent = WorkItemQueue[i].ItemCompletedEvent
  PROVE  CallerKeeps /\ RingKeeps
<1>1. /\ pc[w] = from /\ pc'[w] = to /\ \A c \in Caller : pc'[c] = pc[c]
      /\ \A v \in Worker \ {w} : pc'[v] = pc[v] /\ workItem'[v] = workItem[v]
      /\ UNCHANGED <<ThreadPoolRunning, StopPending, RunningThreads, opc, EnqueuePosition,
                     EnqueueMutex, call>>
  BY OtherWorkersStay DEF PoolInv
<1>2. \A v \in Worker : /\ Has(v)' <=> Has(v)
                        /\ Counts(v)' <=> Counts(v)
                        /\ Engaged(v)' <=> Engaged(v)
                        /\ Engaged(v) => workItem'[v] = workItem[v]
  BY <1>1, OtherWorkers
<1>3. RingKeeps /\ PublishPosition' = PublishPosition
  BY WorkerRing
<1>4. \A v \in Worker : /\ Has(v) => Counts(v)
                        /\ Counts(v) => Engaged(v)
                        /\ Engaged(v) => workItem[v] \in Slot /\ Live(workItem[v])
  BY EngagedLive
<1>5. HasInv'
  BY <1>1, <1>2, <1>4 DEF PoolInv, HasInv
<1>6. \A i \in Slot : Live(i)' <=> Live(i)
  BY <1>1, <1>2 DEF Live
<1>7. LiveInv'
  <2>1. \A f, i : Passed(f, i, PublishPosition)' <=> Passed(f, i, PublishPosition)
    BY <1>3 DEF Passed, Distance
  <2>2. QED  BY <1>1, <1>6, <2>1 DEF PoolInv, LiveInv
<1>8. FirstInv'
  BY <1>1, <1>3 DEF PoolInv, FirstInv
<1>9. CountKeeps
  <2> SUFFICES ASSUME NEW d \in Caller, pc'[d] \in Submitted
               PROVE  /\ Outstanding(d)' >= Total(d)'
                      /\ (~StopPending' => Outstanding(d)' = Total(d)')
                      /\ pc'[d] = "await" => call'[d].fragment.left = 0
                      /\ (pc[d] \in Submitted /\ Outstanding(d)' = Total(d)' => Outstanding(d) = Total(d))
    BY DEF CountKeeps
  <2>1. Waiting(d)' = Waiting(d)
    BY <1>1 DEF Waiting
  <2>2. Working(d)' = Working(d)
    BY <1>1, <1>2, <1>4 DEF Working, Belongs
  <2>3. pc[d] \in Submitted /\ call[d].first \in Slot
    BY <1>1 DEF PoolInv, FirstInv, Active
  <2>4. Outstanding(d)' = Outstanding(d) /\ Total(d)' = Total(d)
    BY <1>1, <2>1, <2>2, <2>3 DEF Outstanding, Total
  <2>5. QED  BY <1>1, <2>3, <2>4 DEF PoolInv, CountInv
<1>10. CompleteInv'
  <2>1. \A v \in Worker : /\ pc'[v] = "complete" <=> pc[v] = "complete"
                          /\ pc[v] = "complete" =>
                               /\ workItem'[v] = workItem[v] /\ workItem[v] \in Slot
                               /\ WorkItemQueue[workItem[v]].FirstFragment \in Slot
    BY <1>1, <1>2, <1>4 DEF PoolInv, LiveInv, Engaged
  <2>2. QED  BY <1>1, <2>1 DEF PoolInv, CompleteInv
<1>11. WorkInv'
  <2>1. \A i \in Slot : Workable(i)' => Workable(i)
    <3>1. \A v \in Worker : Has(v)' /\ pc'[v] # "ran" =>
                              Has(v) /\ pc[v] # "ran" /\ workItem'[v] = workItem[v]
      BY <1>1, <1>2, <1>4
    <3>2. QED  BY <1>1, <3>1 DEF Workable
  <2>2. QED  BY <1>1, <2>1 DEF PoolInv, WorkInv, Belongs
<1>12. QED  BY <1>3, <1>5, <1>7, <1>8, <1>9, <1>10, <1>11 DEF CallerKeeps

LEMMA QuietWorkerSteps ==
  ASSUME PoolInv, TypeInv', NEW w \in Worker, WorkerFrame,
         \/ WorkerLoop(w) \/ LockDequeue(w) \/ WaitForItem(w) \/ AwaitReadyItem(w)
         \/ CheckStop(w) \/ RunItem(w) \/ FailItem(w) \/ SignalItemFree(w)
  PROVE  CallerKeeps /\ RingKeeps
<1> DEFINE to == pc'[w]
<1>1. WorkerMoves(w, pc[w], to)
  BY PoolAssumption
     DEF PoolInv, TypeInv, TypeOK, WorkerMoves, WorkerFrame, Goto, WorkerLoop, LockDequeue,
         WaitForItem, AwaitReadyItem, CheckStop, RunItem, FailItem, SignalItemFree
<1>2. /\ \/ pc[w] = "loop" /\ to \in {"lock", "exit"}
         \/ pc[w] = "lock" /\ to = "check" /\ workItem'[w] \in Slot
         \/ pc[w] = "check" /\ to = "wait"
         \/ pc[w] = "wait" /\ to = "check"
         \/ pc[w] = "claimed" /\ to = (IF StopPending THEN "exit" ELSE "run")
         \/ pc[w] = "run" /\ to = "ran"
         \/ pc[w] = "freed" /\ to = "decrement"
      /\ pc[w] # "lock" => workItem'[w] = workItem[w]
  BY PoolAssumption
     DEF PoolInv, TypeInv, TypeOK, Goto, WorkerLoop, LockDequeue,
         WaitForItem, AwaitReadyItem, CheckStop, RunItem, FailItem, SignalItemFree
<1>3. \A i \in Slot : /\ WorkItemQueue'[i].State = WorkItemQueue[i].State
                      /\ WorkItemQueue'[i].FirstFragment = WorkItemQueue[i].FirstFragment
                      /\ WorkItemQueue'[i].Encryption = WorkItemQueue[i].Encryption
                      /\ WorkItemQueue'[i].Outstanding = WorkItemQueue[i].Outstanding
                      /\ WorkItemQueue'[i].ItemCompletedEvent = WorkItemQueue[i].ItemCompletedEvent
  <2>1. CASE FailItem(w)
    BY <2>1 DEF FailItem, PoolInv, TypeInv, TypeOK, ItemType
  <2>2. CASE ~FailItem(w)
    BY <2>2 DEF WorkerLoop, LockDequeue, WaitForItem, AwaitReadyItem, CheckStop, RunItem, SignalItemFree
  <2>3. QED  BY <2>1, <2>2
<1>4. StopPending' = StopPending
  BY DEF WorkerFrame, ownerVars
<1> HIDE DEF to
<1>5. /\ Has(w)' <=> Has(w)
      /\ Counts(w)' <=> Counts(w)
      /\ Engaged(w)' <=> Engaged(w)
      /\ Engaged(w) => pc[w] # "lock"
  BY <1>2, <1>4 DEF Has, Counts, Engaged, to
<1>6. to \notin {"none", "loop", "lock", "exit"} => workItem'[w] \in Slot
  BY <1>2, EngagedLive
<1>7. to \in WorkerControl
  BY <1>2 DEF WorkerControl
<1>8. QED  BY <1>1, <1>2, <1>3, <1>5, <1>6, <1>7, QuietWorker

\* An item is claimed: it is Busy then, also when the pool stops and the item is left alone.
LEMMA ClaimStep ==
  ASSUME PoolInv, TypeInv', NEW w \in Worker, WorkerFrame, ClaimItem(w)
  PROVE  CallerKeeps /\ RingKeeps
<1> DEFINE i == workItem[w]
<1>1. /\ WorkerMoves(w, "check", "claimed") /\ pc[w] = "check" /\ workItem' = workItem
      /\ i \in Slot /\ (StopPending \/ WorkItemQueue[i].State = "Ready")
      /\ StopPending' = StopPending /\ StopPending \in BOOLEAN
      /\ \A j \in Slot : /\ WorkItemQueue'[j].State = (IF j = i THEN "Busy" ELSE WorkItemQueue[j].State)
                         /\ WorkItemQueue'[j].FirstFragment = WorkItemQueue[j].FirstFragment
                         /\ WorkItemQueue'[j].Encryption = WorkItemQueue[j].Encryption
                         /\ WorkItemQueue'[j].Outstanding = WorkItemQueue[j].Outstanding
                         /\ WorkItemQueue'[j].ItemCompletedEvent = WorkItemQueue[j].ItemCompletedEvent
  <2>1. /\ WorkerMoves(w, "check", "claimed") /\ pc[w] = "check" /\ workItem' = workItem
        /\ (StopPending \/ WorkItemQueue[i].State = "Ready")
        /\ StopPending' = StopPending /\ StopPending \in BOOLEAN
        /\ WorkItemQueue' = [WorkItemQueue EXCEPT ![i].State = "Busy"]
    BY DEF PoolInv, TypeInv, TypeOK, WorkerMoves, WorkerFrame, Goto, ClaimItem, Claimable, ownerVars
  <2>2. i \in Slot
    BY <2>1, EngagedLive
  <2>3. QED  BY <2>1, <2>2 DEF PoolInv, TypeInv, TypeOK, ItemType
<1>2. /\ pc'[w] = "claimed" /\ \A c \in Caller : pc'[c] = pc[c]
      /\ \A v \in Worker \ {w} : pc'[v] = pc[v]
      /\ call' = call
  BY <1>1, OtherWorkersStay DEF PoolInv
<1>3. RingKeeps /\ PublishPosition' = PublishPosition
  BY <1>1, WorkerRing DEF WorkerControl
<1>4. /\ \A v \in Worker \ {w} : /\ Has(v)' <=> Has(v)
                                 /\ Counts(v)' <=> Counts(v)
                                 /\ Engaged(v)' <=> Engaged(v)
      /\ ~Has(w) /\ ~Counts(w) /\ ~Engaged(w)
      /\ Has(w)' <=> ~StopPending
      /\ Counts(w)' <=> ~StopPending
      /\ Engaged(w)' <=> ~StopPending
  <2>1. ~Has(w) /\ ~Counts(w) /\ ~Engaged(w)
    BY <1>1 DEF Has, Counts, Engaged
  <2>2. Has(w)' <=> ~StopPending
    BY <1>1, <1>2 DEF Has
  <2>3. /\ Counts(w)' <=> Has(w)'
        /\ Engaged(w)' <=> Has(w)'
    BY <1>2 DEF Counts, Engaged
  <2>4. QED  BY <1>1, <2>1, <2>2, <2>3, OtherWorkers
<1>5. \A v \in Worker : /\ Has(v) => Counts(v)
                        /\ Counts(v) => Engaged(v)
                        /\ Engaged(v) => workItem[v] \in Slot /\ Live(workItem[v])
  BY EngagedLive
<1>6. HasInv'
  <2>1. \A v \in Worker \ {w} : Has(v) /\ ~StopPending => workItem[v] # i
    BY <1>1 DEF PoolInv, HasInv
  <2>2. QED  BY <1>1, <1>4, <1>5, <2>1 DEF PoolInv, HasInv
<1>7. \A j \in Slot : Live(j)' => Live(j)
  BY <1>1, <1>4 DEF Live
<1>8. LiveInv'
  <2>1. \A f, j : Passed(f, j, PublishPosition)' <=> Passed(f, j, PublishPosition)
    BY <1>3 DEF Passed, Distance
  <2>2. QED  BY <1>1, <1>2, <1>7, <2>1 DEF PoolInv, LiveInv
<1>9. FirstInv'
  BY <1>1, <1>2, <1>3 DEF PoolInv, FirstInv
<1>10. CountKeeps
  <2> SUFFICES ASSUME NEW d \in Caller, pc'[d] \in Submitted
               PROVE  /\ Outstanding(d)' >= Total(d)'
                      /\ (~StopPending' => Outstanding(d)' = Total(d)')
                      /\ pc'[d] = "await" => call'[d].fragment.left = 0
                      /\ (pc[d] \in Submitted /\ Outstanding(d)' = Total(d)' => Outstanding(d) = Total(d))
    BY DEF CountKeeps
  <2> DEFINE l == call[d].fragment.left  m == Cardinality(Waiting(d))  n == Cardinality(Working(d))
             o == Outstanding(d)
  <2>1. pc[d] \in Submitted /\ call[d].first \in Slot
    BY <1>2 DEF PoolInv, FirstInv, Active
  <2>2. Outstanding(d)' = o /\ o \in Int /\ l \in Nat /\ m \in Nat /\ n \in Nat
    BY <1>1, <1>2, <2>1, WaitingFinite
       DEF Outstanding, PoolInv, TypeInv, TypeOK, ItemType, CallType, FragmentType
  <2>3. o >= l + m + n /\ (~StopPending => o = l + m + n) /\ Total(d) = l + m + n
    BY <2>1 DEF PoolInv, CountInv, Total
  <2>4. Waiting(d)' = Waiting(d) \ {i}
    BY <1>1, <1>2 DEF Waiting
  <2>5. CASE ~StopPending
    <3>1. WorkItemQueue[i].State = "Ready"
      BY <1>1, <2>5
    <3>2. CASE Belongs(i, d)
      <4>1. Working(d)' = Working(d) \cup {w} /\ w \notin Working(d)
        BY <1>1, <1>2, <1>4, <1>5, <2>5, <3>2 DEF Working, Belongs
      <4>2. i \in Waiting(d)
        BY <1>1, <3>1, <3>2 DEF Waiting, Belongs
      <4>3. Cardinality(Waiting(d) \ {i}) = m - 1 /\ Cardinality(Working(d) \cup {w}) = n + 1
        BY <4>1, <4>2, WaitingFinite, FS_RemoveElement, FS_AddElement
      <4>4. Total(d)' = l + (m - 1) + (n + 1)
        BY <1>2, <2>4, <4>1, <4>3 DEF Total
      <4> HIDE DEF l, m, n, o
      <4>5. Total(d)' = l + m + n
        BY <2>2, <4>4
      <4>6. QED  BY <1>1, <1>2, <2>1, <2>2, <2>3, <4>5 DEF PoolInv, CountInv, o
    <3>3. CASE ~Belongs(i, d)
      <4>1. Working(d)' = Working(d)
        BY <1>1, <1>2, <1>4, <1>5, <2>5, <3>3 DEF Working, Belongs
      <4>2. Waiting(d)' = Waiting(d)
        BY <2>4, <3>3 DEF Waiting, Belongs
      <4>3. Total(d)' = l + m + n
        BY <1>2, <4>1, <4>2 DEF Total
      <4>4. QED  BY <1>1, <1>2, <2>1, <2>2, <2>3, <4>3 DEF PoolInv, CountInv
    <3>4. QED  BY <3>2, <3>3
  <2>6. CASE StopPending
    <3>1. Working(d)' = Working(d)
      BY <1>1, <1>2, <1>4, <1>5, <2>6 DEF Working, Belongs
    <3> DEFINE p == Cardinality(Waiting(d) \ {i})
    <3>2. p \in Nat /\ p <= m
      <4>1. IsFiniteSet(Waiting(d)) /\ Waiting(d) \ {i} \subseteq Waiting(d)
        BY WaitingFinite
      <4>2. QED  BY <4>1, FS_Subset, FS_CardinalityType
    <3>3. Total(d)' = l + p + n
      BY <1>2, <2>4, <3>1 DEF Total
    <3> HIDE DEF l, m, n, o, p
    <3>4. o >= l + p + n /\ (o = l + p + n => o = l + m + n)
      BY <2>2, <2>3, <3>2
    <3>5. QED  BY <1>1, <1>2, <2>1, <2>2, <2>3, <2>6, <3>3, <3>4 DEF PoolInv, CountInv, o
  <2>7. QED  BY <2>5, <2>6
<1>11. CompleteInv'
  <2>1. \A v \in Worker : /\ pc'[v] = "complete" <=> pc[v] = "complete"
                          /\ pc[v] = "complete" =>
                               /\ workItem[v] \in Slot
                               /\ WorkItemQueue[workItem[v]].FirstFragment \in Slot
    BY <1>1, <1>2, <1>5 DEF PoolInv, LiveInv, Engaged
  <2>2. QED  BY <1>1, <1>2, <2>1 DEF PoolInv, CompleteInv
<1>12. WorkInv'
  <2>1. \A j \in Slot : Workable(j)' => Workable(j)
    BY <1>1, <1>2, <1>4 DEF Workable
  <2>2. QED  BY <1>1, <1>2, <2>1 DEF PoolInv, WorkInv, Belongs
<1>13. QED  BY <1>3, <1>6, <1>8, <1>9, <1>10, <1>11, <1>12 DEF CallerKeeps

\* An item is freed, unless it is the first of its request; it is counted down later.
LEMMA FreeStep ==
  ASSUME PoolInv, TypeInv', NEW w \in Worker, WorkerFrame, FreeItem(w)
  PROVE  CallerKeeps /\ RingKeeps
<1> DEFINE i == workItem[w]  free == FreedByWorker(i)
           to == IF free THEN "freed" ELSE "decrement"
<1>1. /\ WorkerMoves(w, "ran", to) /\ pc[w] = "ran" /\ workItem' = workItem
      /\ StopPending' = StopPending /\ Has(w)
  BY DEF PoolInv, TypeInv, TypeOK, WorkerMoves, WorkerFrame, Goto, FreeItem, ownerVars, Has
<1>2. \A v \in Worker : /\ Has(v) => Counts(v)
                        /\ Counts(v) => Engaged(v)
                        /\ Engaged(v) => workItem[v] \in Slot /\ Live(workItem[v])
  BY EngagedLive
<1>3. i \in Slot /\ Live(i) /\ WorkItemQueue[i].State = "Busy"
      /\ \A v \in Worker \ {w} : Has(v) => workItem[v] # i
  BY <1>1, <1>2 DEF PoolInv, HasInv
<1>4. \A j \in Slot : /\ WorkItemQueue'[j].State = (IF free /\ j = i THEN "Free" ELSE WorkItemQueue[j].State)
                      /\ WorkItemQueue'[j].FirstFragment = WorkItemQueue[j].FirstFragment
                      /\ j # i => WorkItemQueue'[j].Encryption = WorkItemQueue[j].Encryption
                      /\ WorkItemQueue'[j].Outstanding = WorkItemQueue[j].Outstanding
                      /\ WorkItemQueue'[j].ItemCompletedEvent = WorkItemQueue[j].ItemCompletedEvent
  <2> HIDE DEF free
  <2>1. CASE free
    <3>1. WorkItemQueue' = [WorkItemQueue EXCEPT ![i].State = "Free", ![i].Encryption = NoWork]
      BY <2>1 DEF FreeItem, free
    <3>2. QED  BY <1>3, <2>1, <3>1 DEF PoolInv, TypeInv, TypeOK, ItemType
  <2>2. CASE ~free
    <3>1. WorkItemQueue' = WorkItemQueue
      BY <2>2 DEF FreeItem, free
    <3>2. QED  BY <2>2, <3>1
  <2>3. QED  BY <2>1, <2>2
<1>5. free => \A f \in Slot : WorkItemQueue[f].FirstFragment = f => f # i
  BY <1>3 DEF FreedByWorker
<1>6. to \in {"freed", "decrement"}
  OBVIOUS
<1> HIDE DEF to, free
<1>7. /\ pc'[w] = to /\ \A c \in Caller : pc'[c] = pc[c]
      /\ \A v \in Worker \ {w} : pc'[v] = pc[v]
      /\ call' = call
  BY <1>1, OtherWorkersStay DEF PoolInv
<1>8. RingKeeps /\ PublishPosition' = PublishPosition
  BY <1>1, <1>3, <1>6, WorkerRing DEF WorkerControl
<1>9. /\ \A v \in Worker : /\ Has(v)' <=> Has(v) /\ v # w
                           /\ Counts(v)' <=> Counts(v)
                           /\ Engaged(v)' <=> Engaged(v)
  <2>1. ~Has(w)' /\ Counts(w)' /\ Engaged(w)'
    BY <1>6, <1>7 DEF Has, Counts, Engaged
  <2>2. QED  BY <1>1, <1>2, <2>1, OtherWorkers
<1>10. HasInv'
  BY <1>1, <1>2, <1>3, <1>4, <1>9 DEF PoolInv, HasInv
<1>11. \A j \in Slot : Live(j)' <=> Live(j)
  BY <1>1, <1>3, <1>4, <1>9 DEF Live
<1>12. LiveInv'
  <2>1. \A f, j : Passed(f, j, PublishPosition)' <=> Passed(f, j, PublishPosition)
    BY <1>8 DEF Passed, Distance
  <2>2. QED  BY <1>4, <1>5, <1>7, <1>11, <2>1 DEF PoolInv, LiveInv
<1>13. FirstInv'
  BY <1>4, <1>5, <1>7, <1>8 DEF PoolInv, FirstInv
<1>14. CountKeeps
  <2> SUFFICES ASSUME NEW d \in Caller, pc'[d] \in Submitted
               PROVE  /\ Outstanding(d)' >= Total(d)'
                      /\ (~StopPending' => Outstanding(d)' = Total(d)')
                      /\ pc'[d] = "await" => call'[d].fragment.left = 0
                      /\ (pc[d] \in Submitted /\ Outstanding(d)' = Total(d)' => Outstanding(d) = Total(d))
    BY DEF CountKeeps
  <2>1. Waiting(d)' = Waiting(d)
    BY <1>3, <1>4, <1>7 DEF Waiting
  <2>2. Working(d)' = Working(d)
    BY <1>1, <1>2, <1>4, <1>7, <1>9 DEF Working, Belongs
  <2>3. pc[d] \in Submitted /\ call[d].first \in Slot
    BY <1>7 DEF PoolInv, FirstInv, Active
  <2>4. Outstanding(d)' = Outstanding(d) /\ Total(d)' = Total(d)
    BY <1>4, <1>7, <2>1, <2>2, <2>3 DEF Outstanding, Total
  <2>5. QED  BY <1>1, <1>7, <2>3, <2>4 DEF PoolInv, CountInv
<1>15. CompleteInv'
  <2>1. \A v \in Worker : /\ pc'[v] = "complete" <=> pc[v] = "complete"
                          /\ pc[v] = "complete" =>
                               /\ workItem[v] \in Slot
                               /\ WorkItemQueue[workItem[v]].FirstFragment \in Slot
    BY <1>1, <1>2, <1>6, <1>7 DEF PoolInv, LiveInv, Engaged
  <2>2. QED  BY <1>1, <1>4, <1>7, <2>1 DEF PoolInv, CompleteInv
<1>16. WorkInv'
  <2>1. \A j \in Slot : Workable(j)' => Workable(j) /\ j # i
    <3>1. \A j \in Slot : Workable(j)' => Workable(j)
      BY <1>1, <1>4, <1>7, <1>9 DEF Workable
    <3>2. \A j \in Slot : Workable(j)' => j # i
      BY <1>1, <1>3, <1>4, <1>9 DEF Workable
    <3>3. QED  BY <3>1, <3>2
  <2>2. QED  BY <1>4, <1>7, <2>1 DEF PoolInv, WorkInv, Belongs
<1>17. QED  BY <1>8, <1>10, <1>12, <1>13, <1>14, <1>15, <1>16 DEF CallerKeeps

\* The fragment that a worker counts down belongs to exactly one request.
LEMMA CountedRequest ==
  ASSUME PoolInv, NEW w \in Worker, Engaged(w)
  PROVE  LET f == WorkItemQueue[workItem[w]].FirstFragment IN
         /\ workItem[w] \in Slot /\ f \in Slot
         /\ \E c \in Caller : /\ pc[c] \in Submitted /\ call[c].first = f
                              /\ \A d \in Caller \ {c} : pc[d] \in Submitted => call[d].first # f
<1>1. workItem[w] \in Slot /\ Live(workItem[w])
  BY EngagedLive
<1> DEFINE f == WorkItemQueue[workItem[w]].FirstFragment
<1>2. f \in Slot /\ \E c \in Caller : pc[c] \in Submitted /\ call[c].first = f
  BY <1>1 DEF PoolInv, LiveInv
<1>3. PICK c \in Caller : pc[c] \in Submitted /\ call[c].first = f
  BY <1>2
<1>4. \A d \in Caller \ {c} : pc[d] \in Submitted => call[d].first # f
  BY <1>3 DEF PoolInv, FirstInv, Active
<1>5. QED  BY <1>1, <1>2, <1>3, <1>4

\* A fragment is counted down; the last one has the completion signalled.
LEMMA DecrementStep ==
  ASSUME PoolInv, TypeInv', NEW w \in Worker, WorkerFrame, DecrementOutstanding(w)
  PROVE  CallerKeeps /\ RingKeeps
<1> DEFINE i == workItem[w]  first == WorkItemQueue[i].FirstFragment
           last == WorkItemQueue[first].Outstanding = 1
           to == IF last THEN "complete" ELSE "loop"
<1>1. /\ WorkerMoves(w, "decrement", to) /\ pc[w] = "decrement" /\ StopPending' = StopPending
      /\ last => workItem' = workItem
      /\ WorkItemQueue' = [WorkItemQueue EXCEPT ![first].Outstanding = @ - 1]
  BY DEF PoolInv, TypeInv, TypeOK, WorkerMoves, WorkerFrame, Goto, DecrementOutstanding, ownerVars
<1>2. ~Has(w) /\ Counts(w) /\ Engaged(w)
  BY <1>1 DEF Has, Counts, Engaged
<1>3. /\ i \in Slot /\ first \in Slot
      /\ \E c \in Caller : /\ pc[c] \in Submitted /\ call[c].first = first
                           /\ \A d \in Caller \ {c} : pc[d] \in Submitted => call[d].first # first
  BY <1>2, CountedRequest
<1>4. PICK c \in Caller : /\ pc[c] \in Submitted /\ call[c].first = first
                          /\ \A d \in Caller \ {c} : pc[d] \in Submitted => call[d].first # first
  BY <1>3
<1>5. /\ \A j \in Slot : /\ WorkItemQueue'[j].State = WorkItemQueue[j].State
                         /\ WorkItemQueue'[j].FirstFragment = WorkItemQueue[j].FirstFragment
                         /\ WorkItemQueue'[j].Encryption = WorkItemQueue[j].Encryption
                         /\ j # first => WorkItemQueue'[j].Outstanding = WorkItemQueue[j].Outstanding
                         /\ WorkItemQueue'[j].ItemCompletedEvent = WorkItemQueue[j].ItemCompletedEvent
      /\ WorkItemQueue'[first].Outstanding = WorkItemQueue[first].Outstanding - 1
      /\ WorkItemQueue[first].Outstanding \in Int
  <2> HIDE DEF first
  <2>1. QED  BY <1>1, <1>3 DEF PoolInv, TypeInv, TypeOK, ItemType
<1>6. to \in {"complete", "loop"} /\ (to = "complete" <=> last)
  OBVIOUS
<1> HIDE DEF to
<1>7. /\ pc'[w] = to /\ \A d \in Caller : pc'[d] = pc[d]
      /\ \A v \in Worker \ {w} : pc'[v] = pc[v] /\ workItem'[v] = workItem[v]
      /\ call' = call
  BY <1>1, OtherWorkersStay DEF PoolInv
<1>8. RingKeeps /\ PublishPosition' = PublishPosition
  BY <1>1, <1>3, <1>6, WorkerRing DEF WorkerControl
<1>9. \A v \in Worker : /\ Has(v) => Counts(v)
                        /\ Counts(v) => Engaged(v)
                        /\ Engaged(v) => workItem[v] \in Slot /\ Live(workItem[v])
  BY EngagedLive
<1>10. \A v \in Worker : /\ Has(v)' <=> Has(v)
                         /\ Counts(v)' <=> Counts(v) /\ v # w
                         /\ Engaged(v)' => Engaged(v) /\ workItem'[v] = workItem[v]
  <2>1. ~Has(w)' /\ ~Counts(w)' /\ (Engaged(w)' => last)
    BY <1>6, <1>7 DEF Has, Counts, Engaged
  <2>2. QED  BY <1>1, <1>2, <1>7, <2>1, OtherWorkers
<1>11. HasInv'
  BY <1>2, <1>5, <1>7, <1>9, <1>10 DEF PoolInv, HasInv
<1>12. \A j \in Slot : Live(j)' => Live(j)
  BY <1>5, <1>10 DEF Live
<1>13. LiveInv'
  <2>1. \A f, j : Passed(f, j, PublishPosition)' <=> Passed(f, j, PublishPosition)
    BY <1>8 DEF Passed, Distance
  <2>2. QED  BY <1>5, <1>7, <1>12, <2>1 DEF PoolInv, LiveInv
<1>14. FirstInv'
  BY <1>5, <1>7, <1>8 DEF PoolInv, FirstInv
<1>15. \A d \in Caller : Waiting(d)' = Waiting(d)
  BY <1>5, <1>7 DEF Waiting
<1>16. w \in Working(c) /\ Working(c)' = Working(c) \ {w}
  BY <1>2, <1>4, <1>5, <1>7, <1>9, <1>10 DEF Working, Belongs
<1>17. WorkItemQueue[first].Outstanding >= 1
  <2>1. WorkItemQueue[first].Outstanding # 0
    <3>1. Outstanding(c) # 0
      BY <1>4, <1>16, NothingLeft
    <3>2. QED  BY <1>4, <3>1 DEF Outstanding
  <2> DEFINE l == call[c].fragment.left  m == Cardinality(Waiting(c))  n == Cardinality(Working(c))
             o == WorkItemQueue[first].Outstanding
  <2>2. l \in Nat /\ m \in Nat /\ n \in Nat /\ o >= l + m + n
    <3>1. Outstanding(c) >= l + m + n
      BY <1>4 DEF PoolInv, CountInv, Total
    <3>2. QED  BY <1>4, <3>1, WaitingFinite DEF Outstanding, PoolInv, TypeInv, TypeOK, CallType, FragmentType
  <2> HIDE DEF l, m, n, o
  <2>3. o \in Int
    BY <1>5 DEF o
  <2>4. o >= 1
    BY <2>1, <2>2, <2>3 DEF o
  <2>5. QED  BY <2>4 DEF o
<1>18. CountKeeps
  <2> SUFFICES ASSUME NEW d \in Caller, pc'[d] \in Submitted
               PROVE  /\ Outstanding(d)' >= Total(d)'
                      /\ (~StopPending' => Outstanding(d)' = Total(d)')
                      /\ pc'[d] = "await" => call'[d].fragment.left = 0
                      /\ (pc[d] \in Submitted /\ Outstanding(d)' = Total(d)' => Outstanding(d) = Total(d))
    BY DEF CountKeeps
  <2> DEFINE l == call[d].fragment.left  m == Cardinality(Waiting(d))  n == Cardinality(Working(d))
             o == Outstanding(d)
  <2>1. pc[d] \in Submitted /\ call[d].first \in Slot
    BY <1>7 DEF PoolInv, FirstInv, Active
  <2>2. o \in Int /\ l \in Nat /\ m \in Nat /\ n \in Nat
    BY <2>1, WaitingFinite DEF Outstanding, PoolInv, TypeInv, TypeOK, ItemType, CallType, FragmentType
  <2>3. o >= l + m + n /\ (~StopPending => o = l + m + n) /\ Total(d) = l + m + n
    BY <2>1 DEF PoolInv, CountInv, Total
  <2>4. CASE d = c
    <3>1. Cardinality(Working(c) \ {w}) = Cardinality(Working(c)) - 1
      BY <1>16, WaitingFinite, FS_RemoveElement
    <3>2. Total(d)' = l + m + (n - 1)
      BY <1>7, <1>15, <1>16, <2>4, <3>1 DEF Total
    <3>3. Outstanding(d)' = o - 1
      BY <1>4, <1>5, <1>7, <2>4 DEF Outstanding
    <3> HIDE DEF l, m, n, o
    <3>4. /\ Outstanding(d)' >= Total(d)' /\ (~StopPending => Outstanding(d)' = Total(d)')
          /\ Outstanding(d)' = Total(d)' => o = Total(d)
      BY <2>2, <2>3, <3>2, <3>3
    <3>5. QED  BY <1>1, <1>7, <2>1, <3>4 DEF PoolInv, CountInv, o
  <2>5. CASE d # c
    <3>1. Working(d)' = Working(d)
      BY <1>4, <1>5, <1>7, <1>9, <1>10, <2>1, <2>5 DEF Working, Belongs
    <3>2. Outstanding(d)' = o /\ Total(d)' = l + m + n
      BY <1>4, <1>5, <1>7, <1>15, <2>1, <2>5, <3>1 DEF Outstanding, Total
    <3>3. QED  BY <1>1, <1>7, <2>1, <2>3, <3>2 DEF PoolInv, CountInv
  <2>6. QED  BY <2>4, <2>5
<1>19. CompleteInv'
  <2> DEFINE g(v) == WorkItemQueue[workItem[v]].FirstFragment
  <2>1. \A v \in Worker : pc[v] = "complete" =>
          /\ v # w /\ workItem[v] \in Slot /\ g(v) \in Slot \ {first}
          /\ WorkItemQueue[g(v)].Outstanding = 0 /\ ~WorkItemQueue[g(v)].ItemCompletedEvent
          /\ \A u \in Worker \ {v} : pc[u] = "complete" => g(u) # g(v)
    <3>1. \A v \in Worker : pc[v] = "complete" => workItem[v] \in Slot /\ g(v) \in Slot
      BY <1>9 DEF PoolInv, LiveInv, Engaged
    <3>2. \A v \in Worker : pc[v] = "complete" =>
            /\ WorkItemQueue[g(v)].Outstanding = 0 /\ ~WorkItemQueue[g(v)].ItemCompletedEvent
            /\ \A u \in Worker \ {v} : pc[u] = "complete" => g(u) # g(v)
      BY DEF PoolInv, CompleteInv
    <3>3. QED  BY <1>1, <1>17, <3>1, <3>2
  <2>2. \A v \in Worker \ {w} : pc'[v] = "complete" =>
          LET f == WorkItemQueue'[workItem'[v]].FirstFragment IN
          /\ WorkItemQueue'[f].Outstanding = 0 /\ ~WorkItemQueue'[f].ItemCompletedEvent
          /\ f # first
          /\ \A u \in Worker \ {v, w} :
               pc'[u] = "complete" => WorkItemQueue'[workItem'[u]].FirstFragment # f
    BY <1>5, <1>7, <2>1
  <2>3. pc'[w] = "complete" =>
          /\ WorkItemQueue'[workItem'[w]].FirstFragment = first
          /\ WorkItemQueue'[first].Outstanding = 0 /\ ~WorkItemQueue'[first].ItemCompletedEvent
    BY <1>1, <1>3, <1>5, <1>6, <1>7 DEF PoolInv, CompleteInv
  <2>4. \A j \in Slot : WorkItemQueue'[j].ItemCompletedEvent =>
          /\ WorkItemQueue'[j].Outstanding = 0
          /\ \E d \in Caller : pc'[d] \in Submitted /\ call'[d].first = j
    BY <1>5, <1>7, <1>17 DEF PoolInv, CompleteInv
  <2> HIDE DEF first, g
  <2>5. QED  BY <2>2, <2>3, <2>4 DEF CompleteInv
<1>20. WorkInv'
  <2>1. \A j \in Slot : Workable(j)' => Workable(j)
    BY <1>2, <1>5, <1>7, <1>10 DEF Workable
  <2>2. QED  BY <1>5, <1>7, <2>1 DEF PoolInv, WorkInv, Belongs
<1>21. QED  BY <1>8, <1>11, <1>13, <1>14, <1>18, <1>19, <1>20 DEF CallerKeeps

\* The completion is signalled: the caller is there and was not signalled before.
LEMMA SignalCompletionStep ==
  ASSUME PoolInv, TypeInv', NEW w \in Worker, WorkerFrame, SignalCompletion(w)
  PROVE  CallerKeeps /\ RingKeeps
<1> DEFINE i == workItem[w]  first == WorkItemQueue[i].FirstFragment
<1>1. /\ WorkerMoves(w, "complete", "loop") /\ pc[w] = "complete" /\ StopPending' = StopPending
      /\ WorkItemQueue' = [WorkItemQueue EXCEPT ![first].ItemCompletedEvent = TRUE]
  BY DEF PoolInv, TypeInv, TypeOK, WorkerMoves, WorkerFrame, Goto, SignalCompletion, ownerVars
<1>2. ~Has(w) /\ ~Counts(w) /\ Engaged(w)
  BY <1>1 DEF Has, Counts, Engaged
<1>3. /\ i \in Slot /\ first \in Slot
      /\ \E c \in Caller : pc[c] \in Submitted /\ call[c].first = first
  BY <1>2, CountedRequest
<1>4. \A j \in Slot : /\ WorkItemQueue'[j].State = WorkItemQueue[j].State
                      /\ WorkItemQueue'[j].FirstFragment = WorkItemQueue[j].FirstFragment
                      /\ WorkItemQueue'[j].Encryption = WorkItemQueue[j].Encryption
                      /\ WorkItemQueue'[j].Outstanding = WorkItemQueue[j].Outstanding
                      /\ j # first => WorkItemQueue'[j].ItemCompletedEvent = WorkItemQueue[j].ItemCompletedEvent
  <2> HIDE DEF first
  <2>1. WorkItemQueue \in [Slot -> ItemType]
    BY DEF PoolInv, TypeInv, TypeOK
  <2>2. QED  BY <1>1, <1>3, <2>1 DEF ItemType
<1>5. /\ pc'[w] = "loop" /\ \A d \in Caller : pc'[d] = pc[d]
      /\ \A v \in Worker \ {w} : pc'[v] = pc[v] /\ workItem'[v] = workItem[v]
      /\ call' = call
  BY <1>1, OtherWorkersStay DEF PoolInv
<1>6. RingKeeps /\ PublishPosition' = PublishPosition
  BY <1>1, WorkerRing DEF WorkerControl
<1>7. \A v \in Worker : /\ Has(v) => Counts(v)
                        /\ Counts(v) => Engaged(v)
                        /\ Engaged(v) => workItem[v] \in Slot /\ Live(workItem[v])
  BY EngagedLive
<1>8. \A v \in Worker : /\ Has(v)' <=> Has(v)
                        /\ Counts(v)' <=> Counts(v)
                        /\ Engaged(v)' => Engaged(v) /\ workItem'[v] = workItem[v]
                        /\ Counts(v) => v # w
  <2>1. ~Has(w)' /\ ~Counts(w)' /\ ~Engaged(w)'
    BY <1>5 DEF Has, Counts, Engaged
  <2>2. QED  BY <1>1, <1>2, <1>5, <2>1, OtherWorkers
<1>9. HasInv'
  BY <1>2, <1>4, <1>5, <1>7, <1>8 DEF PoolInv, HasInv
<1>10. \A j \in Slot : Live(j)' => Live(j)
  BY <1>4, <1>8 DEF Live
<1>11. LiveInv'
  <2>1. \A f, j : Passed(f, j, PublishPosition)' <=> Passed(f, j, PublishPosition)
    BY <1>6 DEF Passed, Distance
  <2>2. QED  BY <1>4, <1>5, <1>10, <2>1 DEF PoolInv, LiveInv
<1>12. FirstInv'
  BY <1>4, <1>5, <1>6 DEF PoolInv, FirstInv
<1>13. CountKeeps
  <2> SUFFICES ASSUME NEW d \in Caller, pc'[d] \in Submitted
               PROVE  /\ Outstanding(d)' >= Total(d)'
                      /\ (~StopPending' => Outstanding(d)' = Total(d)')
                      /\ pc'[d] = "await" => call'[d].fragment.left = 0
                      /\ (pc[d] \in Submitted /\ Outstanding(d)' = Total(d)' => Outstanding(d) = Total(d))
    BY DEF CountKeeps
  <2>1. Waiting(d)' = Waiting(d)
    BY <1>4, <1>5 DEF Waiting
  <2>2. Working(d)' = Working(d)
    BY <1>4, <1>5, <1>7, <1>8 DEF Working, Belongs
  <2>3. pc[d] \in Submitted /\ call[d].first \in Slot
    BY <1>5 DEF PoolInv, FirstInv, Active
  <2>4. Outstanding(d)' = Outstanding(d) /\ Total(d)' = Total(d)
    BY <1>4, <1>5, <2>1, <2>2, <2>3 DEF Outstanding, Total
  <2>5. QED  BY <1>1, <1>5, <2>3, <2>4 DEF PoolInv, CountInv
<1>14. CompleteInv'
  <2> DEFINE g(v) == WorkItemQueue[workItem[v]].FirstFragment
  <2>1. WorkItemQueue[first].Outstanding = 0
    BY <1>1 DEF PoolInv, CompleteInv
  <2>2. \A v \in Worker \ {w} : pc[v] = "complete" =>
          /\ workItem[v] \in Slot /\ g(v) \in Slot \ {first}
          /\ WorkItemQueue[g(v)].Outstanding = 0 /\ ~WorkItemQueue[g(v)].ItemCompletedEvent
          /\ \A u \in Worker \ {v} : pc[u] = "complete" => g(u) # g(v)
    <3>1. \A v \in Worker : pc[v] = "complete" => workItem[v] \in Slot /\ g(v) \in Slot
      BY <1>7 DEF PoolInv, LiveInv, Engaged
    <3>2. \A v \in Worker : pc[v] = "complete" =>
            /\ WorkItemQueue[g(v)].Outstanding = 0 /\ ~WorkItemQueue[g(v)].ItemCompletedEvent
            /\ \A u \in Worker \ {v} : pc[u] = "complete" => g(u) # g(v)
      BY DEF PoolInv, CompleteInv
    <3>3. QED  BY <1>1, <3>1, <3>2
  <2>3. \A v \in Worker : pc'[v] = "complete" =>
          LET f == WorkItemQueue'[workItem'[v]].FirstFragment IN
          /\ WorkItemQueue'[f].Outstanding = 0 /\ ~WorkItemQueue'[f].ItemCompletedEvent
          /\ \A u \in Worker \ {v} :
               pc'[u] = "complete" => WorkItemQueue'[workItem'[u]].FirstFragment # f
    BY <1>4, <1>5, <2>2
  <2>4. \A j \in Slot : WorkItemQueue'[j].ItemCompletedEvent =>
          /\ WorkItemQueue'[j].Outstanding = 0
          /\ \E d \in Caller : pc'[d] \in Submitted /\ call'[d].first = j
    BY <1>3, <1>4, <1>5, <2>1 DEF PoolInv, CompleteInv
  <2>5. QED  BY <2>3, <2>4 DEF CompleteInv
<1>15. WorkInv'
  <2>1. \A j \in Slot : Workable(j)' => Workable(j)
    BY <1>2, <1>4, <1>5, <1>7, <1>8 DEF Workable
  <2>2. QED  BY <1>4, <1>5, <2>1 DEF PoolInv, WorkInv, Belongs
<1>16. QED  BY <1>6, <1>9, <1>11, <1>12, <1>13, <1>14, <1>15 DEF CallerKeeps

LEMMA WorkerPoolStep ==
  ASSUME PoolInv, NEW w \in Worker, WorkerStep(w)
  PROVE  PoolInv' /\ CountKeeps
<1>1. WorkerFrame /\ TypeInv'
  BY WorkerType DEF WorkerStep, PoolInv
<1>2. CallerKeeps /\ RingKeeps
  BY <1>1, QuietWorkerSteps, ClaimStep, FreeStep, DecrementStep, SignalCompletionStep
     DEF WorkerStep, InWorkThreadProc
<1>3. QED  BY <1>1, <1>2 DEF PoolInv, CallerKeeps, RingKeeps, CountKeeps, CountInv

\* Start: nobody uses the pool yet.
LEMMA StartPool == ASSUME PoolInv, Start  PROVE PoolInv' /\ CountKeeps
<1>1. TypeInv'
  BY OwnerType DEF OwnerStep, PoolInv
<1>2. /\ opc = "created" /\ opc' = "starting" /\ UNCHANGED <<ThreadPoolRunning, RunningThreads>>
      /\ ~ThreadPoolRunning /\ ~StopPending'
      /\ UNCHANGED <<EnqueueMutex, pc, call, workItem>>
      /\ \A i \in Slot : WorkItemQueue'[i] = [WorkItemQueue[i] EXCEPT !.State = "Free"]
  BY DEF Start, OwnerGoto, threadVars
<1>3. /\ \A c \in Caller : pc[c] \in Outside
      /\ \A w \in Worker : pc[w] = "none"
  BY <1>2 DEF PoolInv, ControlInv
<1>4. \A c \in Caller : pc[c] \notin Active /\ pc[c] \notin Submitted /\ pc[c] \notin {"lock", "first", "firstWait"}
  BY <1>3 DEF Outside, Active, Submitted
<1>5. \A i \in Slot : /\ WorkItemQueue'[i].State = "Free"
                      /\ ~WorkItemQueue'[i].ItemCompletedEvent
  <2>1. \A i \in Slot : ~WorkItemQueue[i].ItemCompletedEvent
    BY <1>4 DEF PoolInv, CompleteInv
  <2>2. WorkItemQueue \in [Slot -> ItemType]
    BY DEF PoolInv, TypeInv, TypeOK
  <2>3. SUFFICES ASSUME NEW i \in Slot
                 PROVE  /\ WorkItemQueue'[i].State = "Free"
                        /\ ~WorkItemQueue'[i].ItemCompletedEvent
    OBVIOUS
  <2>4. WorkItemQueue[i] \in ItemType /\ WorkItemQueue'[i] = [WorkItemQueue[i] EXCEPT !.State = "Free"]
    BY <1>2, <2>2
  <2>5. QED  BY <2>1, <2>4 DEF ItemType
<1>6. ControlInv'
  BY <1>2, <1>3 DEF PoolInv, ControlInv
<1>7. HasInv' /\ LiveInv' /\ CompleteInv' /\ WorkInv'
  BY <1>2, <1>3, <1>5 DEF HasInv, LiveInv, CompleteInv, WorkInv, Has, Live, Engaged, Counts, Workable
<1>8. PositionInv' /\ FirstInv' /\ CountInv' /\ CountKeeps
  BY <1>2, <1>3, <1>4 DEF PositionInv, Position, FirstInv, CountInv, CountKeeps, Outside
<1>9. CutInv'
  BY <1>2 DEF PoolInv, CutInv, Cut
<1>10. QED  BY <1>1, <1>6, <1>7, <1>8, <1>9 DEF PoolInv

\* The steps of the owner that leave the threads and the ring alone; when the
\* pool is to stop, workers that have just claimed an item no longer count.
LEMMA OwnerKeeps ==
  ASSUME PoolInv, TypeInv', ControlInv',
         UNCHANGED <<headVars, WorkItemQueue, call, workItem>>,
         \A c \in Caller : pc'[c] = pc[c],
         \A w \in Worker : pc'[w] = pc[w] \/ {pc[w], pc'[w]} \subseteq {"none", "loop"},
         StopPending => StopPending'
  PROVE  PoolInv' /\ CountKeeps
<1>1. \A w \in Worker : /\ Has(w)' => Has(w)
                        /\ Counts(w)' => Counts(w)
                        /\ Engaged(w)' => Engaged(w)
  <2> SUFFICES ASSUME NEW w \in Worker
               PROVE  (Has(w)' => Has(w)) /\ (Counts(w)' => Counts(w)) /\ (Engaged(w)' => Engaged(w))
    OBVIOUS
  <2>1. CASE pc'[w] = pc[w]
    BY <2>1 DEF Has, Counts, Engaged
  <2>2. CASE {pc[w], pc'[w]} \subseteq {"none", "loop"}
    BY <2>2 DEF Has, Counts, Engaged
  <2>3. QED  BY <2>1, <2>2
<1>2. PublishPosition' = PublishPosition
  BY DEF PublishPosition, headVars
<1>3. \A w \in Worker : /\ Has(w) => Counts(w)
                        /\ Counts(w) => Engaged(w)
                        /\ Engaged(w) => workItem[w] \in Slot /\ Live(workItem[w])
                        /\ pc'[w] = "complete" <=> pc[w] = "complete"
  BY EngagedLive
<1>4. HasInv'
  BY <1>1 DEF PoolInv, HasInv
<1>5. LiveInv'
  <2>1. \A j \in Slot : Live(j)' => Live(j)
    BY <1>1 DEF Live
  <2>2. \A f, j : Passed(f, j, PublishPosition)' <=> Passed(f, j, PublishPosition)
    BY <1>2 DEF Passed, Distance
  <2>3. QED  BY <2>1, <2>2 DEF PoolInv, LiveInv
<1>6. FirstInv'
  BY <1>2 DEF PoolInv, FirstInv
<1>7. PositionInv' /\ CutInv'
  BY DEF PoolInv, PositionInv, Position, CutInv, Cut, headVars
<1>8. CountKeeps
  <2> SUFFICES ASSUME NEW d \in Caller, pc'[d] \in Submitted
               PROVE  /\ Outstanding(d)' >= Total(d)'
                      /\ (~StopPending' => Outstanding(d)' = Total(d)')
                      /\ pc'[d] = "await" => call'[d].fragment.left = 0
                      /\ (pc[d] \in Submitted /\ Outstanding(d)' = Total(d)' => Outstanding(d) = Total(d))
    BY DEF CountKeeps
  <2> DEFINE l == call[d].fragment.left  m == Cardinality(Waiting(d))  n == Cardinality(Working(d))
             o == Outstanding(d)  k == Cardinality(Working(d)')
  <2>1. pc[d] \in Submitted /\ call[d].first \in Slot
    BY DEF PoolInv, FirstInv, Active
  <2>2. o \in Int /\ l \in Nat /\ m \in Nat /\ n \in Nat /\ Outstanding(d)' = o
    BY <2>1, WaitingFinite DEF Outstanding, PoolInv, TypeInv, TypeOK, ItemType, CallType, FragmentType
  <2>3. o >= l + m + n /\ (~StopPending => o = l + m + n) /\ Total(d) = l + m + n
    BY <2>1 DEF PoolInv, CountInv, Total
  <2>4. Waiting(d)' = Waiting(d)
    BY DEF Waiting
  <2>5. Working(d)' \subseteq Working(d)
    BY <1>1 DEF Working, Belongs
  <2>6. k \in Nat /\ k <= n
    BY <2>5, WaitingFinite, FS_Subset, FS_CardinalityType
  <2>7. Total(d)' = l + m + k
    BY <2>4 DEF Total
  <2>8. ~StopPending' => k = n
    <3>1. ASSUME ~StopPending' PROVE Working(d)' = Working(d)
      <4>1. \A w \in Worker : Counts(w)' <=> Counts(w)
        BY <3>1 DEF Counts, Has
      <4>2. QED  BY <4>1 DEF Working, Belongs
    <3>2. QED  BY <3>1
  <2>9. pc'[d] = "await" => call'[d].fragment.left = 0
    BY <2>1 DEF PoolInv, CountInv
  <2> HIDE DEF l, m, n, o, k
  <2>10. o >= l + m + k /\ (~StopPending' => o = l + m + k) /\ (o = l + m + k => o = l + m + n)
    BY <2>2, <2>3, <2>6, <2>8
  <2>11. QED  BY <2>2, <2>3, <2>7, <2>9, <2>10 DEF o
<1>9. CompleteInv'
  BY <1>3 DEF PoolInv, CompleteInv
<1>10. WorkInv'
  <2>1. \A j \in Slot : Workable(j)' => Workable(j)
    <3>1. \A w \in Worker : Has(w)' /\ pc'[w] # "ran" => Has(w) /\ pc[w] # "ran"
      <4> SUFFICES ASSUME NEW w \in Worker, Has(w)', pc'[w] # "ran"
                   PROVE  Has(w) /\ pc[w] # "ran"
        OBVIOUS
      <4>1. pc'[w] \notin {"none", "loop"}
        BY DEF Has
      <4>2. QED  BY <1>1, <4>1
    <3>2. QED  BY <3>1 DEF Workable
  <2>2. QED  BY <2>1 DEF PoolInv, WorkInv, Belongs
<1>11. QED  BY <1>4, <1>5, <1>6, <1>7, <1>8, <1>9, <1>10 DEF PoolInv, CountKeeps, CountInv

LEMMA OwnerPoolStep == ASSUME PoolInv, OwnerStep  PROVE PoolInv' /\ CountKeeps
<1>1. TypeInv'
  BY OwnerType DEF PoolInv
<1>2. CASE Start
  BY <1>2, StartPool
<1>3. CASE StartThread
  <2>1. PICK w \in Worker \ RunningThreads : /\ RunningThreads' = RunningThreads \cup {w}
                                             /\ pc' = [pc EXCEPT ![w] = "loop"]
    BY <1>3 DEF StartThread
  <2>2. /\ pc[w] = "none" /\ pc'[w] = "loop" /\ \A c \in Caller : pc'[c] = pc[c]
        /\ \A v \in Worker \ {w} : pc'[v] = pc[v]
        /\ opc = "starting" /\ UNCHANGED <<opc, ThreadPoolRunning, StopPending, workItem, EnqueueMutex>>
    BY <1>3, <2>1, PoolAssumption DEF StartThread, PoolInv, ControlInv, TypeInv, TypeOK, headVars
  <2>3. ControlInv'
    BY <2>1, <2>2 DEF PoolInv, ControlInv, WorkerControl
  <2>4. QED  BY <1>1, <1>3, <2>2, <2>3, OwnerKeeps DEF StartThread
<1>4. CASE StopStep \/ ((StartThreadFails \/ StartDone \/ Stop) /\ OwnerFrame)
  <2>1. /\ UNCHANGED <<headVars, WorkItemQueue, pc, call, workItem, RunningThreads>>
        /\ StopPending => StopPending'
    BY <1>4 DEF StopStep, StopSignal, StopRequest, StopJoin, StopDone, StartThreadFails, StartDone,
                Stop, OwnerFrame, threadVars
  <2>2. /\ opc' \notin {"created", "starting"}
        /\ opc # "stopped" /\ opc # "created"
        /\ ~ThreadPoolRunning' => ~ThreadPoolRunning \/ opc' = "stopped"
    BY <1>4 DEF StopStep, StopSignal, StopRequest, StopJoin, StopDone, StartThreadFails, StartDone,
                Stop, OwnerFrame, OwnerGoto
  <2>3. ControlInv'
    BY <2>1, <2>2 DEF PoolInv, ControlInv, headVars
  <2>4. QED  BY <1>1, <2>1, <2>3, OwnerKeeps
<1>5. QED  BY <1>2, <1>3, <1>4 DEF OwnerStep

LEMMA PoolStep == PoolInv /\ [Next]_vars => PoolInv' /\ CountKeeps
<1> SUFFICES ASSUME PoolInv, [Next]_vars
             PROVE  PoolInv' /\ CountKeeps
  OBVIOUS
<1>1. CASE UNCHANGED vars
  <2>1. TypeInv' /\ ControlInv'
    BY <1>1 DEF PoolInv, TypeInv, TypeOK, FragmentInv, ControlInv, vars, ownerVars, headVars, tailVars,
                eventVars, threadVars
  <2>2. QED  BY <1>1, <2>1, OwnerKeeps DEF vars, ownerVars, threadVars
<1>2. QED  BY <1>1, CallerPoolStep, WorkerPoolStep, OwnerPoolStep DEF Next

LEMMA PoolCorrect == Spec => []PoolInv
BY InitPoolInv, PoolStep, PTL DEF Spec

\* Every variable keeps its type: positions stay inside the ring, and the
\* number of fragments left and of units per fragment never falls below zero,
\* where the size_t locals of DoWork would wrap around.  An item that is Ready, or
\* that a worker has claimed and not yet done, has at least one unit: the cut makes
\* no empty fragments.  (What a worker claims once the pool stops it leaves alone.)
THEOREM TypeCorrect ==
  Spec => [](TypeOK /\ \A i \in Slot : Workable(i) => WorkItemQueue[i].Encryption.unitCount > 0)
<1>1. PoolInv => TypeOK /\ \A i \in Slot : Workable(i) => WorkItemQueue[i].Encryption.unitCount > 0
  BY DEF PoolInv, TypeInv, WorkInv
<1>2. QED  BY PoolCorrect, <1>1, PTL

\* No two workers ever have the same item of the ring.
THEOREM ItemsAreExclusive == Spec => []ExclusiveItem
<1>1. PoolInv => ExclusiveItem
  BY DEF PoolInv, HasInv, ExclusiveItem, Has
<1>2. QED  BY PoolCorrect, <1>1, PTL

\* While the pool is not stopped the count of a request is the number of its fragments to come.
THEOREM FragmentsAccounted == Spec => []FragmentAccounting
<1>1. PoolInv => FragmentAccounting
  <2> SUFFICES ASSUME PoolInv, NEW c \in Caller, pc[c] \in Submitted, ~StopPending
               PROVE  WorkItemQueue[call[c].first].Outstanding =
                        call[c].fragment.left + Cardinality(Waiting(c)) + Cardinality(InWork(c))
    BY DEF FragmentAccounting
  <2>1. InWork(c) = Working(c)
    BY DEF InWork, Working, Counts, Has, Belongs
  <2>2. QED  BY <2>1 DEF PoolInv, CountInv, Total, Outstanding
<1>2. QED  BY PoolCorrect, <1>1, PTL

\* What was published lies inside the request.
LEMMA PublishedInside ==
  ASSUME PoolInv, NEW c \in Caller, pc[c] \in Submitted
  PROVE  /\ call[c].fragment.data <= call[c].unitCount
         /\ call[c].fragment.left = 0 => call[c].fragment.data = call[c].unitCount
<1> DEFINE f == call[c].fragment  n == call[c].unitCount
           base == f.units - IF f.remainder > 0 THEN 1 ELSE 0
<1>1. CutOf(f, n) /\ f \in FragmentType /\ n \in Nat
  BY DEF PoolInv, CutInv, Cut, Outside, Submitted, TypeInv, TypeOK, CallType
<1>2. /\ f.data \in Nat /\ f.left \in Nat /\ base \in Nat /\ f.remainder \in Nat
      /\ n = f.data + f.left * base + f.remainder /\ f.remainder <= f.left
  BY <1>1 DEF CutOf, FragmentType
<1> DEFINE m == f.left * base
<1>3. m \in Nat /\ (f.left = 0 => m = 0)
  <2> HIDE DEF base
  <2>1. QED  BY <1>2
<1>4. n = f.data + m + f.remainder
  BY <1>2
<1> HIDE DEF m, f, n, base
<1>5. f.data <= n /\ (f.left = 0 => f.data = n)
  BY <1>2, <1>3, <1>4
<1>6. QED  BY <1>5 DEF f, n

\* The pool transforms data only inside a buffer that is lent to it.
THEOREM BuffersAreLent == Spec => []BufferLent
<1>1. PoolInv => BufferLent
  <2> SUFFICES ASSUME PoolInv, NEW i \in Slot,
                      \/ WorkItemQueue[i].State = "Ready"
                      \/ \E w \in Worker : pc[w] = "run" /\ workItem[w] = i
               PROVE  LET e == WorkItemQueue[i].Encryption IN
                        /\ e.caller \in Caller
                        /\ pc[e.caller] \in Submitted
                        /\ WorkItemQueue[i].FirstFragment = call[e.caller].first
                        /\ e.data + e.unitCount * SectorUnits <= call[e.caller].unitCount * SectorUnits
    BY DEF BufferLent
  <2> DEFINE e == WorkItemQueue[i].Encryption  n == call[e.caller].unitCount
             d == e.data  u == e.unitCount
  <2>1. Workable(i)
    BY DEF Workable, Has
  <2>2. /\ e.caller \in Caller /\ pc[e.caller] \in Submitted
        /\ WorkItemQueue[i].FirstFragment = call[e.caller].first
        /\ d + u <= call[e.caller].fragment.data
    BY <2>1 DEF PoolInv, WorkInv, Belongs
  <2>3. call[e.caller].fragment.data <= n
    BY <2>2, PublishedInside
  <2>4. d \in Nat /\ u \in Nat
    BY DEF PoolInv, TypeInv, TypeOK, ItemType, WorkType
  <2>5. n \in Nat /\ call[e.caller].fragment.data \in Nat
    BY <2>2 DEF PoolInv, TypeInv, TypeOK, CallType, FragmentType
  <2> HIDE DEF d, u, n
  <2>6. d + u <= n
    BY <2>2, <2>3, <2>4, <2>5
  <2>7. d + u * SectorUnits <= n * SectorUnits
    <3>1. \A a, b, s \in Nat : a <= b => a * s <= b * s
      OBVIOUS
    <3>2. SectorUnits \in Nat /\ SectorUnits >= 1
      BY PoolConstants
    <3>3. (d + u) * SectorUnits <= n * SectorUnits
      BY <2>4, <2>5, <2>6, <3>1, <3>2
    <3>4. (d + u) * SectorUnits = d * SectorUnits + u * SectorUnits
      BY <2>4, <3>2
    <3>5. d * 1 <= d * SectorUnits
      BY <2>4, <3>2
    <3> DEFINE x == d * SectorUnits  y == u * SectorUnits  z == n * SectorUnits
    <3>6. x \in Nat /\ y \in Nat /\ z \in Nat /\ d <= x /\ x + y <= z
      BY <2>4, <2>5, <3>2, <3>3, <3>4, <3>5
    <3> HIDE DEF x, y, z
    <3>7. d + y <= z
      BY <2>4, <3>6
    <3>8. QED  BY <3>7 DEF y, z
  <2>8. QED  BY <2>2, <2>7 DEF d, u, n
<1>2. QED  BY PoolCorrect, <1>1, PTL

----------------------------------------------------------------------------
(* The data *)

LEMMA InitDataInv == ASSUME Init PROVE DataInv
<1>1. \A c \in Caller : pc[c] = "idle" /\ call[c] = NoCall /\ data[c] = NoData
  BY DEF Init
<1>2. \A w \in Worker : pc[w] = "none"
  BY PoolAssumption DEF Init
<1>3. \A i \in Slot : WorkItemQueue[i].State = "Free"
  BY DEF Init
<1>4. BufferInv
  <2>1. DOMAIN NoData = {} /\ ~NoCall.thrown
    BY DEF NoData, NoCall
  <2>2. data = [c \in Caller |-> data[c]]
    BY DEF Init
  <2>3. QED  BY <1>1, <2>1, <2>2 DEF BufferInv, Buffer, Returning
<1>5. \A i \in Slot : ~Workable(i)
  BY <1>2, <1>3 DEF Workable, Has
<1>6. FreshInv /\ LossInv
  BY <1>1, <1>5 DEF FreshInv, LossInv, Submitted
<1>7. QED  BY <1>4, <1>6 DEF DataInv

\* A caller that is not touched.
LEMMA BufferStays ==
  ASSUME NEW c \in Caller, Buffer(c), pc'[c] = pc[c], data'[c] = data[c],
         call'[c] = call[c]
  PROVE  Buffer(c)'
BY DEF Buffer, Undone

\* No work is added, and the buffers it is about are not touched.
LEMMA FreshStays ==
  ASSUME PoolInv', DataInv,
         \A c \in Caller : pc'[c] \in Submitted => data'[c] = data[c],
         \A i \in Slot : Workable(i)' =>
           Workable(i) /\ WorkItemQueue'[i].Encryption = WorkItemQueue[i].Encryption
  PROVE  FreshInv'
<1> SUFFICES ASSUME NEW i \in Slot, Workable(i)'
             PROVE  LET c == WorkItemQueue'[i].Encryption.caller IN
                    /\ \A u \in Units(i)' : data'[c][u] = <<>>
                    /\ \A j \in Slot \ {i} : Workable(j)' /\ WorkItemQueue'[j].Encryption.caller = c =>
                         Units(i)' \cap Units(j)' = {}
  BY DEF FreshInv, Undone
<1> DEFINE c == WorkItemQueue[i].Encryption.caller
<1>1. /\ Workable(i) /\ WorkItemQueue'[i].Encryption = WorkItemQueue[i].Encryption
      /\ c \in Caller /\ pc'[c] \in Submitted /\ data'[c] = data[c] /\ Units(i)' = Units(i)
  BY DEF PoolInv, WorkInv, Units
<1>2. \A u \in Units(i) : data[c][u] = <<>>
  BY <1>1 DEF DataInv, FreshInv, Undone
<1>3. ASSUME NEW j \in Slot \ {i}, Workable(j)', WorkItemQueue'[j].Encryption.caller = c
      PROVE  Units(i)' \cap Units(j)' = {}
  <2>1. Workable(j) /\ WorkItemQueue'[j].Encryption = WorkItemQueue[j].Encryption
        /\ Units(j)' = Units(j)
    BY <1>3 DEF Units
  <2>2. QED  BY <1>1, <1>3, <2>1 DEF DataInv, FreshInv
<1>4. QED  BY <1>1, <1>2, <1>3

\* No work is added, and where some is lost its request does not end.
LEMMA WorkStays ==
  ASSUME PoolInv, PoolInv', CountKeeps, DataInv,
         \A c \in Caller : pc'[c] \in Submitted =>
           /\ pc[c] \in Submitted /\ data'[c] = data[c]
           /\ call'[c].first = call[c].first /\ call'[c].fragment = call[c].fragment
           /\ WorkItemQueue'[call[c].first].ItemException = WorkItemQueue[call[c].first].ItemException,
         \A i \in Slot : Workable(i)' =>
           /\ Workable(i) /\ WorkItemQueue'[i].Encryption = WorkItemQueue[i].Encryption
           /\ WorkItemQueue'[i].FirstFragment = WorkItemQueue[i].FirstFragment,
         \A c \in Caller : pc'[c] \in Submitted =>
           \/ Outstanding(c)' # Total(c)'
           \/ \A i \in Slot : Workable(i) /\ Belongs(i, c) => Workable(i)'
  PROVE  FreshInv' /\ LossInv'
<1>1. FreshInv'
  BY FreshStays
<1>2. LossInv'
  <2> SUFFICES ASSUME NEW c \in Caller, pc'[c] \in Submitted
               PROVE  Loss(c)'
    BY DEF LossInv
  <2>1. /\ Loss(c) /\ pc[c] \in Submitted /\ data'[c] = data[c]
        /\ call'[c].first = call[c].first /\ call'[c].fragment = call[c].fragment
        /\ WorkItemQueue'[call'[c].first].ItemException = WorkItemQueue[call[c].first].ItemException
    BY DEF DataInv, LossInv
  <2>2. \A u : Covered(c, u)' => Covered(c, u)
    BY <2>1 DEF Covered, Belongs, Units
  <2>3. Outstanding(c)' = Total(c)' => Outstanding(c) = Total(c) /\ \A u : Covered(c, u) => Covered(c, u)'
    <3>1. ASSUME Outstanding(c)' = Total(c)', NEW u, Covered(c, u)
          PROVE  Covered(c, u)'
      <4>1. PICK i \in Slot : Workable(i) /\ Belongs(i, c) /\ u \in Units(i)
        BY <3>1 DEF Covered
      <4>2. Workable(i)'
        BY <3>1, <4>1
      <4>3. Belongs(i, c)' /\ u \in Units(i)'
        BY <2>1, <4>1, <4>2 DEF Belongs, Units
      <4>4. QED  BY <4>2, <4>3 DEF Covered
    <3>2. Outstanding(c)' = Total(c)' => Outstanding(c) = Total(c)
      BY <2>1 DEF CountKeeps
    <3>3. QED  BY <3>1, <3>2
  <2>4. \A u : Undone(c, u)' <=> Undone(c, u)
    BY <2>1 DEF Undone
  <2>5. QED  BY <2>1, <2>2, <2>3, <2>4 DEF Loss
<1>3. QED  BY <1>1, <1>2

\* A step of a caller outside the queue, or in the queue while nothing is filled in.
LEMMA QuietCallerData ==
  ASSUME PoolInv, PoolInv', CountKeeps, DataInv, NEW c \in Caller, NEW from, NEW to,
         CallerMoves(c, from, to), WorkItemQueue' = WorkItemQueue,
         from \in Submitted <=> to \in Submitted,
         to \in Submitted => /\ call'[c].first = call[c].first /\ call'[c].fragment = call[c].fragment
                             /\ data'[c] = data[c],
         \A d \in Caller \ {c} : data'[d] = data[d],
         data' = [d \in Caller |-> data'[d]],
         Buffer(c)'
  PROVE  DataInv'
<1>1. /\ pc[c] = from /\ pc'[c] = to /\ \A d \in Caller \ {c} : pc'[d] = pc[d]
      /\ \A w \in Worker : pc'[w] = pc[w] /\ workItem'[w] = workItem[w]
      /\ \A d \in Caller \ {c} : call'[d] = call[d]
  BY OthersStay DEF PoolInv, CallerMoves
<1>2. BufferInv'
  <2>1. \A d \in Caller \ {c} : Buffer(d)'
    BY <1>1, BufferStays DEF DataInv, BufferInv
  <2>2. QED  BY <2>1 DEF BufferInv
<1>3. \A i \in Slot : Workable(i)' <=> Workable(i)
  <2>1. \A w \in Worker : Has(w)' <=> Has(w)
    BY WorkersStay
  <2>2. QED  BY <1>1, <2>1 DEF Workable
<1>4. FreshInv' /\ LossInv'
  <2>1. \A d \in Caller : pc'[d] \in Submitted =>
           /\ pc[d] \in Submitted /\ data'[d] = data[d]
           /\ call'[d].first = call[d].first /\ call'[d].fragment = call[d].fragment
    BY <1>1
  <2>2. QED  BY <1>3, <2>1, WorkStays
<1>5. QED  BY <1>2, <1>4 DEF DataInv

\* What encryption of a run of sectors of one data unit each does.
LEMMA TransformUnits ==
  ASSUME SectorUnits = 1, NEW c, NEW a \in Nat, NEW m \in Nat
  PROVE  LET t == Transformed(c, a, a, m) IN
         /\ DOMAIN t = DOMAIN data[c]
         /\ \A u \in DOMAIN data[c] :
              t[u] = IF u \in a .. a + m - 1 THEN Append(data[c][u], u) ELSE data[c][u]
<1>1. m * SectorUnits = m /\ a * SectorUnits = a
  OBVIOUS
<1>2. \A u \in a .. a + m - 1 : a + (u - a) = u
  OBVIOUS
<1>3. QED  BY <1>1, <1>2 DEF Transformed

LEMMA AppendOne == \A u : Append(<<>>, u) = <<u>>
  OBVIOUS

LEMMA OutsideData ==
  ASSUME SectorUnits = 1, PoolInv, PoolInv', CountKeeps, DataInv, NEW c \in Caller, CallerFrame,
         \/ DoWork(c) \/ CurrentThread(c) \/ CurrentThreadDone(c) \/ SplitRequest(c)
         \/ SignalFirstFree(c) \/ Return(c)
  PROVE  DataInv'
<1> DEFINE to == pc'[c]
<1>1. CallerMoves(c, pc[c], to) /\ WorkItemQueue' = WorkItemQueue
  BY PoolAssumption
     DEF PoolInv, TypeInv, TypeOK, CallerMoves, CallerFrame, headVars, Goto, DoWork, CurrentThread,
         CurrentThreadDone, SplitRequest, SignalFirstFree, Return
<1>2. /\ pc[c] \in {"idle", "current", "currentDone", "split", "signalFree", "return"}
      /\ to \in {"idle", "current", "currentDone", "split", "return", "fault", "lock"}
  BY DEF PoolInv, TypeInv, TypeOK, Goto, DoWork, CurrentThread, CurrentThreadDone, SplitRequest,
         SignalFirstFree, Return
<1>3. data = [d \in Caller |-> data[d]] /\ Buffer(c)
  BY DEF DataInv, BufferInv
<1>4. (\A d \in Caller \ {c} : data'[d] = data[d]) /\ data' = [d \in Caller |-> data'[d]]
  BY <1>3 DEF DoWork, CurrentThread, CurrentThreadDone, SplitRequest, SignalFirstFree, Return
<1>5. Buffer(c)'
  <2>1. CASE DoWork(c)
    <3>1. PICK n \in UnitCounts : /\ Goto(c, "idle", IF ~ThreadPoolRunning \/ n = 1 THEN "current" ELSE "split")
                                  /\ call' = [call EXCEPT ![c].unitCount = n]
                                  /\ data' = [data EXCEPT ![c] = [u \in 0 .. n * SectorUnits - 1 |-> <<>>]]
      BY <2>1 DEF DoWork
    <3>2. n \in Nat /\ n * SectorUnits = n
      BY PoolAssumption
    <3>3. /\ to \in {"current", "split"} /\ call'[c].unitCount = n /\ pc[c] = "idle"
          /\ call'[c].thrown = call[c].thrown
          /\ data'[c] = [u \in 0 .. n - 1 |-> <<>>]
      BY <1>3, <3>1, <3>2 DEF PoolInv, TypeInv, TypeOK, Goto, CallType
    <3>4. QED  BY <1>3, <3>3 DEF Buffer, Returning, Submitted, Undone
  <2>2. CASE CurrentThread(c) /\ to = "currentDone"
    <3> DEFINE n == call[c].unitCount
    <3>1. /\ data' = [data EXCEPT ![c] = Transformed(c, 0, 0, n)]
          /\ call' = call /\ pc[c] = "current" /\ n \in Nat
      BY <2>2 DEF CurrentThread, Goto, PoolInv, TypeInv, TypeOK, CallType
    <3>2. DOMAIN data[c] = 0 .. n - 1 /\ \A u \in 0 .. n - 1 : data[c][u] = <<>>
      BY <1>3, <3>1 DEF Buffer, Undone, CallerControl, Returning, Submitted
    <3>3. data'[c] = Transformed(c, 0, 0, n) /\ 0 + n - 1 = n - 1
      BY <1>3, <3>1
    <3>4. DOMAIN data'[c] = 0 .. n - 1 /\ \A u \in DOMAIN data'[c] : data'[c][u] = <<u>>
      <4> HIDE DEF n
      <4> DEFINE t == Transformed(c, 0, 0, n)
      <4>1. /\ DOMAIN t = DOMAIN data[c]
            /\ \A u \in DOMAIN data[c] :
                 t[u] = IF u \in 0 .. 0 + n - 1 THEN Append(data[c][u], u) ELSE data[c][u]
        BY <3>1, TransformUnits
      <4> HIDE DEF t
      <4>2. DOMAIN t = 0 .. n - 1 /\ \A u \in DOMAIN t : t[u] = <<u>>
        BY <3>2, <3>3, <4>1, AppendOne
      <4>3. QED  BY <3>3, <4>2 DEF t
    <3>5. ~call[c].thrown
      BY <1>3, <3>1 DEF Buffer, Returning
    <3>6. \A u : <<u>> # <<>>
      OBVIOUS
    <3> HIDE DEF n
    <3>7. QED  BY <2>2, <3>1, <3>4, <3>5, <3>6 DEF Buffer, Undone, Returning, n
  <2>3. CASE CurrentThread(c) /\ to # "currentDone"
    <3> DEFINE n == call[c].unitCount
    <3>1. /\ to = "return" /\ call' = [call EXCEPT ![c].thrown = TRUE] /\ data' = data
          /\ pc[c] = "current"
      BY <2>3 DEF CurrentThread, Goto, PoolInv, TypeInv, TypeOK
    <3>2. n \in Nat \ {0} /\ call'[c].unitCount = n /\ call'[c].thrown
      BY <3>1 DEF PoolInv, TypeInv, TypeOK, CallType, CutInv, Cut
    <3>3. DOMAIN data[c] = 0 .. n - 1 /\ \A u \in 0 .. n - 1 : data[c][u] = <<>>
      BY <1>3, <3>1 DEF Buffer, Undone, CallerControl, Returning, Submitted
    <3>4. 0 \in 0 .. n - 1
      BY <3>2
    <3>5. QED  BY <3>1, <3>2, <3>3, <3>4 DEF Buffer, Undone, Returning
  <2>4. CASE CurrentThreadDone(c)
    <3>1. pc[c] = "currentDone" /\ to = "return" /\ UNCHANGED <<call, data>>
      BY <2>4 DEF CurrentThreadDone, Goto, PoolInv, TypeInv, TypeOK
    <3>2. QED  BY <1>3, <3>1 DEF Buffer, Undone, Returning
  <2>5. CASE SplitRequest(c)
    <3>1. /\ pc[c] = "split" /\ to \in {"fault", "lock"} /\ data' = data
          /\ call'[c].unitCount = call[c].unitCount /\ call'[c].thrown = call[c].thrown
      BY <2>5 DEF SplitRequest, Goto, PoolInv, TypeInv, TypeOK, CallType
    <3>2. QED  BY <1>3, <3>1 DEF Buffer, Undone, CallerControl, Returning, Submitted
  <2>6. CASE SignalFirstFree(c)
    <3>1. pc[c] = "signalFree" /\ to = "return" /\ UNCHANGED <<call, data>>
      BY <2>6 DEF SignalFirstFree, Goto, PoolInv, TypeInv, TypeOK
    <3>2. QED  BY <1>3, <3>1 DEF Buffer, Undone, Returning
  <2>7. CASE Return(c)
    <3>1. to = "idle" /\ call'[c] = NoCall /\ data'[c] = NoData
      BY <1>3, <2>7 DEF Return, Goto, PoolInv, TypeInv, TypeOK
    <3>2. DOMAIN NoData = {} /\ ~NoCall.thrown
      BY DEF NoData, NoCall
    <3>3. QED  BY <3>1, <3>2 DEF Buffer, Returning
  <2>8. QED  BY <2>1, <2>2, <2>3, <2>4, <2>5, <2>6, <2>7
<1>6. pc[c] \notin Submitted /\ to \notin Submitted
  BY <1>2 DEF Submitted
<1> HIDE DEF to
<1>7. QED  BY <1>1, <1>4, <1>5, <1>6, QuietCallerData

LEMMA QueueData ==
  ASSUME PoolInv, PoolInv', CountKeeps, DataInv, NEW c \in Caller, CallerFrame,
         \/ LockEnqueue(c) \/ AwaitFreeItem(c) \/ NextItem(c) \/ UnlockEnqueue(c) \/ SignalReady(c)
         \/ PrepareFirst(c) /\ pc'[c] = "firstWait"
         \/ PublishItem(c) /\ pc'[c] = "itemWait"
  PROVE  DataInv'
<1> DEFINE to == pc'[c]
<1>1. CallerMoves(c, pc[c], to) /\ WorkItemQueue' = WorkItemQueue /\ data' = data
  BY PoolAssumption
     DEF PoolInv, TypeInv, TypeOK, CallerMoves, CallerFrame, headVars, Goto, LockEnqueue, AwaitFreeItem,
         NextItem, UnlockEnqueue, SignalReady, PrepareFirst, PublishItem
<1>2. \/ pc[c] \in {"lock", "first", "firstWait"} /\ to \in {"first", "firstWait"}
      \/ /\ pc[c] \in {"next", "item", "itemWait", "signal"} /\ to \in {"next", "item", "itemWait", "await"}
         /\ call'[c].first = call[c].first
  BY DEF PoolInv, TypeInv, TypeOK, CallType, Goto, LockEnqueue, AwaitFreeItem,
         NextItem, UnlockEnqueue, SignalReady, PrepareFirst, PublishItem
<1>3. /\ call'[c].fragment = call[c].fragment /\ call'[c].unitCount = call[c].unitCount
      /\ call'[c].thrown = call[c].thrown
  BY DEF PoolInv, TypeInv, TypeOK, CallType, Goto, LockEnqueue, AwaitFreeItem,
         NextItem, UnlockEnqueue, SignalReady, PrepareFirst, PublishItem
<1>4. Buffer(c)'
  BY <1>1, <1>2, <1>3 DEF DataInv, BufferInv, Buffer, Undone, CallerControl, Returning, Submitted
<1>5. /\ pc[c] \in Submitted <=> to \in Submitted
      /\ to \in Submitted => call'[c].first = call[c].first
  BY <1>2 DEF Submitted
<1>6. data' = [d \in Caller |-> data'[d]]
  BY <1>1 DEF DataInv, BufferInv
<1> HIDE DEF to
<1>7. QED  BY <1>1, <1>3, <1>4, <1>5, <1>6, QuietCallerData

\* A step of a caller that changes no data: the other buffers stay as they are.
LEMMA OwnBuffer ==
  ASSUME PoolInv, DataInv, NEW c \in Caller, NEW from, NEW to, CallerMoves(c, from, to),
         data' = data, Buffer(c)'
  PROVE  BufferInv'
<1>1. \A d \in Caller \ {c} : Buffer(d)'
  BY OthersStay, BufferStays DEF PoolInv, CallerMoves, DataInv, BufferInv
<1>2. QED  BY <1>1 DEF DataInv, BufferInv

\* The request is set up: nothing of it is published yet, and no exception is left over.
LEMMA PrepareData ==
  ASSUME PoolInv, PoolInv', CountKeeps, DataInv, NEW c \in Caller, CallerFrame,
         PrepareFirst(c), pc'[c] # "firstWait"
  PROVE  DataInv'
<1> DEFINE first == call[c].first
<1>1. /\ CallerMoves(c, "first", "next") /\ UNCHANGED <<call, data>>
      /\ pc[c] = "first" /\ first \in Slot /\ call[c].fragment.data = 0
      /\ WorkItemQueue' = [WorkItemQueue EXCEPT ![first].Outstanding = call[c].fragment.left,
                                                ![first].ItemException = FALSE]
      /\ WorkItemQueue[first].State = "Free"
  <2>1. /\ WorkItemQueue[first].State = "Free" /\ pc[c] = "first" /\ first \in Slot
    BY DEF PoolInv, TypeInv, TypeOK, FragmentInv, Goto, PrepareFirst
  <2>2. CallerMoves(c, "first", "next") /\ UNCHANGED <<call, data>>
    BY <2>1 DEF PoolInv, CallerMoves, CallerFrame, PrepareFirst
  <2>3. call[c].fragment.data = 0
    BY <2>1 DEF PoolInv, CutInv, Cut
  <2>4. QED  BY <2>1, <2>2, <2>3 DEF PrepareFirst
<1>2. /\ pc'[c] = "next" /\ \A d \in Caller \ {c} : pc'[d] = pc[d]
      /\ \A w \in Worker : pc'[w] = pc[w] /\ workItem'[w] = workItem[w]
  BY <1>1, OthersStay DEF PoolInv
<1>3. \A i \in Slot : /\ WorkItemQueue'[i].State = WorkItemQueue[i].State
                      /\ WorkItemQueue'[i].FirstFragment = WorkItemQueue[i].FirstFragment
                      /\ WorkItemQueue'[i].Encryption = WorkItemQueue[i].Encryption
                      /\ i # first => WorkItemQueue'[i].ItemException = WorkItemQueue[i].ItemException
                      /\ i = first => ~WorkItemQueue'[i].ItemException
  <2>1. WorkItemQueue \in [Slot -> ItemType]
    BY DEF PoolInv, TypeInv, TypeOK
  <2> HIDE DEF first
  <2>2. QED  BY <1>1, <2>1 DEF ItemType
<1>4. BufferInv'
  <2>1. \A u \in DOMAIN data[c] : Undone(c, u)
    BY <1>1 DEF DataInv, BufferInv, Buffer, Submitted, Returning, CallerControl
  <2>2. Buffer(c)'
    BY <1>1, <1>2, <2>1 DEF DataInv, BufferInv, Buffer, Undone, Returning
  <2>3. QED  BY <1>1, <2>2, OwnBuffer
<1>5. \A i \in Slot : Workable(i)' <=> Workable(i)
  <2>1. \A w \in Worker : Has(w)' <=> Has(w)
    BY <1>1, WorkersStay
  <2>2. QED  BY <1>2, <1>3, <2>1 DEF Workable
<1>6. FreshInv'
  BY <1>1, <1>3, <1>5, FreshStays
<1>7. LossInv'
  <2> SUFFICES ASSUME NEW d \in Caller, pc'[d] \in Submitted
               PROVE  Loss(d)'
    BY DEF LossInv
  <2>1. CASE d = c
    <3>1. ~WorkItemQueue'[call'[d].first].ItemException /\ call'[d].fragment.data = 0
      BY <1>1, <1>3, <2>1
    <3>2. QED  BY <3>1 DEF Loss
  <2>2. CASE d # c
    <3>1. Loss(d) /\ pc[d] \in Submitted
      BY <1>2, <2>2 DEF DataInv, LossInv
    <3>2. call[d].first # first /\ call[d].first \in Slot
      <4>1. pc'[c] \in Active /\ pc'[d] \in Active
        BY <1>2 DEF Active, Submitted
      <4>2. QED  BY <1>1, <2>2, <4>1 DEF PoolInv, FirstInv
    <3>3. WorkItemQueue'[call'[d].first].ItemException = WorkItemQueue[call[d].first].ItemException
      BY <1>1, <1>3, <3>2
    <3>4. \A u : Covered(d, u)' <=> Covered(d, u)
      BY <1>1, <1>3, <1>5 DEF Covered, Belongs, Units
    <3>5. Outstanding(d)' = Total(d)' => Outstanding(d) = Total(d)
      BY <3>1 DEF CountKeeps
    <3>6. QED  BY <1>1, <3>1, <3>3, <3>4, <3>5 DEF Loss, Undone
  <2>3. QED  BY <2>1, <2>2
<1>8. QED  BY <1>4, <1>6, <1>7 DEF DataInv

\* The request ends: every unit was done, or the exception tells.
LEMMA AwaitData ==
  ASSUME PoolInv, PoolInv', CountKeeps, DataInv, NEW c \in Caller, CallerFrame, AwaitCompletion(c)
  PROVE  DataInv'
<1> DEFINE first == call[c].first
<1>1. /\ CallerMoves(c, "await", "release") /\ data' = data
      /\ pc[c] = "await" /\ first \in Slot /\ WorkItemQueue[first].ItemCompletedEvent
      /\ call' = [call EXCEPT ![c].thrown = WorkItemQueue[first].ItemException]
      /\ WorkItemQueue' = [WorkItemQueue EXCEPT ![first].ItemCompletedEvent = FALSE,
                                                ![first].ItemException = FALSE]
  BY DEF PoolInv, TypeInv, TypeOK, CallerMoves, CallerFrame, headVars, Goto, AwaitCompletion,
         FirstInv, Active, Submitted
<1>2. /\ pc'[c] = "release" /\ \A d \in Caller \ {c} : pc'[d] = pc[d]
      /\ \A w \in Worker : pc'[w] = pc[w] /\ workItem'[w] = workItem[w]
  BY <1>1, OthersStay DEF PoolInv
<1>3. /\ \A d \in Caller : /\ call'[d].first = call[d].first /\ call'[d].fragment = call[d].fragment
                           /\ call'[d].unitCount = call[d].unitCount
      /\ call'[c].thrown = WorkItemQueue[first].ItemException
  BY <1>1 DEF PoolInv, TypeInv, TypeOK, CallType
<1>4. \A i \in Slot : /\ WorkItemQueue'[i].State = WorkItemQueue[i].State
                      /\ WorkItemQueue'[i].FirstFragment = WorkItemQueue[i].FirstFragment
                      /\ WorkItemQueue'[i].Encryption = WorkItemQueue[i].Encryption
                      /\ i # first => WorkItemQueue'[i].ItemException = WorkItemQueue[i].ItemException
  <2>1. WorkItemQueue \in [Slot -> ItemType]
    BY DEF PoolInv, TypeInv, TypeOK
  <2> HIDE DEF first
  <2>2. QED  BY <1>1, <2>1 DEF ItemType
<1>5. Buffer(c) /\ Loss(c)
  BY <1>1 DEF DataInv, BufferInv, LossInv, Submitted
<1>6. BufferInv'
  <2>1. /\ Outstanding(c) = 0
        /\ \A i \in Slot : Live(i) => WorkItemQueue[i].FirstFragment # first
    BY <1>1, CompletedEmpty DEF Submitted
  <2>2. Total(c) = 0 /\ call[c].fragment.left = 0
    BY <1>1, <2>1, NothingLeft DEF Submitted
  <2>3. call[c].fragment.data = call[c].unitCount
    BY <1>1, <2>2, PublishedInside DEF Submitted
  <2>4. \A u : ~Covered(c, u)
    BY <2>1, EngagedLive DEF Covered, Belongs, Workable, Live
  <2>5. DOMAIN data[c] = 0 .. call[c].fragment.data - 1
    BY <1>1, <1>5, <2>3 DEF Buffer
  <2>6. WorkItemQueue[first].ItemException <=> \E u \in DOMAIN data[c] : Undone(c, u)
    BY <1>5, <2>1, <2>2, <2>4, <2>5 DEF Loss
  <2>7. Buffer(c)'
    <3>1. /\ pc'[c] = "release" /\ call'[c].unitCount = call[c].unitCount /\ data'[c] = data[c]
          /\ call'[c].thrown <=> \E u \in DOMAIN data[c] : Undone(c, u)
      BY <1>1, <1>2, <1>3, <2>6
    <3>2. QED  BY <1>1, <1>5, <3>1 DEF Buffer, Undone, Returning
  <2>8. QED  BY <1>1, <2>7, OwnBuffer
<1>7. FreshInv' /\ LossInv'
  <2>1. \A i \in Slot : Workable(i)' <=> Workable(i)
    <3>1. \A w \in Worker : Has(w)' <=> Has(w)
      BY <1>1, WorkersStay
    <3>2. QED  BY <1>2, <1>4, <3>1 DEF Workable
  <2>2. \A d \in Caller : pc'[d] \in Submitted =>
          /\ pc[d] \in Submitted /\ call[d].first \in Slot \ {first}
    BY <1>1, <1>2 DEF PoolInv, FirstInv, Active, Submitted
  <2>3. QED  BY <1>1, <1>3, <1>4, <2>1, <2>2, WorkStays
<1>8. QED  BY <1>6, <1>7 DEF DataInv

LEMMA ReleaseData ==
  ASSUME PoolInv, PoolInv', CountKeeps, DataInv, NEW c \in Caller, CallerFrame, ReleaseFirst(c)
  PROVE  DataInv'
<1> DEFINE first == call[c].first
<1>1. /\ CallerMoves(c, "release", "signalFree") /\ UNCHANGED <<call, data>>
      /\ pc[c] = "release" /\ first \in Slot
      /\ \A i \in Slot : i # first => WorkItemQueue'[i] = WorkItemQueue[i]
      /\ WorkItemQueue'[first].State = "Free"
  BY DEF PoolInv, TypeInv, TypeOK, ItemType, CallerMoves, CallerFrame, headVars, Goto,
         ReleaseFirst, FirstInv, Active, Submitted
<1>2. /\ pc'[c] = "signalFree" /\ \A d \in Caller \ {c} : pc'[d] = pc[d]
      /\ \A w \in Worker : pc'[w] = pc[w] /\ workItem'[w] = workItem[w]
  BY <1>1, OthersStay DEF PoolInv
<1>3. BufferInv'
  <2>1. Buffer(c)'
    BY <1>1, <1>2 DEF DataInv, BufferInv, Buffer, Undone, Returning
  <2>2. QED  BY <1>1, <2>1, OwnBuffer
<1>4. \A d \in Caller : pc'[d] \in Submitted =>
        /\ pc[d] \in Submitted /\ call[d].first \in Slot \ {first}
  BY <1>1, <1>2 DEF PoolInv, FirstInv, Active, Submitted
<1>5. ~Live(first)
  <2>1. WorkItemQueue[first].FirstFragment = first /\ pc[c] \in Active
    BY <1>1 DEF PoolInv, FirstInv, Active
  <2>2. \A d \in Caller : pc[d] \in Submitted => call[d].first # first
    BY <1>1, <2>1 DEF PoolInv, FirstInv, Active, Submitted
  <2>3. QED  BY <1>1, <2>1, <2>2 DEF PoolInv, LiveInv
<1>6. \A i \in Slot : Workable(i)' <=> Workable(i) /\ i # first
  <2>1. \A w \in Worker : /\ Has(w)' <=> Has(w)
                          /\ Has(w) => workItem[w] # first
    BY <1>1, <1>5, WorkersStay, EngagedLive DEF Live
  <2>2. QED  BY <1>1, <1>2, <2>1 DEF Workable
<1>7. ~Workable(first)
  BY <1>5, EngagedLive DEF Workable, Live
<1>8. FreshInv' /\ LossInv'
  BY <1>1, <1>4, <1>6, <1>7, WorkStays
<1>9. QED  BY <1>3, <1>8 DEF DataInv

\* The next fragment is published: its units were not published before.
LEMMA PublishData ==
  ASSUME PoolInv, PoolInv', CountKeeps, DataInv, NEW c \in Caller, CallerFrame,
         PublishItem(c), pc'[c] # "itemWait"
  PROVE  DataInv'
<1> DEFINE k == call[c].item  f == call[c].fragment  first == call[c].first  g == NextFragment(f)
           new == f.data .. f.data + f.units - 1
           work == [caller |-> c, data |-> f.data, unitNo |-> f.unitNo, unitCount |-> f.units]
<1>1. /\ CallerMoves(c, "item", "signal") /\ data' = data /\ pc[c] = "item" /\ k \in Slot
      /\ WorkItemQueue[k].State = "Free" /\ PublishPosition = k
      /\ WorkItemQueue' = [WorkItemQueue EXCEPT ![k].State = "Ready", ![k].FirstFragment = first,
                                                ![k].Encryption = work]
      /\ call' = [call EXCEPT ![c].fragment = g]
  <2>1. /\ WorkItemQueue[k].State = "Free" /\ pc[c] = "item"
    BY DEF PoolInv, TypeInv, TypeOK, Goto, PublishItem
  <2>2. CallerMoves(c, "item", "signal")
    BY <2>1 DEF PoolInv, TypeInv, TypeOK, CallerMoves, CallerFrame, PublishItem
  <2>3. k \in Slot /\ EnqueueMutex = c
    BY <2>1 DEF PoolInv, PositionInv, Position, ControlInv, Enqueuing
  <2>4. PublishPosition = k
    BY <2>1, <2>3, PublishAt DEF PoolInv
  <2>5. QED  BY <2>1, <2>2, <2>3, <2>4 DEF PublishItem
<1>2. /\ pc'[c] = "signal" /\ \A d \in Caller \ {c} : pc'[d] = pc[d]
      /\ \A w \in Worker : pc'[w] = pc[w] /\ workItem'[w] = workItem[w]
  BY <1>1, OthersStay DEF PoolInv
<1>3. /\ f \in FragmentType /\ g.data = f.data + f.units /\ g.data <= call[c].unitCount
      /\ call[c].unitCount \in Nat /\ f.data \in Nat /\ f.units \in Nat
  <2>1. /\ CutOf(f, call[c].unitCount) /\ f \in FragmentType /\ f.left > 0
        /\ call[c].unitCount \in Nat
    BY <1>1 DEF PoolInv, CutInv, Cut, Outside, TypeInv, TypeOK, FragmentInv, CallType
  <2>2. QED  BY <2>1, NextFragmentCut DEF FragmentType
<1>4. /\ call'[c].fragment = g /\ call'[c].unitCount = call[c].unitCount
      /\ call'[c].thrown = call[c].thrown
      /\ \A d \in Caller : call'[d].first = call[d].first
      /\ \A d \in Caller \ {c} : call'[d] = call[d]
  <2> HIDE DEF g
  <2>1. QED  BY <1>1 DEF PoolInv, TypeInv, TypeOK, CallType
<1>5. /\ \A i \in Slot \ {k} : WorkItemQueue'[i] = WorkItemQueue[i]
      /\ WorkItemQueue'[k].State = "Ready" /\ WorkItemQueue'[k].FirstFragment = first
      /\ WorkItemQueue'[k].Encryption = work
      /\ WorkItemQueue'[k].ItemException = WorkItemQueue[k].ItemException
  <2>1. WorkItemQueue \in [Slot -> ItemType]
    BY DEF PoolInv, TypeInv, TypeOK
  <2> HIDE DEF first, work
  <2>2. QED  BY <1>1, <2>1 DEF ItemType
<1>6. \A i \in Slot : i = k => Units(i)' = new
  <2>1. work.data = f.data /\ work.unitCount = f.units
    OBVIOUS
  <2> HIDE DEF work, f
  <2>2. QED  BY <1>5, <2>1 DEF Units
<1> HIDE DEF g, work
<1>7. Buffer(c) /\ Loss(c) /\ DOMAIN data[c] = 0 .. call[c].unitCount - 1
  BY <1>1 DEF DataInv, BufferInv, LossInv, Submitted, Buffer
<1>8. \A u \in new : u \in DOMAIN data[c] /\ Undone(c, u)
  <2> HIDE DEF f
  <2>1. \A u \in new : u \in 0 .. call[c].unitCount - 1 /\ u >= f.data
    BY <1>3
  <2>2. QED  BY <1>1, <1>7, <2>1 DEF Buffer, f, CallerControl, Returning, Submitted
<1>9. BufferInv'
  <2>1. Buffer(c)'
    <3>1. \A u \in DOMAIN data[c] : u >= g.data => u >= f.data
      <4> HIDE DEF f
      <4>1. QED  BY <1>3, <1>7
    <3>2. \A u \in DOMAIN data[c] : u >= g.data => Undone(c, u)
      BY <1>1, <1>7, <3>1 DEF Buffer, CallerControl, Returning, Submitted
    <3>3. ~call'[c].thrown
      BY <1>1, <1>4, <1>7 DEF Buffer, Returning
    <3>4. QED  BY <1>1, <1>2, <1>4, <1>7, <3>2, <3>3 DEF Buffer, Undone, Returning, Submitted
  <2>2. QED  BY <1>1, <2>1, OwnBuffer
<1>10. ~Live(k)
  <2>1. SUFFICES ASSUME Live(k) PROVE FALSE
    OBVIOUS
  <2> DEFINE h == WorkItemQueue[k].FirstFragment
  <2>2. h \in Slot /\ WorkItemQueue[h].State # "Free" /\ Passed(h, k, k)
    BY <1>1, <2>1 DEF PoolInv, LiveInv
  <2>3. h # k
    BY <1>1, <2>2
  <2>4. QED  BY <1>1, <2>2, <2>3, PoolConstants DEF Passed, Distance, Slot, QueueSize
<1>11. /\ ~Workable(k)
       /\ \A i \in Slot : Workable(i)' <=> Workable(i) \/ i = k
  <2>1. \A w \in Worker : Has(w)' <=> Has(w)
    BY <1>1, WorkersStay
  <2>2. ~Workable(k)
    BY <1>10, EngagedLive DEF Workable, Live
  <2>3. \A i \in Slot : Workable(i)' <=> Workable(i) \/ i = k
    BY <1>1, <1>2, <1>5, <2>1 DEF Workable
  <2>4. QED  BY <2>2, <2>3
\* Work of this request that was published before lies before the new fragment.
<1>12. \A i \in Slot : Workable(i) =>
         /\ WorkItemQueue[i].Encryption.caller = c => \A u \in Units(i) : u < f.data
         /\ Belongs(i, c) => WorkItemQueue[i].Encryption.caller = c
  <2> SUFFICES ASSUME NEW i \in Slot, Workable(i)
               PROVE  /\ WorkItemQueue[i].Encryption.caller = c => \A u \in Units(i) : u < f.data
                      /\ Belongs(i, c) => WorkItemQueue[i].Encryption.caller = c
    OBVIOUS
  <2> DEFINE e == WorkItemQueue[i].Encryption
  <2>1. /\ e.caller \in Caller /\ pc[e.caller] \in Submitted
        /\ WorkItemQueue[i].FirstFragment = call[e.caller].first
        /\ e.data + e.unitCount <= call[e.caller].fragment.data
    BY DEF PoolInv, WorkInv, Belongs
  <2>2. e.data \in Nat /\ e.unitCount \in Nat
    BY DEF PoolInv, TypeInv, TypeOK, ItemType, WorkType
  <2>3. e.caller = c => \A u \in e.data .. e.data + e.unitCount - 1 : u < f.data
    <3>1. e.caller = c => e.data + e.unitCount <= f.data
      BY <2>1
    <3> HIDE DEF f
    <3>2. QED  BY <1>3, <2>2, <3>1
  <2>4. Belongs(i, c) => e.caller = c
    <3>1. \A d \in Caller \ {c} : pc[d] \in Submitted => call[d].first # call[c].first
      BY <1>1 DEF PoolInv, FirstInv, Active, Submitted
    <3>2. QED  BY <2>1, <3>1 DEF Belongs
  <2>5. QED  BY <2>3, <2>4 DEF Units
<1>13. FreshInv'
  <2> SUFFICES ASSUME NEW i \in Slot, Workable(i)'
               PROVE  LET d == WorkItemQueue'[i].Encryption.caller IN
                      /\ \A u \in Units(i)' : data[d][u] = <<>>
                      /\ \A j \in Slot \ {i} : Workable(j)' /\ WorkItemQueue'[j].Encryption.caller = d =>
                           Units(i)' \cap Units(j)' = {}
    BY <1>1 DEF FreshInv, Undone
  <2>1. \A j \in Slot \ {k} : Units(j)' = Units(j)
    BY <1>5 DEF Units
  <2>2. WorkItemQueue'[k].Encryption.caller = c
    BY <1>5 DEF work
  <2>3. \A u \in new : u >= f.data
    <3> HIDE DEF f
    <3>1. QED  BY <1>3
  <2>4. \A j \in Slot \ {k} : Workable(j)' /\ WorkItemQueue'[j].Encryption.caller = c =>
           Units(j)' \cap new = {}
    <3>1. \A j \in Slot \ {k} : Workable(j)' /\ WorkItemQueue'[j].Encryption.caller = c =>
             \A u \in Units(j)' : u < f.data
      BY <1>5, <1>11, <1>12, <2>1
    <3>2. \A j \in Slot \ {k} : \A u \in Units(j)' \cap new : u \in Int
      <4> HIDE DEF f
      <4>1. \A u \in new : u \in Int
        BY <1>3
      <4>2. QED  BY <4>1
    <3> HIDE DEF new
    <3>3. f.data \in Nat
      BY <1>3
    <3>4. QED  BY <2>3, <3>1, <3>2, <3>3
  <2> HIDE DEF new
  <2>5. CASE i = k
    <3>1. Units(i)' = new
      BY <1>5, <2>5 DEF Units, work, new
    <3>2. QED  BY <1>8, <2>2, <2>4, <2>5, <3>1 DEF Undone
  <2>6. CASE i # k
    <3>1. Workable(i) /\ WorkItemQueue'[i] = WorkItemQueue[i] /\ Units(i)' = Units(i)
      BY <1>5, <1>11, <2>1, <2>6
    <3>2. \A u \in Units(i) : data[WorkItemQueue[i].Encryption.caller][u] = <<>>
      BY <3>1 DEF DataInv, FreshInv, Undone
    <3>3. ASSUME NEW j \in Slot \ {i}, Workable(j)',
                 WorkItemQueue'[j].Encryption.caller = WorkItemQueue'[i].Encryption.caller
          PROVE  Units(i)' \cap Units(j)' = {}
      <4>1. CASE j = k
        <5>1. Units(j)' = new
          BY <1>5, <4>1 DEF Units, work, new
        <5>2. QED  BY <2>2, <2>4, <2>6, <3>3, <4>1, <5>1
      <4>2. CASE j # k
        <5>1. Workable(j) /\ WorkItemQueue'[j] = WorkItemQueue[j] /\ Units(j)' = Units(j)
          BY <1>5, <1>11, <2>1, <3>3, <4>2
        <5>2. QED  BY <3>1, <3>3, <5>1 DEF DataInv, FreshInv
      <4>3. QED  BY <4>1, <4>2
    <3>4. QED  BY <3>1, <3>2, <3>3
  <2>7. QED  BY <2>5, <2>6
<1>14. LossInv'
  <2> SUFFICES ASSUME NEW d \in Caller, pc'[d] \in Submitted
               PROVE  Loss(d)'
    BY DEF LossInv
  <2>1. pc[d] \in Submitted /\ Loss(d)
    BY <1>1, <1>2 DEF Submitted, DataInv, LossInv
  <2>2. WorkItemQueue'[call'[d].first].ItemException = WorkItemQueue[call[d].first].ItemException
    <3>1. call[d].first \in Slot
      BY <2>1 DEF PoolInv, FirstInv, Active
    <3>2. QED  BY <1>4, <1>5, <3>1
  <2>3. Outstanding(d)' = Total(d)' => Outstanding(d) = Total(d)
    BY <2>1 DEF CountKeeps
  <2>4. \A u : Covered(d, u) => Covered(d, u)'
    <3>1. \A i \in Slot : Workable(i) => Workable(i)' /\ WorkItemQueue'[i] = WorkItemQueue[i]
      BY <1>5, <1>11
    <3>2. QED  BY <1>4, <3>1 DEF Covered, Belongs, Units
  <2>5. CASE d = c
    <3>1. \A u : Covered(c, u)' <=> Covered(c, u) \/ u \in new
      <4>1. \A i \in Slot \ {k} : /\ Workable(i)' <=> Workable(i)
                                  /\ WorkItemQueue'[i] = WorkItemQueue[i]
        BY <1>5, <1>11
      <4>2. \A i \in Slot : i = k => Belongs(i, c)' /\ Units(i)' = new /\ Workable(i)'
        BY <1>1, <1>4, <1>5, <1>6, <1>11 DEF Belongs
      <4>3. ASSUME NEW u, Covered(c, u)', u \notin new
            PROVE  Covered(c, u)
        <5>1. PICK i \in Slot : Workable(i)' /\ Belongs(i, c)' /\ u \in Units(i)'
          BY <4>3 DEF Covered
        <5>2. i # k
          BY <1>5, <4>3, <5>1 DEF Units, work
        <5>3. Workable(i) /\ Belongs(i, c) /\ u \in Units(i)
          BY <1>4, <4>1, <5>1, <5>2 DEF Belongs, Units
        <5>4. QED  BY <5>3 DEF Covered
      <4>4. \A u \in new : Covered(c, u)'
        <5> HIDE DEF new
        <5>1. QED  BY <1>1, <4>2 DEF Covered
      <4>5. QED  BY <2>4, <2>5, <4>3, <4>4
    <3>2. (0 .. g.data - 1) = (0 .. f.data - 1) \cup new
      <4> HIDE DEF f
      <4>1. QED  BY <1>3
    <3>3. \A u \in 0 .. f.data - 1 : u \notin new
      <4> HIDE DEF f
      <4>1. QED  BY <1>3
    <3> HIDE DEF new
    <3>4. QED  BY <1>1, <1>4, <2>1, <2>2, <2>3, <2>5, <3>1, <3>2, <3>3 DEF Loss, Undone
  <2>6. CASE d # c
    <3>1. \A i \in Slot : Workable(i)' /\ Belongs(i, d)' => i # k
      <4>1. call[d].first # first
        BY <1>1, <2>1, <2>6 DEF PoolInv, FirstInv, Active, Submitted
      <4>2. QED  BY <1>4, <1>5, <4>1 DEF Belongs
    <3>2. \A u : Covered(d, u)' => Covered(d, u)
      <4>1. \A i \in Slot : Workable(i)' /\ Belongs(i, d)' =>
              Workable(i) /\ WorkItemQueue'[i] = WorkItemQueue[i]
        BY <1>5, <1>11, <3>1
      <4>2. QED  BY <1>4, <4>1 DEF Covered, Belongs, Units
    <3>3. call'[d].fragment = call[d].fragment
      BY <1>4, <2>6
    <3>4. QED  BY <1>1, <1>4, <2>1, <2>2, <2>3, <2>4, <3>2, <3>3 DEF Loss, Undone
  <2>7. QED  BY <2>5, <2>6
<1>15. QED  BY <1>9, <1>13, <1>14 DEF DataInv

LEMMA CallerDataStep ==
  ASSUME SectorUnits = 1, PoolInv, PoolInv', CountKeeps, DataInv, NEW c \in Caller,
         (DoWork(c) /\ CallerFrame) \/ CallerStep(c)
  PROVE  DataInv'
<1>1. CallerFrame
  BY DEF CallerStep
<1>2. QED
  BY <1>1, OutsideData, QueueData, PrepareData, PublishData, AwaitData, ReleaseData
     DEF CallerStep, InDoWork

\* A step that touches no caller and no data, and adds no work.
LEMMA NoDataStep ==
  ASSUME PoolInv, PoolInv', CountKeeps, DataInv,
         \A c \in Caller : pc'[c] = pc[c], call' = call, data' = data,
         \A i \in Slot : WorkItemQueue'[i].ItemException = WorkItemQueue[i].ItemException,
         \A i \in Slot : Workable(i)' =>
           /\ Workable(i) /\ WorkItemQueue'[i].Encryption = WorkItemQueue[i].Encryption
           /\ WorkItemQueue'[i].FirstFragment = WorkItemQueue[i].FirstFragment,
         \A c \in Caller : pc'[c] \in Submitted =>
           \/ Outstanding(c)' # Total(c)'
           \/ \A i \in Slot : Workable(i) /\ Belongs(i, c) => Workable(i)'
  PROVE  DataInv'
<1>1. BufferInv'
  BY BufferStays DEF DataInv, BufferInv
<1>2. \A c \in Caller : pc'[c] \in Submitted => call[c].first \in Slot
  BY DEF PoolInv, FirstInv, Active
<1>3. FreshInv' /\ LossInv'
  BY <1>2, WorkStays
<1>4. QED  BY <1>1, <1>3 DEF DataInv

LEMMA QuietWorkerData ==
  ASSUME PoolInv, PoolInv', CountKeeps, DataInv, NEW w \in Worker, WorkerFrame,
         \/ WorkerLoop(w) \/ LockDequeue(w) \/ WaitForItem(w) \/ AwaitReadyItem(w)
         \/ CheckStop(w) \/ SignalItemFree(w)
  PROVE  DataInv'
<1> DEFINE to == pc'[w]
<1>1. WorkerMoves(w, pc[w], to) /\ data' = data /\ WorkItemQueue' = WorkItemQueue
  BY PoolAssumption
     DEF PoolInv, TypeInv, TypeOK, WorkerMoves, WorkerFrame, Goto, WorkerLoop, LockDequeue,
         WaitForItem, AwaitReadyItem, CheckStop, SignalItemFree
<1>2. /\ \/ pc[w] \in {"loop", "lock", "check", "wait", "freed"}
            /\ to \in {"lock", "exit", "check", "wait", "decrement"}
         \/ pc[w] = "claimed" /\ to = (IF StopPending THEN "exit" ELSE "run")
      /\ pc[w] # "lock" => workItem'[w] = workItem[w]
  BY DEF PoolInv, TypeInv, TypeOK, Goto, WorkerLoop, LockDequeue,
         WaitForItem, AwaitReadyItem, CheckStop, SignalItemFree
<1>3. /\ pc'[w] = to /\ \A c \in Caller : pc'[c] = pc[c]
      /\ \A v \in Worker \ {w} : pc'[v] = pc[v] /\ workItem'[v] = workItem[v]
      /\ call' = call /\ StopPending' = StopPending
  BY <1>1, OtherWorkersStay DEF PoolInv
<1> HIDE DEF to
<1>4. \A v \in Worker : /\ Has(v)' <=> Has(v)
                        /\ Has(v) => /\ workItem'[v] = workItem[v]
                                     /\ pc'[v] = "ran" <=> pc[v] = "ran"
  <2>1. /\ Has(w)' <=> Has(w)
        /\ Has(w) => /\ workItem'[w] = workItem[w]
                     /\ pc'[w] = "ran" <=> pc[w] = "ran"
    BY <1>2, <1>3 DEF Has
  <2>2. QED  BY <1>1, <1>3, <2>1, OtherWorkers
<1>5. \A i \in Slot : Workable(i)' <=> Workable(i)
  BY <1>1, <1>4 DEF Workable
<1>6. QED  BY <1>1, <1>3, <1>5, NoDataStep

\* An item is freed once it is done; the count and the completion are not about data.
LEMMA CountData ==
  ASSUME PoolInv, PoolInv', CountKeeps, DataInv, NEW w \in Worker, WorkerFrame,
         FreeItem(w) \/ DecrementOutstanding(w) \/ SignalCompletion(w)
  PROVE  DataInv'
<1> DEFINE i == workItem[w]  first == WorkItemQueue[i].FirstFragment  to == pc'[w]
<1>1. /\ WorkerMoves(w, pc[w], to) /\ data' = data
      /\ pc[w] \in {"ran", "decrement", "complete"} /\ to \in {"freed", "decrement", "complete", "loop"}
  BY PoolAssumption
     DEF PoolInv, TypeInv, TypeOK, WorkerMoves, WorkerFrame, Goto, FreeItem, DecrementOutstanding,
         SignalCompletion
<1>2. i \in Slot /\ first \in Slot
  BY <1>1, CountedRequest DEF Engaged, Counts, Has
<1>3. /\ pc'[w] = to /\ \A c \in Caller : pc'[c] = pc[c]
      /\ \A v \in Worker \ {w} : pc'[v] = pc[v] /\ workItem'[v] = workItem[v]
      /\ call' = call /\ StopPending' = StopPending
  BY <1>1, OtherWorkersStay DEF PoolInv
<1>4. \A j \in Slot : /\ \/ WorkItemQueue'[j].State = WorkItemQueue[j].State
                            /\ WorkItemQueue'[j].Encryption = WorkItemQueue[j].Encryption
                         \/ pc[w] = "ran" /\ j = i /\ WorkItemQueue'[j].State = "Free"
                      /\ WorkItemQueue'[j].FirstFragment = WorkItemQueue[j].FirstFragment
                      /\ WorkItemQueue'[j].ItemException = WorkItemQueue[j].ItemException
  <2>0. WorkItemQueue \in [Slot -> ItemType]
    BY DEF PoolInv, TypeInv, TypeOK
  <2>1. CASE FreeItem(w)
    <3>1. pc[w] = "ran" /\ (\/ WorkItemQueue' = WorkItemQueue
                            \/ WorkItemQueue' = [WorkItemQueue EXCEPT ![i].State = "Free", ![i].Encryption = NoWork])
      BY <2>1 DEF FreeItem, Goto
    <3> HIDE DEF i
    <3>2. QED  BY <1>2, <2>0, <3>1 DEF ItemType
  <2>2. CASE DecrementOutstanding(w)
    <3>1. WorkItemQueue' = [WorkItemQueue EXCEPT ![first].Outstanding = @ - 1]
      BY <2>2 DEF DecrementOutstanding
    <3> HIDE DEF i, first
    <3>2. QED  BY <1>2, <2>0, <3>1 DEF ItemType
  <2>3. CASE SignalCompletion(w)
    <3>1. WorkItemQueue' = [WorkItemQueue EXCEPT ![first].ItemCompletedEvent = TRUE]
      BY <2>3 DEF SignalCompletion
    <3> HIDE DEF i, first
    <3>2. QED  BY <1>2, <2>0, <3>1 DEF ItemType
  <2>4. QED  BY <2>1, <2>2, <2>3
<1>5. pc[w] = "ran" => /\ WorkItemQueue[i].State = "Busy"
                       /\ \A v \in Worker \ {w} : Has(v) => workItem[v] # i
  BY DEF PoolInv, HasInv, Has
<1> HIDE DEF to, first
<1>6. /\ ~(Has(w)' /\ pc'[w] # "ran") /\ ~(Has(w) /\ pc[w] # "ran")
      /\ \A v \in Worker \ {w} : Has(v)' <=> Has(v)
  <2>1. ~(Has(w)' /\ pc'[w] # "ran") /\ ~(Has(w) /\ pc[w] # "ran")
    BY <1>1, <1>3 DEF Has
  <2>2. QED  BY <1>1, <2>1, OtherWorkers
<1>7. \A j \in Slot : /\ Workable(j)' <=> Workable(j)
                      /\ Workable(j) => \/ pc[w] # "ran"
                                        \/ j # i
  <2>1. \A j \in Slot : (\E v \in Worker : workItem'[v] = j /\ Has(v)' /\ pc'[v] # "ran")
                        <=> \E v \in Worker : workItem[v] = j /\ Has(v) /\ pc[v] # "ran"
    BY <1>3, <1>6
  <2>2. \A j \in Slot : WorkItemQueue'[j].State = "Ready" <=> WorkItemQueue[j].State = "Ready"
    BY <1>4, <1>5
  <2>3. pc[w] = "ran" => ~Workable(i)
    BY <1>5, <1>6 DEF Workable
  <2>4. \A j \in Slot : Workable(j)' <=> Workable(j)
    BY <2>1, <2>2 DEF Workable
  <2>5. QED  BY <2>3, <2>4
<1>8. \A j \in Slot : Workable(j)' =>
         /\ Workable(j) /\ WorkItemQueue'[j].Encryption = WorkItemQueue[j].Encryption
         /\ WorkItemQueue'[j].FirstFragment = WorkItemQueue[j].FirstFragment
  BY <1>4, <1>7
<1>9. QED  BY <1>1, <1>3, <1>4, <1>7, <1>8, NoDataStep

\* An item that is claimed is going to be done, or the pool stops: its request
\* then counts one fragment too many for ever.
LEMMA ClaimData ==
  ASSUME PoolInv, PoolInv', CountKeeps, DataInv, NEW w \in Worker, WorkerFrame, ClaimItem(w)
  PROVE  DataInv'
<1> DEFINE i == workItem[w]
<1>1. /\ WorkerMoves(w, "check", "claimed") /\ pc[w] = "check" /\ workItem' = workItem
      /\ i \in Slot /\ data' = data
      /\ (StopPending \/ WorkItemQueue[i].State = "Ready")
      /\ StopPending' = StopPending /\ StopPending \in BOOLEAN
      /\ \A j \in Slot : /\ WorkItemQueue'[j].State = (IF j = i THEN "Busy" ELSE WorkItemQueue[j].State)
                         /\ WorkItemQueue'[j].FirstFragment = WorkItemQueue[j].FirstFragment
                         /\ WorkItemQueue'[j].Encryption = WorkItemQueue[j].Encryption
                         /\ WorkItemQueue'[j].Outstanding = WorkItemQueue[j].Outstanding
                         /\ WorkItemQueue'[j].ItemException = WorkItemQueue[j].ItemException
  <2>1. /\ WorkerMoves(w, "check", "claimed") /\ pc[w] = "check" /\ workItem' = workItem
        /\ (StopPending \/ WorkItemQueue[i].State = "Ready") /\ data' = data
        /\ StopPending' = StopPending /\ StopPending \in BOOLEAN
        /\ WorkItemQueue' = [WorkItemQueue EXCEPT ![i].State = "Busy"]
    BY DEF PoolInv, TypeInv, TypeOK, WorkerMoves, WorkerFrame, Goto, ClaimItem, Claimable, ownerVars
  <2>2. i \in Slot
    BY <2>1, EngagedLive
  <2>3. QED  BY <2>1, <2>2 DEF PoolInv, TypeInv, TypeOK, ItemType
<1>2. /\ pc'[w] = "claimed" /\ \A c \in Caller : pc'[c] = pc[c]
      /\ \A v \in Worker \ {w} : pc'[v] = pc[v]
      /\ call' = call
  BY <1>1, OtherWorkersStay DEF PoolInv
<1>3. /\ ~Has(w) /\ (Has(w)' <=> ~StopPending)
      /\ \A v \in Worker \ {w} : /\ Has(v)' <=> Has(v)
                                 /\ Counts(v)' <=> Counts(v)
      /\ ~Counts(w) /\ (Counts(w)' <=> ~StopPending)
  <2>1. ~Has(w) /\ (Has(w)' <=> ~StopPending) /\ ~Counts(w) /\ (Counts(w)' <=> ~StopPending)
    BY <1>1, <1>2 DEF Has, Counts
  <2>2. QED  BY <1>1, <2>1, OtherWorkers
<1>4. /\ \A j \in Slot : Workable(j)' => Workable(j)
      /\ \A j \in Slot \ {i} : Workable(j) => Workable(j)'
      /\ ~StopPending \/ WorkItemQueue[i].State # "Ready" => (Workable(i) => Workable(i)')
  <2>1. \A j \in Slot : Workable(j)' => Workable(j)
    BY <1>1, <1>2, <1>3 DEF Workable
  <2>2. \A j \in Slot \ {i} : Workable(j) => Workable(j)'
    BY <1>1, <1>2, <1>3 DEF Workable
  <2>3. ~StopPending => Workable(i)'
    BY <1>1, <1>2, <1>3 DEF Workable
  <2>4. WorkItemQueue[i].State # "Ready" => (Workable(i) => Workable(i)')
    BY <1>1, <1>2, <1>3 DEF Workable
  <2>5. QED  BY <2>1, <2>2, <2>3, <2>4
<1>5. ASSUME NEW d \in Caller, pc'[d] \in Submitted, StopPending, WorkItemQueue[i].State = "Ready",
             Belongs(i, d)
      PROVE  Outstanding(d)' # Total(d)'
  <2> DEFINE l == call[d].fragment.left  m == Cardinality(Waiting(d))  n == Cardinality(Working(d))
             o == Outstanding(d)
  <2>1. pc[d] \in Submitted /\ call[d].first \in Slot
    BY <1>2, <1>5 DEF PoolInv, FirstInv, Active
  <2>2. Outstanding(d)' = o /\ o \in Int /\ l \in Nat /\ m \in Nat /\ n \in Nat
    BY <1>1, <1>2, <2>1, WaitingFinite
       DEF Outstanding, PoolInv, TypeInv, TypeOK, ItemType, CallType, FragmentType
  <2>3. o >= l + m + n
    BY <2>1 DEF PoolInv, CountInv, Total
  <2>4. Waiting(d)' = Waiting(d) \ {i} /\ i \in Waiting(d)
    BY <1>1, <1>2, <1>5 DEF Waiting, Belongs
  <2>5. Working(d)' = Working(d)
    BY <1>1, <1>2, <1>3, <1>5, EngagedLive DEF Working, Belongs
  <2>6. Cardinality(Waiting(d) \ {i}) = m - 1
    BY <2>4, WaitingFinite, FS_RemoveElement
  <2>7. Total(d)' = l + (m - 1) + n
    BY <1>2, <2>4, <2>5, <2>6 DEF Total
  <2> HIDE DEF l, m, n, o
  <2>8. QED  BY <2>2, <2>3, <2>7
<1>6. QED  BY <1>1, <1>2, <1>4, <1>5, NoDataStep

\* The fragment that a worker is about to do.
LEMMA ClaimedFragment ==
  ASSUME PoolInv, NEW w \in Worker, pc[w] = "run"
  PROVE  LET i == workItem[w]
             e == WorkItemQueue[i].Encryption
             c == e.caller IN
         /\ i \in Slot /\ Workable(i) /\ c \in Caller /\ pc[c] \in Submitted /\ Belongs(i, c)
         /\ e.unitNo = e.data /\ e.data \in Nat /\ e.unitCount \in Nat /\ e.unitCount > 0
         /\ e.data + e.unitCount <= call[c].fragment.data
         /\ call[c].fragment.data <= call[c].unitCount
         /\ call[c].fragment.data \in Nat /\ call[c].unitCount \in Nat
         /\ WorkItemQueue[i].State = "Busy"
         /\ \A v \in Worker \ {w} : Has(v) => workItem[v] # i
         /\ \A d \in Caller \ {c} : pc[d] \in Submitted => call[d].first # call[c].first
<1> DEFINE i == workItem[w]  e == WorkItemQueue[i].Encryption  c == e.caller
<1>1. Has(w) /\ i \in Slot /\ Workable(i)
  <2>1. Has(w)
    BY DEF Has
  <2>2. QED  BY <2>1, EngagedLive DEF Workable
<1>2. /\ c \in Caller /\ pc[c] \in Submitted /\ Belongs(i, c)
      /\ e.unitCount > 0 /\ e.unitNo = e.data /\ e.data + e.unitCount <= call[c].fragment.data
  BY <1>1 DEF PoolInv, WorkInv
<1>3. e.data \in Nat /\ e.unitCount \in Nat
  BY <1>1 DEF PoolInv, TypeInv, TypeOK, ItemType, WorkType
<1>4. call[c].fragment.data \in Nat /\ call[c].unitCount \in Nat
  BY <1>2 DEF PoolInv, TypeInv, TypeOK, CallType, FragmentType
<1>5. call[c].fragment.data <= call[c].unitCount
  BY <1>2, PublishedInside
<1>6. WorkItemQueue[i].State = "Busy" /\ \A v \in Worker \ {w} : Has(v) => workItem[v] # i
  BY <1>1 DEF PoolInv, HasInv
<1>7. \A d \in Caller \ {c} : pc[d] \in Submitted => call[d].first # call[c].first
  BY <1>2 DEF PoolInv, FirstInv, Active
<1>8. QED  BY <1>1, <1>2, <1>3, <1>4, <1>5, <1>6, <1>7

\* What becomes of the work when a worker has done, or failed to do, its fragment.
LEMMA FragmentDone ==
  ASSUME PoolInv, NEW w \in Worker, WorkerFrame, RunItem(w) \/ FailItem(w)
  PROVE  /\ \A i \in Slot : i = workItem[w] => ~Workable(i)'
         /\ \A i \in Slot : i # workItem[w] => (Workable(i)' <=> Workable(i))
         /\ \A c \in Caller : pc'[c] = pc[c]
         /\ call' = call /\ pc[w] = "run"
<1>0. TypeInv'
  BY WorkerType DEF PoolInv, WorkerStep, InWorkThreadProc
<1>1. /\ WorkerMoves(w, "run", "ran") /\ workItem' = workItem /\ StopPending' = StopPending
      /\ pc[w] = "run"
  BY <1>0 DEF PoolInv, TypeInv, TypeOK, WorkerMoves, WorkerFrame, Goto, RunItem, FailItem, ownerVars
<1>2. /\ pc'[w] = "ran" /\ \A c \in Caller : pc'[c] = pc[c]
      /\ \A v \in Worker \ {w} : pc'[v] = pc[v]
      /\ call' = call
  BY <1>1, OtherWorkersStay DEF PoolInv
<1>3. \A i \in Slot : WorkItemQueue'[i].State = WorkItemQueue[i].State
  BY DEF RunItem, FailItem, PoolInv, TypeInv, TypeOK, ItemType
<1>4. /\ workItem[w] \in Slot /\ WorkItemQueue[workItem[w]].State = "Busy"
      /\ \A v \in Worker \ {w} : Has(v) => workItem[v] # workItem[w]
  BY <1>1, ClaimedFragment
<1>5. \A v \in Worker \ {w} : Has(v)' <=> Has(v)
  BY <1>1, OtherWorkers
<1>6. QED  BY <1>1, <1>2, <1>3, <1>4, <1>5 DEF Workable

\* A fragment is done: its units were not, and no other fragment has them.
LEMMA RunData ==
  ASSUME SectorUnits = 1, PoolInv, PoolInv', CountKeeps, DataInv, NEW w \in Worker, WorkerFrame,
         RunItem(w), NEW i \in Slot, i = workItem[w],
         NEW c \in Caller, c = WorkItemQueue[i].Encryption.caller
  PROVE  DataInv'
<1> DEFINE e == WorkItemQueue[i].Encryption
<1>1. /\ \A j \in Slot : j = i => ~Workable(j)'
      /\ \A j \in Slot : j # i => (Workable(j)' <=> Workable(j))
      /\ \A d \in Caller : pc'[d] = pc[d]
      /\ call' = call /\ pc[w] = "run" /\ WorkItemQueue' = WorkItemQueue
  BY FragmentDone DEF RunItem
<1>2. /\ i \in Slot /\ Workable(i) /\ c \in Caller /\ pc[c] \in Submitted /\ Belongs(i, c)
      /\ e.unitNo = e.data /\ e.data \in Nat /\ e.unitCount \in Nat
      /\ e.data + e.unitCount <= call[c].fragment.data
      /\ call[c].fragment.data <= call[c].unitCount
      /\ call[c].fragment.data \in Nat /\ call[c].unitCount \in Nat
      /\ \A d \in Caller \ {c} : pc[d] \in Submitted => call[d].first # call[c].first
  BY <1>1, ClaimedFragment
<1>3. data = [d \in Caller |-> data[d]] /\ Buffer(c)
  BY <1>2 DEF DataInv, BufferInv
<1>4. \A u \in Units(i) : u \in Nat /\ u < call[c].fragment.data
  <2> DEFINE a == e.data  m == e.unitCount  f == call[c].fragment.data
  <2>1. a \in Nat /\ m \in Nat /\ f \in Nat /\ a + m <= f
    BY <1>2
  <2> HIDE DEF a, m, f
  <2>2. \A u \in a .. a + m - 1 : u \in Nat /\ u < f
    BY <2>1
  <2>3. QED  BY <2>2 DEF Units, a, m, f
<1>5. /\ \A d \in Caller \ {c} : data'[d] = data[d]
      /\ data' = [d \in Caller |-> data'[d]]
      /\ DOMAIN data'[c] = DOMAIN data[c]
      /\ \A u \in DOMAIN data[c] : data'[c][u] = IF u \in Units(i) THEN <<u>> ELSE data[c][u]
  <2>1. data' = [data EXCEPT ![c] = Transformed(c, e.data, e.data, e.unitCount)]
    BY <1>2 DEF RunItem
  <2>0. \A x, a, m : a \in Nat /\ m \in Nat =>
           LET t == Transformed(x, a, a, m) IN
           /\ DOMAIN t = DOMAIN data[x]
           /\ \A u \in DOMAIN data[x] :
                t[u] = IF u \in a .. a + m - 1 THEN Append(data[x][u], u) ELSE data[x][u]
    BY TransformUnits
  <2>2. /\ DOMAIN Transformed(c, e.data, e.data, e.unitCount) = DOMAIN data[c]
        /\ \A u \in DOMAIN data[c] : Transformed(c, e.data, e.data, e.unitCount)[u] =
             IF u \in Units(i) THEN Append(data[c][u], u) ELSE data[c][u]
    <3> DEFINE a == e.data  m == e.unitCount
    <3>1. Units(i) = a .. a + m - 1
      BY DEF Units
    <3> a \in Nat /\ m \in Nat
      BY <1>2
    <3> HIDE DEF a, m
    <3> DEFINE t == Transformed(c, a, a, m)
    <3>2. /\ DOMAIN t = DOMAIN data[c]
          /\ \A u \in DOMAIN data[c] :
               t[u] = IF u \in a .. a + m - 1 THEN Append(data[c][u], u) ELSE data[c][u]
      BY <2>0
    <3>3. QED  BY <3>1, <3>2 DEF a, m
  <2>3. \A u \in Units(i) : data[c][u] = <<>>
    BY <1>2 DEF DataInv, FreshInv, Undone
  <2>4. \A u \in DOMAIN data[c] : Transformed(c, e.data, e.data, e.unitCount)[u] =
             IF u \in Units(i) THEN <<u>> ELSE data[c][u]
    BY <2>2, <2>3, AppendOne
  <2> HIDE DEF e
  <2>5. QED  BY <1>2, <1>3, <2>1, <2>2, <2>4
<1> HIDE DEF e
<1>6. \A j \in Slot : Units(j)' = Units(j)
  BY <1>1 DEF Units
<1>7. BufferInv'
  <2>1. \A d \in Caller \ {c} : Buffer(d)'
    BY <1>1, <1>5, BufferStays DEF DataInv, BufferInv
  <2>2. Buffer(c)'
    <3>1. \A u \in DOMAIN data'[c] : data'[c][u] \in {<<>>, <<u>>}
      BY <1>3, <1>5 DEF Buffer
    <3>2. \A u \in DOMAIN data'[c] : u >= call[c].fragment.data => u \notin Units(i)
      <4> DEFINE f == call[c].fragment.data
      <4>1. f \in Nat /\ \A u \in Units(i) : u \in Nat /\ u < f
        BY <1>2, <1>4
      <4> HIDE DEF f
      <4>2. \A u \in Units(i) : ~(u >= f)
        BY <4>1
      <4>3. QED  BY <4>2 DEF f
    <3>3. \A u \in DOMAIN data'[c] : u >= call[c].fragment.data => data'[c][u] = <<>>
      BY <1>2, <1>3, <1>5, <3>2 DEF Buffer, Undone, Submitted, Returning, CallerControl
    <3>4. pc'[c] \in Submitted /\ pc'[c] \notin Returning \cup {"currentDone"}
      BY <1>1, <1>2 DEF Submitted, Returning
    <3>5. QED  BY <1>1, <1>2, <1>3, <1>5, <3>1, <3>3, <3>4 DEF Buffer, Undone
  <2>3. QED  BY <1>5, <2>1, <2>2 DEF BufferInv
<1>8. FreshInv'
  <2> SUFFICES ASSUME NEW j \in Slot, Workable(j)'
               PROVE  LET d == WorkItemQueue'[j].Encryption.caller IN
                      /\ \A u \in Units(j)' : data'[d][u] = <<>>
                      /\ \A k \in Slot \ {j} : Workable(k)' /\ WorkItemQueue'[k].Encryption.caller = d =>
                           Units(j)' \cap Units(k)' = {}
    BY DEF FreshInv, Undone
  <2> DEFINE d == WorkItemQueue[j].Encryption.caller
  <2>1. j # i /\ Workable(j) /\ d \in Caller
    BY <1>1 DEF PoolInv, WorkInv
  <2>2. /\ \A u \in Units(j) : data[d][u] = <<>>
        /\ \A k \in Slot \ {j} : Workable(k) /\ WorkItemQueue[k].Encryption.caller = d =>
             Units(j) \cap Units(k) = {}
    BY <2>1 DEF DataInv, FreshInv, Undone
  <2>3. \A u \in Units(j) : data'[d][u] = <<>>
    <3>1. CASE d # c
      BY <1>5, <2>1, <2>2, <3>1
    <3>2. CASE d = c
      <4>1. Units(j) \cap Units(i) = {}
        BY <1>2, <2>1, <2>2, <3>2
      <4>2. \A u \in Units(j) : u \in DOMAIN data[c]
        <5> DEFINE g == WorkItemQueue[j].Encryption  a == g.data  m == g.unitCount
                   f == call[c].fragment.data  n == call[c].unitCount
        <5>1. a + m <= f
          BY <2>1, <3>2 DEF PoolInv, WorkInv
        <5>2. a \in Nat /\ m \in Nat
          BY <2>1 DEF PoolInv, TypeInv, TypeOK, ItemType, WorkType
        <5>3. f \in Nat /\ n \in Nat /\ f <= n
          BY <1>2
        <5>4. DOMAIN data[c] = 0 .. n - 1
          BY <1>2, <1>3 DEF Buffer, Submitted
        <5>5. Units(j) = a .. a + m - 1
          BY DEF Units
        <5> HIDE DEF a, m, f, n, g
        <5>6. \A u \in a .. a + m - 1 : u \in 0 .. n - 1
          BY <5>1, <5>2, <5>3
        <5>7. QED  BY <5>4, <5>5, <5>6
      <4>3. QED  BY <1>5, <2>2, <3>2, <4>1, <4>2
    <3>3. QED  BY <3>1, <3>2
  <2>4. QED  BY <1>1, <1>6, <2>1, <2>2, <2>3
<1>9. LossInv'
  <2> SUFFICES ASSUME NEW d \in Caller, pc'[d] \in Submitted
               PROVE  Loss(d)'
    BY DEF LossInv
  <2>1. pc[d] \in Submitted /\ Loss(d)
    BY <1>1 DEF DataInv, LossInv
  <2>2. Outstanding(d)' = Total(d)' => Outstanding(d) = Total(d)
    BY <2>1 DEF CountKeeps
  <2>3. CASE d = c
    <3>1. \A u : Covered(c, u)' => Covered(c, u)
      BY <1>1, <1>6 DEF Covered, Belongs
    <3>2. \A u : Covered(c, u) => Covered(c, u)' \/ u \in Units(i)
      BY <1>1, <1>6 DEF Covered, Belongs
    <3>3. \A u \in Units(i) : Covered(c, u)
      BY <1>2 DEF Covered
    <3>4. \A u \in 0 .. call[c].fragment.data - 1 : u \in DOMAIN data[c]
      <4> DEFINE f == call[c].fragment.data  n == call[c].unitCount
      <4>1. f \in Nat /\ n \in Nat /\ f <= n
        BY <1>2
      <4>2. DOMAIN data[c] = 0 .. n - 1
        BY <1>2, <1>3 DEF Buffer, Submitted
      <4> HIDE DEF f, n
      <4>3. \A u \in 0 .. f - 1 : u \in 0 .. n - 1
        BY <4>1
      <4>4. QED  BY <4>2, <4>3 DEF f
    <3>5. \A u \in 0 .. call[c].fragment.data - 1 :
            data'[c][u] = IF u \in Units(i) THEN <<u>> ELSE data[c][u]
      BY <1>5, <3>4
    <3>6. \A u : <<u>> # <<>>
      OBVIOUS
    <3> DEFINE published == 0 .. call[c].fragment.data - 1
               thrown == WorkItemQueue[call[c].first].ItemException
    <3>7. Outstanding(c) = Total(c) => \A u \in published : data[c][u] # <<>> \/ thrown \/ Covered(c, u)
      BY <2>1, <2>3 DEF Loss, Undone
    <3>8. thrown => \E u \in published : data[c][u] = <<>> /\ ~Covered(c, u)
      BY <2>1, <2>3 DEF Loss, Undone
    <3> HIDE DEF published
    <3>9. Outstanding(c)' = Total(c)' =>
            \A u \in published : data'[c][u] # <<>> \/ thrown \/ Covered(c, u)'
      BY <2>2, <2>3, <3>2, <3>5, <3>6, <3>7 DEF published
    <3>10. thrown => \E u \in published : data'[c][u] = <<>> /\ ~Covered(c, u)'
      BY <3>1, <3>3, <3>5, <3>8 DEF published
    <3>11. QED  BY <1>1, <2>3, <3>9, <3>10 DEF Loss, Undone, published
  <2>4. CASE d # c
    <3>1. ~Belongs(i, d)
      BY <1>2, <2>1, <2>4 DEF Belongs
    <3>2. \A u : Covered(d, u)' <=> Covered(d, u)
      BY <1>1, <1>6, <3>1 DEF Covered, Belongs
    <3>3. QED  BY <1>1, <1>5, <2>1, <2>2, <2>4, <3>2 DEF Loss, Undone
  <2>5. QED  BY <2>3, <2>4
<1>10. QED  BY <1>7, <1>8, <1>9 DEF DataInv

\* A fragment fails: its first unit is never done by another one.
LEMMA FailData ==
  ASSUME PoolInv, PoolInv', CountKeeps, DataInv, NEW w \in Worker, WorkerFrame, FailItem(w),
         NEW i \in Slot, i = workItem[w],
         NEW c \in Caller, c = WorkItemQueue[i].Encryption.caller
  PROVE  DataInv'
<1> DEFINE e == WorkItemQueue[i].Encryption  first == WorkItemQueue[i].FirstFragment
<1>1. /\ \A j \in Slot : j = i => ~Workable(j)'
      /\ \A j \in Slot : j # i => (Workable(j)' <=> Workable(j))
      /\ \A d \in Caller : pc'[d] = pc[d]
      /\ call' = call /\ pc[w] = "run" /\ data' = data
      /\ WorkItemQueue' = [WorkItemQueue EXCEPT ![first].ItemException = TRUE]
  BY FragmentDone DEF FailItem
<1>2. /\ i \in Slot /\ Workable(i) /\ c \in Caller /\ pc[c] \in Submitted /\ first = call[c].first
      /\ e.data \in Nat /\ e.unitCount \in Nat /\ e.unitCount > 0
      /\ e.data + e.unitCount <= call[c].fragment.data
      /\ call[c].fragment.data \in Nat
      /\ \A d \in Caller \ {c} : pc[d] \in Submitted => call[d].first # first
  BY <1>1, ClaimedFragment DEF Belongs
<1>3. first \in Slot
  BY <1>2 DEF PoolInv, FirstInv, Active
<1>4. \A j \in Slot : /\ WorkItemQueue'[j].FirstFragment = WorkItemQueue[j].FirstFragment
                      /\ WorkItemQueue'[j].Encryption = WorkItemQueue[j].Encryption
                      /\ j # first => WorkItemQueue'[j].ItemException = WorkItemQueue[j].ItemException
                      /\ j = first => WorkItemQueue'[j].ItemException
  <2>1. WorkItemQueue \in [Slot -> ItemType]
    BY DEF PoolInv, TypeInv, TypeOK
  <2> HIDE DEF first
  <2>2. QED  BY <1>1, <1>3, <2>1 DEF ItemType
<1>5. BufferInv'
  BY <1>1, BufferStays DEF DataInv, BufferInv
<1>6. FreshInv'
  BY <1>1, <1>4, FreshStays
<1>7. e.data \in Units(i) /\ e.data \in 0 .. call[c].fragment.data - 1
  <2> DEFINE a == e.data  m == e.unitCount  f == call[c].fragment.data
  <2>1. a \in Nat /\ m \in Nat /\ m > 0 /\ f \in Nat /\ a + m <= f
    BY <1>2
  <2> HIDE DEF a, m, f
  <2>2. a \in a .. a + m - 1 /\ a \in 0 .. f - 1
    BY <2>1
  <2>3. QED  BY <2>2 DEF Units, a, m, f
<1>8. PICK u \in Units(i) : u \in 0 .. call[c].fragment.data - 1
  BY <1>7
<1>9. LossInv'
  <2> SUFFICES ASSUME NEW d \in Caller, pc'[d] \in Submitted
               PROVE  Loss(d)'
    BY DEF LossInv
  <2>1. pc[d] \in Submitted /\ Loss(d) /\ call[d].first \in Slot
    BY <1>1 DEF DataInv, LossInv, PoolInv, FirstInv, Active
  <2>2. Outstanding(d)' = Total(d)' => Outstanding(d) = Total(d)
    BY <2>1 DEF CountKeeps
  <2>3. CASE d = c
    <3>1. WorkItemQueue'[call'[d].first].ItemException
      BY <1>1, <1>2, <1>3, <1>4, <2>3
    <3>2. data[c][u] = <<>>
      BY <1>2 DEF DataInv, FreshInv, Undone
    <3>3. ~Covered(c, u)'
      <4>1. SUFFICES ASSUME NEW j \in Slot, Workable(j)', Belongs(j, c)', u \in Units(j)'
                     PROVE  FALSE
        BY <1>4 DEF Covered
      <4>2. j # i /\ Workable(j) /\ Belongs(j, c) /\ u \in Units(j)
        BY <1>1, <1>4, <4>1 DEF Belongs, Units
      <4>3. WorkItemQueue[j].Encryption.caller = c
        BY <1>2, <4>2 DEF PoolInv, WorkInv, Belongs
      <4>4. Units(i) \cap Units(j) = {}
        BY <1>2, <4>2, <4>3 DEF DataInv, FreshInv
      <4>5. QED  BY <4>2, <4>4
    <3>4. \E v \in 0 .. call[c].fragment.data - 1 : data'[c][v] = <<>> /\ ~Covered(c, v)'
      BY <1>1, <1>8, <3>2, <3>3
    <3>5. QED  BY <1>1, <2>3, <3>1, <3>4 DEF Loss, Undone
  <2>4. CASE d # c
    <3>1. ~Belongs(i, d) /\ call[d].first # first
      BY <1>2, <2>1, <2>4 DEF Belongs
    <3>2. \A v : Covered(d, v)' <=> Covered(d, v)
      BY <1>1, <1>4, <3>1 DEF Covered, Belongs, Units
    <3>3. WorkItemQueue'[call'[d].first].ItemException = WorkItemQueue[call[d].first].ItemException
      BY <1>1, <1>4, <2>1, <3>1
    <3>4. QED  BY <1>1, <2>1, <2>2, <3>2, <3>3 DEF Loss, Undone
  <2>5. QED  BY <2>3, <2>4
<1>10. QED  BY <1>5, <1>6, <1>9 DEF DataInv

LEMMA WorkerDataStep ==
  ASSUME SectorUnits = 1, PoolInv, PoolInv', CountKeeps, DataInv, NEW w \in Worker, WorkerStep(w)
  PROVE  DataInv'
<1>1. WorkerFrame
  BY DEF WorkerStep
<1>2. CASE RunItem(w) \/ FailItem(w)
  <2>1. pc[w] = "run"
    BY <1>2 DEF PoolInv, TypeInv, TypeOK, Goto, RunItem, FailItem
  <2>2. workItem[w] \in Slot /\ WorkItemQueue[workItem[w]].Encryption.caller \in Caller
    BY <2>1, ClaimedFragment
  <2>3. QED  BY <1>1, <1>2, <2>2, RunData, FailData
<1>3. QED
  BY <1>1, <1>2, QuietWorkerData, CountData, ClaimData DEF WorkerStep, InWorkThreadProc

\* The owner touches no data; when the pool is to stop, an item that has just
\* been claimed is lost, and the count of its request never reaches zero.
LEMMA OwnerData ==
  ASSUME PoolInv, PoolInv', CountKeeps, DataInv,
         UNCHANGED <<WorkItemQueue, call, workItem, data>>,
         \A c \in Caller : pc'[c] = pc[c],
         \A w \in Worker : pc'[w] = pc[w] \/ {pc[w], pc'[w]} \subseteq {"none", "loop"},
         StopPending => StopPending'
  PROVE  DataInv'
<1>1. \A w \in Worker : /\ Has(w)' => Has(w)
                        /\ Counts(w)' => Counts(w)
                        /\ pc'[w] = "ran" <=> pc[w] = "ran"
                        /\ Has(w) /\ ~Has(w)' => Counts(w) /\ ~Counts(w)'
  <2> SUFFICES ASSUME NEW w \in Worker
               PROVE  /\ (Has(w)' => Has(w)) /\ (Counts(w)' => Counts(w))
                      /\ pc'[w] = "ran" <=> pc[w] = "ran"
                      /\ Has(w) /\ ~Has(w)' => Counts(w) /\ ~Counts(w)'
    OBVIOUS
  <2>1. CASE pc'[w] = pc[w]
    BY <2>1 DEF Has, Counts
  <2>2. CASE {pc[w], pc'[w]} \subseteq {"none", "loop"}
    BY <2>2 DEF Has, Counts
  <2>3. QED  BY <2>1, <2>2
<1>2. \A i \in Slot : Workable(i)' => Workable(i)
  BY <1>1 DEF Workable
<1>3. ASSUME NEW d \in Caller, pc'[d] \in Submitted, Outstanding(d)' = Total(d)',
             NEW i \in Slot, Workable(i), Belongs(i, d), ~Workable(i)'
      PROVE  FALSE
  <2> DEFINE l == call[d].fragment.left  m == Cardinality(Waiting(d))  n == Cardinality(Working(d))
             o == Outstanding(d)  k == Cardinality(Working(d)')
  <2>1. pc[d] \in Submitted /\ call[d].first \in Slot
    BY <1>3 DEF PoolInv, FirstInv, Active
  <2>2. o \in Int /\ l \in Nat /\ m \in Nat /\ n \in Nat /\ Outstanding(d)' = o
    BY <2>1, WaitingFinite DEF Outstanding, PoolInv, TypeInv, TypeOK, ItemType, CallType, FragmentType
  <2>3. o >= l + m + n
    BY <2>1 DEF PoolInv, CountInv, Total
  <2>4. Waiting(d)' = Waiting(d)
    BY DEF Waiting
  <2>5. PICK w \in Worker : workItem[w] = i /\ Has(w) /\ ~Has(w)'
    BY <1>1, <1>3 DEF Workable
  <2>6. Working(d)' \subseteq Working(d)
    BY <1>1 DEF Working, Belongs
  <2>7. w \in Working(d) /\ w \notin Working(d)'
    BY <1>1, <1>3, <2>5 DEF Working
  <2>8. k \in Nat /\ k <= n /\ k # n
    <3>1. IsFiniteSet(Working(d)) /\ IsFiniteSet(Working(d)')
      BY <2>6, WaitingFinite, FS_Subset
    <3>2. QED  BY <2>6, <2>7, <3>1, FS_Subset, FS_CardinalityType
  <2>9. Total(d)' = l + m + k
    BY <2>4 DEF Total
  <2> HIDE DEF l, m, n, o, k
  <2>10. o = l + m + k
    BY <1>3, <2>2, <2>9
  <2>11. QED  BY <2>2, <2>3, <2>8, <2>10
<1>4. \A d \in Caller : pc'[d] \in Submitted =>
        \/ Outstanding(d)' # Total(d)'
        \/ \A i \in Slot : Workable(i) /\ Belongs(i, d) => Workable(i)'
  BY <1>3
<1>5. QED  BY <1>2, <1>4, NoDataStep

LEMMA OwnerDataStep ==
  ASSUME PoolInv, PoolInv', CountKeeps, DataInv, OwnerStep
  PROVE  DataInv'
<1>1. CASE Start
  <2>1. /\ opc = "created" /\ UNCHANGED <<pc, call, data, workItem>>
        /\ \A i \in Slot : WorkItemQueue'[i] = [WorkItemQueue[i] EXCEPT !.State = "Free"]
    BY <1>1 DEF Start, OwnerGoto, threadVars
  <2>2. /\ \A c \in Caller : pc[c] \notin Submitted
        /\ \A w \in Worker : pc[w] = "none"
    BY <2>1 DEF PoolInv, ControlInv, Outside, Submitted
  <2>3. \A i \in Slot : WorkItemQueue'[i].State = "Free"
    <3>1. WorkItemQueue \in [Slot -> ItemType]
      BY DEF PoolInv, TypeInv, TypeOK
    <3>2. QED  BY <2>1, <3>1 DEF ItemType
  <2>4. \A i \in Slot : ~Workable(i)'
    BY <2>1, <2>2, <2>3 DEF Workable, Has
  <2>5. BufferInv'
    BY <2>1, BufferStays DEF DataInv, BufferInv
  <2>6. FreshInv' /\ LossInv'
    BY <2>1, <2>2, <2>4 DEF FreshInv, LossInv
  <2>7. QED  BY <2>5, <2>6 DEF DataInv
<1>2. CASE StartThread
  <2>1. PICK w \in Worker \ RunningThreads : pc' = [pc EXCEPT ![w] = "loop"]
    BY <1>2 DEF StartThread
  <2>2. /\ pc[w] = "none" /\ pc'[w] = "loop" /\ \A c \in Caller : pc'[c] = pc[c]
        /\ \A v \in Worker \ {w} : pc'[v] = pc[v]
        /\ UNCHANGED <<WorkItemQueue, StopPending, workItem, call, data>>
    BY <1>2, <2>1, PoolAssumption DEF StartThread, PoolInv, ControlInv, TypeInv, TypeOK
  <2>3. QED  BY <2>2, OwnerData
<1>3. CASE StopStep \/ ((StartThreadFails \/ StartDone \/ Stop) /\ OwnerFrame)
  <2>1. /\ UNCHANGED <<WorkItemQueue, pc, call, workItem, data>>
        /\ StopPending => StopPending'
    BY <1>3 DEF StopStep, StopSignal, StopRequest, StopJoin, StopDone, StartThreadFails, StartDone,
                Stop, OwnerFrame, threadVars
  <2>2. QED  BY <2>1, OwnerData
<1>4. QED  BY <1>1, <1>2, <1>3 DEF OwnerStep

LEMMA DataStep ==
  ASSUME SectorUnits = 1
  PROVE  PoolInv /\ DataInv /\ [Next]_vars => DataInv'
<1> SUFFICES ASSUME PoolInv, DataInv, [Next]_vars
             PROVE  DataInv'
  OBVIOUS
<1>1. PoolInv' /\ CountKeeps
  BY PoolStep
<1>2. CASE UNCHANGED vars
  BY <1>1, <1>2, OwnerData DEF vars, ownerVars, threadVars
<1>3. CASE Next
  BY <1>1, <1>3, CallerDataStep, WorkerDataStep, OwnerDataStep DEF Next
<1>4. QED  BY <1>2, <1>3

LEMMA DataCorrect == ASSUME SectorUnits = 1  PROVE Spec => [](PoolInv /\ DataInv)
<1>1. Init => DataInv
  BY InitDataInv
<1>2. PoolInv /\ DataInv /\ [Next]_vars => DataInv'
  BY DataStep
<1>3. QED  BY <1>1, <1>2, PoolCorrect, PTL DEF Spec

\* For sectors of one data unit: when DoWork gives a buffer back, no unit was
\* done twice or as another one, and an exception tells of units left out.
THEOREM OutcomeIsTold == ASSUME SectorUnits = 1  PROVE Spec => []RequestOutcome
<1>1. PoolInv /\ DataInv => RequestOutcome
  BY DEF DataInv, BufferInv, Buffer, Undone, RequestOutcome
<1>2. QED  BY <1>1, DataCorrect, PTL

----------------------------------------------------------------------------
(* The pool implements the service of module DataUnitTransform *)

\* A step that the callers of the service do not see.
LEMMA ServiceStays ==
  ASSUME \A c \in Caller : /\ pc'[c] = "idle" <=> pc[c] = "idle"
                           /\ pc'[c] \in Returning <=> pc[c] \in Returning
                           /\ call'[c].thrown = call[c].thrown,
         data' = data
  PROVE  UNCHANGED Service!avars
<1>1. ServiceStatus' = ServiceStatus /\ ServiceError' = ServiceError
  BY DEF ServiceStatus, ServiceError
<1>2. QED  BY <1>1 DEF Service!avars

\* A step of the request of one caller.
LEMMA ServiceMoves ==
  ASSUME NEW c \in Caller, \A d \in Caller \ {c} : pc'[d] = pc[d] /\ call'[d].thrown = call[d].thrown
  PROVE  /\ \A s : /\ s = "idle" => pc'[c] = "idle"
                   /\ s = "done" => pc'[c] \in Returning
                   /\ s = "working" => pc'[c] \notin Returning \cup {"idle"}
                   /\ s \in {"idle", "working", "done"}
                   => ServiceStatus' = [ServiceStatus EXCEPT ![c] = s]
         /\ \A e : call'[c].thrown = e => ServiceError' = [ServiceError EXCEPT ![c] = e]
         /\ pc[c] = "idle" => ServiceStatus[c] = "idle"
         /\ pc[c] \in Returning => ServiceStatus[c] = "done"
         /\ pc[c] \notin Returning \cup {"idle"} => ServiceStatus[c] = "working"
<1>1. "idle" \notin Returning
  BY DEF Returning
<1>2. ASSUME NEW s, s = "idle" => pc'[c] = "idle", s = "done" => pc'[c] \in Returning,
             s = "working" => pc'[c] \notin Returning \cup {"idle"}, s \in {"idle", "working", "done"}
      PROVE  ServiceStatus' = [ServiceStatus EXCEPT ![c] = s]
  BY <1>1, <1>2 DEF ServiceStatus
<1>3. ASSUME NEW e, call'[c].thrown = e
      PROVE  ServiceError' = [ServiceError EXCEPT ![c] = e]
  BY <1>3 DEF ServiceError
<1>4. /\ pc[c] = "idle" => ServiceStatus[c] = "idle"
      /\ pc[c] \in Returning => ServiceStatus[c] = "done"
      /\ pc[c] \notin Returning \cup {"idle"} => ServiceStatus[c] = "working"
  BY <1>1 DEF ServiceStatus
<1>5. QED  BY <1>2, <1>3, <1>4

\* What the callers of the service see of a caller.
LEMMA ServiceCallerStep ==
  ASSUME SectorUnits = 1, PoolInv, PoolInv', DataInv, DataInv', NEW c \in Caller,
         (DoWork(c) /\ CallerFrame) \/ CallerStep(c)
  PROVE  Service!ANext \/ UNCHANGED Service!avars
<1>1. /\ \A d \in Caller \ {c} : pc'[d] = pc[d] /\ call'[d].thrown = call[d].thrown
  BY DEF PoolInv, TypeInv, TypeOK, DoWork, CallerStep, InDoWork, Goto, CurrentThread, CurrentThreadDone,
         SplitRequest, LockEnqueue, PrepareFirst, AwaitFreeItem, NextItem, UnlockEnqueue,
         PublishItem, SignalReady, AwaitCompletion, ReleaseFirst, SignalFirstFree, Return
<1>2. call \in [Caller -> CallType] /\ Buffer(c) /\ Buffer(c)' /\ data = [d \in Caller |-> data[d]]
  BY DEF PoolInv, TypeInv, TypeOK, DataInv, BufferInv
<1>3. call'[c].thrown \in BOOLEAN
  BY DEF PoolInv, TypeInv, TypeOK, CallType
<1>4. CASE DoWork(c)
  <2>1. /\ pc[c] = "idle" /\ pc'[c] \in {"current", "split"} /\ call'[c].thrown = call[c].thrown
        /\ \E n \in UnitCounts : data' = [data EXCEPT ![c] = [u \in 0 .. n * SectorUnits - 1 |-> <<>>]]
    <3>1. PICK n \in UnitCounts :
            /\ Goto(c, "idle", IF ~ThreadPoolRunning \/ n = 1 THEN "current" ELSE "split")
            /\ call' = [call EXCEPT ![c].unitCount = n]
            /\ data' = [data EXCEPT ![c] = [u \in 0 .. n * SectorUnits - 1 |-> <<>>]]
      BY <1>4 DEF DoWork
    <3>2. pc[c] = "idle" /\ pc'[c] \in {"current", "split"}
      BY <3>1 DEF Goto, PoolInv, TypeInv, TypeOK
    <3>3. call'[c].thrown = call[c].thrown
      BY <1>2, <3>1 DEF CallType
    <3>4. QED  BY <3>1, <3>2, <3>3
  <2>2. ServiceStatus[c] = "idle" /\ ServiceStatus' = [ServiceStatus EXCEPT ![c] = "working"]
    BY <1>1, <2>1, ServiceMoves DEF Returning
  <2>3. ServiceError' = ServiceError
    BY <1>1, <2>1 DEF ServiceError
  <2>4. Service!ABegin(c)
    BY <2>1, <2>2, <2>3 DEF Service!ABegin
  <2>5. QED  BY <2>4 DEF Service!ANext
<1>5. CASE CurrentThread(c) /\ pc'[c] = "currentDone"
  <2> DEFINE n == call[c].unitCount
  <2>1. /\ pc[c] = "current" /\ call' = call
        /\ data' = [data EXCEPT ![c] = Transformed(c, 0, 0, n)]
    BY <1>5 DEF CurrentThread, Goto, PoolInv, TypeInv, TypeOK
  <2>2. n \in Nat \ {0} /\ DOMAIN data[c] = 0 .. n - 1 /\ \A u \in DOMAIN data[c] : data[c][u] = <<>>
    BY <1>2, <2>1 DEF PoolInv, CutInv, Cut, Buffer, Undone, CallerControl, Returning, Submitted
  <2> HIDE DEF n
  <2> DEFINE t == Transformed(c, 0, 0, n)
  <2>3. /\ DOMAIN t = DOMAIN data[c]
        /\ \A u \in DOMAIN data[c] :
             t[u] = IF u \in 0 .. 0 + n - 1 THEN Append(data[c][u], u) ELSE data[c][u]
    BY <2>2, TransformUnits
  <2>4. t = [u \in DOMAIN data[c] |-> IF u \in 0 .. n - 1 THEN <<u>> ELSE data[c][u]]
    <3>1. \A u \in DOMAIN data[c] : t[u] = IF u \in 0 .. n - 1 THEN <<u>> ELSE data[c][u]
      BY <2>2, <2>3, AppendOne
    <3>2. t = [u \in DOMAIN t |-> t[u]]
      BY DEF Transformed
    <3> HIDE DEF t
    <3>3. QED  BY <2>3, <3>1, <3>2
  <2> HIDE DEF t
  <2>5. UNCHANGED <<ServiceStatus, ServiceError>> /\ ServiceStatus[c] = "working"
    <3>1. pc[c] \notin Returning \cup {"idle"} /\ pc'[c] \notin Returning \cup {"idle"}
      BY <1>5, <2>1 DEF Returning
    <3>2. UNCHANGED <<ServiceStatus, ServiceError>>
      BY <1>1, <2>1, <3>1 DEF ServiceStatus, ServiceError
    <3>3. QED  BY <1>1, <3>1, <3>2, ServiceMoves
  <2>6. 0 \in DOMAIN data[c] /\ n - 1 \in DOMAIN data[c] /\ 0 <= n - 1
        /\ \A u \in 0 .. n - 1 : data[c][u] = <<>>
    BY <2>2
  <2>7. Service!ATransform(c)
    BY <2>1, <2>4, <2>5, <2>6 DEF Service!ATransform, t
  <2>8. QED  BY <2>7 DEF Service!ANext
<1>6. CASE \/ CurrentThread(c) /\ pc'[c] # "currentDone"
           \/ CurrentThreadDone(c) \/ (CallerStep(c) /\ AwaitCompletion(c))
  <2>1. /\ pc[c] \in {"current", "currentDone", "await"} /\ pc'[c] \in {"return", "release"}
        /\ data' = data
    BY <1>6 DEF CurrentThread, CurrentThreadDone, AwaitCompletion, Goto, PoolInv, TypeInv, TypeOK
  <2>2. ServiceStatus[c] = "working" /\ ServiceStatus' = [ServiceStatus EXCEPT ![c] = "done"]
    BY <1>1, <2>1, ServiceMoves DEF Returning
  <2>3. call'[c].thrown = \E u \in DOMAIN data[c] : data[c][u] = <<>>
    BY <1>2, <1>3, <2>1 DEF Buffer, Undone, Returning
  <2>4. ServiceError' = [ServiceError EXCEPT ![c] = \E u \in DOMAIN data[c] : data[c][u] = <<>>]
    BY <1>1, <2>3, ServiceMoves
  <2>5. Service!AFinish(c)
    BY <2>1, <2>2, <2>4 DEF Service!AFinish
  <2>6. QED  BY <2>5 DEF Service!ANext
<1>7. CASE Return(c)
  <2>1. /\ pc[c] = "return" /\ pc'[c] = "idle" /\ data' = [data EXCEPT ![c] = NoData]
        /\ call'[c].thrown = FALSE
    BY <1>2, <1>7 DEF Return, Goto, PoolInv, TypeInv, TypeOK, NoCall
  <2>2. ServiceStatus[c] = "done" /\ ServiceStatus' = [ServiceStatus EXCEPT ![c] = "idle"]
    BY <1>1, <2>1, ServiceMoves DEF Returning
  <2>3. ServiceError' = [ServiceError EXCEPT ![c] = FALSE]
    BY <1>1, <2>1, ServiceMoves
  <2>4. Service!AReturn(c)
    BY <2>1, <2>2, <2>3 DEF Service!AReturn, Service!NoData, NoData
  <2>5. QED  BY <2>4 DEF Service!ANext
<1>8. CASE \/ SplitRequest(c) \/ LockEnqueue(c) \/ PrepareFirst(c) \/ AwaitFreeItem(c) \/ NextItem(c)
           \/ UnlockEnqueue(c) \/ PublishItem(c) \/ SignalReady(c) \/ ReleaseFirst(c)
           \/ SignalFirstFree(c)
  <2>1. /\ \/ /\ pc[c] \in {"split", "lock", "first", "firstWait", "next", "item", "itemWait", "signal"}
              /\ pc'[c] \in {"fault", "lock", "first", "firstWait", "next", "item", "itemWait", "signal",
                             "await"}
           \/ {pc[c], pc'[c]} \subseteq Returning
        /\ data' = data
    BY <1>8
       DEF PoolInv, TypeInv, TypeOK, Goto, SplitRequest, LockEnqueue, PrepareFirst, AwaitFreeItem,
           NextItem, UnlockEnqueue, PublishItem, SignalReady, ReleaseFirst, SignalFirstFree, Returning
  <2>2. call'[c].thrown = call[c].thrown
    BY <1>2, <1>8
       DEF SplitRequest, LockEnqueue, PrepareFirst, AwaitFreeItem,
           NextItem, UnlockEnqueue, PublishItem, SignalReady, ReleaseFirst, SignalFirstFree, CallType
  <2>3. \A d \in Caller : /\ pc'[d] = "idle" <=> pc[d] = "idle"
                          /\ pc'[d] \in Returning <=> pc[d] \in Returning
                          /\ call'[d].thrown = call[d].thrown
    BY <1>1, <2>1, <2>2 DEF Returning
  <2>4. QED  BY <2>1, <2>3, ServiceStays
<1>9. QED  BY <1>4, <1>5, <1>6, <1>7, <1>8 DEF CallerStep, InDoWork

\* The callers of the service see a worker transform a run of units, or nothing.
LEMMA ServiceWorkerStep ==
  ASSUME SectorUnits = 1, PoolInv, PoolInv', DataInv, NEW w \in Worker, WorkerStep(w)
  PROVE  Service!ANext \/ UNCHANGED Service!avars
<1>1. call' = call /\ \A c \in Caller : pc'[c] = pc[c]
  BY PoolAssumption
     DEF PoolInv, TypeInv, TypeOK, WorkerStep, WorkerFrame, InWorkThreadProc, Goto, WorkerLoop, LockDequeue,
         ClaimItem, WaitForItem, AwaitReadyItem, CheckStop, RunItem, FailItem, FreeItem,
         SignalItemFree, DecrementOutstanding, SignalCompletion
<1>2. CASE RunItem(w)
  <2>1. pc[w] = "run"
    BY <1>2 DEF RunItem, Goto
  <2>2. PICK i \in Slot, c \in Caller : i = workItem[w] /\ c = WorkItemQueue[i].Encryption.caller
    BY <2>1, ClaimedFragment
  <2> DEFINE lo == WorkItemQueue[i].Encryption.data  m == WorkItemQueue[i].Encryption.unitCount
             hi == lo + m - 1  f == call[c].fragment.data  n == call[c].unitCount
  <2>3. /\ Workable(i) /\ pc[c] \in Submitted
        /\ WorkItemQueue[i].Encryption.unitNo = lo /\ lo \in Nat /\ m \in Nat /\ m > 0
        /\ lo + m <= f /\ f <= n /\ f \in Nat /\ n \in Nat
    BY <2>1, <2>2, ClaimedFragment
  <2>4. data' = [data EXCEPT ![c] = Transformed(c, lo, lo, m)]
    BY <1>2, <2>2, <2>3 DEF RunItem
  <2>5. \A u \in lo .. hi : data[c][u] = <<>>
    BY <2>2, <2>3 DEF DataInv, FreshInv, Undone, Units
  <2>6. DOMAIN data[c] = 0 .. n - 1
    BY <2>3 DEF DataInv, BufferInv, Buffer, Submitted
  <2>7. ServiceStatus[c] = "working" /\ UNCHANGED <<ServiceStatus, ServiceError>>
    <3>1. pc[c] \notin Returning \cup {"idle"}
      BY <2>3 DEF Submitted, Returning
    <3>2. UNCHANGED <<ServiceStatus, ServiceError>>
      BY <1>1 DEF ServiceStatus, ServiceError
    <3>3. QED  BY <1>1, <3>1, <3>2, ServiceMoves
  <2> HIDE DEF lo, m, f, n
  <2>8. lo \in DOMAIN data[c] /\ hi \in DOMAIN data[c] /\ lo <= hi
    BY <2>3, <2>6
  <2>9. \A x, a, k : a \in Nat /\ k \in Nat =>
          LET t == Transformed(x, a, a, k) IN
          /\ DOMAIN t = DOMAIN data[x]
          /\ \A u \in DOMAIN data[x] :
               t[u] = IF u \in a .. a + k - 1 THEN Append(data[x][u], u) ELSE data[x][u]
    BY TransformUnits
  <2> DEFINE t == Transformed(c, lo, lo, m)
  <2>10. /\ DOMAIN t = DOMAIN data[c]
         /\ \A u \in DOMAIN data[c] : t[u] = IF u \in lo .. hi THEN Append(data[c][u], u) ELSE data[c][u]
    BY <2>3, <2>9
  <2>11. t = [u \in DOMAIN data[c] |-> IF u \in lo .. hi THEN <<u>> ELSE data[c][u]]
    <3>1. \A u \in DOMAIN data[c] : t[u] = IF u \in lo .. hi THEN <<u>> ELSE data[c][u]
      BY <2>5, <2>10, AppendOne
    <3>2. t = [u \in DOMAIN t |-> t[u]]
      BY DEF Transformed
    <3> HIDE DEF t, hi
    <3>3. QED  BY <2>10, <3>1, <3>2
  <2> HIDE DEF t, hi
  <2>12. Service!ATransform(c)
    BY <2>4, <2>5, <2>7, <2>8, <2>11 DEF Service!ATransform, t
  <2>13. QED  BY <2>12 DEF Service!ANext
<1>3. CASE ~RunItem(w)
  <2>1. data' = data
    BY <1>3
       DEF WorkerStep, InWorkThreadProc, WorkerLoop, LockDequeue, ClaimItem, WaitForItem,
           AwaitReadyItem, CheckStop, FailItem, FreeItem, SignalItemFree, DecrementOutstanding,
           SignalCompletion
  <2>2. QED  BY <1>1, <2>1, ServiceStays
<1>4. QED  BY <1>2, <1>3

LEMMA ServiceStep ==
  ASSUME SectorUnits = 1
  PROVE  PoolInv /\ PoolInv' /\ DataInv /\ DataInv' /\ [Next]_vars => [Service!ANext]_(Service!avars)
<1> SUFFICES ASSUME PoolInv, PoolInv', DataInv, DataInv', [Next]_vars
             PROVE  Service!ANext \/ UNCHANGED Service!avars
  OBVIOUS
<1>1. CASE UNCHANGED vars \/ OwnerStep
  <2>1. data' = data /\ call' = call /\ \A c \in Caller : pc'[c] = pc[c]
    BY <1>1, PoolAssumption
       DEF vars, OwnerStep, StopStep, Start, StartThread, StopSignal, StopRequest, StopJoin, StopDone,
           StartThreadFails, StartDone, Stop, OwnerFrame, threadVars, PoolInv, TypeInv, TypeOK
  <2>2. QED  BY <2>1, ServiceStays
<1>2. QED  BY <1>1, ServiceCallerStep, ServiceWorkerStep DEF Next

\* For sectors of one data unit, the pool is an implementation of the service:
\* however many threads do the work, callers see their units transformed at
\* most once each while the request is in progress, and the true outcome.
THEOREM PoolImplementsService == ASSUME SectorUnits = 1  PROVE Spec => ImplementsService
<1>1. Init => Service!AInit
  <2> SUFFICES ASSUME Init PROVE Service!AInit
    OBVIOUS
  <2>1. \A c \in Caller : pc[c] = "idle" /\ call[c].thrown = FALSE
    BY DEF Init, NoCall
  <2>2. ServiceStatus = [c \in Caller |-> "idle"]
    BY <2>1 DEF ServiceStatus, Returning
  <2> DEFINE e(c) == call[c].thrown
  <2>3. \A c \in Caller : e(c) = FALSE
    BY <2>1
  <2>4. ServiceError = [c \in Caller |-> e(c)]
    BY DEF ServiceError
  <2> HIDE DEF e
  <2>5. ServiceError = [c \in Caller |-> FALSE]
    BY <2>3, <2>4
  <2>6. data = [c \in Caller |-> Service!NoData]
    BY DEF Init, NoData, Service!NoData
  <2>7. QED  BY <2>2, <2>6, <2>5 DEF Service!AInit
<1>2. PoolInv /\ PoolInv' /\ DataInv /\ DataInv' /\ [Next]_vars => [Service!ANext]_(Service!avars)
  BY ServiceStep
<1>3. QED  BY <1>1, <1>2, DataCorrect, PTL DEF Spec, ImplementsService, Service!ASpec

=============================================================================
