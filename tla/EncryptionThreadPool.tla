------------------------ MODULE EncryptionThreadPool ------------------------
(***************************************************************************)
(* Volume/EncryptionThreadPool.cpp: the pool of threads that encrypts and  *)
(* decrypts data units for every mounted volume.                           *)
(*                                                                         *)
(* DoWork cuts a request into fragments and puts one work item per         *)
(* fragment into a ring, under EnqueueMutex; worker threads take the items *)
(* in ring order, under DequeueMutex.  The item of the first fragment also *)
(* carries the state of the whole request: the count of outstanding        *)
(* fragments, the exception and the completion event; it stays Busy until  *)
(* the caller has woken up, all other items are freed by the workers.      *)
(* Start and Stop belong to the process (Main.cpp, FuseService.cpp) and    *)
(* are taken by one owner thread.                                          *)
(*                                                                         *)
(* A SyncEvent is an auto-reset event: a Boolean that Signal sets and the  *)
(* one thread that gets through Wait clears.  A step below is one access   *)
(* to shared state; accesses that no other thread can observe in between   *)
(* (made under a mutex that every accessor holds) share a step.            *)
(***************************************************************************)
EXTENDS Integers, Sequences, FiniteSets

CONSTANTS
  Caller,           \* threads that call DoWork
  Worker,           \* threads the pool may start: one per CPU
  MaxThreadCount,   \* 32 in the code
  UnitCounts,       \* numbers of sectors a request may have
  SectorUnits,      \* data units (512 bytes) in a sector of the request
  StopOnlyWhenIdle, \* Stop is called only when no request is in progress
  CipherMayThrow,   \* a fragment may fail (mode or cipher not initialised)
  NoThread,         \* "nobody", for the mutexes
  NoItem            \* the null work item

ASSUME PoolAssumption ==
  /\ IsFiniteSet(Worker) /\ Cardinality(Worker) >= 2   \* cpuCount < 2: no pool
  /\ MaxThreadCount \in Nat /\ Cardinality(Worker) <= MaxThreadCount
  /\ UnitCounts \subseteq Nat \ {0}                    \* DoWork ignores 0 units
  /\ SectorUnits \in Nat \ {0}
  /\ StopOnlyWhenIdle \in BOOLEAN /\ CipherMayThrow \in BOOLEAN
  /\ Caller \cap Worker = {} /\ NoThread \notin Caller \cup Worker
  /\ NoItem \notin Int

QueueSize == 2 * MaxThreadCount
Slot == 0 .. QueueSize - 1

VARIABLES
  ThreadPoolRunning, StopPending, ThreadCount, RunningThreads,
  EnqueuePosition, DequeuePosition, EnqueueMutex, DequeueMutex,
  WorkItemReadyEvent, WorkItemCompletedEvent,
  WorkItemQueue,    \* the ring: a record per slot
  pc,               \* control state of callers and workers
  opc,              \* control state of the owner of the pool
  call,             \* call[c]: the locals of DoWork
  data,             \* data[c][u]: data unit numbers that unit u of the buffer
                    \* lent by c has been transformed with
  workItem          \* workItem[w]: the local of WorkThreadProc

ownerVars  == <<ThreadPoolRunning, StopPending, ThreadCount, RunningThreads, opc>>
headVars   == <<EnqueuePosition, EnqueueMutex>>
tailVars   == <<DequeuePosition, DequeueMutex>>
eventVars  == <<WorkItemReadyEvent, WorkItemCompletedEvent>>
threadVars == <<pc, call, data, workItem>>
vars == <<ownerVars, headVars, tailVars, eventVars, WorkItemQueue, threadVars>>

NoData == [u \in {} |-> <<>>]
NoWork == [caller |-> NoThread, data |-> 0, unitNo |-> 0, unitCount |-> 0]
NoFragment == [left |-> 0, units |-> 0, remainder |-> 0, data |-> 0, unitNo |-> 0]
NoCall == [unitCount |-> 0, fragment |-> NoFragment, first |-> NoItem, item |-> NoItem,
           thrown |-> FALSE]

Init ==
  /\ ThreadPoolRunning = FALSE /\ StopPending = FALSE
  /\ ThreadCount = 0 /\ RunningThreads = {} /\ opc = "created"
  /\ EnqueuePosition = 0 /\ DequeuePosition = 0
  /\ EnqueueMutex = NoThread /\ DequeueMutex = NoThread
  /\ WorkItemReadyEvent = FALSE /\ WorkItemCompletedEvent = FALSE
  /\ WorkItemQueue = [i \in Slot |->
       [State |-> "Free", FirstFragment |-> NoItem, Outstanding |-> 0,
        ItemException |-> FALSE, ItemCompletedEvent |-> FALSE, Encryption |-> NoWork]]
  /\ pc = [t \in Caller \cup Worker |-> IF t \in Caller THEN "idle" ELSE "none"]
  /\ call = [c \in Caller |-> NoCall] /\ data = [c \in Caller |-> NoData]
  /\ workItem = [w \in Worker |-> NoItem]

\* Thread t goes from one control state to another.
Goto(t, from, to) == pc[t] = from /\ pc' = [pc EXCEPT ![t] = to]

NextSlot(i) == IF i + 1 >= QueueSize THEN 0 ELSE i + 1

(* Encryption of sectors [sector, sector + sectors) of the request of c, at *)
(* data unit from of its buffer (EncryptSectorsCurrentThread): data unit    *)
(* numbers are sectorIndex * sectorSize / ENCRYPTION_DATA_UNIT_SIZE,        *)
(* relative here to the first unit of the request.                          *)
Transformed(c, from, sector, sectors) ==
  [u \in DOMAIN data[c] |->
     IF u \in from .. from + sectors * SectorUnits - 1
     THEN Append(data[c][u], sector * SectorUnits + (u - from))
     ELSE data[c][u]]

\* Definitions named Mutant... are plausible slips of the code; they take the
\* place of the definition after them when the properties are put to the test.

\* The round-up for the remainder is forgotten.
MutantSplit(n) ==
  [NoFragment EXCEPT !.left  = IF n <= ThreadCount THEN n ELSE ThreadCount,
                     !.units = IF n <= ThreadCount THEN 1 ELSE n \div ThreadCount]

(* The cut of a request of n sectors: fragmentCount, unitsPerFragment, and  *)
(* where the next fragment starts.                                          *)
Split(n) ==
  IF n <= ThreadCount
  THEN [left |-> n, units |-> 1, remainder |-> 0, data |-> 0, unitNo |-> 0]
  ELSE LET r == n % ThreadCount IN
       [left |-> ThreadCount, remainder |-> r, data |-> 0, unitNo |-> 0,
        units |-> (n \div ThreadCount) + (IF r > 0 THEN 1 ELSE 0)]

\* The remainder is not counted down: every fragment gets the larger size.
MutantNextFragment(f) ==
  [f EXCEPT !.left = @ - 1, !.data = @ + f.units, !.unitNo = @ + f.units]

\* The unit number of the request is used for every fragment.
MutantUnitNo(f) ==
  [f EXCEPT !.left = @ - 1, !.data = @ + f.units,
            !.units = IF f.remainder = 1 THEN @ - 1 ELSE @,
            !.remainder = IF @ > 0 THEN @ - 1 ELSE 0]

(* The cut after one fragment has been enqueued.  fragmentData advances by  *)
(* ENCRYPTION_DATA_UNIT_SIZE bytes, one data unit, per sector.              *)
NextFragment(f) ==
  [left      |-> f.left - 1,
   units     |-> IF f.remainder = 1 THEN f.units - 1 ELSE f.units,
   remainder |-> IF f.remainder > 0 THEN f.remainder - 1 ELSE 0,
   data      |-> f.data + f.units,
   unitNo    |-> f.unitNo + f.units]

----------------------------------------------------------------------------
(* DoWork *)

Stopping == opc \in {"stopping", "signalling", "joining", "joined"}

\* A caller lends a buffer of n sectors; DoWork reads ThreadPoolRunning.
DoWork(c) ==
  /\ StopOnlyWhenIdle => ~Stopping
  /\ \E n \in UnitCounts :
       /\ Goto(c, "idle", IF ~ThreadPoolRunning \/ n = 1 THEN "current" ELSE "split")
       /\ call' = [call EXCEPT ![c].unitCount = n]
       /\ data' = [data EXCEPT ![c] = [u \in 0 .. n * SectorUnits - 1 |-> <<>>]]
  /\ UNCHANGED <<headVars, eventVars, WorkItemQueue>>

\* Pool not running, or a single unit: the work is done by the caller itself.
CurrentThread(c) ==
  /\ \/ /\ Goto(c, "current", "currentDone")
        /\ data' = [data EXCEPT ![c] = Transformed(c, 0, 0, call[c].unitCount)]
        /\ UNCHANGED call
     \/ /\ CipherMayThrow /\ Goto(c, "current", "return")
        /\ call' = [call EXCEPT ![c].thrown = TRUE]
        /\ UNCHANGED data
  /\ UNCHANGED <<headVars, eventVars, WorkItemQueue>>

CurrentThreadDone(c) ==
  /\ Goto(c, "currentDone", "return")
  /\ UNCHANGED <<headVars, eventVars, WorkItemQueue, call, data>>

\* The request is cut according to ThreadCount.  Stop may have set it to 0 in
\* the meantime: the division faults.
SplitRequest(c) ==
  /\ Goto(c, "split", IF ThreadCount = 0 THEN "fault" ELSE "lock")
  /\ call' = IF ThreadCount = 0 THEN call
             ELSE [call EXCEPT ![c].fragment = Split(call[c].unitCount)]
  /\ UNCHANGED <<headVars, eventVars, WorkItemQueue, data>>

\* ScopeLock lock (EnqueueMutex): kept until every fragment is in the ring.
LockEnqueue(c) ==
  /\ Goto(c, "lock", "first")
  /\ EnqueueMutex = NoThread /\ EnqueueMutex' = c
  /\ call' = [call EXCEPT ![c].first = EnqueuePosition]
  /\ UNCHANGED <<EnqueuePosition, eventVars, WorkItemQueue, data>>

\* The state of the request is set up in its first item once that is Free.
PrepareFirst(c) ==
  LET first == call[c].first
      free  == WorkItemQueue[first].State = "Free" IN
  /\ Goto(c, "first", IF free THEN "next" ELSE "firstWait")
  /\ WorkItemQueue' =
       IF free THEN [WorkItemQueue EXCEPT ![first].Outstanding = call[c].fragment.left,
                                          ![first].ItemException = FALSE]
               ELSE WorkItemQueue
  /\ UNCHANGED <<headVars, eventVars, call, data>>

\* WorkItemCompletedEvent.Wait (), in either of the two loops.
AwaitFreeItem(c) ==
  /\ Goto(c, "firstWait", "first") \/ Goto(c, "itemWait", "item")
  /\ WorkItemCompletedEvent /\ WorkItemCompletedEvent' = FALSE
  /\ UNCHANGED <<headVars, WorkItemReadyEvent, WorkItemQueue, call, data>>

\* The next item of the ring ...
NextItem(c) ==
  /\ Goto(c, "next", "item")
  /\ call[c].fragment.left > 0
  /\ call' = [call EXCEPT ![c].item = EnqueuePosition]
  /\ EnqueuePosition' = NextSlot(EnqueuePosition)
  /\ UNCHANGED <<EnqueueMutex, eventVars, WorkItemQueue, data>>

\* ... or the end of the loop and of the locked scope.
UnlockEnqueue(c) ==
  /\ Goto(c, "next", "await")
  /\ call[c].fragment.left = 0
  /\ call' = [call EXCEPT ![c].item = NoItem]
  /\ EnqueueMutex' = NoThread
  /\ UNCHANGED <<EnqueuePosition, eventVars, WorkItemQueue, data>>

\* Once the item is Free it is filled in and becomes Ready.
PublishItem(c) ==
  LET k == call[c]
      free == WorkItemQueue[k.item].State = "Free"
      f == k.fragment
      work == [caller |-> c, data |-> f.data, unitNo |-> f.unitNo, unitCount |-> f.units] IN
  /\ Goto(c, "item", IF free THEN "signal" ELSE "itemWait")
  /\ IF free
     THEN /\ WorkItemQueue' = [WorkItemQueue EXCEPT ![k.item].State = "Ready",
                                                    ![k.item].FirstFragment = k.first,
                                                    ![k.item].Encryption = work]
          /\ call' = [call EXCEPT ![c].fragment = NextFragment(f)]
     ELSE UNCHANGED <<WorkItemQueue, call>>
  /\ UNCHANGED <<headVars, eventVars, data>>

MutantSignalReady(c) ==                                \* one signal per request
  /\ Goto(c, "signal", "next")
  /\ WorkItemReadyEvent' = (WorkItemReadyEvent \/ call[c].item = call[c].first)
  /\ UNCHANGED <<headVars, WorkItemCompletedEvent, WorkItemQueue, call, data>>

SignalReady(c) ==
  /\ Goto(c, "signal", "next")
  /\ WorkItemReadyEvent' = TRUE
  /\ UNCHANGED <<headVars, WorkItemCompletedEvent, WorkItemQueue, call, data>>

\* ItemCompletedEvent.Wait (), and the exception is taken out of the item.
AwaitCompletion(c) ==
  LET first == call[c].first IN
  /\ Goto(c, "await", "release")
  /\ WorkItemQueue[first].ItemCompletedEvent
  /\ WorkItemQueue' = [WorkItemQueue EXCEPT ![first].ItemCompletedEvent = FALSE,
                                            ![first].ItemException = FALSE]
  /\ call' = [call EXCEPT ![c].thrown = WorkItemQueue[first].ItemException]
  /\ UNCHANGED <<headVars, eventVars, data>>

\* Nobody reads what to encrypt from a Free item: the model forgets it there.
ReleaseFirst(c) ==
  /\ Goto(c, "release", "signalFree")
  /\ WorkItemQueue' = [WorkItemQueue EXCEPT ![call[c].first].State = "Free",
                                            ![call[c].first].Encryption = NoWork]
  /\ UNCHANGED <<headVars, eventVars, call, data>>

SignalFirstFree(c) ==
  /\ Goto(c, "signalFree", "return")
  /\ WorkItemCompletedEvent' = TRUE
  /\ UNCHANGED <<headVars, WorkItemReadyEvent, WorkItemQueue, call, data>>

\* DoWork returns or throws: the buffer is the caller's again.
Return(c) ==
  /\ Goto(c, "return", "idle")
  /\ call' = [call EXCEPT ![c] = NoCall] /\ data' = [data EXCEPT ![c] = NoData]
  /\ UNCHANGED <<headVars, eventVars, WorkItemQueue>>

InDoWork(c) ==
  \/ CurrentThread(c) \/ CurrentThreadDone(c) \/ SplitRequest(c) \/ LockEnqueue(c)
  \/ PrepareFirst(c) \/ AwaitFreeItem(c) \/ NextItem(c) \/ UnlockEnqueue(c)
  \/ PublishItem(c) \/ SignalReady(c) \/ AwaitCompletion(c) \/ ReleaseFirst(c) \/ SignalFirstFree(c)
  \/ Return(c)

CallerFrame == UNCHANGED <<ownerVars, tailVars, workItem>>
CallerStep(c) == InDoWork(c) /\ CallerFrame

----------------------------------------------------------------------------
(* WorkThreadProc *)

\* while (!StopPending)
WorkerLoop(w) ==
  /\ Goto(w, "loop", IF StopPending THEN "exit" ELSE "lock")
  /\ UNCHANGED <<tailVars, eventVars, WorkItemQueue, data, workItem>>

\* ScopeLock lock (DequeueMutex): one worker at a time claims the next item.
LockDequeue(w) ==
  /\ Goto(w, "lock", "check")
  /\ DequeueMutex = NoThread /\ DequeueMutex' = w
  /\ workItem' = [workItem EXCEPT ![w] = DequeuePosition]
  /\ DequeuePosition' = NextSlot(DequeuePosition)
  /\ UNCHANGED <<eventVars, WorkItemQueue, data>>

MutantClaimable(i) == StopPending \/ WorkItemQueue[i].State # "Free" \* Busy is taken
MutantDeafToStop(i) == WorkItemQueue[i].State = "Ready"
Claimable(i) == StopPending \/ WorkItemQueue[i].State = "Ready"

\* The item is Ready, or the pool stops: Busy in both cases, and the mutex is
\* released ...
ClaimItem(w) ==
  /\ Goto(w, "check", "claimed")
  /\ Claimable(workItem[w])
  /\ WorkItemQueue' = [WorkItemQueue EXCEPT ![workItem[w]].State = "Busy"]
  /\ DequeueMutex' = NoThread
  /\ UNCHANGED <<DequeuePosition, eventVars, data, workItem>>

\* ... otherwise the worker waits, keeping the mutex.
WaitForItem(w) ==
  /\ Goto(w, "check", "wait")
  /\ ~Claimable(workItem[w])
  /\ UNCHANGED <<tailVars, eventVars, WorkItemQueue, data, workItem>>

AwaitReadyItem(w) ==
  /\ Goto(w, "wait", "check")
  /\ WorkItemReadyEvent /\ WorkItemReadyEvent' = FALSE
  /\ UNCHANGED <<tailVars, WorkItemCompletedEvent, WorkItemQueue, data, workItem>>

\* if (StopPending) break
CheckStop(w) ==
  /\ Goto(w, "claimed", IF StopPending THEN "exit" ELSE "run")
  /\ UNCHANGED <<tailVars, eventVars, WorkItemQueue, data, workItem>>

\* The fragment is transformed in the caller's buffer.
RunItem(w) ==
  LET e == WorkItemQueue[workItem[w]].Encryption IN
  /\ Goto(w, "run", "ran")
  /\ data' = [data EXCEPT ![e.caller] = Transformed(e.caller, e.data, e.unitNo, e.unitCount)]
  /\ UNCHANGED <<tailVars, eventVars, WorkItemQueue, workItem>>

\* The cipher or the mode throws (not initialised, bad parameter) before it
\* has changed the data; the exception is kept for the caller.
FailItem(w) ==
  LET first == WorkItemQueue[workItem[w]].FirstFragment IN
  /\ CipherMayThrow
  /\ Goto(w, "run", "ran")
  /\ WorkItemQueue' = [WorkItemQueue EXCEPT ![first].ItemException = TRUE]
  /\ UNCHANGED <<tailVars, eventVars, data, workItem>>

\* Every item but the first of its request is freed by the worker.
MutantFreedByWorker(i) == TRUE
FreedByWorker(i) == i # WorkItemQueue[i].FirstFragment

FreeItem(w) ==
  LET i == workItem[w] IN
  /\ Goto(w, "ran", IF FreedByWorker(i) THEN "freed" ELSE "decrement")
  /\ WorkItemQueue' = IF FreedByWorker(i)
                      THEN [WorkItemQueue EXCEPT ![i].State = "Free", ![i].Encryption = NoWork]
                      ELSE WorkItemQueue
  /\ UNCHANGED <<tailVars, eventVars, data, workItem>>

SignalItemFree(w) ==
  /\ Goto(w, "freed", "decrement")
  /\ WorkItemCompletedEvent' = TRUE
  /\ UNCHANGED <<tailVars, WorkItemReadyEvent, WorkItemQueue, data, workItem>>

\* FirstFragment is read from an item that may have been freed already.
DecrementOutstanding(w) ==
  LET first == WorkItemQueue[workItem[w]].FirstFragment
      last  == WorkItemQueue[first].Outstanding = 1 IN
  /\ Goto(w, "decrement", IF last THEN "complete" ELSE "loop")
  /\ WorkItemQueue' = [WorkItemQueue EXCEPT ![first].Outstanding = @ - 1]
  /\ workItem' = [workItem EXCEPT ![w] = IF last THEN @ ELSE NoItem]
  /\ UNCHANGED <<tailVars, eventVars, data>>

SignalCompletion(w) ==
  LET first == WorkItemQueue[workItem[w]].FirstFragment IN
  /\ Goto(w, "complete", "loop")
  /\ WorkItemQueue' = [WorkItemQueue EXCEPT ![first].ItemCompletedEvent = TRUE]
  /\ workItem' = [workItem EXCEPT ![w] = NoItem]
  /\ UNCHANGED <<tailVars, eventVars, data>>

InWorkThreadProc(w) ==
  \/ WorkerLoop(w) \/ LockDequeue(w) \/ ClaimItem(w) \/ WaitForItem(w)
  \/ AwaitReadyItem(w) \/ CheckStop(w) \/ RunItem(w) \/ FailItem(w) \/ FreeItem(w)
  \/ SignalItemFree(w) \/ DecrementOutstanding(w) \/ SignalCompletion(w)

WorkerFrame == UNCHANGED <<ownerVars, headVars, call>>
WorkerStep(w) == InWorkThreadProc(w) /\ WorkerFrame

----------------------------------------------------------------------------
(* Start and Stop *)

OwnerGoto(from, to) == opc = from /\ opc' = to

\* Start: the ring is reset; threads are created one by one.
Start ==
  /\ OwnerGoto("created", "starting") /\ ~ThreadPoolRunning
  /\ StopPending' = FALSE
  /\ DequeuePosition' = 0 /\ EnqueuePosition' = 0
  /\ WorkItemQueue' = [i \in Slot |-> [WorkItemQueue[i] EXCEPT !.State = "Free"]]
  /\ ThreadCount' = 0
  /\ UNCHANGED <<ThreadPoolRunning, RunningThreads, EnqueueMutex, DequeueMutex,
                 eventVars, threadVars>>

StartThread ==
  /\ opc = "starting" /\ ThreadCount < Cardinality(Worker)
  /\ \E w \in Worker \ RunningThreads :
       /\ RunningThreads' = RunningThreads \cup {w}
       /\ pc' = [pc EXCEPT ![w] = "loop"]
  /\ ThreadCount' = ThreadCount + 1
  /\ UNCHANGED <<ThreadPoolRunning, StopPending, opc, headVars, tailVars, eventVars,
                 WorkItemQueue, call, data, workItem>>

\* A thread cannot be created: the pool is declared running, so that Stop does
\* not return early, and is stopped.
StartThreadFails ==
  /\ OwnerGoto("starting", "stopping") /\ ThreadCount < Cardinality(Worker)
  /\ ThreadPoolRunning' = TRUE
  /\ UNCHANGED <<StopPending, ThreadCount, RunningThreads>>

StartDone ==
  /\ OwnerGoto("starting", "running") /\ ThreadCount = Cardinality(Worker)
  /\ ThreadPoolRunning' = TRUE
  /\ UNCHANGED <<StopPending, ThreadCount, RunningThreads>>

\* Stop is called: the end of main, or the dismount of the FUSE service.
Stop ==
  /\ OwnerGoto("running", "stopping") /\ ThreadPoolRunning
  /\ StopOnlyWhenIdle => \A c \in Caller : pc[c] = "idle"
  /\ UNCHANGED <<ThreadPoolRunning, StopPending, ThreadCount, RunningThreads>>

StopRequest ==
  /\ OwnerGoto("stopping", "signalling")
  /\ StopPending' = TRUE
  /\ UNCHANGED <<ThreadPoolRunning, ThreadCount, RunningThreads>>

StopSignal ==
  /\ OwnerGoto("signalling", "joining")
  /\ WorkItemReadyEvent' = TRUE
  /\ UNCHANGED <<ThreadPoolRunning, StopPending, ThreadCount, RunningThreads, headVars,
                 tailVars, WorkItemCompletedEvent, WorkItemQueue, threadVars>>

StopJoin ==
  /\ OwnerGoto("joining", "joined")
  /\ \A w \in RunningThreads : pc[w] = "exit"
  /\ ThreadCount' = 0
  /\ UNCHANGED <<ThreadPoolRunning, StopPending, RunningThreads>>

StopDone ==
  /\ OwnerGoto("joined", "stopped")
  /\ ThreadPoolRunning' = FALSE
  /\ UNCHANGED <<StopPending, ThreadCount, RunningThreads>>

\* The steps of the owner that touch neither the ring nor the threads.
OwnerFrame == UNCHANGED <<headVars, tailVars, eventVars, WorkItemQueue, threadVars>>
StopStep == StopSignal \/ ((StopRequest \/ StopJoin \/ StopDone) /\ OwnerFrame)
OwnerStep ==
  Start \/ StartThread \/ StopStep \/ ((StartThreadFails \/ StartDone \/ Stop) /\ OwnerFrame)

Next ==
  \/ \E c \in Caller : (DoWork(c) /\ CallerFrame) \/ CallerStep(c)
  \/ \E w \in Worker : WorkerStep(w)
  \/ OwnerStep

Spec == Init /\ [][Next]_vars

(* Threads that can run do run.  Nothing makes a caller call DoWork, or    *)
(* the owner stop the pool; a call of Stop, once begun, goes on.           *)
Fairness ==
  /\ \A c \in Caller : WF_vars(CallerStep(c))
  /\ \A w \in Worker : WF_vars(WorkerStep(w))
  /\ WF_vars(StopStep)

FairSpec == Spec /\ Fairness

----------------------------------------------------------------------------
(* Properties *)

\* Where a caller is between publishing and waking up: its request is in the
\* hands of the pool.
Submitted == {"next", "item", "itemWait", "signal", "await"}
Returning == {"release", "signalFree", "return"}

CallerControl ==
  {"idle", "current", "currentDone", "split", "fault", "lock", "first", "firstWait"}
  \cup Submitted \cup Returning
WorkerControl ==
  {"none", "loop", "lock", "check", "wait", "claimed", "run", "ran", "freed",
   "decrement", "complete", "exit"}
OwnerControl == {"created", "starting", "running", "stopped"}
                \cup {"stopping", "signalling", "joining", "joined"}

MaybeSlot == Slot \cup {NoItem}
WorkType == [caller : Caller \cup {NoThread}, data : Nat, unitNo : Nat, unitCount : Nat]
ItemType ==
  [State : {"Free", "Ready", "Busy"}, FirstFragment : MaybeSlot, Outstanding : Int,
   ItemException : BOOLEAN, ItemCompletedEvent : BOOLEAN, Encryption : WorkType]
FragmentType == [left : Nat, units : Nat, remainder : Nat, data : Nat, unitNo : Nat]
CallType == [unitCount : Nat, fragment : FragmentType, first : MaybeSlot,
             item : MaybeSlot, thrown : BOOLEAN]

\* Every variable of the pool, of the queue and of the threads has its type.
TypeOK ==
  /\ ThreadPoolRunning \in BOOLEAN /\ StopPending \in BOOLEAN
  /\ ThreadCount \in Nat /\ RunningThreads \subseteq Worker /\ opc \in OwnerControl
  /\ EnqueuePosition \in Slot /\ DequeuePosition \in Slot
  /\ EnqueueMutex \in Caller \cup {NoThread} /\ DequeueMutex \in Worker \cup {NoThread}
  /\ WorkItemReadyEvent \in BOOLEAN /\ WorkItemCompletedEvent \in BOOLEAN
  /\ WorkItemQueue \in [Slot -> ItemType]
  /\ pc \in [Caller \cup Worker -> CallerControl \cup WorkerControl]
  /\ call \in [Caller -> CallType]
  /\ workItem \in [Worker -> MaybeSlot]

\* When DoWork gives the buffer back, each data unit has been transformed at
\* most once, with its own number, and DoWork throws exactly when some unit was
\* left out: no fragment is lost, done twice or done with the numbers or the
\* data of another one, and no exception is lost or left over from an earlier
\* request that used the same item.
RequestOutcome ==
  \A c \in Caller : pc[c] \in Returning =>
    /\ \A u \in DOMAIN data[c] : data[c][u] \in {<<>>, <<u>>}
    /\ call[c].thrown <=> \E u \in DOMAIN data[c] : data[c][u] = <<>>

\* Work that is Ready or being done belongs to a request whose caller is still
\* inside DoWork and lies inside the buffer it lent: no thread of the pool
\* touches a buffer after DoWork has returned it.
BufferLent ==
  \A i \in Slot :
    (\/ WorkItemQueue[i].State = "Ready"
     \/ \E w \in Worker : pc[w] = "run" /\ workItem[w] = i) =>
      LET e == WorkItemQueue[i].Encryption IN
        /\ e.caller \in Caller
        /\ pc[e.caller] \in Submitted
        /\ WorkItemQueue[i].FirstFragment = call[e.caller].first
        /\ e.data + e.unitCount * SectorUnits <= call[e.caller].unitCount * SectorUnits

\* Fragments of c's request that wait in the ring, and those that a worker has
\* claimed and not yet counted down.
Waiting(c) ==
  {i \in Slot : /\ WorkItemQueue[i].State = "Ready"
                /\ WorkItemQueue[i].FirstFragment = call[c].first}
InWork(c) ==
  {w \in Worker : /\ pc[w] \in {"claimed", "run", "ran", "freed", "decrement"}
                  /\ WorkItemQueue[workItem[w]].FirstFragment = call[c].first}

\* The count in the first item is the number of fragments that are still to be
\* enqueued, waiting, or being worked on.  It relates the count to items that
\* may have been freed, and could have been reused, before they are counted.
FragmentAccounting ==
  \A c \in Caller : pc[c] \in Submitted /\ ~StopPending =>
    WorkItemQueue[call[c].first].Outstanding =
      call[c].fragment.left + Cardinality(Waiting(c)) + Cardinality(InWork(c))

\* No two workers have the same item, and the item a worker has is Busy.
ExclusiveItem ==
  \A w \in Worker : pc[w] \in {"run", "ran"} =>
    /\ WorkItemQueue[workItem[w]].State = "Busy"
    /\ \A v \in Worker \ {w} : pc[v] \in {"run", "ran"} => workItem[v] # workItem[w]

\* A request that has got hold of the queue is completed and its caller
\* returns: no wake-up is lost although both queue events are shared by all
\* threads and an event that is signalled twice is seen once.
AcceptedRequestCompletes == \A c \in Caller : EnqueueMutex = c ~> pc[c] = "idle"

\* A call of Stop joins every thread, the ones blocked on the queue included,
\* whatever the callers do: one signal is enough for all of them.
StopTerminates == opc = "stopping" ~> opc = "stopped"

\* The service the callers rely on, seen in the state of the pool.
ServiceStatus == [c \in Caller |-> CASE pc[c] = "idle"       -> "idle"
                                     [] pc[c] \in Returning -> "done"
                                     [] OTHER               -> "working"]
ServiceError == [c \in Caller |-> call[c].thrown]
Service == INSTANCE DataUnitTransform WITH
  status <- ServiceStatus, buffer <- data, error <- ServiceError

\* Every behaviour of the pool is one of the abstract service.
ImplementsService == Service!ASpec

=============================================================================
