# Verification of nemesis

nemesis is a fork of TrueCrypt 7.1a: disk encryption in C and C++, with a port
to Unix (FUSE) and the legacy code for Windows (a kernel driver, a boot loader,
a formatting wizard).  This directory holds TLA+ models of the parts of it
whose correctness depends on the order of steps: of threads and processes, of
device operations and commands that fail, of crashes and restarts.  Each module
is checked by TLC on small instances; what matters most is proved with TLAPS
for every size.

Contents: [inventory](#inventory), [plan](#plan), [modules](#modules),
[runs](#runs), [fairness](#fairness), [proofs](#proofs),
[known divergences](#known-divergences), [limits](#limits),
[not modelled](#not-modelled).

## Inventory

About 84,000 lines are the program's own; wxWidgets, libntru and PCG-PRNG are
vendored.

| Component | Source | State | Operations | Hard behaviour | Correct when | Model |
|---|---|---|---|---|---|---|
| Encryption thread pool | `Volume/EncryptionThreadPool.cpp` | ring of work items, two mutexes, two shared events, counts and exception of each request | `DoWork`, `WorkThreadProc`, `Start`, `Stop` | workers and callers on shared auto-reset events; items freed before they are counted | each data unit is transformed once, with its number; a request ends when it is done, with its own outcome | `EncryptionThreadPool`, `DataUnitTransform` |
| In-place encryption | `Format/InPlace.c`, parts of `Format/Tcformat.c` | partition, backup and primary header, count of interrupted encryptions, `masterCryptoInfo` | `EncryptPartitionInPlaceBegin`, `-Resume`, `ConcealNTFS`, `FastVolumeHeaderUpdate` | writes that fail in part over their own source, pauses, retries, crashes | no block is lost; the header never names more than is encrypted; an encryption that was begun can be finished | `InPlaceEncryption` |
| Encrypted I/O queue | `Driver/EncryptedIoQueue.c` | three queues and their events, buffer pool, two fragment buffers, read-ahead, count of outstanding I/O | `AddIrp`, three threads, `HoldWhenIdle`, `ResumeFromHold`, `Stop` | five threads on auto-reset events; an encrypted area that moves between I/O | behaves like a plain device serving IRPs in order; a hold excludes I/O; Hold and Stop return | `EncryptedIoQueue` |
| System encryption setup | `Driver/DriveFilter.c`, `Driver/Ntdriver.c` | encrypted area, header on the drive, setup status, mutex of the root device | `SetupThreadProc`, `SaveDriveVolumeHeader`, start, abort, `MountDrive` | runs beside the users of the drive; crashes between header saves; an abort that waits with a mutex the thread wants | the header leads to the data; the key is not erased while it is needed; start and abort return | `SystemEncryptionSetup` |
| Volume I/O, hidden volume protection | `Volume/Volume.cpp` | protected range, `HiddenVolumeProtectionTriggered` | `Open`, `ReadSectors`, `WriteSectors`, `CheckProtectedRange` | boundaries; a flag and a range looked at without a lock; once triggered, always refused | the hidden volume and the headers are never written | `FuseService` |
| FUSE service | `Driver/Fuse/FuseService.cpp` | mounted volume, auxiliary device information | read and write callbacks, control file, `Dismount` | callbacks of several threads; requests of any alignment | reads are exact; no callback uses a closed volume | `FuseService`, `UnixMount` |
| Header and layouts | `Volume/VolumeHeader.cpp`, `Volume/VolumeLayout.cpp` | header fields | positions, `Create`, `Decrypt`, `EncryptNew` | primary, backup and hidden headers of two layouts | each header is found where it was written | `VolumeHeaders`, `FuseService` |
| Volume creation | `Core/VolumeCreator.cpp`, wizard of `Main/Forms` | progress, abort, exception | `CreateVolume`, `CreationThread`, `Abort` | abort and progress without locks, a wizard that asks while the thread goes on | an incomplete volume is not reported as created | `VolumeHeaders` |
| Header operations | `Core/CoreBase.cpp`, `Main/TextUserInterface.cpp` | headers, header backup file | `ChangePassword`, `BackupVolumeHeaders`, `RestoreVolumeHeaders` | several passes over two headers, failing writes, crashes | a header opens at any moment; the old password does not afterwards | `VolumeHeaders` |
| Mounting on Unix | `Core/Unix/CoreUnix.cpp`, `Core/Unix/Linux/CoreLinux.cpp` | mount points, loop devices, device mapper | `MountVolume`, `DismountVolume` | every step may fail; several processes dismount from a copy of the state | a failed mount leaves nothing; what there is can be taken down | `UnixMount` |
| Core service | `Core/Unix/CoreService.cpp` | pipes, elevated process, `ElevatedServiceAvailable` | `SendRequest`, `ProcessRequests`, `StartElevated`, `ProcessElevatedRequests`, `Stop` | three processes and `sudo` on shared pipes, time-outs, messages without numbers | a response belongs to its request; each is carried out once; processes end | `CoreService` |
| RNG, password caches, slots | `Core/RandomNumberGenerator.cpp`, `Volume/VolumePasswordCache.cpp`, `Common/Cache.c` | pool; bounded list | add, get, mix; store, clear | - | the pool is never used after it is freed | - |
| Windows thread pool | `Common/EncryptionThreadPool.c` | as above, plus key derivation | as above | as above, plus a completion count | as above | - |
| Keyfiles, ciphers, hashes, modes | `Volume/*`, `Common/*`, `Crypto/*` | none | byte-level computations | tables, carries | test vectors of `Volume/EncryptionTest.cpp`, `Common/Tests.c` | - |
| User interfaces, installer, boot loader, Windows library | `Main`, `Mount`, `Format`, `Setup`, `Boot`, `Common` | dialogues | dialogues and calls of the operations above | mostly calls into the system | - | - |

How they interact:

- `Main/Unix/Main.cpp` forks the core service, then starts the thread pool
  (58-66).  Reading or writing a mounted volume goes from a FUSE callback to
  `Volume`, to an `EncryptionMode` and to `EncryptionThreadPool::DoWork`, which
  returns when the workers are done.  `FuseService::Dismount` closes the volume
  and stops the pool of its process.
- Mounting goes from the interface to `Core`; what needs privileges is
  serialised over pipes to `CoreService`, which starts an elevated twin of
  itself with `sudo` and passes the request on.  The process that mounts tells
  the FUSE service, through its control file, of the devices it set up; who
  dismounts reads them there.
- `Core` and the interfaces write headers: `VolumeCreator` in a thread of its
  own, `ChangePassword` in passes over primary and backup header, the text
  interface when it restores headers.
- On Windows the driver's dispatch routine puts each IRP into the encrypted
  I/O queue of its device.  For the system drive the setup thread of
  `DriveFilter.c` takes the queue between two IRPs (`HoldWhenIdle`), encrypts
  or decrypts the next blocks with direct I/O, moves `EncryptedAreaEnd` and
  lets the queue go on.  `EncryptedIoQueue` has the setup thread as the owner
  of a hold that moves the area; `SystemEncryptionSetup` has the queue as what
  it guarantees: no I/O in a hold, and each unit taken for encrypted below the end.
- The wizard `Tcformat.c` runs `EncryptPartitionInPlaceBegin` and `-Resume`
  in a thread of its own and pauses it with a flag.

PROJECT.json lists every component with its status, and the hazards: the
places where an error would be hard to test for, each with the properties that
would show it, or with the reason why none does.

## Plan

In the order of what the data of a user depends on.  Done:

1. `EncryptionThreadPool` and its abstract service `DataUnitTransform`.
2. `InPlaceEncryption`, with safety theorems.
3. `EncryptedIoQueue`, with safety theorems.
4. `SystemEncryptionSetup`, with safety theorems.
5. `FuseService`, with safety theorems.
6. `VolumeHeaders`: creation, change of password, backup and restoring.
7. `UnixMount`: rollback of a mount, retries of a dismount.
8. `CoreService`, with safety theorems.

Every safety property that a run checks has a theorem.

Not done: the Windows twin of the thread pool with its key derivation.

## Modules

### EncryptionThreadPool, DataUnitTransform

A step is one access to shared state.  `SyncEvent` is an auto-reset event: a
Boolean that `Signal` sets and one `Wait` clears.  Accesses under a mutex that
every accessor holds share a step with the acquisition or release next to them.

| Model | Code |
|---|---|
| `WorkItemQueue[i]`, `EnqueuePosition`, `DequeuePosition` | the ring and its positions |
| `call[c]`, `workItem[w]`, `pc` | locals and program counters |
| `data[c][u]` | the data unit numbers that unit `u` of the caller's buffer was transformed with: a cipher is known by the number it is given |
| `DoWork` ... `Return` | `DoWork`, 25-133: running in the current thread, splitting, enqueuing, waiting, taking over the exception |
| `WaitForItem` ... `SignalCompletion` | `WorkThreadProc`, 232-306 |
| `Start` ... `StopDone` | `Start` with failing thread creation, `Stop` |

`DataUnitTransform` is what callers of `EncryptSectors` rely on: a request
transforms each unit of the lent buffer at most once, with its own number, and
ends with an exception exactly if some unit was left out.  `ImplementsService`
says that the pool implements it; the refinement mapping takes the state of a
request from `pc` and the buffer from `data`.

### InPlaceEncryption

Blocks are data units.  `disk[p]` records the unit number block `p` is
encrypted with, the file system block its data comes from and whether that is
still concealed.  Lost data has the origin `Lost`, an unreadable sector that
was zeroed on purpose `Zeroed`.  Encrypting ciphertext again loses it.

| Model | Code |
|---|---|
| `WriteBackupHeader` ... `RegisterPending` | `EncryptPartitionInPlaceBegin`, 436-635 |
| `OpenResume` ... `Close` | `EncryptPartitionInPlaceResume`, 638-1102 |
| `HeaderUpdate` | `FastVolumeHeaderUpdate`, 1105-1175 |
| `ResumeRequested`, `Deferred`, `LeaveWizard` | the wizard: its scan for interrupted encryptions, leaving, starting anew |
| `Crash` | end of the process or the system, everything in memory lost |

A write of a chunk, a wipe pass, the concealment and the primary header area
may each be done in part when they fail; a header is one sector and atomic.

### EncryptedIoQueue

| Model | Code |
|---|---|
| `irp[i]`, `queue[t]`, `notEmpty[t]` | IRPs, the queues of the main, I/O and completion thread, their events |
| `item`, `requestsInUse`, `poolFree` | the buffer pool with its two sizes and one event |
| `fragment`, `bufferFree`, `activeBuffer` | the two fragment buffers taking turns |
| `outstanding`, `noOutstanding`, `suspended`, `suspendPending`, `stopPending`, `resumed` | the counter, flags and events of Hold and Stop |
| `cache`, `lastRead` | the read-ahead buffer |
| `Submit`, `AddIrp`, `RejectIrp` | `EncryptedIoQueueAddIrp` |
| `TakeIrp` ... `QueueFragment` | `MainThreadProc` |
| `TakeFragment` ... `ReadAhead` | `IoThreadProc`, `TCCachedRead` |
| `TakeCompletion`, `CompleteRead` | `CompletionThreadProc` |
| `BeginHold` ... `ConfirmIdle`, `ResumeFromHold` | `EncryptedIoQueueHoldWhenIdle`, `-ResumeFromHold` |
| `Convert`, `MoveArea` | what the setup thread does in a hold (`DriveFilter.c:1270-1392`) |
| `BeginStop`, `StopQueue` | `EncryptedIoQueueStop`, `TCStopThread` |

A block carries the unit it is encrypted with and who wrote it, for which
address.  Decrypting with another unit than it was encrypted with, or what is
not encrypted, gives garbage.  The history variable `latest` holds, per block,
the last write in the order in which the main thread dispatched them; the
properties compare reads and the device with it.  The release of an item and
of the request that completed it is one step: both wake the same single waiter.

### SystemEncryptionSetup

A step is a hold, an operation on the drive, or a test of the setup thread; in
a hold the queue does nothing, otherwise the system may write any unit.
`disk[u]` says whether a unit is plain, encrypted, or neither.  A write may
fail after a part of the block.

| Model | Code |
|---|---|
| `encrypted`, `configured`, `mounted`, `held` | `EncryptedAreaEnd`, `ConfiguredEncryptedAreaEnd`, `DriveMounted`, the suspended queue |
| `header` | the length in the header on the drive; `None` once it is erased |
| `offset`, `block`, `buf`, `wipePass`, `sinceUpdate`, `updateRequired` | locals of `SetupThreadProc` |
| `Start` ... `Dismount` | `SetupThreadProc`, 1150-1466: first hold, next block, reading with `ReadSkipping` for bad sectors, wipe passes, writing, undoing what failed, saving, the ways out |
| `SaveDriveVolumeHeader` | 407-472, with the erasure of a header nothing needs any more |
| `StartSetup`, `RequestAbort`, `OtherRequest`, `RequestDone` | the requests under `RootDeviceControlMutex` |
| `AcquireMutex` | `RootDeviceControlMutexAcquireNoWait`, tried until it is free or an abort is wanted |
| `Crash`, `Restart` | everything in memory lost; `MountDrive` believes the header |

### FuseService

| Model | Code |
|---|---|
| `host` | layout of the outer volume, and where a hidden one lies |
| `Open` | `Volume::Open` as far as it sets data area and protected range |
| `ReadCallback` | `fuse_service_read`: cut at the end, widened to whole sectors |
| `WriteCallback` ... `WriteDevice` | `Volume::WriteSectors`, with the test of the flag, the test of the range and the write as steps of their own |
| `Destroy` | `FuseService::Dismount` |

`written` is the set of bytes of the host that were written since it was
opened, so that the properties can be about every byte, also in proofs.

### VolumeHeaders

The host is a sequence of blocks of the size of a header: four slots, and data.
`file` is what a process reads, `disk` the medium; a flush copies one to the
other, a crash leaves of each header block that was not flushed the old
content, the new one or neither.

| Model | Code |
|---|---|
| `Place` | the positions of `VolumeLayout.cpp`, from either end of the host |
| `StartCreation` ... `StartThread` | `VolumeCreator::CreateVolume`: header, noise in the hidden slot, the thread |
| `Format`, `Fill`, `Check`, `CreateBackupHeader`, `CreateBackupNoise`, `FlushVolume`, `EndThread` | `CreationThread`, 57-177 |
| `AskAbort`, `AnswerAbort`, `FinishCreation` | the wizard, whose thread is not stopped while it asks |
| `StartChange` ... `ChangePass` | `CoreBase::ChangePassword`, 50-78, over `Volume::ReEncryptHeader` |
| `BackupVolumeHeaders`, `StartRestore...`, `RestoreVolumeHeader` | the text interface, 253-355 and 1297-1471 |
| `promise`, `report` | history: what the owner may rely on, and what was reported |

### UnixMount

One volume, mounted again and again by one process and dismounted by several.
The stack is `fuse`, `loop`, `dm` and `fs`; its only record is `info`, what was
sent to the control file of the service.  Each command may fail once.

| Model | Code |
|---|---|
| `BeginMount` ... `FindMounted` | `CoreUnix::MountVolume`, `CoreLinux::MountVolumeNative`, `MountAuxVolumeImage` |
| `UndoFilesystem`, `UndoDevices`, `UndoLoop`, `Rollback` | the exception handlers, in the order of the code |
| `BeginDismount`, `DismountFilesystem` ... `Release` | `CoreUnix::DismountVolume`, `DismountNativeVolume`, `DetachLoopDevice`, with `seen`, the copy of the volume information the process works from |
| `Write`, `WriteBack`, `Flush` | a cached write that meets the hidden volume late, or in `sync` |
| `DevicesFree`, `Removable` | what the loop driver and the device mapper refuse while something uses a device |

### CoreService

| Model | Code |
|---|---|
| `mutex`, `caller`, `request`, `available` | `SendRequest` in the interface, 279-330 |
| `requests`, `responses` | the pipes to the service and back; a message is written in two parts |
| `service`, `served`, `elevated` | `ProcessRequests`, 87-228 |
| `attempt`, `current` | the processes started through `sudo`, with their standard input |
| `TimeOut`, `LateDone`, `SudoDone` | `StartElevated`, 331-516: one second with the dummy password, six with the user's |
| `Forward`, `PassAnswer`, `ServeElevated` | what goes through the second pair of pipes |
| `Stop`, `Quit`, `Synchronize`, `Killed` | the ends of the three processes |

### MC modules

The modules whose names begin with `MC` extend the others with symmetry sets
and, for the queue, the sets of requests that TLC chooses from.  Definitions
named `Mutant...` stand before the definition they could be taken for:
plausible slips of the code, each of which breaks the property PROJECT.json
pairs it with.

## Runs

| Run | Instance | Shows |
|---|---|---|
| `pool_service` | 2 callers, 2 workers, ring of 4, requests of 3 units (a split with remainder), fair | the pool implements `DataUnitTransform`; `AcceptedRequestCompletes` and `StopTerminates` |
| `pool_stop_any_time` | the same with requests of 1 and 3 units, fragments that throw, `Stop` at any time | `RequestOutcome`, `BufferLent`, `FragmentAccounting`, `ExclusiveItem` hold even while requests are abandoned |
| `inplace_faults` | 7 blocks, chunks of up to 3, data offset 2, two wipe passes, one failure in every call, pauses, fair | `DataRecoverable`, `EncryptionFinishes` |
| `inplace_crash` | the same with crashes, all operations failing, two failures in a call, the wizard left and restarted | `HeaderNeverAhead`, `FinishedMeansEncrypted` |
| `queue_volume` | 2 IRPs of up to 2 fragments, one item and one request in the pool, a device that fails, a protected block, `Stop` at any time, fair | `ProtectedIntact`, `WritesReachDevice`, `StoppedIsEmpty`, `StopReturns`, `QueuedIrpCompletes` |
| `queue_hold` | 2 IRPs on a drive of 3 blocks, holds at any time that move the end of the area up and down, cancelled IRPs, misaligned reads | `HoldExcludesIo`, `ReadSeesWrites` |
| `queue_remapped` | 2 IRPs that cover an unmapped, a remapped and an unmapped block, holds, fair | `ReadSeesWrites`, `HoldReturns` |
| `system_setup` | 5 units in blocks of 2, a header save after 3, one wipe pass, two failing operations, one crash, any number of starts and aborts, fair | `LiveReadable`, `ErasedMeansPlain`, `CrashLossBounded`, `EndedMeansSaved`, `DismountExclusive`, `SetupEnds` |
| `fuse_volume` | every V1 and V2 host of 6 sectors of 2 bytes with every hidden volume, opened in every way, 2 threads, 3 requests, aligned or not | `WritesStayInside`, `RefusedOnceTriggered`, `TriggeredByOverlap`, `ReadExact` |
| `volume_headers` | 7 blocks, 3 passwords, 2 passes, 2 operations, one failure or crash | `HeaderSurvives`, `ReportHolds`, `OtherVolumeIntact` |
| `unix_mount` | one mounting and 2 dismounting processes, one or two ciphers, a container or a device, with or without a file system and protection, one failing command | `Controllable`, `FailedMountLeavesNothing`, `TriggerReported` |
| `core_service` | 2 calling threads, 3 requests, 2 processes through `sudo` at a time, a kill, an interface that ends anywhere, fair | `InStep`, `ExecutedOnce`, `Answered`, `NoneLeft` |

Why the bounds are enough.  *Pool*: with two callers repeating requests and a
ring of four slots every slot is reused while a worker still refers to it, the
ring is full at times, and workers of two requests meet; requests of three
units for two threads have fragments of different size.  *In-place*: seven
blocks in chunks of three give full and last chunks of different size, chunks
larger and smaller than the data offset (which decides on the undo), a
concealed part that is spread over two chunks, and a header interval that lies
between two chunks.  *Queue*: two fragment buffers need two fragments on their
way; the races of Hold and Stop are between one IRP that completes and one that
arrives; a pool of one makes the main thread wait for its own earlier fragments.
*System setup*: five units in blocks of two have a shorter last block, at the end
when encrypting and at the start when decrypting; a save after three falls
between two blocks, as 64 MB fall between skipped parts; with two failures an
operation fails and so does its undo or the save that follows.  *FUSE*: six
sectors leave room for a hidden volume with outer data on both sides of it and
for requests that end before, in and after it; two threads are one that
triggers the protection and one that has passed the test of the flag; the third
request comes after both.  *Headers*: seven blocks are the four slots and data
for a hidden volume; two operations are an interrupted one and the one that
meets what it left; a third password tells a retry with a new password from the
old one.  *Mount*: two ciphers give a cascade with a lower device; two
dismounting processes and the mounting one can each be between any two commands
of the others.  *Core service*: a request is sent again, while the process
of its first attempt is still there, and is followed by another.

Only `pool_service` checks for deadlock.  In the others the system may stop: a queue without
IRPs, an encryption that is finished or lost, operations, requests or
failures that are used up, an interface that has ended.  That
nothing stops early is what the liveness properties say.  After `Stop` at any
time a thread of the pool may wait for ever, so `pool_stop_any_time` does not
check it either.

`TypeOK` of the pool, the setup, FUSE, the headers, mounting and the core service
is proved (see [Proofs](#proofs)); in the in-place encryption and the queue it
documents the state, and the proofs have what they need of it in invariants of
their own.

## Fairness

- *Pool*: weak fairness of each caller inside `DoWork`, of each worker and of
  the thread in `Stop`.  Threads are scheduled by the system; no fairness is
  assumed of mutexes or events, and no caller must ever call.
- *In-place*: weak fairness of the transform thread and of a user who resumes
  what the wizard shows as interrupted; strong fairness of reads, of each wipe
  pass, of writes and header updates that are enabled again and again, since a
  device that always fails can never be encrypted.  The wizard stays open
  (`MayExit = FALSE`): divergence 2 is what happens otherwise.
- *Queue*: weak fairness of the three threads, of the code between a Hold and
  its Resume, of `Stop` and of a dispatch routine that has begun.  Holds,
  stops, new IRPs and timeouts need not happen.  `HoldReturns` does not rely
  on the timeout of Hold, because the last Hold of a decryption has none
  (`DriveFilter.c:1422`).
- *System setup*: weak fairness of the setup thread and of the request that
  holds the mutex.  Nobody has to start, abort or write anything.
- *Core service*: weak fairness of the service, of each elevated process, and
  of a thread of the interface that has begun a request or whose answer is
  there; `sudo` ends once its input has ended, and need not before.  Users need
  not answer, and the interface need not end.

FUSE, headers and mounting have safety properties only: what they do is
straight-line code of which each step returns or fails.

## Proofs

TLAPS checks the eight modules whose names end in `_proof`, for every value of
the constants that the named assumptions admit.  TLC checked each inductive
invariant on the instance of the module's run before it was proved.

`EncryptionThreadPool_proof`, from `PoolAssumption` (finite, disjoint sets of
threads, at least two workers because `Start` leaves the pool off on a single
processor, sectors and requests of at least one unit):

- `TypeCorrect`: `TypeOK`, and that no item is empty.  `TypeOK` says that the
  positions stay in the ring and that the numbers of fragments and of units that
  are left over, which are `size_t` in `DoWork`, never fall below zero.  It is not
  inductive: it does not say that a caller that fills in an item has a fragment
  left, that a fragment which takes a share of the remainder has at least one unit,
  or that a caller with items in the queue has a first one.  `FragmentInv` says so.
  That an item which is ready, or claimed and not yet done, has at least one unit is
  a part of `WorkInv`, which needs the exact cut of the request (`CutInv`).
- `ItemsAreExclusive`, `FragmentsAccounted`, `BuffersAreLent`: `ExclusiveItem`,
  `FragmentAccounting` and `BufferLent`, for any number of callers, workers and
  items, with `Stop` at any time.  They follow from `PoolInv`.  A ring of free,
  ready and busy items does not by itself keep a request together: the first item
  of a request has its counter, and must not be used again before its last
  fragment is done.  `LiveInv` says that of every item in use the first one is in
  use, and that the ring has not gone round past it (`Passed`, a cyclic distance);
  `FirstInv` that no two requests have the same first item; `CountInv` that its
  counter is the number of fragments to publish, to take and to do, and after a
  stop never less; `CompleteInv` that the completion is signalled by one fragment.
- `OutcomeIsTold` and `PoolImplementsService`, for `SectorUnits = 1`:
  `RequestOutcome`, and that the pool implements `DataUnitTransform` under the
  mapping of the run, step by step.  `DataInv` adds what was done: the fragments
  that wait or are at work cover units that were not done and do not overlap
  (`FreshInv`), and what was published is done, covered, or told by an exception
  (`LossInv`).  With larger sectors both are false: see divergence 1.

`InPlaceEncryption_proof`, from `InPlaceAssumption` (positive sizes; the
concealed part lies below the data area and in the file system):

- `HeaderSafe` and `FinishedSafe`: `Spec => []HeaderNeverAhead` and
  `Spec => []FinishedMeansEncrypted`, both with any number of
  failing operations, pauses, crashes and calls.  They follow from the inductive
  invariant `IInv`.  Its core: in a call of Resume the area in memory ends with
  the partition, is ahead of the one in the header, and is encrypted (`WorkInv`);
  so each header update keeps the header behind the disk.  Every write of a
  chunk, of a wipe pattern, of an undo and of a zeroed sector lies below the
  area in memory (`ChunkPlace`), so it leaves encrypted blocks alone.
  `FinalInv` carries the knowledge that nothing is left from the last chunk to
  the primary header.  `PrimaryInv` adds that block 0 is then no longer the
  plaintext it was: that is why `Begin`, which needs an intact file system,
  cannot start again and reset the header.
- `DataSafe`: `DataRecoverable`, under `OneFault`: at most one operation of a call
  fails, none of them in `Begin`, and the system does not go down.  `RInv` adds to
  `IInv` that a chunk that is being written is in memory (`LoadedInv`), that then
  all is where it belongs but the plaintext that its ciphertext may have
  overwritten (`DataInv` with `ConvertedBut`), and that the header is behind the
  area, or a chunk is undone, only after the failure of this call (`FaultInv`).
  None of the three parts of `OneFault` can go: after a second failure the chunk
  is not brought back, after a crash it is no longer in memory (divergence 4), and
  a failure of `Begin` leaves a header of an encryption that did not start
  (divergence 3).

`EncryptedIoQueue_proof`, from the assumption on sizes, areas and requests.  Its
invariants stand in `EncryptedIoQueueInv`, with the predicates in which its lemmas
say what a step does:

- `RequestsAccountedFor`: `Spec => []Inv`, for any number of IRPs, fragments and
  items, any size of the device, and Hold, Stop and failing I/O at any time.
  `Inv` follows a request through the three threads.  In flight are only
  requests of IRPs that are not completed (`FlightInv`); in the order of the
  queues the requests of an IRP are parts of it one behind the other, and the
  last one comes last (`OrderInv`), which is why completing
  the IRP with it is right although two threads complete; an item is of one IRP
  until it is given back (`ItemInv`).  `CountInv` says that `OutstandingIoCount` is
  the number of IRPs that were accepted and not completed, plus the read-ahead and
  what was completed and not yet counted down; `PoolInv` the same of the buffers
  of the pool and of the two fragment buffers.
- `HoldIsExclusive` (`HoldExcludesIo`) and `StopLeavesNothing` (`StoppedIsEmpty`)
  are conjuncts or consequences of it: in a hold the count is zero, hence nothing
  is in flight (`HoldInv`); and `Stop` ends the threads only when it has seen the
  count at zero and nothing more is accepted (`StopInv`).
- `ProtectedStaysIntact`: `ProtectedIntact`, under `ProtectedPlace`: the protected
  blocks are on the device and, on the system drive, where they are the sector of
  the volume header, before the encrypted area, as boot drives are laid out.  The
  conversion moves the area but writes only from its start on.  `AwayInv` says
  that no write in flight meets a protected block: the main thread has compared
  the whole request with them, and splitting or remapping it makes it no longer.
- `WritesArrive`: `WritesReachDevice`, under `StatusKept`.  The requests for the
  I/O thread are in one line: position 0 is the one in its hands, then its queue,
  and the last is what the main thread has not yet cut into fragments.  `Writers`
  says who writes a block from each position.  A point in the line is behind the
  write `e` of a block (`Expect`) if the last one before it that writes the block is
  `e`, or there is none and the device has what `e` wrote, or `e` has failed
  (`Sees`), and if nothing of `e` comes later (`Ahead`, from the position of its last
  fragment).  `LatestInv`: the end of the line is behind `latest`.  It is inductive
  because a step takes from the front what it puts on the device, appends at the
  end, or moves the cut between the last two positions.  It rests on what the
  device and the buffers hold: each block is stored for the place that it has in
  the encrypted area of now, also halfway through a conversion (`StoreInv`), each
  fragment buffer is of one request (`BufferUse`), and a write in line has its data
  in it, encrypted as the area was when it was cut (`FragmentInv`), which no hold
  can have moved since.
- `ReadsSeeWrites`: `ReadSeesWrites`, under `StatusKept` and `PlacedAtAddress`.  A
  read in the line is behind the write that it is to return (`ReaderInv`): so it is
  when it is dispatched, and what comes later stays behind it.  When it is at
  the front, what it expects is on the device, hence also in the read-ahead buffer,
  which never differs from the device (`CacheInv`), and what was read is followed
  through the fragment buffer (`ArrivedInv`), the buffer of the IRP, where a
  request for the completion thread still has to decrypt it (`DataInv`), to the
  user (`ReturnedInv`).

  `StatusKept` says that no device fails or no area is remapped: otherwise only the
  last of the pieces of a fragment decides what is reported (divergence 5).
  `PlacedAtAddress` says that with misaligned reads the system drive has neither a
  remapped area nor a different numbering of units (divergence 6).  Without the
  first `WritesReachDevice` is false, without the second `ReadSeesWrites`.

`SystemEncryptionSetup_proof`, from `SetupAssumption` (positive sizes):

- `LiveSafe`, `EraseSafe`, `SavedWhenEnded`, `DismountSafe`, `LossBounded` and
  `TypeCorrect`: `LiveReadable`, `ErasedMeansPlain`, `EndedMeansSaved`,
  `DismountExclusive`, `CrashLossBounded` and `TypeOK`, with any number of starts, aborts, failures and crashes.  `PosInv`
  says where the thread stands: at the end of the encrypted area between two
  blocks, and a block below it while it decrypts.  `DiskInv` says that each
  unit outside of the block at work is stored as the queue takes it to be, and
  that of the block at work the buffer has what was there.  From the two it
  follows at every way out of the loop that the drive can be read.  `EraseInv`
  says what is left of a decryption whose header is gone, `TellsInv` that what
  the header does not tell is marked to be saved, `MutexInv` that an abort
  keeps the mutex until the thread has ended, `UpdateInv` that the header is
  behind by no more than the thread has counted since it saved it.

`FuseService_proof`, from the assumption on layouts and sectors:

- `WritesSafe`, `RefusalSafe`, `TriggerExact`: `WritesStayInside`,
  `RefusedOnceTriggered` and `TriggeredByOverlap` for every layout, place and
  size of the hidden volume and any number of threads.  What the tests made so
  far say of the request in each thread is `ThreadInv`: a request that has
  passed the test of the range meets no protected byte, whatever other threads
  trigger in between.
- `ReadCorrect`: `ReadExact` for every sector size, offset and length, from
  lemmas about rounding with `%`.
- `TypeCorrect`.

`VolumeHeaders_proof`, from `HeadersAssumption` (a volume has room beyond its headers,
a change makes at least one pass, there are two passwords):

- `ReportsHold` and `OthersIntact`: `ReportHolds` and the action property
  `OtherVolumeIntact`, with any number of failures and crashes and of operations.
  `WorkInv` says what is on the medium at each step: a block that was flushed
  since it was written is what the file has (`SyncInv`); what a creation has
  written so far (`CreateInv`), which pass of a change has reached which header
  (`ChangeInv`), and what a restoring has told (`ToldInv`).  `KeyInv` says that a
  header with the key of a volume is of its layout.
- `HeaderStaysUsable`: `HeaderSurvives`, with at most one failure or crash.
  `SafeInv` says that both headers of a volume are good, and at most one of them
  not on the medium, until the failure damages that one.  With two failures it is
  false: a change of the password fails at the backup header, and the next one,
  which begins with the first header, there (divergence 11).
- `TypeCorrect`: `TypeOK`, and how often a change flushes a block: at most once in
  each pass it has finished, over both headers (`CountInv`).  This is twice the
  number of passes, not the number of passes: a flush is of the whole host, so a
  backup header that was restored and not yet flushed goes with the first header.

`UnixMount_proof`, from `UnixMountAssumption`, for any number of processes that
dismount and any length of the cascade:

- `NothingIsLeft` and `ControllableUnlessCleanupFails`: with any number of failing
  commands, `FailedMountLeavesNothing`, and `Controllable` while no command of a
  rollback failed.  Both properties exempt the failures in `GivenUp` (`control`,
  `create_next`, `node`, `undo`, `remove_next`, `detach`) and a native volume that
  another process dismounted during its mount (`Foreseen`, divergence 8).
  `VolumeInv` goes through the stack step by step while it is
  built (`BuildInv`).  While several processes take it down at once, it says that
  the devices below one that is gone belong to the process that removed that one
  (`TakerInv`), so what two of them have seen of the volume does no harm.
- `RemainsControllable`: `Controllable` when one command fails at most, and more:
  of the failures that `Controllable` exempts only `create_next`, `node`,
  `remove_next` and `detach` of a native volume lose a device, besides a native
  volume dismounted during its mount.  After `control` only the service remains
  (`AbandonedInv`), and a rollback only begins after a failure, so it works and
  `undo` does not fail (`OneFaultInv`).  A volume that is exported as an image is
  found whichever command fails.  With two failures this is false: the test of a
  native device fails and then its removal, and no control file tells of it.
- `ImageControllable`: a volume exported as an image is found with any number of
  failures, exempted ones included, unless both sending its loop device to the
  control file (`send`) and taking it back (`undo`) failed.  `ExportedInv` says that
  the control file has the loop device, or it is being sent or taken back.
- `ReportsTrigger`: the action property `TriggerReported`, which exempts the failures
  in `GivenUp` and a mount that overlaps with a dismount.  `SeenInv` says that what
  a process has seen of the volume is what there is, less what others have taken
  down, and that after the flush no write can be cached; `CacheInv` that without
  protection nothing is cached or triggered.
- `TypeCorrect`.

`CoreService_proof`, from `CoreServiceAssumption`:

- `ResponsesInStep` and `CarriedOutOnce`: `InStep` and `ExecutedOnce` for any
  number of callers, requests and processes.  The invariant follows the one
  request there can be: its parts are in the pipe at most once and only while
  the service reads (`PipeInv`); or the service works on it and there is no
  response (`ServingInv`); or there is one response and it is its own
  (`ResponseInv`).  A request in the pipe to the elevated process is the one
  the service works on, unless that process died, and then the pipe is never
  read again (`ForwardInv`): that is why a request that was lost with its process
  is not carried out later.  `ExecutedInv` says that the request has not been
  carried out as long as there is no response, or one that says that the
  elevation failed, which is when it is sent again.
- `TypeCorrect`.

Only model-checked:

- Liveness, and whatever needs `ENABLED`, which is out of the prover's reach.

What the hypotheses above exclude is neither proved nor checked, because there the
properties are false: the pool with sectors of several units, the in-place
encryption with several failures, the queue with failing remapped requests or with
misaligned reads of a remapped area.

## Known divergences

What the code does and its own comments, texts or tests say otherwise, or what
a reader of the properties would not expect.  The runs are about the program
where it does what it promises; each item says which constants show the rest.

1. *Pool, large sectors.*  `DoWork` advances by data units of 512 bytes while
   its workers process sectors of `sectorSize` bytes (`EncryptionThreadPool.cpp:111`).
   With larger sectors fragments overlap: units are transformed twice, with
   different numbers and at the same time, and the rest of the buffer is not
   transformed.  The headers admit sectors of up to 4096 bytes
   (`Common/Crypto.h:36`, `VolumeHeader.cpp:180-190`).  `SectorUnits = 2` and
   `UnitCounts = {2}` violate `RequestOutcome`.
2. *In-place, a pause during the last chunk.*  A pause that arrives with the
   last chunk ends Resume before the primary header is written, with an
   encrypted length that equals the volume size (`InPlace.c:950-964`).  The
   scan of a new wizard only lists volumes where the two differ
   (`Tcformat.c:6869`), so the encryption is not found again, although the
   wizard says it can be resumed at any time (`Common/Language.xml:570`).
   With `MayExit = TRUE` a state is reached with `wizard = "new"`,
   `pending > 0` and nothing to resume.
3. *In-place, concealing fails.*  When the concealment fails, `Begin` returns
   an error but leaves the valid backup header of an encryption that never
   started (`InPlace.c:569`).  The wizard offers to resume it, and Resume
   reveals sectors that were never concealed (842): they are garbled.
   `Faults = {"conceal"}`, `MayExit = TRUE` violate `DataRecoverable`.
4. *In-place, crashes.*  The header is updated every 64 MB, and Resume encrypts
   again what was encrypted since: with crashes `DataRecoverable` does not
   hold.  The wizard warns of such a loss (`Common/Language.xml:555`), although
   `InPlace.c:561` claims a safe resume.  The result of writing plaintext back
   after a failed write is ignored (`InPlace.c:889`): two failures lose a chunk.
5. *Queue, sub-fragments.*  The loop over sub-fragments replaces the status of
   one that failed by that of the next (`EncryptedIoQueue.c:369-376`); a write
   of which a part failed is reported as successful.  `queue_remapped` with
   `MayFail = TRUE` violates `WritesReachDevice`.
6. *Queue, misaligned reads* ignore the remapping of a hidden system
   (`EncryptedIoQueue.c:547-596`): one such read with a remapped area violates
   `ReadSeesWrites`.
7. *System setup.*  A header that cannot be saved inside the loop trips an
   assertion, which release builds do not have, and is not tried again before
   the next threshold (`DriveFilter.c:1402-1406`); `saveFailed` exempts it.
8. *Mounting.*  The failures in `GivenUp` leave something behind that the
   program does not know of: a control file that does not appear in five
   seconds leaves the service mounted (`FuseService.cpp:442-456`); a device node
   that does not appear in two seconds (`CoreLinux.cpp:403-417`) or a failing
   later device of a cascade leaves the lower device and the loop device,
   because the rollback starts from the device that does not exist (459-471);
   a dismount of a cascade that failed half-way reports success when it is
   tried again and leaves the lower device; a failing `losetup -d` is swallowed
   (`CoreUnix.cpp:100-107`).  A native volume dismounted by one process while
   another mounts it, with a snapshot from before its devices were announced,
   loses its control file while the devices stay, and the mount ends with
   an exception that undoes nothing (586).  With two dismounting processes the
   later one may not report a triggered protection.
9. *Mounting one volume twice.*  `IsVolumeMounted` is looked at before anything
   is mounted (`CoreUnix.cpp:399`), and files are not locked on Unix, so two
   processes can mount one volume; the rollback of one dismounts by path.
   `UnixMount` has one mounting process and does not show it.
10. *Core service.*  A process that is elevated after the time-out with the
   user's password finds its pipes closed and the request fails although the
   password was right (`CoreService.cpp:451-516`); after the elevated process
   has died, `ElevatedServiceAvailable` stays set and each request that needs
   privileges fails until the program is started again.
11. *Headers.*  One failure or crash is survived, two are not: an interrupted
   change of the password may leave the backup header torn, and the retry,
   which always begins with the primary one, may be interrupted too.  Restoring
   both headers does not flush in between; the backup file is the copy that is left.

## Limits

- *Data races.*  Flags read without a lock (`StopPending`, `Suspended`,
  `ThreadPoolRunning`, `HiddenVolumeProtectionTriggered`) are read and written
  in steps of their own.  The race of two workers inside `auto_ptr::reset`
  (`EncryptionThreadPool.cpp:277`) is a memory error that the pool does not show.
- *Pool*: one lifetime; no process starts the pool twice.  `Stop` between the
  tests of `DoWork` leads to the state `"fault"` (`ThreadCount` is read without
  a lock, a division by zero, 68), which only occurs in `pool_stop_any_time`.
- *In-place*: shrinking NTFS and moving clusters happen in the file system
  driver.  Errors of seeking on an open device are left out.
- *Queue*: `Start` is the initial state; its failures, the remove lock and a
  drive that is removed during its encryption are not modelled.  A read-ahead
  is complete or fails.  `AddIrp` puts an IRP into the queue of the main thread and
  sets its event in one step; the thread looks at the queue again after each wait,
  so the moment between the two shows nothing.  `WriteDenied` leaves out the
  denials of a hidden system (`EncryptedIoQueue.c:657-664`), which only refuse more
  writes; the properties are about those that are let through.  The device of a hidden system has one remapped area
  that does not move, as in the code.
- *System setup*: the header is one sector, written or not.  The wipe of the
  decoy system, the mount of a hidden system, crash dumps and hibernation are
  left out.
- *FUSE*: access rights, `getattr` and the directory are left out; that libfuse
  calls `destroy` after the last callback is external.
- *Headers*: data blocks that were not flushed are lost in a crash.  A hidden
  volume lies in a V2 host; V1 volumes have no backup header, so `HeaderSurvives`
  is about V2.  The text interface is a wizard without an abort.  The file of
  an aborted creation of a normal volume is always deleted (`FinishCreation`); the
  wizard keeps that of an outer volume (`VolumeCreationWizard.cpp:510`).  The backup
  file is on another medium.  Sizes, ownership, other file systems than FAT are
  left out.
- *Mounting*: Linux; one volume, one mounting process; each command fails at most
  once; a volume whose mount left something behind is not mounted over it.  For a
  volume on a device the code sends the path of the device as that of the loop
  device (`CoreLinux.cpp:448`), and `losetup -d` for it fails and is swallowed; in the
  model there is no loop device to be sent or detached (`SendNative`).
  Mount points, ownership, options of `mount`, kernel modules are left out.
- *Core service*: what a request does is an outcome.  Reading from a pipe that
  was closed fails at once.

## Not modelled

- The Windows twin of the pool differs from the modelled one in a completion
  count for key derivation; what it shares is in `EncryptionThreadPool`.
- The random number generator holds one mutex in every operation; the password
  caches and the FAT formatter are sequential.  None has an order of
  steps that could go wrong.
- Ciphers, modes, hashes and key derivation are byte-level computations with
  test vectors in the repository.
- User interfaces, installer, boot loader, and the dispatch of control codes
  call into the system or into what is modelled.
- Most of the repository is vendored (wxWidgets, libntru, PCG-PRNG): the share
  of all lines that the models stand for is small, and cannot be otherwise.
