--------------------------- MODULE UnixMount_proof ---------------------------
(***************************************************************************)
(* Proofs about UnixMount, for any number of processes that dismount, any  *)
(* length of the cascade and, where it is not said otherwise, any number   *)
(* of commands that fail.                                                  *)
(***************************************************************************)
EXTENDS UnixMount, FiniteSetTheorems, TLAPS

\* Steps of a dismount, and those of a mount that failed
Lower == {"umount", "remove", "detach", "sync", "reread", "release"}
Undoing == {"undo_fs", "undo_dm", "undo_loop", "undo_image", "rollback"} \cup Lower

Bare == loop = "none" /\ dm = {} /\ ~fs
BaseLoop == IF options.device THEN "none" ELSE "container"
AllDevices == 0 .. options.ciphers - 1
NativeInfo == [device |-> "dm", loop |-> ~options.device]
ImageInfo == [device |-> "loop", loop |-> TRUE]

\* What holds of any volume: the control file goes with the service, a mount
\* begins with nothing, and without an overlap only one of the two is at work.
CommonInv ==
  /\ ~fuse => info = NoDevices
  /\ M("service") => ~fuse /\ Bare
  /\ pc[Mounter] # "idle" => result = "none"
  /\ ~overlapped /\ pc[Mounter] # "idle" => \A d \in Dismounter : pc[d] = "idle"

\* A native volume while it is mounted, step by step ...
BuildInv ==
  /\ pc[Mounter] \notin {"image", "send_image", "undo_image", "mount_image", "sync", "reread"}
  /\ pc[Mounter] \notin {"service", "idle"} => fuse
  /\ pc[Mounter] \notin {"find", "idle"} => info = NoDevices
  /\ pc[Mounter] \in {"directory", "attach", "rollback"} \cup Lower => Bare
  /\ M("create") => loop = BaseLoop /\ dm = depth[Mounter] + 1 .. Base /\ ~fs
  /\ pc[Mounter] \in {"test", "mount", "send", "undo_fs", "find"} =>
       loop = BaseLoop /\ dm = AllDevices
  /\ pc[Mounter] \in {"test", "mount", "undo_dm", "undo_loop"} => ~fs
  /\ pc[Mounter] \in {"send", "undo_fs"} => fs = options.filesystem
  /\ M("undo_dm") => loop = BaseLoop /\ (dm = {} \/ dm = depth[Mounter] .. Base)
  /\ M("undo_loop") => loop = BaseLoop /\ dm = {}
  /\ M("find") => info = NativeInfo
  /\ pc[Mounter] \in Lower =>
       LET s == seen[Mounter] IN s.device = "none" /\ ~s.loop /\ ~s.mounted /\ ~s.protect

\* ... and while it is taken down, by several processes at once: once the device on
\* top is gone there is one that removes those below, and one for the loop device.
WholeInv ==
  /\ fuse => info = NativeInfo
  /\ loop \in {"none", BaseLoop} /\ (fs => 0 \in dm)
  /\ 0 \in dm => fuse /\ dm = AllDevices /\ loop = BaseLoop
  /\ result = "failed" => ~fuse /\ Bare

TakerInv ==
  /\ dm # {} /\ 0 \notin dm =>
       \E d \in Dismounter : pc[d] = "remove" /\ depth[d] > 0 /\ dm = depth[d] .. Base
  /\ dm = {} /\ loop # "none" => \E d \in Dismounter : pc[d] \in {"remove", "detach"}

DownInv(d) ==
  /\ pc[d] = "umount" /\ ~seen[d].mounted => ~fs
  /\ pc[d] = "remove" => ~fs
  /\ pc[d] \in {"umount", "remove"} => seen[d].device = "dm"
  /\ pc[d] \in {"umount", "remove", "detach"} => seen[d].loop = ~options.device
  /\ pc[d] \in {"detach", "sync", "reread", "release"} => 0 \notin dm
  /\ pc[d] = "remove" /\ depth[d] > 0 => {0, depth[d] - 1} \cap dm = {}

TakenDownInv == WholeInv /\ TakerInv /\ \A d \in Dismounter : DownInv(d)

NativeInv == IF pc[Mounter] = "idle" THEN TakenDownInv ELSE BuildInv

\* A volume that the service exports as an image: every process may be at work,
\* some with what they have seen of an earlier volume.
ImageInv ==
  /\ dm = {} /\ loop \in {"none", "image"} /\ (fs => loop = "image")
  /\ loop = "image" => fuse
  /\ info \in {NoDevices, ImageInfo}
  /\ pc[Mounter] \notin {"attach", "create", "test", "mount", "send", "undo_fs",
                         "undo_dm", "undo_loop"}
  /\ pc[Mounter] \in {"service", "directory", "image"} => loop = "none"
  /\ pc[Mounter] \in {"service", "directory", "image", "send_image", "undo_image"} =>
       info = NoDevices
  /\ pc[Mounter] \in {"send_image", "undo_image", "mount_image", "rollback"} \cup Lower => ~fs
  /\ loop = "image" => info = ImageInfo \/ pc[Mounter] \in {"send_image", "undo_image"}
  /\ pc[Mounter] \in {"umount", "remove", "detach"} =>
       LET s == seen[Mounter] IN s.device # "dm" /\ ~s.mounted /\ (loop = "image" => s.loop)
  /\ pc[Mounter] \in {"sync", "reread", "release"} => loop = "none"
  /\ M("idle") /\ result = "failed" /\ faults \cap Cleanup = {} => ~fuse

\* What a mount that failed has to undo it undoes, unless a command of that fails.
Undone == options.mode = "native" /\ (pc[Mounter] \in Undoing \/ result = "failed") =>
            faults \cap Cleanup = {}

VolumeInv ==
  Foreseen /\ Undone => IF options.mode = "native" THEN NativeInv ELSE ImageInv

\* The failures after which devices of a native volume remain that no control file
\* tells of: a device of a cascade that is not the first, a node that does not appear,
\* a lower device that cannot be removed, a loop device that cannot be detached.
LosesDevices == {"create_next", "node", "remove_next", "detach"}

\* A service without its devices, when its control file did not appear in time.
AbandonedInv == M("idle") /\ Bare /\ info = NoDevices

\* When one command fails only, that is not one of those that undo, and a service
\* that was left to itself is all that remains.
OneFaultInv ==
  options.mode = "native" /\ ~overlapped /\ faults \cap LosesDevices = {} =>
    /\ pc[Mounter] \in Undoing \/ result = "failed" => faults # {} /\ faults \cap Cleanup = {}
    /\ NativeInv \/ AbandonedInv

\* The loop device over the image is what the control file says, or is about to be
\* sent, or is taken back because it could not be sent.
ExportedInv ==
  /\ dm = {} /\ loop \in {"none", "image"} /\ (fs => loop = "image")
  /\ loop = "image" => fuse
  /\ info \in {NoDevices, ImageInfo}
  /\ pc[Mounter] \notin {"attach", "create", "test", "mount", "send", "undo_fs",
                         "undo_dm", "undo_loop"}
  /\ pc[Mounter] \in {"service", "directory", "image"} => loop = "none"
  /\ pc[Mounter] \in {"service", "directory", "image", "send_image"} => info = NoDevices
  /\ pc[Mounter] \in {"send_image", "undo_image"} => ~fs
  /\ M("undo_image") => "send" \in faults \/ loop = "none"
  /\ loop = "image" => info = ImageInfo \/ pc[Mounter] \in {"send_image", "undo_image"}

\* Only when sending and then taking back both failed, a loop device is lost.
ImageLost == {"send", "undo"} \subseteq faults
AnyImageInv == options.mode = "image" /\ ~ImageLost => ExportedInv

\* Where nothing can be refused nothing waits to be written and nothing was triggered.
CacheInv ==
  faults \cap GivenUp = {} /\ (~fuse \/ ~options.protect) => cache = "none" /\ ~triggered

\* What a process that dismounts has seen of the volume is what it still finds, less
\* what others have taken down.  From the flush on nothing can be written that the
\* protection would refuse, so what it read after that is what it has to report.
SeenInv(d) ==
  /\ pc[d] \in {"umount", "remove", "detach"} => seen[d].protect = options.protect
  /\ pc[d] \in Lower /\ ~options.protect => ~seen[d].triggered
  /\ options.protect =>
       /\ pc[d] = "umount" => seen[d].mounted \/ ~fs
       /\ pc[d] \in Lower \ {"umount"} => ~fs
       /\ pc[d] \in {"umount", "remove", "detach"} => seen[d].loop \/ loop = "none"
       /\ pc[d] \in {"sync", "reread", "release"} => loop = "none"
       /\ pc[d] \in {"reread", "release"} => cache = "none"
       /\ pc[d] = "release" /\ fuse => seen[d].triggered = triggered

ReportInv == faults \cap GivenUp = {} /\ ~overlapped => \A d \in Dismounter : SeenInv(d)

TypeInv ==
  /\ TypeOK /\ IsFiniteSet(faults)
  /\ \A d \in Dismounter : pc[d] \in Lower \cup {"idle"}
  /\ M("create") => depth[Mounter] \in 0 .. Base

-----------------------------------------------------------------------------
(* Types.                                                                  *)

InfoType == [device : {"none", "loop", "dm"}, loop : BOOLEAN, mounted : BOOLEAN,
             protect : BOOLEAN, triggered : BOOLEAN]

LEMMA FaultsGrow ==
  ASSUME TypeInv, NEW command \in Commands, Fails(command)
  PROVE  /\ faults' \subseteq Commands /\ IsFiniteSet(faults')
         /\ Cardinality(faults') <= MaxFaults
<1>1. Cardinality(faults) \in Nat
  BY FS_CardinalityType DEF TypeInv
<1>2. IsFiniteSet(faults') /\ Cardinality(faults') = Cardinality(faults) + 1
  BY FS_AddElement DEF TypeInv, Fails
<1>3. QED  BY <1>1, <1>2, UnixMountAssumption DEF TypeInv, TypeOK, Fails

LEMMA FaultsType ==
  ASSUME TypeInv,
         faults' = faults \/ \E command \in Commands : Fails(command)
  PROVE  /\ faults' \subseteq Commands /\ IsFiniteSet(faults')
         /\ Cardinality(faults') <= MaxFaults
BY FaultsGrow DEF TypeInv, TypeOK

LEMMA SeenType ==
  ASSUME TypeInv
  PROVE  VolumeInfo \in InfoType /\ Nothing \in InfoType
BY DEF TypeInv, TypeOK, VolumeInfo, Nothing, InfoType, Options

LEMMA OptionsType == \A o \in Options : o.ciphers \in 1 .. MaxCiphers /\ o.device \in BOOLEAN
                       /\ o.mode \in {"native", "image"} /\ o.filesystem \in BOOLEAN
                       /\ (o.mode = "native" => ~o.protect) /\ o.protect \in BOOLEAN
BY DEF Options

\* A process goes on with another step, or its call ends.
Moves(p) ==
  /\ pc' = pc \/ (\E s \in Steps : pc' = [pc EXCEPT ![p] = s])
  /\ depth' = depth \/ (\E k \in 0 .. MaxCiphers : depth' = [depth EXCEPT ![p] = k])
  /\ seen' = seen \/ (\E s \in InfoType : seen' = [seen EXCEPT ![p] = s])
  /\ result' \in {"none", "mounted", "failed"}

LEMMA MovesType ==
  ASSUME TypeInv, NEW p \in Process, Moves(p)
  PROVE  /\ pc' \in [Process -> Steps] /\ depth' \in [Process -> 0 .. MaxCiphers]
         /\ seen' \in [Process -> InfoType]
         /\ result' \in {"none", "mounted", "failed"}
         /\ \A q \in Process : q # p => pc'[q] = pc[q] /\ depth'[q] = depth[q]
BY DEF TypeInv, TypeOK, Moves, InfoType

FaultStep == faults' = faults \/ \E command \in Commands : Fails(command)

LEMMA GoMoves ==
  ASSUME TypeInv, NEW p \in Process
  PROVE  /\ \A s \in Steps : Go(p, s) => Moves(p)
         /\ \A o \in {"mounted", "failed"} : Return(p, o) => Moves(p)
<1>1. Nothing \in InfoType /\ 0 \in 0 .. MaxCiphers /\ "idle" \in Steps
  BY SeenType, UnixMountAssumption DEF Steps
<1>2. \A s \in Steps : Go(p, s) => Moves(p)
  BY <1>1 DEF Go, Moves, TypeInv, TypeOK
<1>3. \A o \in {"mounted", "failed"} : Return(p, o) => Moves(p)
  BY <1>1 DEF Return, Moves, TypeInv, TypeOK
<1>4. QED  BY <1>2, <1>3

\* Other moves: the depth or what was seen changes with the step.
LEMMA StepMoves ==
  ASSUME TypeInv, NEW p \in Process, UNCHANGED result,
         pc' = pc \/ \E s \in Steps : pc' = [pc EXCEPT ![p] = s]
  PROVE  /\ UNCHANGED <<depth, seen>> => Moves(p)
         /\ \A k \in 0 .. MaxCiphers :
              depth' = [depth EXCEPT ![p] = k] /\ UNCHANGED seen => Moves(p)
         /\ \A v \in InfoType :
              seen' = [seen EXCEPT ![p] = v] /\ UNCHANGED depth => Moves(p)
BY DEF Moves, TypeInv, TypeOK

LEMMA CommandFails == /\ Works => FaultStep
                      /\ UNCHANGED faults => FaultStep
                      /\ \A command \in Commands : Fails(command) => FaultStep
BY DEF Works, FaultStep

\* One lemma for the steps of MountVolume and one for those of DismountVolume:
\* the process moves, commands fail or not, and the rest keeps its type.
LEMMA MountMoves ==
  ASSUME TypeInv, MountVolume
  PROVE  Moves(Mounter) /\ FaultStep
<1>a. Mounter \in Process
  BY DEF Process
<1>b. /\ \A s \in Steps : Go(Mounter, s) => Moves(Mounter)
      /\ \A o \in {"mounted", "failed"} : Return(Mounter, o) => Moves(Mounter)
  BY <1>a, GoMoves
<1>1. CASE StartService
  BY <1>1, <1>b, CommandFails DEF StartService, Proceed, Goto, Steps, Commands
<1>2. CASE MakeDirectory
  BY <1>2, <1>b, CommandFails
    DEF MakeDirectory, Proceed, Goto, Fail, NextLayer, Steps, Commands
<1>3. CASE AttachContainer
  <2>1. Base \in 0 .. MaxCiphers /\ "create" \in Steps
    BY OptionsType, UnixMountAssumption DEF Base, Steps, TypeInv, TypeOK
  <2>2. Moves(Mounter)
    BY <1>3, <1>a, <1>b, <2>1, StepMoves DEF AttachContainer, Fail, Goto, Steps
  <2>3. QED  BY <1>3, <2>2, CommandFails DEF AttachContainer, Fail, Commands
<1>4. CASE CreateDevice
  <2>1. /\ 0 \in 0 .. MaxCiphers /\ {"create", "test"} \subseteq Steps
        /\ depth[Mounter] # 0 => depth[Mounter] - 1 \in 0 .. MaxCiphers
    BY <1>a, UnixMountAssumption DEF Steps, TypeInv, TypeOK
  <2>2. Moves(Mounter)
    BY <1>4, <1>a, <1>b, <2>1, StepMoves DEF CreateDevice, Fail, Refused, Goto, Steps
  <2>3. QED  BY <1>4, <2>2, CommandFails DEF CreateDevice, Fail, Refused, Commands
<1>5. CASE TestDevice
  BY <1>5, <1>b, CommandFails DEF TestDevice, Proceed, Fail, Refused, Goto, Steps, Commands
<1>6. CASE MountNative
  BY <1>6, <1>b, CommandFails DEF MountNative, Proceed, Fail, Refused, Goto, Steps, Commands
<1>7. CASE SendNative
  BY <1>7, <1>b, CommandFails
    DEF SendNative, SendFailed, Proceed, Fail, Refused, Goto, Steps, Commands
<1>8. CASE UndoFilesystem
  BY <1>8, <1>b, CommandFails
    DEF UndoFilesystem, Umount, Proceed, Fail, Refused, Goto, Steps, Commands
<1>9. CASE UndoDevices
  <2>1. depth[Mounter] \in dm => depth[Mounter] + 1 \in 0 .. MaxCiphers
    BY <1>a, OptionsType, UnixMountAssumption DEF TypeInv, TypeOK
  <2>2. Moves(Mounter)
    BY <1>9, <1>a, <1>b, <2>1, StepMoves DEF UndoDevices, RemoveDevice, Proceed, Goto, Steps
  <2>3. QED
    BY <1>9, <2>2, CommandFails
      DEF UndoDevices, RemoveDevice, RemoveFails, Proceed, Commands
<1>10. CASE UndoLoop("undo_loop")
  BY <1>10, <1>b, CommandFails DEF UndoLoop, LosetupDetach, Goto, Steps, Commands
<1>11. CASE UndoLoop("undo_image")
  BY <1>11, <1>b, CommandFails DEF UndoLoop, LosetupDetach, Goto, Steps, Commands
<1>12. CASE AttachImage
  BY <1>12, <1>b, CommandFails
    DEF AttachImage, Proceed, Fail, Refused, Goto, Steps, Commands
<1>13. CASE SendImage
  BY <1>13, <1>b, CommandFails DEF SendImage, Proceed, Fail, Refused, Goto, Steps, Commands
<1>14. CASE MountImage
  BY <1>14, <1>b, CommandFails DEF MountImage, Proceed, Fail, Refused, Goto, Steps, Commands
<1>15. CASE Rollback
  <2>1. Moves(Mounter)
    BY <1>15, <1>a, <1>b, SeenType, StepMoves DEF Rollback, Steps
  <2>2. QED  BY <1>15, <2>1, CommandFails DEF Rollback
<1>16. CASE FindMounted
  BY <1>16, <1>b, CommandFails DEF FindMounted, Steps, Commands
<1> QED  BY <1>1, <1>2, <1>3, <1>4, <1>5, <1>6, <1>7, <1>8, <1>9, <1>10, <1>11, <1>12,
            <1>13, <1>14, <1>15, <1>16
         DEF MountVolume

LEMMA DismountMoves ==
  ASSUME TypeInv, NEW p \in Process, DismountVolume(p)
  PROVE  /\ Moves(p) /\ pc'[p] \in Lower \cup {"idle"}
         /\ FaultStep
<1>b. /\ \A s \in Steps : Go(p, s) => Moves(p)
      /\ \A o \in {"mounted", "failed"} : Return(p, o) => Moves(p)
  BY GoMoves
<1>c. \A s : Go(p, s) \/ (pc' = [pc EXCEPT ![p] = s]) => pc'[p] = s
  BY DEF Go, TypeInv, TypeOK
<1>d. \A o : Return(p, o) => pc'[p] = "idle"
  BY DEF Return, TypeInv, TypeOK
<1>1. CASE DismountFilesystem(p)
  BY <1>1, <1>b, <1>c, <1>d, CommandFails
    DEF DismountFilesystem, Umount, Steps, Commands, Lower
<1>2. CASE DismountNativeVolume(p)
  <2>1. depth[p] \in dm => depth[p] + 1 \in 0 .. MaxCiphers
    BY OptionsType, UnixMountAssumption DEF TypeInv, TypeOK
  <2>2. Moves(p)
    BY <1>2, <1>b, <2>1, StepMoves
      DEF DismountNativeVolume, RemoveDevice, RemoveFailed, Steps
  <2>3. FaultStep
    BY <1>2, CommandFails DEF DismountNativeVolume, RemoveDevice, RemoveFails, Commands
  <2>4. QED
    BY <1>2, <1>c, <1>d, <2>2, <2>3
       DEF DismountNativeVolume, RemoveDevice, RemoveFailed, At, Lower
<1>3. CASE DetachLoopDevice(p)
  <2>1. [Nothing EXCEPT !.triggered = seen[p].triggered] \in InfoType
    BY DEF Nothing, InfoType, TypeInv, TypeOK
  <2>2. Moves(p)
    BY <1>3, <2>1, StepMoves DEF DetachLoopDevice, AfterDetach, Steps
  <2>3. FaultStep
    BY <1>3, CommandFails DEF DetachLoopDevice, Commands
  <2>4. QED
    BY <1>3, <1>c, <2>2, <2>3 DEF DetachLoopDevice, AfterDetach, Lower
<1>4. CASE Sync(p)
  BY <1>4, <1>b, <1>c, <1>d, CommandFails DEF Sync, Flush, Steps, Commands, Lower
<1>5. CASE Reread(p)
  <2>1. /\ [seen[p] EXCEPT !.triggered = IF fuse THEN triggered ELSE @] \in InfoType
        /\ seen' = [seen EXCEPT ![p] = [seen[p] EXCEPT !.triggered = IF fuse THEN triggered ELSE @]]
    BY <1>5 DEF Reread, InfoType, TypeInv, TypeOK
  <2>2. Moves(p)
    BY <1>5, <2>1, StepMoves DEF Reread, Steps
  <2>3. QED
    BY <1>5, <1>c, <2>2, CommandFails DEF Reread, Lower
<1>6. CASE Release(p)
  BY <1>6, <1>b, <1>c, <1>d, CommandFails DEF Release, Steps, Commands, Lower
<1> QED  BY <1>1, <1>2, <1>3, <1>4, <1>5, <1>6 DEF DismountVolume

StackType ==
  /\ options \in Options /\ fuse \in BOOLEAN /\ loop \in {"none", "container", "image"}
  /\ dm \subseteq AllDevices /\ fs \in BOOLEAN
  /\ cache \in {"none", "fs", "loop", "image"} /\ triggered \in BOOLEAN
  /\ info \in [device : {"none", "loop", "dm"}, loop : BOOLEAN]

LEMMA MountStackType ==
  ASSUME TypeInv, MountVolume
  PROVE  StackType' /\ (M("create") => depth[Mounter] \in 0 .. Base)'
<1> USE DEF StackType, AllDevices, stack, service, M, At, Goto, Go, Base
<1>a. /\ StackType /\ Mounter \in Process /\ pc \in [Process -> Steps]
      /\ depth \in [Process -> 0 .. MaxCiphers] /\ (M("create") => depth[Mounter] \in 0 .. Base)
  BY DEF TypeInv, TypeOK, Process
<1>b. options.ciphers \in 1 .. MaxCiphers /\ options.filesystem \in BOOLEAN /\ MaxCiphers \in Nat
      /\ options.device \in BOOLEAN
  BY <1>a, OptionsType, UnixMountAssumption
<1>c. /\ NoDevices \in [device : {"none", "loop", "dm"}, loop : BOOLEAN]
      /\ \A b \in BOOLEAN, k \in {"dm", "loop"} :
           [device |-> k, loop |-> b] \in [device : {"none", "loop", "dm"}, loop : BOOLEAN]
  BY DEF NoDevices
<1>1. CASE StartService
  BY <1>1, <1>a, <1>b DEF StartService, Proceed, Return, Works
<1>2. CASE MakeDirectory
  BY <1>2, <1>a, <1>b DEF MakeDirectory, Proceed, Works, Fail, NextLayer
<1>3. CASE AttachContainer
  <2>1. CASE Goto("rollback")
    BY <1>3, <2>1, <1>a DEF AttachContainer, Works, Fail
  <2>2. ASSUME ~Goto("rollback")
        PROVE  /\ loop' \in {"none", "container"} /\ UNCHANGED <<options, fuse, dm, fs, cache, info, triggered>>
               /\ depth' = [depth EXCEPT ![Mounter] = options.ciphers - 1]
    BY <1>3, <2>2 DEF AttachContainer, Fail
  <2>3. depth'[Mounter] \in 0 .. options.ciphers - 1 \/ Goto("rollback")
    BY <1>a, <1>b, <2>2
  <2>4. QED  BY <1>a, <2>1, <2>2, <2>3
<1>4. CASE CreateDevice
  <2>1. depth[Mounter] \in 0 .. options.ciphers - 1
    BY <1>4, <1>a DEF CreateDevice
  <2>2. StackType'
    BY <1>4, <1>a, <2>1 DEF CreateDevice, Fail, Refused
  <2>3. (M("create") => depth[Mounter] \in 0 .. Base)'
    <3>1. CASE pc' = [pc EXCEPT ![Mounter] = IF depth[Mounter] = 0 THEN "test" ELSE "create"]
               /\ depth' = [depth EXCEPT ![Mounter] = IF depth[Mounter] = 0 THEN 0 ELSE depth[Mounter] - 1]
               /\ UNCHANGED options
      BY <3>1, <1>a, <1>b, <2>1
    <3>2. CASE \E s \in {"undo_dm", "undo_loop"} : Goto(s)
      BY <3>2, <1>a
    <3>3. QED  BY <1>4, <3>1, <3>2 DEF CreateDevice, Fail, Refused
  <2> QED  BY <2>2, <2>3
<1>5. CASE TestDevice
  BY <1>5, <1>a, <1>b DEF TestDevice, Proceed, Works, Fail, Refused
<1>6. CASE MountNative
  BY <1>6, <1>a, <1>b DEF MountNative, Proceed, Works, Fail, Refused
<1>7. CASE SendNative
  <2>1. [device |-> "dm", loop |-> ~options.device] \in [device : {"none", "loop", "dm"}, loop : BOOLEAN]
    BY <1>b
  <2>2. info' = info \/ info' = [device |-> "dm", loop |-> ~options.device]
    BY <1>7 DEF SendNative, Fail, Refused
  <2> QED  BY <1>7, <1>a, <2>1, <2>2
           DEF SendNative, SendFailed, Proceed, Works, Fail, Refused
<1>8. CASE UndoFilesystem
  BY <1>8, <1>a, <1>b DEF UndoFilesystem, Umount, Proceed, Works, Fail, Refused
<1>9. CASE UndoDevices
  BY <1>9, <1>a, <1>b DEF UndoDevices, RemoveDevice, RemoveFails, Proceed, Works
<1>10. CASE UndoLoop("undo_loop")
  BY <1>10, <1>a, <1>b DEF UndoLoop, LosetupDetach, Works
<1>11. CASE UndoLoop("undo_image")
  BY <1>11, <1>a, <1>b DEF UndoLoop, LosetupDetach, Works
<1>12. CASE AttachImage
  BY <1>12, <1>a, <1>b DEF AttachImage, Proceed, Works, Fail, Refused
<1>13. CASE SendImage
  <2>1. info' = info \/ info' = [device |-> "loop", loop |-> TRUE]
    BY <1>13 DEF SendImage, Fail, Refused
  <2> QED  BY <1>13, <1>a, <1>c, <2>1 DEF SendImage, Proceed, Works, Fail, Refused
<1>14. CASE MountImage
  BY <1>14, <1>a, <1>b DEF MountImage, Proceed, Works, Fail, Refused
<1>15. CASE Rollback
  BY <1>15, <1>a, <1>b DEF Rollback, Return
<1>16. CASE FindMounted
  BY <1>16, <1>a, <1>b DEF FindMounted, Return
<1> QED  BY <1>1, <1>2, <1>3, <1>4, <1>5, <1>6, <1>7, <1>8, <1>9, <1>10, <1>11, <1>12,
            <1>13, <1>14, <1>15, <1>16
         DEF MountVolume

LEMMA DismountStackType ==
  ASSUME TypeInv, NEW p \in Process, DismountVolume(p)
  PROVE  StackType' /\ UNCHANGED options
<1> USE DEF StackType, AllDevices, stack, service
<1>a. StackType
  BY DEF TypeInv, TypeOK
<1>1. CASE DismountFilesystem(p)
  BY <1>1, <1>a DEF DismountFilesystem, Umount, Works, Go, Return
<1>2. CASE DismountNativeVolume(p)
  BY <1>2, <1>a
    DEF DismountNativeVolume, RemoveDevice, RemoveFailed, RemoveFails, Works, Go, Return
<1>3. CASE DetachLoopDevice(p)
  BY <1>3, <1>a DEF DetachLoopDevice, AfterDetach, LosetupDetach, Works
<1>4. CASE Sync(p)
  BY <1>4, <1>a DEF Sync, Flush, Go
<1>5. CASE Reread(p)
  BY <1>5, <1>a DEF Reread
<1>6. CASE Release(p)
  <2>1. NoDevices \in [device : {"none", "loop", "dm"}, loop : BOOLEAN]
    BY DEF NoDevices
  <2> QED  BY <1>6, <1>a, <2>1 DEF Release, Works, Return
<1> QED  BY <1>1, <1>2, <1>3, <1>4, <1>5, <1>6 DEF DismountVolume

LEMMA TypeStep ==
  ASSUME TypeInv, [Next]_vars
  PROVE  TypeInv'
<1> USE DEF AllDevices, M, At, Base
<1>a. Mounter \in Process /\ Mounter \notin Dismounter /\ Dismounter \subseteq Process
  BY UnixMountAssumption DEF Process
<1>1. CASE MountVolume
  <2>1. Moves(Mounter) /\ FaultStep /\ UNCHANGED overlapped
    BY <1>1, MountMoves DEF MountVolume
  <2>2. \A d \in Dismounter : pc'[d] = pc[d]
    BY <1>a, <2>1, MovesType
  <2>3. StackType' /\ (M("create") => depth[Mounter] \in 0 .. Base)'
    BY <1>1, MountStackType
  <2>4. QED
    BY <1>a, <2>1, <2>2, <2>3, MovesType, FaultsType
       DEF TypeInv, TypeOK, StackType, InfoType, FaultStep
<1>2. CASE \E p \in Process : DismountVolume(p)
  <2>1. PICK p \in Process : DismountVolume(p)
    BY <1>2
  <2>2. Moves(p) /\ pc'[p] \in Lower \cup {"idle"} /\ FaultStep /\ UNCHANGED overlapped
    BY <2>1, DismountMoves DEF DismountVolume
  <2>3. StackType' /\ UNCHANGED options
    BY <2>1, DismountStackType
  <2>4. \A q \in Process : q # p => pc'[q] = pc[q] /\ depth'[q] = depth[q]
    BY <2>2, MovesType
  <2>5. \A d \in Dismounter : pc'[d] \in Lower \cup {"idle"}
    BY <1>a, <2>2, <2>4 DEF TypeInv
  <2>6. (M("create") => depth[Mounter] \in 0 .. Base)'
    BY <1>a, <2>2, <2>3, <2>4 DEF TypeInv, Lower
  <2>7. QED
    BY <2>2, <2>3, <2>5, <2>6, MovesType, FaultsType
       DEF TypeInv, TypeOK, StackType, InfoType, FaultStep
<1>3. CASE \E p \in Process : BeginDismount(p)
  <2>1. PICK p \in Process : BeginDismount(p)
    BY <1>3
  <2>2. p \in Dismounter /\ Moves(p) /\ pc'[p] = "umount"
    BY <2>1, SeenType, StepMoves DEF BeginDismount, Steps, TypeInv, TypeOK, calls
  <2>3. \A q \in Process : q # p => pc'[q] = pc[q] /\ depth'[q] = depth[q]
    BY <2>1, <2>2, MovesType
  <2>4. QED
    BY <1>a, <2>1, <2>2, <2>3, MovesType
       DEF BeginDismount, TypeInv, TypeOK, InfoType, Lower, stack, service
<1>4. CASE BeginMount
  <2>1. Moves(Mounter) /\ pc'[Mounter] = "service"
    BY <1>4, <1>a DEF BeginMount, Moves, Steps, calls, TypeInv, TypeOK
  <2>2. \A q \in Process : q # Mounter => pc'[q] = pc[q]
    BY <1>a, <2>1, MovesType
  <2>3. QED
    BY <1>4, <1>a, <2>1, <2>2, MovesType
       DEF BeginMount, TypeInv, TypeOK, InfoType, stack, service
<1>5. CASE User
  BY <1>5 DEF User, Write, WriteBack, Flush, TypeInv, TypeOK, stack, service, calls
<1>6. CASE UNCHANGED vars
  BY <1>6 DEF vars, TypeInv, TypeOK, stack, service, calls
<1>7. QED  BY <1>1, <1>2, <1>3, <1>4, <1>5, <1>6 DEF Next

LEMMA InitType == Init => TypeInv
<1>1. IsFiniteSet({}) /\ Cardinality({}) = 0
  BY FS_EmptySet
<1> SUFFICES ASSUME Init  PROVE TypeInv
  OBVIOUS
<1>2. pc \in [Process -> Steps] /\ depth \in [Process -> 0 .. MaxCiphers]
  BY UnixMountAssumption DEF Init, Steps
<1>3. seen \in [Process -> InfoType]
  BY DEF Init, Nothing, InfoType
<1>4. info \in [device : {"none", "loop", "dm"}, loop : BOOLEAN]
  BY DEF Init, NoDevices
<1>5. faults \subseteq Commands /\ IsFiniteSet(faults) /\ Cardinality(faults) <= MaxFaults
  BY <1>1, UnixMountAssumption DEF Init
<1>6. pc[Mounter] = "idle" /\ \A d \in Dismounter : pc[d] = "idle"
  BY DEF Init, Process
<1>7. QED
  BY <1>2, <1>3, <1>4, <1>5, <1>6 DEF Init, TypeInv, TypeOK, InfoType, M, At, Lower

\* Every variable keeps its type; the devices are those of the cascade.
THEOREM TypeCorrect == Spec => []TypeOK
<1>1. Spec => []TypeInv
  BY InitType, TypeStep, PTL DEF Spec
<1>2. TypeInv => TypeOK
  BY DEF TypeInv
<1>3. QED  BY <1>1, <1>2, PTL

-----------------------------------------------------------------------------
(* What every step keeps.                                                  *)

\* A mount goes on, undoes or ends; nothing but an undoing undoes.
LEMMA MountGoesOn ==
  ASSUME TypeInv, MountVolume
  PROVE  /\ UNCHANGED <<options, overlapped>> /\ faults \subseteq faults'
         /\ pc[Mounter] # "idle"
         /\ pc[Mounter] \in Undoing => pc'[Mounter] \in Undoing \/ result' = "failed"
         /\ pc'[Mounter] # "idle" => result' = result
         /\ pc'[Mounter] \notin {"service"} \cup (Lower \ {"umount"})
         /\ pc'[Mounter] = "umount" => pc[Mounter] = "rollback"
         /\ \A d \in Dismounter : pc'[d] = pc[d] /\ depth'[d] = depth[d]
         /\ IF pc[Mounter] = "service" THEN UNCHANGED info ELSE UNCHANGED fuse
         /\ info' # info => fuse
<1> USE DEF Undoing, Lower
<1>a. pc \in [Process -> Steps] /\ Mounter \in Process
  BY DEF TypeInv, TypeOK, Process
<1>b. Moves(Mounter) /\ FaultStep
  BY MountMoves
<1>c. \A d \in Dismounter : pc'[d] = pc[d] /\ depth'[d] = depth[d]
  BY <1>a, <1>b, MovesType, UnixMountAssumption DEF Process
<1>d. faults \subseteq faults'
  BY <1>b DEF FaultStep, Fails
<1>e. \A s : Go(Mounter, s) \/ (pc' = [pc EXCEPT ![Mounter] = s]) => pc'[Mounter] = s
  BY <1>a DEF Go
<1>f. \A s : Go(Mounter, s) => result' = result
  BY DEF Go
<1>g. \A o : Return(Mounter, o) => pc'[Mounter] = "idle" /\ result' = o
  BY <1>a DEF Return
<1>1. CASE StartService
  BY <1>1, <1>c, <1>d, <1>e, <1>f, <1>g
     DEF StartService, Proceed, Goto, M, At, stack, service, MountVolume, CanSend
<1>2. CASE MakeDirectory
  BY <1>2, <1>c, <1>d, <1>e, <1>f, <1>g
     DEF MakeDirectory, Proceed, Goto, Fail, NextLayer, M, At, stack, service, MountVolume,
         CanSend
<1>3. CASE AttachContainer
  BY <1>3, <1>c, <1>d, <1>e, <1>f, <1>g
     DEF AttachContainer, Fail, Goto, Base, M, At, stack, service, MountVolume, CanSend
<1>4. CASE CreateDevice
  BY <1>4, <1>c, <1>d, <1>e, <1>f, <1>g
     DEF CreateDevice, Fail, Refused, Goto, Base, M, At, stack, service, MountVolume,
         CanSend
<1>5. CASE TestDevice
  BY <1>5, <1>c, <1>d, <1>e, <1>f, <1>g
     DEF TestDevice, Proceed, Fail, Refused, Goto, M, At, stack, service, MountVolume,
         CanSend
<1>6. CASE MountNative
  BY <1>6, <1>c, <1>d, <1>e, <1>f, <1>g
     DEF MountNative, Proceed, Fail, Refused, Goto, M, At, stack, service, MountVolume,
         CanSend
<1>7. CASE SendNative
  BY <1>7, <1>c, <1>d, <1>e, <1>f, <1>g
     DEF SendNative, SendFailed, Proceed, Fail, Refused, Goto, M, At, stack, service,
         MountVolume, CanSend
<1>8. CASE UndoFilesystem
  BY <1>8, <1>c, <1>d, <1>e, <1>f, <1>g
     DEF UndoFilesystem, Umount, Proceed, Fail, Refused, Goto, M, At, stack, service,
         MountVolume, CanSend
<1>9. CASE UndoDevices
  BY <1>9, <1>c, <1>d, <1>e, <1>f, <1>g
     DEF UndoDevices, RemoveDevice, RemoveFails, Proceed, Goto, M, At, stack, service,
         MountVolume, CanSend
<1>10. CASE UndoLoop("undo_loop")
  BY <1>10, <1>c, <1>d, <1>e, <1>f, <1>g
     DEF UndoLoop, LosetupDetach, Goto, M, At, stack, service, MountVolume, CanSend
<1>11. CASE UndoLoop("undo_image")
  BY <1>11, <1>c, <1>d, <1>e, <1>f, <1>g
     DEF UndoLoop, LosetupDetach, Goto, M, At, stack, service, MountVolume, CanSend
<1>12. CASE AttachImage
  BY <1>12, <1>c, <1>d, <1>e, <1>f, <1>g
     DEF AttachImage, Proceed, Fail, Refused, Goto, M, At, stack, service, MountVolume,
         CanSend
<1>13. CASE SendImage
  BY <1>13, <1>c, <1>d, <1>e, <1>f, <1>g
     DEF SendImage, Proceed, Fail, Refused, Goto, M, At, stack, service, MountVolume,
         CanSend
<1>14. CASE MountImage
  BY <1>14, <1>c, <1>d, <1>e, <1>f, <1>g
     DEF MountImage, Proceed, Fail, Refused, Goto, M, At, stack, service, MountVolume,
         CanSend
<1>15. CASE Rollback
  BY <1>15, <1>c, <1>d, <1>e, <1>f, <1>g
     DEF Rollback, M, At, stack, service, MountVolume, CanSend
<1>16. CASE FindMounted
  BY <1>16, <1>c, <1>d, <1>e, <1>f, <1>g
     DEF FindMounted, M, At, stack, service, MountVolume, CanSend
<1> QED  BY <1>1, <1>2, <1>3, <1>4, <1>5, <1>6, <1>7, <1>8, <1>9, <1>10, <1>11, <1>12,
            <1>13, <1>14, <1>15, <1>16
         DEF MountVolume

LEMMA DismountGoesOn ==
  ASSUME TypeInv, NEW p \in Process, DismountVolume(p)
  PROVE  /\ UNCHANGED <<options, overlapped>> /\ faults \subseteq faults'
         /\ pc[p] \in Lower /\ pc'[p] \in {"idle"} \cup (Lower \ {"umount"})
         /\ p = Mounter => IF pc'[p] = "idle" THEN result' = "failed" ELSE result' = result
         /\ p # Mounter => result' = result
         /\ \A q \in Process : q # p => pc'[q] = pc[q] /\ depth'[q] = depth[q]
         /\ ~fuse => ~fuse'
         /\ ~fuse' => info' = NoDevices \/ (~fuse /\ info' = info)
         /\ dm' \subseteq dm /\ (fs' => fs) /\ loop' \in {loop, "none"}
<1> USE DEF Lower
<1>a. pc \in [Process -> Steps] /\ Mounter \in Process
  BY DEF TypeInv, TypeOK, Process
<1>b. Moves(p) /\ FaultStep
  BY DismountMoves
<1>c. \A q \in Process : q # p => pc'[q] = pc[q] /\ depth'[q] = depth[q]
  BY <1>b, MovesType
<1>d. faults \subseteq faults'
  BY <1>b DEF FaultStep, Fails
<1>e. \A s : Go(p, s) \/ (pc' = [pc EXCEPT ![p] = s]) => pc'[p] = s
  BY <1>a DEF Go
<1>f. \A s : Go(p, s) => result' = result
  BY DEF Go
<1>g. \A o : Return(p, o) => pc'[p] = "idle" /\ result' = IF p = Mounter THEN o ELSE result
  BY <1>a DEF Return
<1>h. fuse \in BOOLEAN /\ UNCHANGED overlapped
  BY DEF TypeInv, TypeOK, DismountVolume
<1>1. CASE DismountFilesystem(p)
  BY <1>1, <1>c, <1>d, <1>e, <1>f, <1>g, <1>h
     DEF DismountFilesystem, Umount, At, stack, service
<1>2. CASE DismountNativeVolume(p)
  BY <1>2, <1>c, <1>d, <1>e, <1>f, <1>g, <1>h
     DEF DismountNativeVolume, RemoveDevice, RemoveFailed, RemoveFails, At, stack, service
<1>3. CASE DetachLoopDevice(p)
  BY <1>3, <1>c, <1>d, <1>e, <1>f, <1>g, <1>h
     DEF DetachLoopDevice, AfterDetach, LosetupDetach, At, stack, service
<1>4. CASE Sync(p)
  BY <1>4, <1>c, <1>d, <1>e, <1>f, <1>g, <1>h
     DEF Sync, Flush, At, stack, service
<1>5. CASE Reread(p)
  BY <1>5, <1>c, <1>d, <1>e, <1>f, <1>g, <1>h
     DEF Reread, At, stack, service
<1>6. CASE Release(p)
  BY <1>6, <1>c, <1>d, <1>e, <1>f, <1>g, <1>h
     DEF Release, At, stack, service
<1> QED  BY <1>1, <1>2, <1>3, <1>4, <1>5, <1>6 DEF DismountVolume

LEMMA CommonStep ==
  ASSUME TypeInv, CommonInv, [Next]_vars
  PROVE  CommonInv'
<1> USE DEF CommonInv, M, At, Bare
<1>a. /\ Mounter \in Process /\ Mounter \notin Dismounter /\ Dismounter \subseteq Process
      /\ Process = Dismounter \cup {Mounter} /\ pc \in [Process -> Steps]
  BY UnixMountAssumption DEF Process, TypeInv, TypeOK
<1>1. CASE MountVolume
  BY <1>1, <1>a, MountGoesOn DEF CommonInv
<1>2. CASE \E p \in Process : DismountVolume(p)
  <2>1. PICK p \in Process : DismountVolume(p)
    BY <1>2
  <2>2. p = Mounter \/ p \in Dismounter
    BY <1>a
  <2>3. (~fuse => info = NoDevices)' /\ (M("service") => ~fuse /\ Bare)'
    BY <1>a, <2>1, DismountGoesOn DEF Lower
  <2>4. (pc[Mounter] # "idle" => result = "none")'
    BY <1>a, <2>1, DismountGoesOn DEF Lower
  <2>5. ASSUME ~overlapped', pc'[Mounter] # "idle", NEW d \in Dismounter
        PROVE  pc'[d] = "idle"
    <3>1. ~overlapped /\ pc[Mounter] # "idle" /\ pc[p] # "idle"
      BY <1>a, <2>1, <2>5, DismountGoesOn DEF Lower
    <3>2. p = Mounter
      BY <2>2, <3>1
    <3>3. QED  BY <1>a, <2>1, <3>1, <3>2, DismountGoesOn
  <2>6. QED  BY <2>3, <2>4, <2>5
<1>3. CASE \E p \in Process : BeginDismount(p)
  <2>1. PICK p \in Dismounter : BeginDismount(p)
    BY <1>3 DEF BeginDismount
  <2>2. pc'[Mounter] = pc[Mounter] /\ UNCHANGED <<stack, service, result>>
    BY <2>1, <1>a DEF BeginDismount
  <2>3. overlapped' = (overlapped \/ pc[Mounter] # "idle")
    BY <2>1 DEF BeginDismount
  <2>4. ~overlapped' => pc'[Mounter] = "idle"
    BY <2>2, <2>3
  <2>5. QED  BY <2>2, <2>4 DEF stack, service
<1>4. CASE BeginMount
  BY <1>4, <1>a DEF BeginMount, stack, service, calls
<1>5. CASE User
  BY <1>5 DEF User, Write, WriteBack, Flush, stack, service, calls
<1>6. CASE UNCHANGED vars
  BY <1>6 DEF vars, stack, service, calls
<1>7. QED  BY <1>1, <1>2, <1>3, <1>4, <1>5, <1>6 DEF Next

\* What is foreseen after a step that does not begin a mount was foreseen before.
LEMMA ForeseenBefore ==
  ASSUME TypeInv, CommonInv, [Next]_vars, ~BeginMount, Foreseen'
  PROVE  Foreseen /\ UNCHANGED options /\ faults \subseteq faults' /\ (Undone' => Undone)
<1> USE DEF Foreseen, Undone
<1>a. Mounter \in Process /\ Mounter \notin Dismounter /\ pc \in [Process -> Steps]
  BY UnixMountAssumption DEF Process, TypeInv, TypeOK
<1>b. overlapped \in BOOLEAN
  BY DEF TypeInv, TypeOK
<1>1. CASE MountVolume
  BY <1>1, <1>b, MountGoesOn DEF CommonInv
<1>2. CASE \E p \in Process : DismountVolume(p)
  <2>1. PICK p \in Process : DismountVolume(p)
    BY <1>2
  <2>2. CASE p = Mounter
    BY <2>1, <2>2, <1>a, <1>b, DismountGoesOn DEF CommonInv, Undoing, Lower
  <2>3. CASE p # Mounter
    BY <2>1, <2>3, <1>a, <1>b, DismountGoesOn
  <2>4. QED  BY <2>2, <2>3
<1>3. CASE \E p \in Process : BeginDismount(p)
  BY <1>3, <1>a, <1>b DEF BeginDismount, stack, service
<1>5. CASE User
  BY <1>5 DEF User, Write, WriteBack, Flush, stack, service, calls
<1>6. CASE UNCHANGED vars
  BY <1>6 DEF vars, stack, service, calls
<1>7. QED  BY <1>1, <1>2, <1>3, <1>5, <1>6 DEF Next

-----------------------------------------------------------------------------
(* A volume that is exported as an image.                                  *)

\* A failure that is given up does not happen in what is foreseen.
LEMMA NotGivenUp ==
  ASSUME Foreseen', NEW command \in GivenUp
  PROVE  ~Fails(command)
BY DEF Foreseen, Fails

LEMMA ImageMountStep ==
  ASSUME TypeInv, CommonInv, ImageInv, options.mode = "image", Foreseen', MountVolume
  PROVE  ImageInv'
<1> USE DEF ImageInv, CommonInv, M, At, Undoing, Lower, Bare, NoDevices, ImageInfo
<1>a. /\ Mounter \in Process /\ pc \in [Process -> Steps] /\ seen \in [Process -> InfoType]
      /\ options.ciphers = 1 /\ ~options.device
  BY DEF Process, TypeInv, TypeOK, InfoType, Options
<1>b. \A command \in GivenUp : ~Fails(command)
  BY NotGivenUp
<1>c. faults \subseteq faults'
  BY MountGoesOn
<1>1. CASE StartService
  BY <1>1, <1>a, <1>b, <1>c
     DEF StartService, Go, Return, Works, Fail, Refused, Proceed, Goto,
         stack, service, calls, GivenUp, CanSend, VolumeInfo, DevicesFree
<1>2. CASE MakeDirectory
  BY <1>2, <1>a, <1>b, <1>c
     DEF MakeDirectory, NextLayer, Go, Return, Works, Fail, Refused, Proceed, Goto,
         stack, service, calls, GivenUp, CanSend, VolumeInfo, DevicesFree
<1>3. CASE AttachContainer
  BY <1>3 DEF AttachContainer
<1>4. CASE CreateDevice
  BY <1>4 DEF CreateDevice
<1>5. CASE TestDevice
  BY <1>5 DEF TestDevice
<1>6. CASE MountNative
  BY <1>6 DEF MountNative
<1>7. CASE SendNative
  BY <1>7 DEF SendNative
<1>8. CASE UndoFilesystem
  BY <1>8 DEF UndoFilesystem
<1>9. CASE UndoDevices
  BY <1>9 DEF UndoDevices
<1>10. CASE UndoLoop("undo_loop")
  BY <1>10 DEF UndoLoop
<1>11. CASE UndoLoop("undo_image")
  BY <1>11, <1>a, <1>b, <1>c
     DEF UndoLoop, LosetupDetach, Go, Return, Works, Fail, Refused, Proceed, Goto,
         stack, service, calls, GivenUp, CanSend, VolumeInfo, DevicesFree
<1>12. CASE AttachImage
  BY <1>12, <1>a, <1>b, <1>c
     DEF AttachImage, Go, Return, Works, Fail, Refused, Proceed, Goto,
         stack, service, calls, GivenUp, CanSend, VolumeInfo, DevicesFree
<1>13. CASE SendImage
  BY <1>13, <1>a, <1>b, <1>c
     DEF SendImage, Go, Return, Works, Fail, Refused, Proceed, Goto,
         stack, service, calls, GivenUp, CanSend, VolumeInfo, DevicesFree
<1>14. CASE MountImage
  BY <1>14, <1>a, <1>b, <1>c
     DEF MountImage, Go, Return, Works, Fail, Refused, Proceed, Goto,
         stack, service, calls, GivenUp, CanSend, VolumeInfo, DevicesFree
<1>15. CASE Rollback
  <2>1. VolumeInfo.device # "dm" /\ ~VolumeInfo.mounted /\ (loop = "image" => VolumeInfo.loop)
    <3>1. ~fs /\ info \in {NoDevices, ImageInfo} /\ (loop = "image" => info = ImageInfo)
      BY <1>15 DEF Rollback
    <3>2. info.device # "dm" /\ (loop = "image" => info.loop)
      BY <3>1
    <3> HIDE DEF ImageInv, CommonInv
    <3>3. QED  BY <3>1, <3>2 DEF VolumeInfo
  <2>2. CASE fuse
    BY <1>15, <2>1, <2>2, <1>a DEF Rollback, stack, service
  <2>3. CASE ~fuse
    BY <1>15, <2>3, <1>a DEF Rollback, Return, stack, service
  <2> QED  BY <2>2, <2>3
<1>16. CASE FindMounted
  BY <1>16, <1>a, <1>b, <1>c
     DEF FindMounted, Go, Return, Works, Fail, Refused, Proceed, Goto,
         stack, service, calls, GivenUp, CanSend, VolumeInfo, DevicesFree
<1> QED  BY <1>1, <1>2, <1>3, <1>4, <1>5, <1>6, <1>7, <1>8, <1>9, <1>10, <1>11, <1>12,
            <1>13, <1>14, <1>15, <1>16
         DEF MountVolume

LEMMA ImageDismountStep ==
  ASSUME TypeInv, CommonInv, ImageInv, options.mode = "image", Foreseen',
         NEW p \in Process, DismountVolume(p)
  PROVE  ImageInv'
<1> USE DEF ImageInv, CommonInv, M, At, Lower, Bare, NoDevices, ImageInfo
<1>a. /\ Mounter \in Process /\ pc \in [Process -> Steps] /\ seen \in [Process -> InfoType]
      /\ depth \in [Process -> 0 .. MaxCiphers]
  BY DEF Process, TypeInv, TypeOK, InfoType
<1>b. \A command \in GivenUp : ~Fails(command)
  BY NotGivenUp
<1>c. /\ faults \subseteq faults' /\ \A q \in Process : q # p => pc'[q] = pc[q]
  BY DismountGoesOn
<1>1. CASE DismountFilesystem(p)
  BY <1>1, <1>a, <1>b, <1>c
     DEF DismountFilesystem, Umount, Go, Return, Works, stack, service, calls, GivenUp,
         Cleanup, DevicesFree, Nothing
<1>2. CASE DismountNativeVolume(p)
  BY <1>2, <1>a, <1>b, <1>c
     DEF DismountNativeVolume, RemoveDevice, RemoveFailed, RemoveFails, Go, Return, Works,
         stack, service, calls, GivenUp, Cleanup, DevicesFree, Nothing
<1>3. CASE DetachLoopDevice(p)
  BY <1>3, <1>a, <1>b, <1>c
     DEF DetachLoopDevice, AfterDetach, LosetupDetach, Go, Return, Works, stack, service,
         calls, GivenUp, Cleanup, DevicesFree, Nothing
<1>4. CASE Sync(p)
  BY <1>4, <1>a, <1>b, <1>c
     DEF Sync, Flush, Go, Return, Works, stack, service, calls, GivenUp, Cleanup,
         DevicesFree, Nothing
<1>5. CASE Reread(p)
  BY <1>5, <1>a, <1>b, <1>c
     DEF Reread, Go, Return, Works, stack, service, calls, GivenUp, Cleanup, DevicesFree,
         Nothing
<1>6. CASE Release(p)
  <2>1. /\ Return(p, "failed") /\ UNCHANGED <<options, loop, dm, fs>> /\ At(p, "release")
        /\ pc'[p] = "idle"
    BY <1>6, <1>a DEF Release, Return
  <2>2. ASSUME Fails("release")  PROVE faults' \cap Cleanup # {}
    BY <2>2 DEF Fails, Cleanup
  <2>3. CASE fuse' = FALSE /\ fuse /\ loop # "image" /\ info' = NoDevices
    BY <1>a, <1>c, <2>1, <2>3 DEF Return
  <2>4. CASE UNCHANGED <<fuse, info>> /\ (~fuse \/ loop = "image" \/ Fails("release"))
    <3>1. p = Mounter => ~fuse \/ faults' \cap Cleanup # {}
      BY <2>1, <2>2, <2>4
    <3>2. QED  BY <1>a, <1>c, <2>1, <2>4, <3>1 DEF Return
  <2> QED  BY <1>6, <2>3, <2>4 DEF Release, service
<1> QED  BY <1>1, <1>2, <1>3, <1>4, <1>5, <1>6 DEF DismountVolume

-----------------------------------------------------------------------------
(* A volume on the devices of the kernel.                                  *)

LEMMA NotInTheWay ==
  ASSUME Undone', options'.mode = "native", pc'[Mounter] \in Undoing \/ result' = "failed",
         NEW command \in Cleanup
  PROVE  ~Fails(command)
BY DEF Undone, Fails

\* While the volume is mounted nobody dismounts it, and whatever fails is undone.
LEMMA NativeMountStep ==
  ASSUME TypeInv, CommonInv, BuildInv, options.mode = "native", Undone', ~overlapped,
         \A command \in GivenUp : ~Fails(command), MountVolume
  PROVE  NativeInv'
<1> USE DEF NativeInv, BuildInv, M, At, Undoing, Lower, Bare, NoDevices, NativeInfo, BaseLoop,
            AllDevices, Base
<1>a. /\ Mounter \in Process /\ pc \in [Process -> Steps] /\ seen \in [Process -> InfoType]
      /\ depth \in [Process -> 0 .. MaxCiphers] /\ (M("create") => depth[Mounter] \in 0 .. Base)
      /\ options.ciphers \in 1 .. MaxCiphers /\ MaxCiphers \in Nat
      /\ options.device \in BOOLEAN /\ options.filesystem \in BOOLEAN
      /\ ~options.protect /\ fs \in BOOLEAN /\ fuse \in BOOLEAN /\ dm \subseteq AllDevices
  BY OptionsType, UnixMountAssumption DEF Process, TypeInv, TypeOK, InfoType
<1>b. \A command \in GivenUp : ~Fails(command)
  OBVIOUS
<1>c. /\ \A d \in Dismounter : pc'[d] = "idle" /\ Mounter \notin Dismounter
      /\ UNCHANGED options /\ result = "none" /\ pc[Mounter] # "idle"
  BY MountGoesOn, UnixMountAssumption DEF CommonInv
<1>d. pc'[Mounter] \in Undoing \/ result' = "failed" => \A command \in Cleanup : ~Fails(command)
  BY <1>c, NotInTheWay
<1>e. M("service") => ~fuse /\ Bare
  BY DEF CommonInv
<1>f. \A step : Goto(step) => /\ pc'[Mounter] = step /\ depth'[Mounter] = 0
                              /\ seen' = seen
  BY <1>a DEF Goto, Go
<1>g. fuse' \in BOOLEAN /\ NativeInv' = IF pc'[Mounter] = "idle" THEN TakenDownInv' ELSE BuildInv'
  BY MountStackType DEF StackType
<1>h. /\ Base' = Base /\ AllDevices' = AllDevices /\ BaseLoop' = BaseLoop
      /\ Base \in Int /\ Base \in 0 .. MaxCiphers - 1 /\ 0 \in AllDevices /\ AllDevices = 0 .. Base
  BY <1>a, <1>c
<1> HIDE DEF NativeInv, Base, AllDevices, BaseLoop
<1>1. CASE StartService
  BY <1>1, <1>a, <1>b, <1>c, <1>d, <1>e
     DEF NativeInv, Base, AllDevices, BaseLoop, StartService, Go, Return, Works, Fail,
         Refused, Proceed, Goto,
         TakenDownInv, WholeInv, TakerInv, DownInv, stack, service, calls, GivenUp, Cleanup, CanSend
<1>2. CASE MakeDirectory
  <2>1. UNCHANGED <<stack, service>> /\ pc'[Mounter] \in {"attach", "rollback"}
    BY <1>2, <1>f, <1>c DEF MakeDirectory, NextLayer, Proceed, Fail, stack, service
  <2>2. pc[Mounter] = "directory"
    BY <1>2 DEF MakeDirectory
  <2>3. QED  BY <1>c, <1>g, <1>h, <2>1, <2>2 DEF stack, service
<1>3. CASE AttachContainer
  <2>1. pc[Mounter] = "attach" /\ UNCHANGED <<fuse, dm, fs, info, seen>>
    BY <1>3, <1>f DEF AttachContainer, Fail, stack, service
  <2>2. CASE Goto("rollback") /\ UNCHANGED loop
    BY <1>c, <1>f, <1>g, <1>h, <2>1, <2>2
  <2>3. CASE pc'[Mounter] = "create" /\ depth'[Mounter] = Base /\ loop' = BaseLoop
    <3>1. dm' = {} /\ Base + 1 .. Base = {}
      BY <1>h, <2>1
    <3>2. dm' = depth'[Mounter] + 1 .. Base
      BY <2>3, <3>1
    <3>3. QED  BY <1>c, <1>g, <1>h, <2>1, <2>3, <3>2
  <2>4. QED  BY <1>3, <1>a, <2>2, <2>3
             DEF Base, BaseLoop, AttachContainer, Fail, stack, service
<1>4. CASE CreateDevice
  <2> DEFINE d == depth[Mounter]
  <2>1. /\ pc[Mounter] = "create" /\ UNCHANGED <<fuse, loop, fs, info, seen>>
        /\ d \in 0 .. Base /\ loop = BaseLoop /\ dm = d + 1 .. Base /\ ~fs /\ info = NoDevices /\ fuse
    BY <1>4, <1>a, <1>f DEF CreateDevice, Fail, Refused, stack, service
  <2>2. d \notin dm /\ HasLower(d) /\ d \in Int /\ Base \in Int
    <3>1. d \in Int /\ Base \in Int /\ d \notin dm /\ (d # Base => d + 1 \in dm)
      BY <1>h, <2>1
    <3>2. options.device \/ loop = "container"
      BY <1>a, <2>1 DEF BaseLoop
    <3>3. QED  BY <3>1, <3>2 DEF HasLower
  <2>3. CASE dm' = dm \cup {d} /\ pc'[Mounter] = (IF d = 0 THEN "test" ELSE "create")
             /\ depth'[Mounter] = IF d = 0 THEN 0 ELSE d - 1
    <3>1. dm' = d .. Base
      BY <2>1, <2>2, <2>3
    <3>2. CASE d = 0
      BY <1>c, <1>g, <1>h, <2>1, <2>3, <3>1, <3>2 DEF AllDevices, Base
    <3>3. CASE d # 0
      <4>1. dm' = depth'[Mounter] + 1 .. Base
        BY <2>1, <2>2, <2>3, <3>1, <3>3
      <4> HIDE DEF d
      <4>2. QED  BY <1>c, <1>g, <1>h, <2>1, <2>3, <3>3, <4>1
    <3>4. QED  BY <3>2, <3>3
  <2>4. CASE Goto("undo_dm") /\ d = Base /\ UNCHANGED dm
    <3>1. dm' = {}
      BY <2>1, <2>2, <2>4
    <3>2. QED  BY <1>c, <1>f, <1>g, <1>h, <2>1, <2>4, <3>1
  <2>5. ~Fails("create_next") /\ ~Fails("node")
    BY <1>b DEF GivenUp
  <2>6. QED
    BY <1>4, <1>a, <2>2, <2>3, <2>4, <2>5 DEF CreateDevice, Fail, Refused, Base, stack
<1>5. CASE TestDevice
  <2>1. UNCHANGED <<stack, service>> /\ pc[Mounter] = "test" /\ pc'[Mounter] \in {"mount", "undo_dm"}
        /\ depth'[Mounter] = 0
    BY <1>5, <1>f DEF TestDevice, Proceed, Fail, Refused, stack, service
  <2>2. QED  BY <1>c, <1>g, <1>h, <2>1 DEF stack, service
<1>6. CASE MountNative
  <2> HIDE DEF BuildInv
  <2>1. /\ pc[Mounter] = "mount" /\ UNCHANGED <<fuse, loop, dm, service>> /\ depth'[Mounter] = 0
        /\ (Goto("send") /\ fs' = options.filesystem) \/ (Goto("undo_dm") /\ UNCHANGED fs)
    BY <1>6, <1>f DEF MountNative, Proceed, Fail, Refused, stack, service
  <2>2. QED  BY <1>c, <1>f, <1>g, <1>h, <2>1 DEF BuildInv, service
<1>7. CASE SendNative
  BY <1>7, <1>a, <1>b, <1>c, <1>d, <1>e
     DEF NativeInv, Base, AllDevices, BaseLoop, SendNative, SendFailed, Go, Return, Works,
         Fail, Refused, Proceed, Goto,
         TakenDownInv, WholeInv, TakerInv, DownInv, stack, service, calls, GivenUp, Cleanup, CanSend
<1>8. CASE UndoFilesystem
  <2>1. ~Fails("undo") /\ pc[Mounter] = "undo_fs"
    BY <1>8, <1>b DEF GivenUp, UndoFilesystem
  <2> HIDE DEF BuildInv
  <2>2. UNCHANGED <<fuse, loop, dm, service>> /\ ~fs' /\ Goto("undo_dm")
    BY <1>8, <1>a, <2>1 DEF UndoFilesystem, Umount, Proceed, Fail, Refused, stack, service
  <2>3. QED  BY <1>c, <1>f, <1>g, <1>h, <2>1, <2>2 DEF BuildInv, service
<1>9. CASE UndoDevices
  <2> DEFINE d == depth[Mounter]
  <2>1. /\ pc[Mounter] = "undo_dm" /\ UNCHANGED <<fuse, loop, fs, info, seen>>
        /\ d \in 0 .. MaxCiphers /\ loop = BaseLoop /\ ~fs /\ info = NoDevices /\ fuse
        /\ dm = {} \/ dm = d .. Base
    BY <1>9, <1>a, <1>f DEF UndoDevices, RemoveDevice, Proceed, stack, service
  <2>2. d \in Int /\ Base \in Int /\ Base < MaxCiphers
    BY <1>a, <1>h, <2>1
  <2>3. CASE d \in dm /\ dm' = dm \ {d} /\ depth'[Mounter] = d + 1 /\ pc' = pc
    <3>1. dm' = depth'[Mounter] .. Base
      BY <2>1, <2>2, <2>3
    <3> HIDE DEF d
    <3>2. QED  BY <1>c, <1>g, <1>h, <2>1, <2>3, <3>1
  <2>4. CASE d \notin dm /\ Goto("undo_loop") /\ UNCHANGED dm
    <3>1. dm' = {}
      <4>1. CASE dm = d .. Base
        BY <2>2, <2>4, <4>1
      <4>2. QED  BY <2>1, <2>4, <4>1
    <3>2. QED  BY <1>c, <1>f, <1>g, <1>h, <2>1, <2>4, <3>1
  <2>5. ~(d \in dm /\ RemoveFails(d) /\ Goto("undo_loop"))
    <3> SUFFICES ASSUME d \in dm, RemoveFails(d), Goto("undo_loop")  PROVE FALSE
      OBVIOUS
    <3>1. Removable(d)
      BY <2>1, <2>2 DEF Removable
    <3>2. ~Fails("remove") /\ ~Fails("remove_next")
      BY <1>b, <1>d, <1>f DEF GivenUp, Cleanup
    <3>3. QED  BY <3>1, <3>2 DEF RemoveFails
  <2>6. QED
    BY <1>9, <1>a, <2>3, <2>4, <2>5 DEF UndoDevices, RemoveDevice, Proceed, stack
<1>10. CASE UndoLoop("undo_loop")
  <2>1. /\ pc[Mounter] = "undo_loop" /\ Goto("rollback") /\ UNCHANGED <<fuse, dm, fs, service>>
        /\ ~Fails("undo")
    BY <1>10, <1>b DEF UndoLoop, LosetupDetach, GivenUp, stack
  <2>2. dm = {} /\ ~fs
    BY <2>1
  <2>3. loop' = "none"
    BY <1>10, <2>1, <2>2 DEF UndoLoop, LosetupDetach, DevicesFree, stack
  <2>4. QED  BY <1>c, <1>f, <1>g, <1>h, <2>1, <2>2, <2>3 DEF service
<1>11. CASE UndoLoop("undo_image")
  BY <1>11, <1>c DEF UndoLoop
<1>12. CASE AttachImage
  BY <1>12, <1>c DEF AttachImage
<1>13. CASE SendImage
  BY <1>13, <1>c DEF SendImage
<1>14. CASE MountImage
  BY <1>14, <1>c DEF MountImage
<1>15. CASE Rollback
  <2>1. /\ pc[Mounter] = "rollback" /\ UNCHANGED <<stack, service>> /\ fuse
        /\ pc'[Mounter] = "umount" /\ seen'[Mounter] = VolumeInfo
    BY <1>15, <1>a DEF Rollback
  <2>2. info = NoDevices /\ ~fs
    BY <2>1
  <2>3. VolumeInfo.device = "none" /\ ~VolumeInfo.loop /\ ~VolumeInfo.mounted /\ ~VolumeInfo.protect
    BY <1>a, <2>2 DEF VolumeInfo
  <2>4. QED  BY <1>c, <1>g, <1>h, <2>1, <2>2, <2>3 DEF stack, service
<1>16. CASE FindMounted
  <2>1. /\ pc[Mounter] = "find" /\ UNCHANGED <<stack, service>> /\ pc'[Mounter] = "idle"
        /\ result' = IF fuse THEN "mounted" ELSE "failed"
    BY <1>16, <1>a DEF FindMounted, Return
  <2>2. fuse /\ info = NativeInfo /\ loop = BaseLoop /\ dm = AllDevices
    BY <2>1
  <2> HIDE DEF BuildInv
  <2>3. WholeInv' /\ TakerInv'
    BY <1>c, <1>h, <2>1, <2>2 DEF WholeInv, TakerInv, stack, service
  <2>4. \A d \in Dismounter : DownInv(d)'
    BY <1>c DEF DownInv
  <2>5. QED  BY <1>g, <2>1, <2>3, <2>4 DEF TakenDownInv
<1> QED  BY <1>1, <1>2, <1>3, <1>4, <1>5, <1>6, <1>7, <1>8, <1>9, <1>10, <1>11, <1>12,
            <1>13, <1>14, <1>15, <1>16
         DEF MountVolume

\* A rollback finds nothing but the service.
LEMMA NativeRollbackStep ==
  ASSUME TypeInv, CommonInv, BuildInv, options.mode = "native", Undone', ~overlapped,
         DismountVolume(Mounter)
  PROVE  NativeInv'
<1>a. /\ Mounter \in Process /\ pc \in [Process -> Steps] /\ seen \in [Process -> InfoType]
      /\ fuse \in BOOLEAN /\ Mounter \notin Dismounter /\ Dismounter \subseteq Process
  BY UnixMountAssumption DEF Process, TypeInv, TypeOK, InfoType
<1>b. /\ pc[Mounter] \in Lower /\ UNCHANGED options
      /\ IF pc'[Mounter] = "idle" THEN result' = "failed" ELSE result' = result
      /\ pc'[Mounter] \in {"idle"} \cup (Lower \ {"umount"})
      /\ dm' \subseteq dm /\ (fs' => fs) /\ loop' \in {loop, "none"}
      /\ \A d \in Dismounter : pc'[d] = pc[d]
  BY <1>a, DismountGoesOn
<1>c. \A d \in Dismounter : pc'[d] = "idle"
  BY <1>b DEF Lower, CommonInv
<1>d. /\ Bare /\ fuse /\ info = NoDevices /\ pc[Mounter] \notin {"sync", "reread"}
      /\ ~seen[Mounter].loop /\ ~seen[Mounter].mounted /\ ~seen[Mounter].protect
      /\ seen[Mounter].device = "none"
  BY <1>b DEF BuildInv, Lower
<1>e. \A command \in Cleanup : ~Fails(command)
  BY <1>b, NotInTheWay DEF Undoing, Lower
<1>f. Bare'
  BY <1>b, <1>d DEF Bare
<1>g. \A step : Go(Mounter, step) => pc'[Mounter] = step /\ seen' = seen
  BY <1>a DEF Go
<1>h. \A outcome : Return(Mounter, outcome) => pc'[Mounter] = "idle"
  BY <1>a DEF Return
<1>1. CASE DismountFilesystem(Mounter) \/ DismountNativeVolume(Mounter)
  <2>1. pc'[Mounter] \in {"remove", "detach"} /\ UNCHANGED <<seen, fuse, info>>
    <3>1. CASE DismountFilesystem(Mounter)
      BY <3>1, <1>d, <1>e, <1>g DEF DismountFilesystem, stack, service, Cleanup
    <3>2. CASE DismountNativeVolume(Mounter)
      BY <3>2, <1>d, <1>g DEF DismountNativeVolume, stack, service
    <3>3. QED  BY <1>1, <3>1, <3>2
  <2>2. BuildInv'
    BY <1>d, <1>f, <2>1 DEF BuildInv, Bare, M, At, Lower
  <2>3. QED  BY <2>1, <2>2 DEF NativeInv
<1>2. CASE DetachLoopDevice(Mounter)
  <2>1. /\ pc'[Mounter] = "release" /\ UNCHANGED <<fuse, info>>
        /\ seen'[Mounter] = [Nothing EXCEPT !.triggered = seen[Mounter].triggered]
    BY <1>2, <1>a, <1>d DEF DetachLoopDevice, AfterDetach, stack, service
  <2>2. LET s == seen'[Mounter]
        IN  s.device = "none" /\ ~s.loop /\ ~s.mounted /\ ~s.protect
    BY <2>1 DEF Nothing
  <2>3. BuildInv'
    BY <1>d, <1>f, <2>1, <2>2 DEF BuildInv, Bare, M, At, Lower
  <2>4. QED  BY <2>1, <2>3 DEF NativeInv
<1>3. CASE Release(Mounter)
  <2>1. pc'[Mounter] = "idle" /\ ~fuse' /\ info' = NoDevices
    BY <1>3, <1>d, <1>e, <1>h DEF Release, Bare, Cleanup
  <2>2. TakenDownInv'
    BY <1>c, <1>f, <2>1 DEF TakenDownInv, WholeInv, TakerInv, DownInv, Bare
  <2>3. QED  BY <2>1, <2>2 DEF NativeInv
<1>4. ~Sync(Mounter) /\ ~Reread(Mounter)
  BY <1>d DEF Sync, Reread, At
<1>5. QED  BY <1>1, <1>2, <1>3, <1>4 DEF DismountVolume

\* One of several processes that take down a volume makes a step.
LEMMA NativeDismountStep ==
  ASSUME TypeInv, TakenDownInv, options.mode = "native", pc[Mounter] = "idle",
         \A command \in GivenUp : ~Fails(command), NEW p \in Dismounter, DismountVolume(p)
  PROVE  TakenDownInv'
<1>a. /\ Mounter \in Process /\ pc \in [Process -> Steps] /\ seen \in [Process -> InfoType]
      /\ fuse \in BOOLEAN /\ Mounter \notin Dismounter /\ Dismounter \subseteq Process
      /\ depth \in [Process -> 0 .. MaxCiphers] /\ p \in Process /\ p # Mounter
      /\ options.ciphers \in 1 .. MaxCiphers /\ MaxCiphers \in Nat /\ options.device \in BOOLEAN
      /\ fs \in BOOLEAN /\ dm \subseteq AllDevices
  BY OptionsType, UnixMountAssumption DEF AllDevices, Process, TypeInv, TypeOK, InfoType
<1>b. \A command \in GivenUp : ~Fails(command)
  OBVIOUS
<1>c. /\ UNCHANGED <<options, result>> /\ dm' \subseteq dm /\ (fs' => fs) /\ loop' \in {loop, "none"}
      /\ \A q \in Dismounter : q # p => pc'[q] = pc[q] /\ depth'[q] = depth[q]
  BY <1>a, DismountGoesOn
<1>d. \A step : Go(p, step) => pc'[p] = step /\ seen' = seen /\ depth'[p] = 0
  BY <1>a DEF Go
<1>e. \A outcome : Return(p, outcome) =>
        pc'[p] = "idle" /\ \A q \in Dismounter : q # p => seen'[q] = seen[q]
  BY <1>a DEF Return
<1>f. /\ Base' = Base /\ AllDevices' = AllDevices /\ BaseLoop' = BaseLoop
      /\ Base \in Int /\ AllDevices = 0 .. Base /\ BaseLoop \in {"none", "container"}
      /\ BaseLoop # "none" => ~options.device
  BY <1>a, <1>c DEF Base, AllDevices, BaseLoop
<1>g. \A q \in Dismounter : DownInv(q) /\ (q # p /\ seen'[q] = seen[q] => DownInv(q)')
  BY <1>c DEF DownInv, TakenDownInv
<1>h. UNCHANGED dm /\ pc[p] \notin {"remove", "detach"} => TakerInv'
  BY <1>c, <1>f DEF TakerInv, TakenDownInv
<1>i. pc'[p] = "idle" => DownInv(p)'
  BY DEF DownInv
<1>1. CASE DismountFilesystem(p)
  <2>1. UNCHANGED <<fuse, loop, dm, info>> /\ pc[p] = "umount"
    BY <1>1 DEF DismountFilesystem, Umount, stack, service, At
  <2>2. WholeInv' /\ TakerInv'
    BY <1>c, <1>f, <1>h, <2>1 DEF WholeInv, TakenDownInv, Bare, NativeInfo
  <2>3. CASE pc'[p] = "remove" /\ UNCHANGED seen /\ depth'[p] = 0 /\ ~fs'
    <3>1. DownInv(p)'
      BY <1>c, <1>g, <2>1, <2>3 DEF DownInv
    <3>2. QED  BY <1>g, <2>2, <2>3, <3>1 DEF TakenDownInv
  <2>4. CASE pc'[p] = "idle" /\ \A q \in Dismounter : q # p => seen'[q] = seen[q]
    BY <1>g, <1>i, <2>2, <2>4 DEF TakenDownInv
  <2>5. ~seen[p].mounted => ~fs
    BY <1>g, <2>1 DEF DownInv
  <2>6. QED
    BY <1>1, <1>d, <1>e, <2>1, <2>3, <2>4, <2>5 DEF DismountFilesystem, Umount, stack
<1>2. CASE DismountNativeVolume(p)
  <2> DEFINE d == depth[p]
  <2>1. UNCHANGED <<fuse, loop, fs, info>> /\ pc[p] = "remove"
    BY <1>2 DEF DismountNativeVolume, RemoveDevice, stack, service, At
  <2>2. /\ ~fs /\ seen[p].device = "dm" /\ d \in Nat
        /\ (d > 0 => 0 \notin dm /\ d - 1 \notin dm)
    BY <1>a, <1>g, <2>1 DEF DownInv
  <2>3. CASE d \in dm /\ Removable(d) /\ dm' = dm \ {d} /\ depth' = [depth EXCEPT ![p] = d + 1]
             /\ UNCHANGED <<pc, seen>>
    <3>1. d - 1 \notin dm /\ depth'[p] = d + 1
      BY <1>a, <2>3 DEF Removable
    <3>2. dm' = d + 1 .. Base
      <4>1. CASE 0 \in dm
        <5>1. dm = 0 .. Base /\ d = 0
          BY <1>f, <2>2, <2>3, <4>1 DEF TakenDownInv, WholeInv
        <5>2. QED  BY <1>f, <2>3, <5>1
      <4>2. CASE 0 \notin dm
        <5>1. PICK q \in Dismounter : depth[q] > 0 /\ dm = depth[q] .. Base
          BY <2>3, <4>2 DEF TakenDownInv, TakerInv
        <5>2. depth[q] = d
          BY <1>a, <1>f, <2>2, <2>3, <3>1, <5>1
        <5>3. QED  BY <1>f, <2>2, <2>3, <5>1, <5>2
      <4>3. QED  BY <4>1, <4>2
    <3>3. 0 \notin dm' /\ d \notin dm' /\ pc'[p] = "remove"
      BY <1>f, <2>1, <2>2, <2>3, <3>2
    <3>4. WholeInv'
      BY <1>c, <1>f, <2>1, <2>2, <2>3, <3>3 DEF WholeInv, TakenDownInv, Bare, NativeInfo
    <3>5. TakerInv'
      BY <1>c, <1>f, <2>2, <3>1, <3>2, <3>3 DEF TakerInv
    <3>6. DownInv(p)'
      <4>1. {0, depth'[p] - 1} \cap dm' = {}
        BY <2>2, <3>1, <3>3
      <4>2. QED  BY <1>c, <1>g, <2>1, <2>3, <3>3, <4>1 DEF DownInv
    <3>7. QED  BY <1>g, <2>3, <3>4, <3>5, <3>6 DEF TakenDownInv
  <2>4. CASE d \notin dm /\ Go(p, "detach") /\ UNCHANGED dm
    <3>1. 0 \notin dm
      BY <1>f, <2>2, <2>4 DEF TakenDownInv, WholeInv
    <3>2. pc'[p] = "detach" /\ seen' = seen /\ depth'[p] = 0
      BY <1>d, <2>4
    <3>3. dm # {} => \E q \in Dismounter : pc'[q] = "remove" /\ depth'[q] > 0 /\ dm = depth'[q] .. Base
      <4> SUFFICES ASSUME dm # {}
                   PROVE  \E q \in Dismounter : pc'[q] = "remove" /\ depth'[q] > 0 /\ dm = depth'[q] .. Base
        OBVIOUS
      <4>1. PICK q \in Dismounter : pc[q] = "remove" /\ depth[q] > 0 /\ dm = depth[q] .. Base
        BY <3>1 DEF TakenDownInv, TakerInv
      <4>2. q # p
        BY <1>a, <1>f, <2>4, <4>1
      <4>3. QED  BY <1>c, <4>1, <4>2
    <3>4. TakerInv'
      BY <1>c, <1>f, <2>4, <3>2, <3>3 DEF TakerInv
    <3>5. WholeInv'
      BY <1>c, <1>f, <2>1, <2>4 DEF WholeInv, TakenDownInv, Bare, NativeInfo
    <3>6. DownInv(p)'
      BY <1>c, <1>g, <2>1, <2>4, <3>1, <3>2 DEF DownInv
    <3>7. QED  BY <1>g, <3>2, <3>4, <3>5, <3>6 DEF TakenDownInv
  <2>5. CASE d \in dm /\ RemoveFails(d) /\ Return(p, "failed") /\ UNCHANGED dm
    <3>1. Removable(d)
      <4>1. d - 1 \notin dm
        BY <1>a, <1>f, <2>2
      <4>2. QED  BY <2>2, <4>1 DEF Removable
    <3>2. d = 0
      BY <1>b, <2>5, <3>1 DEF RemoveFails, GivenUp
    <3>3. WholeInv' /\ TakerInv'
      BY <1>c, <1>f, <2>1, <2>5, <3>2 DEF WholeInv, TakerInv, TakenDownInv, Bare, NativeInfo
    <3>4. QED  BY <1>e, <1>g, <1>i, <2>5, <3>3 DEF TakenDownInv
  <2>6. QED
    BY <1>2, <2>1, <2>2, <2>3, <2>4, <2>5
      DEF DismountNativeVolume, RemoveDevice, RemoveFailed, stack
<1>3. CASE DetachLoopDevice(p)
  <2>1. /\ UNCHANGED <<fuse, dm, fs, info>> /\ pc[p] = "detach"
        /\ pc'[p] \in {"sync", "release"} /\ \A q \in Dismounter : q # p => seen'[q] = seen[q]
    BY <1>3, <1>a DEF DetachLoopDevice, AfterDetach, LosetupDetach, stack, service, At
  <2>2. seen[p].loop = ~options.device /\ 0 \notin dm
    BY <1>g, <2>1 DEF DownInv
  <2>3. loop \in {"none", BaseLoop}
    BY DEF TakenDownInv, WholeInv
  <2>4. dm = {} /\ loop # "none" => seen[p].loop /\ DevicesFree
    BY <1>f, <2>2, <2>3 DEF DevicesFree
  <2>5. ~Fails("detach")
    BY <1>b DEF GivenUp
  <2>6. dm = {} => loop' = "none"
    BY <1>3, <2>4, <2>5 DEF DetachLoopDevice, LosetupDetach, stack
  <2>7. WholeInv'
    BY <1>c, <1>f, <2>1, <2>2 DEF WholeInv, TakenDownInv, Bare, NativeInfo
  <2>8. TakerInv'
    BY <1>c, <1>f, <2>1, <2>6 DEF TakerInv, TakenDownInv
  <2>9. DownInv(p)'
    BY <2>1, <2>2 DEF DownInv
  <2>10. QED  BY <1>g, <2>1, <2>7, <2>8, <2>9 DEF TakenDownInv
<1>4. CASE Sync(p) \/ Reread(p)
  <2>1. /\ UNCHANGED <<stack, info>> /\ pc[p] \in {"sync", "reread"}
        /\ pc'[p] \in {"reread", "release"} /\ \A q \in Dismounter : q # p => seen'[q] = seen[q]
    BY <1>4, <1>a, <1>d DEF Sync, Reread, stack, service, At
  <2>2. WholeInv' /\ TakerInv'
    BY <1>c, <1>f, <1>h, <2>1 DEF WholeInv, TakenDownInv, Bare, NativeInfo, stack
  <2>3. DownInv(p)'
    BY <1>g, <2>1 DEF DownInv, stack
  <2>4. QED  BY <1>g, <2>1, <2>2, <2>3 DEF TakenDownInv
<1>5. CASE Release(p)
  <2>1. /\ UNCHANGED <<loop, dm, fs>> /\ pc[p] = "release" /\ Return(p, "failed")
        /\ fuse' => fuse /\ info' = info
    BY <1>5 DEF Release, service, At
  <2>2. 0 \notin dm
    BY <1>g, <2>1 DEF DownInv
  <2>3. WholeInv' /\ TakerInv'
    BY <1>c, <1>f, <1>h, <2>1, <2>2 DEF WholeInv, TakenDownInv, Bare, NativeInfo
  <2>4. QED  BY <1>e, <1>g, <1>i, <2>1, <2>3 DEF TakenDownInv
<1>6. QED  BY <1>1, <1>2, <1>3, <1>4, <1>5 DEF DismountVolume

-----------------------------------------------------------------------------
(* All steps.                                                              *)

LEMMA InitVolume == Init => CommonInv /\ VolumeInv /\ OneFaultInv /\ AnyImageInv
<1> SUFFICES ASSUME Init  PROVE CommonInv /\ VolumeInv /\ OneFaultInv /\ AnyImageInv
  OBVIOUS
<1>1. \A p \in Process : pc[p] = "idle"
  BY DEF Init
<1>2. pc[Mounter] = "idle" /\ \A d \in Dismounter : pc[d] = "idle"
  BY <1>1 DEF Process
<1>3. Bare /\ ~fuse /\ info = NoDevices /\ result = "none"
  BY DEF Init, Bare
<1>4. TakenDownInv
  BY <1>2, <1>3 DEF TakenDownInv, WholeInv, TakerInv, DownInv, Bare
<1>5. ImageInv
  BY <1>2, <1>3 DEF ImageInv, Bare, M, At, Lower
<1>6. ExportedInv
  BY <1>2, <1>3 DEF ExportedInv, Bare, M, At
<1>7. QED
  BY <1>2, <1>3, <1>4, <1>5, <1>6
     DEF CommonInv, VolumeInv, NativeInv, OneFaultInv, AnyImageInv, Undoing, Lower, M, At

\* Somebody begins to dismount a volume that is mounted.
LEMMA NativeBeginDismount ==
  ASSUME TypeInv, TakenDownInv, options.mode = "native", pc[Mounter] = "idle",
         NEW p \in Dismounter, BeginDismount(p)
  PROVE  TakenDownInv' /\ pc'[Mounter] = "idle"
<1>1. /\ pc \in [Process -> Steps] /\ seen \in [Process -> InfoType] /\ p \in Process
      /\ p # Mounter /\ Mounter \in Process /\ fs \in BOOLEAN
  BY UnixMountAssumption DEF TypeInv, TypeOK, InfoType, Process
<1>2. /\ UNCHANGED <<options, stack, service, depth, result>> /\ fuse /\ pc[p] = "idle"
      /\ pc'[p] = "umount" /\ seen'[p] = VolumeInfo /\ pc'[Mounter] = "idle"
      /\ \A q \in Dismounter : q # p => pc'[q] = pc[q] /\ seen'[q] = seen[q]
  BY <1>1 DEF BeginDismount, At
<1>3. info = NativeInfo
  BY <1>2 DEF TakenDownInv, WholeInv
<1>4. VolumeInfo.device = "dm" /\ VolumeInfo.loop = ~options.device /\ VolumeInfo.mounted = fs
  BY <1>1, <1>3 DEF VolumeInfo, NativeInfo
<1>5. DownInv(p)'
  BY <1>1, <1>2, <1>4 DEF DownInv, stack
<1>6. \A q \in Dismounter : q # p => DownInv(q)'
  BY <1>2 DEF DownInv, TakenDownInv, stack
<1>7. WholeInv'
  BY <1>2 DEF WholeInv, TakenDownInv, Bare, NativeInfo, BaseLoop, AllDevices, stack, service
<1>8. TakerInv'
  BY <1>2 DEF TakerInv, TakenDownInv, Base, stack
<1>9. QED  BY <1>2, <1>5, <1>6, <1>7, <1>8 DEF TakenDownInv

LEMMA VolumeStep ==
  ASSUME TypeInv, CommonInv, VolumeInv, [Next]_vars
  PROVE  VolumeInv'
<1>a. /\ Mounter \in Process /\ Mounter \notin Dismounter /\ Dismounter \subseteq Process
      /\ Process = Dismounter \cup {Mounter} /\ pc \in [Process -> Steps]
      /\ overlapped \in BOOLEAN
  BY UnixMountAssumption DEF Process, TypeInv, TypeOK
<1>1. CASE BeginMount
  <2>1. /\ pc'[Mounter] = "service" /\ Bare' /\ ~fuse' /\ info' = NoDevices
    BY <1>1, <1>a DEF BeginMount, Bare, CommonInv, stack, service
  <2>2. BuildInv'
    BY <2>1 DEF BuildInv, M, At, Lower
  <2>3. ImageInv'
    BY <2>1 DEF ImageInv, Bare, M, At, Lower
  <2>4. QED  BY <2>1, <2>2, <2>3 DEF VolumeInv, NativeInv
<1>2. CASE ~BeginMount
  <2> SUFFICES ASSUME Foreseen', Undone'
               PROVE  IF options'.mode = "native" THEN NativeInv' ELSE ImageInv'
    BY DEF VolumeInv
  <2>1. Foreseen /\ Undone /\ UNCHANGED options
    BY <1>2, ForeseenBefore
  <2>2. IF options.mode = "native" THEN NativeInv ELSE ImageInv
    BY <2>1 DEF VolumeInv
  <2>3. options.mode \in {"native", "image"}
    BY OptionsType DEF TypeInv, TypeOK
  <2>4. CASE MountVolume
    <3>1. pc[Mounter] # "idle"
      BY <2>4, MountGoesOn
    <3>2. CASE options.mode = "native"
      BY <2>1, <2>2, <2>4, <3>1, <3>2, NativeMountStep, NotGivenUp DEF NativeInv, Foreseen
    <3>3. CASE options.mode = "image"
      BY <2>1, <2>2, <2>4, <3>3, ImageMountStep
    <3>4. QED  BY <2>3, <3>2, <3>3
  <2>5. CASE \E p \in Process : DismountVolume(p)
    <3>1. PICK p \in Process : DismountVolume(p)
      BY <2>5
    <3>2. CASE options.mode = "image"
      BY <2>1, <2>2, <3>1, <3>2, ImageDismountStep
    <3>3. CASE options.mode = "native" /\ p = Mounter
      <4>1. pc[Mounter] # "idle"
        BY <3>1, <3>3, DismountGoesOn DEF Lower
      <4>2. QED  BY <2>1, <2>2, <3>1, <3>3, <4>1, NativeRollbackStep DEF NativeInv, Foreseen
    <3>4. CASE options.mode = "native" /\ p \in Dismounter
      <4>1. pc[p] # "idle" /\ pc'[Mounter] = pc[Mounter]
        BY <1>a, <3>1, <3>4, DismountGoesOn DEF Lower
      <4>2. pc[Mounter] = "idle"
        BY <2>1, <3>4, <4>1 DEF CommonInv, Foreseen
      <4>3. QED  BY <2>1, <2>2, <3>1, <3>4, <4>1, <4>2, NativeDismountStep, NotGivenUp
                DEF NativeInv
    <3>5. QED  BY <1>a, <2>3, <3>2, <3>3, <3>4
  <2>6. CASE \E p \in Process : BeginDismount(p)
    <3>1. PICK p \in Dismounter : BeginDismount(p)
      BY <2>6 DEF BeginDismount
    <3>2. CASE options.mode = "image"
      <4>1. /\ pc'[Mounter] = pc[Mounter] /\ seen'[Mounter] = seen[Mounter]
            /\ UNCHANGED <<stack, service, result, faults>>
        BY <1>a, <3>1 DEF BeginDismount
      <4>2. QED  BY <2>1, <2>2, <3>2, <4>1 DEF ImageInv, stack, service, M, At
    <3>3. CASE options.mode = "native"
      <4>1. pc[Mounter] = "idle"
        BY <1>a, <2>1, <3>1, <3>3 DEF BeginDismount, Foreseen
      <4>2. QED  BY <2>1, <2>2, <3>1, <3>3, <4>1, NativeBeginDismount DEF NativeInv
    <3>4. QED  BY <2>3, <3>2, <3>3
  <2>7. CASE User \/ UNCHANGED vars
    <3>1. UNCHANGED <<options, fuse, loop, dm, fs, info, pc, calls, result, faults>>
      BY <2>7 DEF User, Write, WriteBack, Flush, vars, stack, service
    <3>2. NativeInv => NativeInv'
      BY <3>1 DEF NativeInv, BuildInv, TakenDownInv, WholeInv, TakerInv, DownInv, Bare,
                  NativeInfo, BaseLoop, AllDevices, Base, M, At, calls
    <3>3. ImageInv => ImageInv'
      BY <3>1 DEF ImageInv, M, At, calls
    <3>4. QED  BY <2>1, <2>2, <3>2, <3>3
  <2>8. QED  BY <1>2, <2>4, <2>5, <2>6, <2>7 DEF Next
<1>3. QED  BY <1>1, <1>2

\* Undoing begins with a command that failed.
LEMMA UndoneAfterFailure ==
  ASSUME TypeInv, CommonInv, BuildInv, options.mode = "native", MountVolume,
         \A command \in GivenUp : ~Fails(command),
         pc[Mounter] \notin Undoing, pc'[Mounter] \in Undoing \/ result' = "failed"
  PROVE  \E command \in Commands \ Cleanup : Fails(command)
<1>a. /\ Mounter \in Process /\ pc \in [Process -> Steps] /\ result = "none"
      /\ \A step : Goto(step) => pc'[Mounter] = step /\ result' = result
  BY MountGoesOn DEF Process, TypeInv, TypeOK, CommonInv, Goto, Go
<1>b. \A command \in GivenUp : ~Fails(command)
  OBVIOUS
<1>c. /\ Base \in Int /\ options.device \in BOOLEAN
      /\ M("create") => depth[Mounter] \in 0 .. Base
  BY OptionsType, UnixMountAssumption DEF TypeInv, TypeOK, Base
<1>1. \E command \in {"fuse", "mkdir", "attach", "create", "test", "mount", "send"} : Fails(command)
  <2> USE DEF Undoing, Lower, Proceed, Fail, Refused, GivenUp, M, At
  <2>1. CASE StartService
    BY <1>a, <1>b, <2>1 DEF StartService, Return
  <2>2. CASE MakeDirectory
    BY <1>a, <2>2 DEF MakeDirectory, NextLayer
  <2>3. CASE AttachContainer
    BY <1>a, <2>3 DEF AttachContainer
  <2>4. CASE CreateDevice
    <3>1. depth[Mounter] \notin dm /\ HasLower(depth[Mounter])
      <4>1. pc[Mounter] = "create"
        BY <2>4 DEF CreateDevice
      <4>2. dm = depth[Mounter] + 1 .. Base /\ loop = BaseLoop
        BY <4>1 DEF BuildInv
      <4>3. depth[Mounter] \notin dm /\ (depth[Mounter] # Base => depth[Mounter] + 1 \in dm)
        BY <1>c, <4>1, <4>2
      <4>4. options.device \/ loop = "container"
        BY <1>c, <4>2 DEF BaseLoop
      <4>5. QED  BY <4>3, <4>4 DEF HasLower
    <3>2. QED  BY <1>a, <1>b, <2>4, <3>1 DEF CreateDevice
  <2>5. CASE TestDevice
    <3>1. 0 \in dm
      BY <1>c, <2>5, OptionsType, UnixMountAssumption
        DEF TestDevice, BuildInv, AllDevices, TypeInv, TypeOK
    <3>2. QED  BY <1>a, <2>5, <3>1 DEF TestDevice
  <2>6. CASE MountNative
    <3>1. 0 \in dm
      BY <1>c, <2>6, OptionsType, UnixMountAssumption
        DEF MountNative, BuildInv, AllDevices, TypeInv, TypeOK
    <3>2. QED  BY <1>a, <2>6, <3>1 DEF MountNative
  <2>7. CASE SendNative
    <3>1. CanSend
      BY <2>7 DEF SendNative, CanSend, BuildInv
    <3>2. QED  BY <1>a, <2>7, <3>1 DEF SendNative
  <2>8. CASE UndoFilesystem \/ UndoDevices \/ UndoLoop("undo_loop") \/ UndoLoop("undo_image") \/ Rollback
    BY <2>8 DEF UndoFilesystem, UndoDevices, UndoLoop, Rollback
  <2>9. CASE AttachImage \/ SendImage \/ MountImage
    BY <2>9 DEF AttachImage, SendImage, MountImage, BuildInv
  <2>10. CASE FindMounted
    BY <1>a, <2>10 DEF FindMounted, Return, BuildInv
  <2>11. QED
    BY <2>1, <2>2, <2>3, <2>4, <2>5, <2>6, <2>7, <2>8, <2>9, <2>10 DEF MountVolume
<1>2. QED  BY <1>1 DEF Commands, Cleanup

\* No two commands fail in one step, and one that works is none that fails.
LEMMA OneFailure ==
  ASSUME NEW command, NEW other, Fails(command)
  PROVE  ~Works /\ (Fails(other) => other = command)
BY DEF Fails, Works

\* Where a service can be left to itself, and where undoing can fail.
LEMMA OwnFailure ==
  ASSUME TypeInv, MountVolume, NEW command \in {"control", "undo"}, Fails(command)
  PROVE  /\ command = "control" => /\ M("service") /\ pc'[Mounter] = "idle"
                                   /\ UNCHANGED <<loop, dm, fs, info>>
         /\ command = "undo" => pc[Mounter] \in Undoing
<1> USE OneFailure DEF Undoing, M, At
<1>a. pc \in [Process -> Steps] /\ Mounter \in Process
  BY DEF TypeInv, TypeOK, Process
<1>1. CASE StartService
  BY <1>1, <1>a DEF StartService, Proceed, Return, service
<1>2. CASE MakeDirectory
  BY <1>2 DEF MakeDirectory, Proceed, Fail
<1>3. CASE AttachContainer
  BY <1>3 DEF AttachContainer, Fail
<1>4. CASE CreateDevice
  BY <1>4 DEF CreateDevice, Fail, Refused
<1>5. CASE TestDevice
  BY <1>5 DEF TestDevice, Proceed, Fail, Refused
<1>6. CASE MountNative
  BY <1>6 DEF MountNative, Proceed, Fail, Refused
<1>7. CASE SendNative
  BY <1>7 DEF SendNative, Proceed, Fail, Refused
<1>8. CASE UndoFilesystem
  BY <1>8 DEF UndoFilesystem, Proceed, Fail, Refused
<1>9. CASE UndoDevices
  BY <1>9 DEF UndoDevices, RemoveDevice, RemoveFails, Proceed
<1>10. CASE UndoLoop("undo_loop") \/ UndoLoop("undo_image")
  BY <1>10 DEF UndoLoop
<1>11. CASE AttachImage
  BY <1>11 DEF AttachImage, Proceed, Fail, Refused
<1>12. CASE SendImage
  BY <1>12 DEF SendImage, Proceed, Fail, Refused
<1>13. CASE MountImage
  BY <1>13 DEF MountImage, Proceed, Fail, Refused
<1>14. CASE Rollback \/ FindMounted
  BY <1>14 DEF Rollback, FindMounted, Works, Fails
<1> QED  BY <1>1, <1>2, <1>3, <1>4, <1>5, <1>6, <1>7, <1>8, <1>9, <1>10, <1>11, <1>12,
            <1>13, <1>14
         DEF MountVolume

LEMMA DismountFailure ==
  ASSUME NEW p, DismountVolume(p), NEW command \in {"control", "undo"}
  PROVE  ~Fails(command)
<1> SUFFICES ASSUME Fails(command)  PROVE FALSE
  OBVIOUS
<1> USE OneFailure
<1>1. CASE DismountFilesystem(p)
  BY <1>1 DEF DismountFilesystem
<1>2. CASE DismountNativeVolume(p)
  BY <1>2 DEF DismountNativeVolume, RemoveDevice, RemoveFails
<1>3. CASE DetachLoopDevice(p)
  BY <1>3 DEF DetachLoopDevice
<1>4. CASE Sync(p) \/ Reread(p)
  BY <1>4 DEF Sync, Reread, Fails
<1>5. CASE Release(p)
  BY <1>5 DEF Release
<1> QED  BY <1>1, <1>2, <1>3, <1>4, <1>5 DEF DismountVolume

\* A step that does not begin a mount keeps its options, and what has happened.
LEMMA HistoryGrows ==
  ASSUME TypeInv, [Next]_vars, ~BeginMount
  PROVE  UNCHANGED options /\ faults \subseteq faults' /\ (~overlapped' => ~overlapped)
<1>1. CASE MountVolume
  BY <1>1, MountGoesOn
<1>2. CASE \E p \in Process : DismountVolume(p)
  BY <1>2, DismountGoesOn
<1>3. CASE \E p \in Process : BeginDismount(p)
  BY <1>3 DEF BeginDismount
<1>4. CASE User \/ UNCHANGED vars
  BY <1>4 DEF User, Write, WriteBack, vars
<1>5. QED  BY <1>1, <1>2, <1>3, <1>4 DEF Next

\* A service that was left to itself can only be dismounted, or a mount begins anew.
LEMMA AbandonedStep ==
  ASSUME TypeInv, AbandonedInv, [Next]_vars, ~BeginMount
  PROVE  AbandonedInv'
<1> USE DEF AbandonedInv, M, At, Bare
<1>a. /\ Mounter \in Process /\ Mounter \notin Dismounter /\ pc \in [Process -> Steps]
  BY UnixMountAssumption DEF Process, TypeInv, TypeOK
<1>1. CASE MountVolume
  BY <1>1, MountGoesOn
<1>2. CASE \E p \in Process : DismountVolume(p)
  <2>1. PICK p \in Process : DismountVolume(p)
    BY <1>2
  <2>2. p # Mounter
    BY <2>1, DismountGoesOn DEF Lower
  <2>3. M("idle")' /\ Bare'
    BY <1>a, <2>1, <2>2, DismountGoesOn
  <2>4. UNCHANGED info \/ info' = NoDevices
    BY <2>1 DEF DismountVolume, DismountFilesystem, DismountNativeVolume, DetachLoopDevice,
                Sync, Reread, Release, service
  <2>5. QED  BY <2>3, <2>4
<1>3. CASE \E p \in Process : BeginDismount(p)
  BY <1>3, <1>a DEF BeginDismount, stack, service
<1>4. CASE User \/ UNCHANGED vars
  BY <1>4 DEF User, Write, WriteBack, Flush, vars, stack, service
<1>5. QED  BY <1>1, <1>2, <1>3, <1>4 DEF Next

LEMMA OneFaultStep ==
  ASSUME MaxFaults <= 1, TypeInv, CommonInv, OneFaultInv, [Next]_vars
  PROVE  OneFaultInv'
<1> SUFFICES ASSUME options'.mode = "native", ~overlapped', faults' \cap LosesDevices = {}
             PROVE  /\ pc'[Mounter] \in Undoing \/ result' = "failed" =>
                         faults' # {} /\ faults' \cap Cleanup = {}
                    /\ NativeInv' \/ AbandonedInv'
  BY DEF OneFaultInv
<1>a. /\ Mounter \in Process /\ Mounter \notin Dismounter /\ Dismounter \subseteq Process
      /\ Process = Dismounter \cup {Mounter} /\ pc \in [Process -> Steps]
  BY UnixMountAssumption DEF Process, TypeInv, TypeOK
<1>b. /\ Cardinality(faults) \in Nat /\ MaxFaults \in Nat
      /\ Cardinality(faults) = 0 => faults = {}
  BY FS_CardinalityType, FS_EmptySet, UnixMountAssumption DEF TypeInv
<1>c. \A command : Fails(command) => faults = {} /\ faults' = {command}
  BY <1>b DEF Fails
<1>1. CASE BeginMount
  <2>1. /\ pc'[Mounter] = "service" /\ Bare' /\ ~fuse' /\ info' = NoDevices /\ result' = "none"
    BY <1>1, <1>a DEF BeginMount, Bare, CommonInv, stack, service
  <2>2. BuildInv'
    BY <2>1 DEF BuildInv, M, At, Lower
  <2>3. QED  BY <2>1, <2>2 DEF NativeInv, Undoing, Lower
<1>2. CASE ~BeginMount
  <2>1. /\ options.mode = "native" /\ ~overlapped /\ UNCHANGED options
        /\ faults \subseteq faults' /\ faults \cap LosesDevices = {}
    BY <1>2, HistoryGrows
  <2>2. /\ pc[Mounter] \in Undoing \/ result = "failed" => faults # {} /\ faults \cap Cleanup = {}
        /\ NativeInv \/ AbandonedInv
    BY <2>1 DEF OneFaultInv
  <2>3. \A command \in LosesDevices : ~Fails(command)
    BY <1>c
  <2>4. pc[Mounter] # "idle" => BuildInv
    BY <2>2 DEF NativeInv, AbandonedInv, M, At
  \* A failure that is given up is, of a mount, the control file that does not appear.
  <2>5. ASSUME MountVolume, NEW command \in GivenUp, Fails(command)
        PROVE  command = "control" /\ faults' = {"control"} /\ AbandonedInv'
    <3>1. command \in {"control", "undo"}
      BY <2>3, <2>5 DEF GivenUp, LosesDevices
    <3>2. command # "undo"
      BY <1>c, <2>2, <2>5, <3>1, OwnFailure
    <3>3. M("service") /\ pc'[Mounter] = "idle" /\ UNCHANGED <<loop, dm, fs, info>>
      BY <2>5, <3>1, <3>2, OwnFailure
    <3>4. Bare /\ info = NoDevices
      BY <3>3 DEF CommonInv
    <3>5. QED  BY <1>c, <2>5, <3>1, <3>2, <3>3, <3>4 DEF AbandonedInv, Bare, M, At
  <2>6. pc'[Mounter] \in Undoing \/ result' = "failed" => faults' # {} /\ faults' \cap Cleanup = {}
    <3> SUFFICES ASSUME pc'[Mounter] \in Undoing \/ result' = "failed"
                 PROVE  faults' # {} /\ faults' \cap Cleanup = {}
      OBVIOUS
    <3>1. CASE pc[Mounter] \in Undoing \/ result = "failed"
      <4>1. faults # {} /\ faults \cap Cleanup = {}
        BY <2>2, <3>1
      <4>2. faults' = faults
        <5>1. CASE MountVolume
          BY <1>c, <4>1, <5>1, MountMoves DEF FaultStep
        <5>2. CASE \E p \in Process : DismountVolume(p)
          BY <1>c, <4>1, <5>2, DismountMoves DEF FaultStep
        <5>3. CASE \E p \in Process : BeginDismount(p)
          BY <5>3 DEF BeginDismount
        <5>4. CASE User \/ UNCHANGED vars
          BY <5>4 DEF User, Write, WriteBack, vars
        <5>5. QED  BY <1>2, <5>1, <5>2, <5>3, <5>4 DEF Next
      <4>3. QED  BY <4>1, <4>2
    <3>2. CASE ~(pc[Mounter] \in Undoing \/ result = "failed")
      <4>1. CASE MountVolume
        <5>1. CASE \E command \in GivenUp : Fails(command)
          BY <2>5, <4>1, <5>1 DEF Cleanup
        <5>2. CASE \A command \in GivenUp : ~Fails(command)
          <6>1. BuildInv
            BY <2>4, <4>1, MountGoesOn
          <6>2. PICK command \in Commands \ Cleanup : Fails(command)
            BY <2>1, <3>2, <4>1, <5>2, <6>1, UndoneAfterFailure
          <6>3. QED  BY <1>c, <6>2
        <5>3. QED  BY <5>1, <5>2
      <4>2. CASE \E p \in Process : DismountVolume(p)
        BY <3>2, <1>a, <4>2, DismountGoesOn DEF Undoing
      <4>3. CASE \E p \in Process : BeginDismount(p)
        BY <3>2, <1>a, <4>3 DEF BeginDismount
      <4>4. CASE User \/ UNCHANGED vars
        BY <3>2, <4>4 DEF User, Write, WriteBack, vars, calls
      <4>5. QED  BY <1>2, <4>1, <4>2, <4>3, <4>4 DEF Next
    <3>3. QED  BY <3>1, <3>2
  <2>7. Undone'
    BY <2>6 DEF Undone
  <2>8. NativeInv' \/ AbandonedInv'
    <3>1. CASE AbandonedInv
      BY <1>2, <3>1, AbandonedStep
    <3>2. CASE NativeInv /\ MountVolume
      <4>1. CASE \E command \in GivenUp : Fails(command)
        BY <2>5, <3>2, <4>1
      <4>2. CASE \A command \in GivenUp : ~Fails(command)
        BY <2>1, <2>4, <2>7, <3>2, <4>2, MountGoesOn, NativeMountStep
      <4>3. QED  BY <4>1, <4>2
    <3>3. CASE NativeInv /\ \E p \in Process : DismountVolume(p)
      <4>1. PICK p \in Process : DismountVolume(p)
        BY <3>3
      <4>2. CASE p = Mounter
        <5>1. BuildInv
          BY <2>4, <4>1, <4>2, DismountGoesOn DEF Lower
        <5>2. QED  BY <2>1, <2>7, <4>1, <4>2, <5>1, NativeRollbackStep
      <4>3. CASE p \in Dismounter
        <5>1. pc[p] # "idle" /\ pc'[Mounter] = pc[Mounter]
          BY <1>a, <4>1, <4>3, DismountGoesOn DEF Lower
        <5>2. pc[Mounter] = "idle"
          BY <2>1, <4>3, <5>1 DEF CommonInv
        <5>3. \A command \in GivenUp : ~Fails(command)
          BY <2>3, <4>1, DismountFailure DEF GivenUp, LosesDevices
        <5>4. QED  BY <2>1, <3>3, <4>1, <4>3, <5>1, <5>2, <5>3, NativeDismountStep DEF NativeInv
      <4>4. QED  BY <1>a, <4>2, <4>3
    <3>4. CASE NativeInv /\ \E p \in Process : BeginDismount(p)
      <4>1. PICK p \in Dismounter : BeginDismount(p)
        BY <3>4 DEF BeginDismount
      <4>2. pc[Mounter] = "idle"
        BY <1>a, <4>1 DEF BeginDismount
      <4>3. QED  BY <2>1, <3>4, <4>1, <4>2, NativeBeginDismount DEF NativeInv
    <3>5. CASE NativeInv /\ (User \/ UNCHANGED vars)
      <4>1. UNCHANGED <<options, fuse, loop, dm, fs, info, pc, calls, result, faults>>
        BY <3>5 DEF User, Write, WriteBack, Flush, vars, stack, service
      <4>2. QED
        BY <3>5, <4>1 DEF NativeInv, BuildInv, TakenDownInv, WholeInv, TakerInv, DownInv, Bare,
                          NativeInfo, BaseLoop, AllDevices, Base, M, At, calls
    <3>6. QED  BY <1>2, <2>2, <3>1, <3>2, <3>3, <3>4, <3>5 DEF Next
  <2>9. QED  BY <2>6, <2>8
<1>3. QED  BY <1>1, <1>2

-----------------------------------------------------------------------------
(* A volume that is exported as an image, whatever fails.                  *)

LEMMA ExportedMountStep ==
  ASSUME TypeInv, CommonInv, ExportedInv, options.mode = "image", ~ImageLost', MountVolume
  PROVE  ExportedInv'
<1> USE DEF ExportedInv, CommonInv, M, At, Bare, NoDevices, ImageInfo, Go, Return, Works, Fail,
            Refused, Proceed, Goto, stack, service
<1>a. Mounter \in Process /\ pc \in [Process -> Steps] /\ faults \subseteq faults'
  BY MountGoesOn DEF Process, TypeInv, TypeOK
<1>1. CASE StartService
  BY <1>1, <1>a DEF StartService
<1>2. CASE MakeDirectory
  BY <1>2, <1>a DEF MakeDirectory, NextLayer
<1>3. CASE AttachContainer \/ CreateDevice \/ TestDevice \/ MountNative \/ SendNative
           \/ UndoFilesystem \/ UndoDevices \/ UndoLoop("undo_loop")
  BY <1>3 DEF AttachContainer, CreateDevice, TestDevice, MountNative, SendNative,
              UndoFilesystem, UndoDevices, UndoLoop
<1>4. CASE UndoLoop("undo_image")
  <2>1. /\ pc[Mounter] = "undo_image" /\ ~fs
        /\ pc'[Mounter] = "rollback" /\ UNCHANGED <<fuse, dm, fs, info>>
    BY <1>4, <1>a DEF UndoLoop, LosetupDetach
  <2>2. loop' = "none"
    <3>1. ~(Fails("undo") /\ loop # "none")
      BY <1>4, <1>a DEF UndoLoop, Fails, ImageLost
    <3>2. QED  BY <1>4, <2>1, <3>1 DEF UndoLoop, LosetupDetach, DevicesFree
  <2>3. QED  BY <2>1, <2>2
<1>5. CASE AttachImage
  BY <1>5, <1>a DEF AttachImage
<1>6. CASE SendImage
  BY <1>6, <1>a DEF SendImage, CanSend, Fails
<1>7. CASE MountImage
  BY <1>7, <1>a DEF MountImage
<1>8. CASE Rollback
  BY <1>8, <1>a DEF Rollback
<1>9. CASE FindMounted
  BY <1>9, <1>a DEF FindMounted
<1> QED  BY <1>1, <1>2, <1>3, <1>4, <1>5, <1>6, <1>7, <1>8, <1>9 DEF MountVolume

LEMMA ExportedDismountStep ==
  ASSUME TypeInv, CommonInv, ExportedInv, options.mode = "image",
         NEW p \in Process, DismountVolume(p)
  PROVE  ExportedInv'
<1> USE DEF ExportedInv, CommonInv, M, At, Bare, NoDevices, ImageInfo
<1>a. /\ dm' \subseteq dm /\ (fs' => fs) /\ loop' \in {loop, "none"} /\ faults \subseteq faults'
      /\ fs \in BOOLEAN /\ fs' \in BOOLEAN
  BY DismountGoesOn, DismountStackType DEF StackType, TypeInv, TypeOK
<1>b. \/ pc'[Mounter] = pc[Mounter]
      \/ pc[Mounter] \in Lower /\ pc'[Mounter] \in {"idle"} \cup (Lower \ {"umount"})
  BY DismountGoesOn DEF Process
<1>c. \/ UNCHANGED <<fuse, info>>
      \/ loop # "image" /\ fuse' = FALSE /\ info' = NoDevices
  BY DEF DismountVolume, DismountFilesystem, Umount, DismountNativeVolume, RemoveDevice,
         DetachLoopDevice, LosetupDetach, Sync, Flush, Reread, Release, stack, service
<1>d. fs' => loop' = loop
  BY <1>a DEF DismountVolume, DismountFilesystem, Umount, DismountNativeVolume, RemoveDevice,
              DetachLoopDevice, LosetupDetach, DevicesFree, Sync, Reread, Release, stack, service
<1>e. QED  BY <1>a, <1>b, <1>c, <1>d DEF Lower

LEMMA AnyImageStep ==
  ASSUME TypeInv, CommonInv, AnyImageInv, [Next]_vars
  PROVE  AnyImageInv'
<1> SUFFICES ASSUME options'.mode = "image", ~ImageLost'
             PROVE  ExportedInv'
  BY DEF AnyImageInv
<1>a. /\ Mounter \in Process /\ Mounter \notin Dismounter /\ pc \in [Process -> Steps]
  BY UnixMountAssumption DEF Process, TypeInv, TypeOK
<1>1. CASE BeginMount
  <2>1. /\ pc'[Mounter] = "service" /\ Bare' /\ ~fuse' /\ info' = NoDevices
    BY <1>1, <1>a DEF BeginMount, Bare, CommonInv, stack, service
  <2>2. QED  BY <2>1 DEF ExportedInv, Bare, M, At
<1>2. CASE ~BeginMount
  <2>1. options.mode = "image" /\ ExportedInv
    BY <1>2, HistoryGrows DEF AnyImageInv, ImageLost
  <2>2. CASE MountVolume
    BY <2>1, <2>2, ExportedMountStep
  <2>3. CASE \E p \in Process : DismountVolume(p)
    BY <2>1, <2>3, ExportedDismountStep
  <2>4. CASE \E p \in Process : BeginDismount(p)
    <3>1. /\ pc'[Mounter] = pc[Mounter] /\ UNCHANGED <<stack, service, faults>>
      BY <1>a, <2>4 DEF BeginDismount
    <3>2. QED  BY <2>1, <3>1 DEF ExportedInv, stack, service, M, At
  <2>5. CASE User \/ UNCHANGED vars
    <3>1. UNCHANGED <<fuse, loop, dm, fs, info, pc, faults>>
      BY <2>5 DEF User, Write, WriteBack, Flush, vars, stack, service
    <3>2. QED  BY <2>1, <3>1 DEF ExportedInv, M, At
  <2>6. QED  BY <1>2, <2>2, <2>3, <2>4, <2>5 DEF Next
<1>3. QED  BY <1>1, <1>2

-----------------------------------------------------------------------------
(* What a dismount reports of the protection.                              *)

\* A volume with protection that is foreseen is an image.
LEMMA ProtectedImage ==
  ASSUME TypeInv, VolumeInv, options.protect, faults \cap GivenUp = {}
  PROVE  ImageInv
<1>1. options.mode = "image"
  BY OptionsType DEF TypeInv, TypeOK
<1>2. Foreseen /\ Undone
  BY <1>1 DEF Foreseen, Undone
<1>3. QED  BY <1>1, <1>2 DEF VolumeInv

\* A failure once given up stays so.
LEMMA FaultsKept ==
  ASSUME TypeInv, [Next]_vars
  PROVE  faults \subseteq faults'
<1>1. CASE MountVolume
  BY <1>1, MountGoesOn
<1>2. CASE \E p \in Process : DismountVolume(p)
  BY <1>2, DismountGoesOn
<1>3. CASE \E p \in Process : BeginDismount(p)
  BY <1>3 DEF BeginDismount
<1>4. CASE BeginMount
  BY <1>4 DEF BeginMount
<1>5. CASE User
  BY <1>5 DEF User, Write, WriteBack
<1>6. CASE UNCHANGED vars
  BY <1>6 DEF vars
<1>7. QED  BY <1>1, <1>2, <1>3, <1>4, <1>5, <1>6 DEF Next

\* MountVolume leaves alone what the protection knows, and what is cached but for
\* the loop device that is removed.
LEMMA MountCache ==
  ASSUME TypeInv, MountVolume
  PROVE  UNCHANGED <<triggered, options>> /\ (cache = "none" => cache' = "none")
<1> USE DEF stack, service
<1>1. CASE StartService
  BY <1>1 DEF StartService
<1>2. CASE MakeDirectory
  BY <1>2 DEF MakeDirectory, Fail
<1>3. CASE AttachContainer
  BY <1>3 DEF AttachContainer, Fail
<1>4. CASE CreateDevice
  BY <1>4 DEF CreateDevice, Fail, Refused
<1>5. CASE TestDevice
  BY <1>5 DEF TestDevice, Fail, Refused
<1>6. CASE MountNative
  BY <1>6 DEF MountNative, Fail, Refused
<1>7. CASE SendNative
  BY <1>7 DEF SendNative, Fail, Refused
<1>8. CASE UndoFilesystem
  BY <1>8 DEF UndoFilesystem, Umount, Fail, Refused
<1>9. CASE UndoDevices
  BY <1>9 DEF UndoDevices, RemoveDevice
<1>10. CASE UndoLoop("undo_loop") \/ UndoLoop("undo_image")
  BY <1>10 DEF UndoLoop, LosetupDetach
<1>11. CASE AttachImage
  BY <1>11 DEF AttachImage, Fail, Refused
<1>12. CASE SendImage
  BY <1>12 DEF SendImage, Fail, Refused
<1>13. CASE MountImage
  BY <1>13 DEF MountImage, Fail, Refused
<1>14. CASE Rollback \/ FindMounted
  BY <1>14 DEF Rollback, FindMounted
<1> QED  BY <1>1, <1>2, <1>3, <1>4, <1>5, <1>6, <1>7, <1>8, <1>9, <1>10, <1>11, <1>12,
            <1>13, <1>14
         DEF MountVolume

\* A dismount triggers nothing where nothing is cached, and what was triggered is
\* forgotten only with the service.
LEMMA DismountCache ==
  ASSUME TypeInv, NEW p \in Process, DismountVolume(p)
  PROVE  /\ UNCHANGED options /\ (cache = "none" => cache' = "none")
         /\ fuse' => fuse /\ (cache = "none" => triggered' = triggered)
         /\ ~fuse' => \/ ~triggered' /\ cache' = "none"
                      \/ ~fuse /\ (cache = "none" => triggered' = triggered)
<1> USE DEF stack, service
<1>a. fuse \in BOOLEAN /\ triggered \in BOOLEAN
  BY DEF TypeInv, TypeOK
<1>1. CASE DismountFilesystem(p)
  BY <1>1, <1>a DEF DismountFilesystem, Umount
<1>2. CASE DismountNativeVolume(p)
  BY <1>2, <1>a DEF DismountNativeVolume, RemoveDevice
<1>3. CASE DetachLoopDevice(p)
  BY <1>3, <1>a DEF DetachLoopDevice, LosetupDetach
<1>4. CASE Sync(p)
  BY <1>4, <1>a DEF Sync, Flush
<1>5. CASE Reread(p)
  BY <1>5, <1>a DEF Reread
<1>6. CASE Release(p)
  BY <1>6, <1>a DEF Release
<1> QED  BY <1>1, <1>2, <1>3, <1>4, <1>5, <1>6 DEF DismountVolume

LEMMA CacheStep ==
  ASSUME TypeInv, CommonInv, VolumeInv, CacheInv, [Next]_vars
  PROVE  CacheInv'
<1> SUFFICES ASSUME faults' \cap GivenUp = {}, ~fuse' \/ ~options'.protect
             PROVE  cache' = "none" /\ ~triggered'
  BY DEF CacheInv
<1>a. faults \cap GivenUp = {}
  BY FaultsKept
<1>b. fuse \in BOOLEAN /\ triggered \in BOOLEAN /\ options.protect \in BOOLEAN
  BY OptionsType DEF TypeInv, TypeOK
<1>1. CASE MountVolume
  <2>1. ~fuse \/ ~options.protect
    BY <1>1, MountGoesOn, MountCache DEF CommonInv, M, At
  <2>2. QED  BY <1>1, <1>a, <2>1, MountCache DEF CacheInv
<1>2. CASE \E p \in Process : DismountVolume(p)
  BY <1>2, <1>a, <1>b, DismountCache DEF CacheInv
<1>3. CASE \E p \in Process : BeginDismount(p)
  BY <1>3, <1>a DEF BeginDismount, CacheInv, stack, service
<1>4. CASE BeginMount
  BY <1>4, <1>a DEF BeginMount, CacheInv, stack, service
<1>5. CASE User
  <2>1. UNCHANGED <<options, fuse>>
    BY <1>5 DEF User, Write, WriteBack, stack
  <2>2. cache = "none" /\ ~triggered
    BY <1>a, <2>1 DEF CacheInv
  <2>3. ~Write
    <3>1. SUFFICES ASSUME Write  PROVE FALSE
      OBVIOUS
    <3>2. options.protect
      BY <3>1 DEF Write
    <3>3. ImageInv
      BY <1>a, <3>2, ProtectedImage
    <3>4. loop = "image"
      BY <3>1, <3>3 DEF Write, ImageInv
    <3>5. QED  BY <2>1, <3>2, <3>3, <3>4 DEF ImageInv
  <2>4. QED  BY <1>5, <2>2, <2>3 DEF User, WriteBack
<1>6. CASE UNCHANGED vars
  BY <1>6, <1>a DEF vars, CacheInv, stack, service
<1>7. QED  BY <1>1, <1>2, <1>3, <1>4, <1>5, <1>6 DEF Next

\* What a process has seen is not touched by another that dismounts.
LEMMA SeenOfOthers ==
  ASSUME TypeInv, NEW p \in Process, DismountVolume(p), NEW d \in Process, d # p
  PROVE  pc'[d] = pc[d] /\ seen'[d] = seen[d]
BY DismountMoves DEF Moves, TypeInv, TypeOK

\* Another process dismounts the volume: what is gone stays away.
LEMMA SeenByOthers ==
  ASSUME TypeInv, NEW p \in Process, DismountVolume(p), NEW d \in Process, d # p, SeenInv(d)
  PROVE  SeenInv(d)'
<1>1. pc'[d] = pc[d] /\ seen'[d] = seen[d]
  BY SeenOfOthers
<1>2. UNCHANGED options /\ (fs' => fs) /\ loop' \in {loop, "none"}
  BY DismountGoesOn
<1>3. (cache = "none" => cache' = "none") /\ (fuse' => fuse /\ (cache = "none" => triggered' = triggered))
  BY DismountCache
<1>4. QED  BY <1>1, <1>2, <1>3 DEF SeenInv, Lower

\* The process itself, from one step to the next.
LEMMA SeenByItself ==
  ASSUME TypeInv, CacheInv, VolumeInv, NEW d \in Dismounter, DismountVolume(d), SeenInv(d),
         faults \cap GivenUp = {}, faults' \cap GivenUp = {}
  PROVE  SeenInv(d)'
<1> USE DEF SeenInv, Lower, At, stack, service
<1>a. /\ d \in Process /\ pc \in [Process -> Steps] /\ seen \in [Process -> InfoType]
      /\ triggered \in BOOLEAN /\ fuse \in BOOLEAN /\ options.protect \in BOOLEAN
  BY OptionsType DEF Process, TypeInv, TypeOK, InfoType
<1>b. options.protect => ImageInv
  BY ProtectedImage
<1>c. UNCHANGED options
  BY <1>a, DismountGoesOn
<1>1. CASE DismountFilesystem(d)
  <2>1. CASE pc'[d] = "idle"
    BY <2>1
  <2>2. CASE pc'[d] # "idle"
    <3>1. Go(d, "remove") /\ pc'[d] = "remove" /\ UNCHANGED seen
      BY <1>1, <1>a, <2>2 DEF DismountFilesystem, Return, Go
    <3>2. (seen[d].mounted => ~fs') /\ (~seen[d].mounted => fs' = fs) /\ UNCHANGED <<loop, triggered>>
      BY <1>1, <1>a, <2>2 DEF DismountFilesystem, Return, Umount
    <3>3. QED  BY <1>1, <1>c, <3>1, <3>2 DEF DismountFilesystem
  <2>3. QED  BY <2>1, <2>2
<1>2. CASE DismountNativeVolume(d)
  <2>1. CASE pc'[d] = "idle"
    BY <2>1
  <2>2. CASE pc'[d] # "idle"
    <3>1. pc'[d] \in {"remove", "detach"} /\ UNCHANGED <<seen, loop, fs, triggered>>
      BY <1>2, <1>a, <2>2 DEF DismountNativeVolume, RemoveDevice, RemoveFailed, Return, Go
    <3>2. QED  BY <1>2, <1>c, <3>1 DEF DismountNativeVolume
  <2>3. QED  BY <2>1, <2>2
<1>3. CASE DetachLoopDevice(d)
  <2>1. pc'[d] = IF options.protect THEN "sync" ELSE "release"
    BY <1>3, <1>a DEF DetachLoopDevice, AfterDetach
  <2>2. seen'[d].triggered = seen[d].triggered
    BY <1>3, <1>a DEF DetachLoopDevice, Nothing
  <2>3. options.protect => ~fs' /\ loop' = "none"
    <3>1. "detach" \in GivenUp
      BY DEF GivenUp
    <3>2. ~Fails("detach")
      BY <3>1 DEF Fails
    <3>3. options.protect => ~fs /\ (seen[d].loop \/ loop = "none") /\ loop \in {"none", "image"}
      BY <1>3, <1>b DEF DetachLoopDevice, ImageInv
    <3>4. QED  BY <1>3, <3>2, <3>3 DEF DetachLoopDevice, LosetupDetach, DevicesFree
  <2>4. QED  BY <1>3, <1>c, <2>1, <2>2, <2>3 DEF DetachLoopDevice
<1>4. CASE Sync(d)
  <2>1. pc'[d] = "reread" /\ UNCHANGED <<seen, loop, fs>> /\ cache' = "none"
    BY <1>4, <1>a DEF Sync, Go, Flush
  <2>2. QED  BY <1>4, <1>c, <2>1 DEF Sync
<1>5. CASE Reread(d)
  <2>1. pc'[d] = "release" /\ UNCHANGED <<loop, fs, cache, fuse, triggered>>
    BY <1>5, <1>a DEF Reread
  <2>2. seen'[d].triggered = IF fuse THEN triggered ELSE seen[d].triggered
    BY <1>5, <1>a DEF Reread, InfoType
  <2>3. ~options.protect => ~triggered
    BY DEF CacheInv
  <2>4. QED  BY <1>5, <1>c, <2>1, <2>2, <2>3 DEF Reread
<1>6. CASE Release(d)
  <2>1. pc'[d] = "idle"
    BY <1>6, <1>a DEF Release, Return
  <2>2. QED  BY <2>1
<1> QED  BY <1>1, <1>2, <1>3, <1>4, <1>5, <1>6 DEF DismountVolume

LEMMA ReportStep ==
  ASSUME TypeInv, CommonInv, VolumeInv, CacheInv, ReportInv, [Next]_vars
  PROVE  ReportInv'
<1> SUFFICES ASSUME faults' \cap GivenUp = {}, ~overlapped', NEW d \in Dismounter
             PROVE  SeenInv(d)'
  BY DEF ReportInv
<1>a. /\ Mounter \in Process /\ Mounter \notin Dismounter /\ d \in Process
      /\ pc \in [Process -> Steps] /\ seen \in [Process -> InfoType] /\ overlapped \in BOOLEAN
      /\ options.protect \in BOOLEAN /\ triggered \in BOOLEAN
  BY UnixMountAssumption, OptionsType DEF Process, TypeInv, TypeOK, InfoType
<1>b. faults \cap GivenUp = {}
  BY FaultsKept
<1>1. CASE BeginMount
  <2>1. pc'[d] = "idle"
    BY <1>1, <1>a DEF BeginMount
  <2>2. QED  BY <2>1 DEF SeenInv, Lower
<1>2. CASE ~BeginMount
  <2>1. ~overlapped
    <3>1. MountVolume \/ User \/ UNCHANGED vars \/ (\E p \in Process : DismountVolume(p))
            => UNCHANGED overlapped
      BY DEF MountVolume, User, DismountVolume, vars
    <3>2. (\E p \in Process : BeginDismount(p)) => ~overlapped
      BY <1>a DEF BeginDismount
    <3>3. QED  BY <1>2, <3>1, <3>2 DEF Next
  <2>2. SeenInv(d)
    BY <1>b, <2>1 DEF ReportInv
  <2>3. pc[Mounter] # "idle" => pc[d] = "idle"
    BY <2>1 DEF CommonInv
  <2>4. CASE MountVolume
    <3>1. pc'[d] = "idle"
      BY <2>3, <2>4, MountGoesOn
    <3>2. QED  BY <3>1 DEF SeenInv, Lower
  <2>5. CASE \E p \in Process : DismountVolume(p)
    BY <1>a, <1>b, <2>2, <2>5, SeenByOthers, SeenByItself
  <2>6. CASE \E p \in Process : BeginDismount(p)
    <3>1. PICK p \in Process : BeginDismount(p)
      BY <2>6
    <3>2. /\ UNCHANGED <<options, stack, cache, service>>
          /\ pc' = [pc EXCEPT ![p] = "umount"] /\ seen' = [seen EXCEPT ![p] = VolumeInfo]
      BY <3>1 DEF BeginDismount
    <3>3. CASE p # d
      <4>1. pc'[d] = pc[d] /\ seen'[d] = seen[d]
        BY <1>a, <3>2, <3>3
      <4>2. QED  BY <2>2, <3>2, <4>1 DEF SeenInv, stack, service
    <3>4. CASE p = d
      <4>1. pc'[d] = "umount" /\ seen'[d] = VolumeInfo
        BY <1>a, <3>2, <3>4
      <4>2. pc[Mounter] = "idle"
        BY <1>a, <3>1, <3>4 DEF BeginDismount
      <4>3. ~options.protect => ~triggered
        BY <1>b DEF CacheInv
      <4>4. options.protect => ImageInv
        BY <1>b, ProtectedImage
      <4>5. options.protect => (fs => info.device # "none") /\ (info.loop \/ loop = "none")
        BY <4>2, <4>4 DEF ImageInv, ImageInfo, M, At
      <4>6. /\ seen'[d].protect = options.protect /\ seen'[d].triggered = triggered
            /\ seen'[d].loop = info.loop
            /\ seen'[d].mounted = (fs /\ info.device # "none")
        BY <4>1 DEF VolumeInfo
      <4>7. UNCHANGED <<options, loop, fs>>
        BY <3>2 DEF stack
      <4>8. QED  BY <4>1, <4>3, <4>5, <4>6, <4>7 DEF SeenInv, Lower
    <3>5. QED  BY <3>3, <3>4
  <2>7. CASE User
    <3>1. UNCHANGED <<options, stack, info, pc, seen>>
      BY <2>7 DEF User, Write, WriteBack, calls, service
    <3>2. ~options.protect => UNCHANGED triggered
      BY <1>b, <2>7 DEF User, Write, WriteBack, Flush, service, CacheInv
    <3>3. options.protect /\ ~fs /\ loop = "none" => cache' \in {cache, "none"}
      BY <2>7 DEF User, Write, WriteBack, Flush
    <3>4. cache = "none" /\ ~fs /\ loop = "none" => UNCHANGED <<cache, triggered>>
      BY <2>7 DEF User, Write, WriteBack, Flush, service
    <3>5. QED  BY <2>2, <3>1, <3>2, <3>3, <3>4 DEF SeenInv, Lower, stack
  <2>8. CASE UNCHANGED vars
    BY <2>2, <2>8 DEF SeenInv, vars, stack, service, calls
  <2>9. QED  BY <1>2, <2>4, <2>5, <2>6, <2>7, <2>8 DEF Next
<1>3. QED  BY <1>1, <1>2

-----------------------------------------------------------------------------
(* The theorems.                                                           *)

LEMMA Invariants == Spec => [](TypeInv /\ CommonInv /\ VolumeInv)
<1>1. Init => TypeInv /\ CommonInv /\ VolumeInv
  BY InitType, InitVolume
<1>2. TypeInv /\ CommonInv /\ VolumeInv /\ [Next]_vars => (TypeInv /\ CommonInv /\ VolumeInv)'
  BY TypeStep, CommonStep, VolumeStep
<1>3. QED  BY <1>1, <1>2, PTL DEF Spec

\* What there is of a volume is found through the control file: what Controllable says
\* of the states that it does not exempt.
Found ==
  /\ fuse
  /\ dm # {} => info.device = "dm" /\ 0 \in dm
  /\ loop # "none" => info.loop
  /\ fs => info.device # "none"

\* A native volume that is taken down, between two calls
LEMMA IdleNative ==
  ASSUME TypeInv, TakenDownInv, Idle, options.mode = "native"
  PROVE  (Remains => Found) /\ (result = "failed" => ~fuse /\ ~Remains)
<1>1. pc[Mounter] = "idle" /\ \A d \in Dismounter : pc[d] = "idle"
  BY DEF Idle, Process
<1>2. WholeInv /\ TakerInv
  BY DEF TakenDownInv
<1>3. (dm # {} => 0 \in dm) /\ (dm = {} => loop = "none")
  BY <1>1, <1>2 DEF TakerInv
<1>4. Remains => 0 \in dm
  BY <1>2, <1>3 DEF WholeInv, Remains
<1>5. 0 \in dm => fuse /\ loop = BaseLoop /\ info.device = "dm" /\ info.loop = ~options.device
  BY <1>2 DEF WholeInv, NativeInfo
<1>6. loop # "none" /\ loop = BaseLoop => ~options.device
  BY OptionsType DEF BaseLoop, TypeInv, TypeOK
<1>7. result = "failed" => ~fuse /\ ~Remains
  BY <1>2 DEF WholeInv, Bare, Remains
<1>8. QED  BY <1>3, <1>4, <1>5, <1>6, <1>7 DEF Found

LEMMA IdleVolume ==
  ASSUME TypeInv, VolumeInv, Idle, Foreseen, Undone
  PROVE  /\ Remains => Found
         /\ result = "failed" /\ faults \cap Cleanup = {} => ~fuse /\ ~Remains
<1>1. pc[Mounter] = "idle" /\ \A d \in Dismounter : pc[d] = "idle"
  BY DEF Idle, Process
<1>2. options.mode \in {"native", "image"}
  BY OptionsType DEF TypeInv, TypeOK
<1>3. CASE options.mode = "native"
  BY <1>1, <1>3, IdleNative DEF VolumeInv, NativeInv
<1>4. CASE options.mode = "image"
  <2>1. ImageInv
    BY <1>4 DEF VolumeInv
  <2>2. QED  BY <1>1, <2>1 DEF ImageInv, ImageInfo, Remains, Found, M, At
<1>5. QED  BY <1>2, <1>3, <1>4

\* A mount that failed leaves nothing of the volume behind, as long as the commands
\* that undo it work, whatever else failed and whoever dismounted meanwhile.  Exempt
\* are the failures that are given up (GivenUp), and a native volume that was
\* dismounted by another process during its mount.
THEOREM NothingIsLeft == Spec => []FailedMountLeavesNothing
<1>1. TypeInv /\ VolumeInv => FailedMountLeavesNothing
  BY IdleVolume DEF FailedMountLeavesNothing, Undone
<1>2. QED  BY Invariants, <1>1, PTL

\* As long as the commands that undo a mount work, what remains of a volume when
\* no call is in progress is found through the control file, unless a failure was
\* given up (GivenUp), or a native volume was dismounted by another process during
\* its mount.
THEOREM ControllableUnlessCleanupFails ==
  Spec => [](faults \cap Cleanup = {} => Controllable)
<1>1. TypeInv /\ VolumeInv => (faults \cap Cleanup = {} => Controllable)
  BY IdleVolume DEF Controllable, Undone, Found
<1>2. QED  BY Invariants, <1>1, PTL

\* A volume that is exported as an image is found however many commands fail and
\* whoever dismounts meanwhile, those included that Controllable exempts: its loop
\* device is lost only when sending it to the control file has failed and taking
\* it back as well.
THEOREM ImageControllable ==
  Spec => []( Idle /\ Remains /\ options.mode = "image" /\ ~({"send", "undo"} \subseteq faults)
              => Found )
<1>1. AnyImageInv => (Idle /\ Remains /\ options.mode = "image" /\ ~({"send", "undo"} \subseteq faults)
                        => Found)
  BY DEF AnyImageInv, ImageLost, ExportedInv, ImageInfo, Remains, Found, Idle, Process
<1>2. Spec => []AnyImageInv
  BY InitVolume, AnyImageStep, Invariants, PTL DEF Spec
<1>3. QED  BY <1>1, <1>2, PTL

\* When one command fails at most, what remains of a volume between two calls is
\* found through the control file.  Of a volume that is exported as an image this
\* holds whichever command that was.  Of a native volume it holds unless it was one
\* of create_next, node, remove_next and detach, which lose a device
\* (CoreLinux.cpp:403-417, 459-471), or another process dismounted the volume while
\* it was being mounted.  Controllable is part of it; it also exempts control and undo.
THEOREM RemainsControllable ==
  ASSUME MaxFaults <= 1
  PROVE  Spec => []( /\ Controllable
                     /\ \/ options.mode = "native"
                           /\ (overlapped \/ faults \cap LosesDevices # {})
                        \/ Idle /\ Remains => Found )
<1>1. Spec => [](OneFaultInv /\ AnyImageInv)
  BY InitVolume, OneFaultStep, AnyImageStep, Invariants, PTL DEF Spec
<1>2. ASSUME TypeInv, OneFaultInv, AnyImageInv, Idle, Remains,
             options.mode = "native" => ~overlapped /\ faults \cap LosesDevices = {}
      PROVE  Found
  <2>1. CASE options.mode = "native"
    <3>1. pc[Mounter] = "idle" /\ (NativeInv \/ AbandonedInv)
      BY <1>2, <2>1 DEF OneFaultInv, Idle, Process
    <3>2. ~AbandonedInv
      BY <1>2 DEF AbandonedInv, Bare, Remains
    <3>3. QED  BY <1>2, <2>1, <3>1, <3>2, IdleNative DEF NativeInv
  <2>2. CASE options.mode = "image"
    <3>1. ~ImageLost
      <4>1. SUFFICES ASSUME {"send", "undo"} \subseteq faults  PROVE FALSE
        BY DEF ImageLost
      <4>2. IsFiniteSet(faults) /\ Cardinality(faults) <= MaxFaults /\ MaxFaults \in Nat
        BY <1>2, UnixMountAssumption DEF TypeInv, TypeOK
      <4>3. Cardinality({"send"}) = 1 /\ Cardinality({"undo"}) = 1
        BY FS_Singleton
      <4>4. /\ Cardinality({"send"}) = Cardinality(faults) => faults = {"send"}
            /\ Cardinality({"send"}) <= Cardinality(faults)
        BY <4>1, <4>2, FS_Subset
      <4>5. QED  BY <4>1, <4>2, <4>3, <4>4, FS_CardinalityType
    <3>2. QED
      BY <1>2, <2>2, <3>1 DEF AnyImageInv, ExportedInv, ImageInfo, Remains, Found, Idle, Process
  <2>3. QED  BY <1>2, <2>1, <2>2, OptionsType DEF TypeInv, TypeOK
<1>3. TypeInv /\ OneFaultInv /\ AnyImageInv =>
        /\ Controllable
        /\ \/ options.mode = "native" /\ (overlapped \/ faults \cap LosesDevices # {})
           \/ Idle /\ Remains => Found
  BY <1>2 DEF Controllable, Foreseen, GivenUp, LosesDevices, Found
<1>4. QED  BY <1>1, <1>3, Invariants, PTL

\* The process whose dismount ends the service tells whether the protection of the
\* hidden volume was triggered, also by what was still cached when it began, whatever
\* other processes dismount meanwhile.  Exempt are runs with a failure that is given up
\* (GivenUp; any other command may fail) and a mount that overlapped with a dismount.
THEOREM ReportsTrigger == Spec => TriggerReported
<1>1. Init => CacheInv /\ ReportInv
  BY DEF Init, CacheInv, ReportInv, SeenInv, Lower, Process
<1>2. TypeInv /\ CommonInv /\ VolumeInv /\ CacheInv /\ ReportInv /\ [Next]_vars
        => (CacheInv /\ ReportInv)'
  BY CacheStep, ReportStep
<1>3. TypeInv /\ VolumeInv /\ CacheInv /\ ReportInv /\ [Next]_vars =>
        [\A p \in Dismounter :
           At(p, "release") /\ pc'[p] = "idle" /\ fuse /\ ~fuse'
           /\ faults \cap GivenUp = {} /\ ~overlapped
           => seen[p].triggered = (triggered \/ cache # "none")]_vars
  <2> SUFFICES ASSUME TypeInv, CacheInv, ReportInv, NEW p \in Dismounter, At(p, "release"), fuse,
                      faults \cap GivenUp = {}, ~overlapped
               PROVE  seen[p].triggered = (triggered \/ cache # "none")
    OBVIOUS
  <2>1. /\ p \in Process /\ seen[p] \in InfoType /\ triggered \in BOOLEAN
        /\ options.protect \in BOOLEAN
    BY OptionsType DEF Process, TypeInv, TypeOK, InfoType
  <2>2. SeenInv(p)
    BY DEF ReportInv
  <2>3. CASE options.protect
    BY <2>1, <2>2, <2>3 DEF SeenInv, At, InfoType
  <2>4. CASE ~options.protect
    <3>1. cache = "none" /\ ~triggered
      BY <2>4 DEF CacheInv
    <3>2. ~seen[p].triggered /\ seen[p].triggered \in BOOLEAN
      BY <2>1, <2>2, <2>4 DEF SeenInv, At, Lower, InfoType
    <3>3. QED  BY <3>1, <3>2
  <2>5. QED  BY <2>1, <2>3, <2>4
<1>4. QED  BY <1>1, <1>2, <1>3, Invariants, PTL DEF Spec, TriggerReported
=============================================================================
