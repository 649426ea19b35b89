------------------------------ MODULE UnixMount ------------------------------
(***************************************************************************)
(* Mounting and dismounting a volume on Linux: Core/Unix/CoreUnix.cpp,     *)
(* Core/Unix/Linux/CoreLinux.cpp and the control file of                   *)
(* Driver/Fuse/FuseService.cpp.                                            *)
(*                                                                         *)
(* MountVolume builds a stack: the FUSE service, then either the devices   *)
(* of the kernel (a loop device over the container and one dm-crypt device *)
(* per cipher) or a loop device over the image that the service exports,   *)
(* and the file system on top.  The only record of the stack is what is    *)
(* sent to the control file of the service; a process that dismounts the   *)
(* volume reads it there and works from that copy while others may do the  *)
(* same.  Every step is a command that may fail.                           *)
(*                                                                         *)
(* One volume is modelled; the device mapper, the loop driver, umount and  *)
(* the page cache are external and modelled by what the code relies on.    *)
(***************************************************************************)
EXTENDS Integers, FiniteSets

CONSTANTS
  Mounter,      \* the process that mounts the volume
  Dismounter,   \* processes that dismount it: interface, timer, signal handler
  MaxCiphers,   \* ciphers of a cascade
  MaxFaults     \* commands that fail

ASSUME UnixMountAssumption ==
  /\ Mounter \notin Dismounter /\ IsFiniteSet(Dismounter)
  /\ MaxCiphers \in Nat \ {0} /\ MaxFaults \in Nat

Process == Dismounter \cup {Mounter}

VARIABLES
  options,    \* MountOptions of the volume, and what kind of volume it is
  fuse,       \* the FUSE service is mounted
  loop,       \* "none", or what the loop device is attached to
  dm,         \* dm-crypt devices of the cascade by depth, 0 being the top
  fs,         \* the file system of the volume is mounted
  cache,      \* where a write to the protected hidden volume is cached
  info,       \* OpenVolumeInfo: what the control file says of the devices
  triggered,  \* HiddenVolumeProtectionTriggered of the mounted volume
  pc,         \* the step of each process
  seen,       \* the VolumeInfo each process works with
  depth,      \* the dm-crypt device each process creates or removes next
  result,     \* how the last call of MountVolume ended
  faults,     \* the commands that have failed
  overlapped  \* history: a dismount was in progress during the current mount

stack   == <<fuse, loop, dm, fs>>
service == <<info, triggered>>
calls   == <<seen, depth>>
vars    == <<options, stack, cache, service, pc, calls, result, faults, overlapped>>

\* A hidden volume is protected by the service only, never by the kernel.
Options == {o \in [mode : {"native", "image"}, ciphers : 1 .. MaxCiphers, protect : BOOLEAN,
                   filesystem : BOOLEAN, device : BOOLEAN] :
              /\ o.mode = "native" => ~o.protect
              /\ o.mode = "image" => o.ciphers = 1 /\ ~o.device}
NoDevices == [device |-> "none", loop |-> FALSE]
Nothing == [device |-> "none", loop |-> FALSE, mounted |-> FALSE, protect |-> FALSE,
            triggered |-> FALSE]
\* GetMountedVolumes: the mount point is found by the virtual device.
VolumeInfo == [device |-> info.device, loop |-> info.loop,
               mounted |-> fs /\ info.device # "none", protect |-> options.protect,
               triggered |-> triggered]

Init == /\ options \in Options
        /\ fuse = FALSE /\ loop = "none" /\ dm = {} /\ fs = FALSE /\ cache = "none"
        /\ info = NoDevices /\ triggered = FALSE /\ faults = {}
        /\ overlapped = FALSE
        /\ pc = [p \in Process |-> "idle"] /\ seen = [p \in Process |-> Nothing]
        /\ depth = [p \in Process |-> 0] /\ result = "none"

Steps == {"idle", "service", "directory", "attach", "create", "test", "mount", "send",
          "undo_fs", "undo_dm", "undo_loop", "image", "send_image", "undo_image",
          "mount_image", "rollback", "find", "umount", "remove", "detach", "sync",
          "reread", "release"}
Commands == {"fuse", "control", "mkdir", "attach", "create", "create_next", "node", "test",
             "mount", "send", "undo", "umount", "rmdir", "remove", "remove_next", "detach",
             "release"}

TypeOK ==
  /\ options \in Options /\ fuse \in BOOLEAN /\ loop \in {"none", "container", "image"}
  /\ dm \subseteq 0 .. options.ciphers - 1 /\ fs \in BOOLEAN
  /\ cache \in {"none", "fs", "loop", "image"} /\ triggered \in BOOLEAN
  /\ info \in [device : {"none", "loop", "dm"}, loop : BOOLEAN]
  /\ pc \in [Process -> Steps] /\ depth \in [Process -> 0 .. MaxCiphers]
  /\ seen \in [Process -> [device : {"none", "loop", "dm"}, loop : BOOLEAN, mounted : BOOLEAN,
                           protect : BOOLEAN, triggered : BOOLEAN]]
  /\ result \in {"none", "mounted", "failed"}
  /\ faults \subseteq Commands /\ Cardinality(faults) <= MaxFaults
  /\ overlapped \in BOOLEAN

Idle == \A p \in Process : pc[p] = "idle"

-----------------------------------------------------------------------------
(* Commands and control.                                                   *)

\* A command that fails for a reason of its own, once each.
Fails(command) == /\ command \notin faults /\ Cardinality(faults) < MaxFaults
                  /\ faults' = faults \cup {command}
Works == UNCHANGED faults

At(p, step) == pc[p] = step
Go(p, step) == /\ pc' = [pc EXCEPT ![p] = step] /\ UNCHANGED <<seen, result>>
               /\ depth' = [depth EXCEPT ![p] = 0]
\* The call ends; what a mount that dismounts again returns is that it failed.
Return(p, outcome) == /\ pc' = [pc EXCEPT ![p] = "idle"]
                      /\ seen' = [seen EXCEPT ![p] = Nothing]
                      /\ depth' = [depth EXCEPT ![p] = 0]
                      /\ result' = IF p = Mounter THEN outcome ELSE result

\* A write of the user that the protection will refuse is cached ...
Write == /\ options.protect /\ cache = "none"
         /\ \/ fs /\ cache' = "fs"
            \/ ~options.filesystem /\ info.loop /\ loop = "image" /\ cache' = "loop"
         /\ UNCHANGED <<options, stack, service, pc, calls, result, faults>>

\* ... until the kernel passes it on to the service.
Flush == /\ cache' = "none" /\ triggered' = (triggered \/ cache # "none")
WriteBack == /\ cache # "none" /\ Flush
             /\ UNCHANGED <<options, stack, info, pc, calls, result, faults>>

DevicesFree == IF loop = "container" THEN dm = {} ELSE ~fs
LosetupDetach == /\ loop # "none" /\ DevicesFree /\ loop' = "none"
                 /\ cache' = IF cache = "loop" THEN "image" ELSE cache
                 /\ UNCHANGED <<fuse, dm, fs>>
Umount == /\ fs /\ fs' = FALSE /\ cache' = IF cache = "fs" THEN "loop" ELSE cache
          /\ UNCHANGED <<fuse, loop, dm>>

-----------------------------------------------------------------------------
(* DismountVolume, in any process.                                         *)

BeginDismount(p) ==
  /\ p \in Dismounter /\ At(p, "idle") /\ fuse
  /\ overlapped' = (overlapped \/ pc[Mounter] # "idle")
  /\ pc' = [pc EXCEPT ![p] = "umount"] /\ seen' = [seen EXCEPT ![p] = VolumeInfo]
  /\ UNCHANGED <<options, stack, cache, service, depth, result, faults>>

\* The file system; the default mount directory is deleted with it.
DismountFilesystem(p) ==
  /\ At(p, "umount")
  /\ \/ ~seen[p].mounted /\ Go(p, "remove") /\ Works /\ UNCHANGED <<stack, cache>>
     \/ seen[p].mounted /\ Umount /\ Go(p, "remove") /\ Works
     \/ seen[p].mounted /\ Umount /\ Fails("rmdir") /\ Return(p, "failed")
     \/ /\ seen[p].mounted /\ Return(p, "failed") /\ UNCHANGED <<stack, cache>>
        /\ (~fs /\ Works) \/ Fails("umount")
  /\ UNCHANGED <<options, service>>

\* DismountNativeVolume: the device and those below it, as long as they exist.
Removable(d) == (d = 0 => ~fs) /\ d - 1 \notin dm
RemoveFails(d) == \/ ~Removable(d) /\ Works
                  \/ Fails(IF d = 0 THEN "remove" ELSE "remove_next")
RemoveDevice(p) ==
  /\ depth[p] \in dm /\ Removable(depth[p]) /\ Works
  /\ dm' = dm \ {depth[p]} /\ depth' = [depth EXCEPT ![p] = @ + 1]
  /\ UNCHANGED <<pc, seen, result, fuse, loop, fs, cache>>
MutantRemoveFailed(p) == Go(p, "detach")
RemoveFailed(p) == Return(p, "failed")
DismountNativeVolume(p) ==
  /\ At(p, "remove")
  /\ \/ seen[p].device = "dm" /\ RemoveDevice(p)
     \/ /\ seen[p].device = "dm" => depth[p] \notin dm
        /\ Go(p, "detach") /\ Works /\ UNCHANGED <<stack, cache>>
     \/ /\ seen[p].device = "dm" /\ depth[p] \in dm /\ RemoveFails(depth[p])
        /\ RemoveFailed(p) /\ UNCHANGED <<stack, cache>>
  /\ UNCHANGED <<options, service>>

\* The result of losetup is ignored.  Of what was seen, only the report is needed
\* from here on.
MutantAfterDetach(p) == IF seen[p].protect THEN "reread" ELSE "release"
AfterDetach(p) == IF seen[p].protect THEN "sync" ELSE "release"
DetachLoopDevice(p) ==
  /\ At(p, "detach") /\ pc' = [pc EXCEPT ![p] = AfterDetach(p)]
  /\ seen' = [seen EXCEPT ![p] = [Nothing EXCEPT !.triggered = seen[p].triggered]]
  /\ \/ seen[p].loop /\ LosetupDetach /\ Works
     \/ /\ UNCHANGED <<stack, cache>>
        /\ \/ ~(seen[p].loop /\ loop # "none" /\ DevicesFree) /\ Works
           \/ seen[p].loop /\ Fails("detach")
  /\ UNCHANGED <<options, service, depth, result>>

\* With a protected hidden volume all is flushed and the information read again.
Sync(p) == /\ At(p, "sync") /\ Flush /\ Go(p, "reread")
           /\ UNCHANGED <<options, stack, info, faults>>
Reread(p) ==
  /\ At(p, "reread") /\ pc' = [pc EXCEPT ![p] = "release"]
  /\ seen' = [seen EXCEPT ![p].triggered = IF fuse THEN triggered ELSE @]
  /\ UNCHANGED <<options, stack, cache, service, depth, result, faults>>

\* umount of the service is tried for two seconds while it is in use.
Release(p) ==
  /\ At(p, "release") /\ UNCHANGED <<options, loop, dm, fs>>
  /\ \/ /\ fuse /\ loop # "image" /\ fuse' = FALSE /\ Works
        /\ info' = NoDevices /\ triggered' = FALSE /\ cache' = "none"
        /\ Return(p, "failed")
     \/ /\ ((~fuse \/ loop = "image") /\ Works) \/ Fails("release")
        /\ Return(p, "failed") /\ UNCHANGED <<fuse, service, cache>>

-----------------------------------------------------------------------------
(* MountVolume.                                                            *)

\* IsVolumeMounted is false.
BeginMount ==
  /\ At(Mounter, "idle") /\ ~fuse /\ options' \in Options
  /\ overlapped' = (\E d \in Dismounter : pc[d] # "idle")
  /\ dm = {} /\ loop = "none" /\ ~fs        \* bound: no leak is mounted over
  /\ pc' = [pc EXCEPT ![Mounter] = "service"]
  /\ result' = "none" /\ UNCHANGED <<stack, cache, service, calls, faults>>

M(step) == At(Mounter, step)
Goto(step) == Go(Mounter, step)
\* The step is a command: it works and changes what it is for, or it fails.
Proceed(next) == Goto(next) /\ Works
Fail(command, next) == Fails(command) /\ Goto(next) /\ UNCHANGED <<stack, cache, service>>
\* The command cannot work because others changed the stack meanwhile.
Refused(next) == Works /\ Goto(next) /\ UNCHANGED <<stack, cache, service>>

\* FuseService::Mount gives up when the control file does not appear in time,
\* and then leaves the service to itself.
StartService ==
  /\ M("service") /\ UNCHANGED <<options, loop, dm, fs, cache, service>>
  /\ \/ fuse' = TRUE /\ Proceed("directory")
     \/ fuse' = TRUE /\ Fails("control") /\ Return(Mounter, "failed")
     \/ fuse' = FALSE /\ Fails("fuse") /\ Return(Mounter, "failed")

NextLayer == IF options.mode = "image" THEN "image" ELSE "attach"
MakeDirectory ==
  /\ M("directory") /\ UNCHANGED options
  /\ \/ Proceed(NextLayer) /\ UNCHANGED <<stack, cache, service>>
     \/ options.filesystem /\ Fail("mkdir", "rollback")

\* MountVolumeNative: the devices of the kernel, from a loop device over a container.
Base == options.ciphers - 1
AttachContainer ==
  /\ M("attach") /\ UNCHANGED options
  /\ \/ /\ loop' = (IF options.device THEN "none" ELSE "container") /\ Works
        /\ pc' = [pc EXCEPT ![Mounter] = "create"]
        /\ depth' = [depth EXCEPT ![Mounter] = Base]
        /\ UNCHANGED <<fuse, dm, fs, cache, service, seen, result>>
     \/ ~options.device /\ Fail("attach", "rollback")

\* dmsetup, from the cipher next to the container to the one on top
HasLower(d) == IF d = Base THEN options.device \/ loop = "container" ELSE d + 1 \in dm
CreateDevice ==
  LET d == depth[Mounter] IN
  /\ M("create") /\ UNCHANGED options
  /\ \/ /\ d \notin dm /\ HasLower(d) /\ dm' = dm \cup {d} /\ Works
        /\ pc' = [pc EXCEPT ![Mounter] = IF d = 0 THEN "test" ELSE "create"]
        /\ depth' = [depth EXCEPT ![Mounter] = IF d = 0 THEN 0 ELSE d - 1]
        /\ UNCHANGED <<fuse, loop, fs, cache, service, seen, result>>
     \/ (d \in dm \/ ~HasLower(d)) /\ Refused("undo_dm")
     \/ Fail(IF d = Base THEN "create" ELSE "create_next", "undo_dm")
     \/ /\ d \notin dm /\ HasLower(d) /\ dm' = dm \cup {d}     \* its node does not appear
        /\ Fails("node") /\ Goto("undo_loop") /\ UNCHANGED <<fuse, loop, fs, cache, service>>

\* The last sector is read through the device and through the service's volume.
TestDevice ==
  /\ M("test") /\ UNCHANGED options
  /\ \/ 0 \in dm /\ Proceed("mount") /\ UNCHANGED <<stack, cache, service>>
     \/ 0 \notin dm /\ Refused("undo_dm")
     \/ Fail("test", "undo_dm")

MountNative ==
  /\ M("mount") /\ UNCHANGED options
  /\ \/ /\ options.filesystem => 0 \in dm
        /\ fs' = options.filesystem /\ Proceed("send")
        /\ UNCHANGED <<fuse, loop, dm, cache, service>>
     \/ options.filesystem /\ 0 \notin dm /\ Refused("undo_dm")
     \/ options.filesystem /\ Fail("mount", "undo_dm")

\* SendAuxDeviceInfo: the control file takes it once.
MutantSendFailed == "undo_dm"
SendFailed == "undo_fs"
CanSend == fuse /\ info = NoDevices
SendNative ==
  /\ M("send") /\ UNCHANGED options
  /\ \/ CanSend /\ info' = [device |-> "dm", loop |-> ~options.device] /\ Proceed("find")
        /\ UNCHANGED <<stack, cache, triggered>>
     \/ ~CanSend /\ Refused(SendFailed)
     \/ Fail("send", SendFailed)

\* What MountVolumeNative undoes, whether or not a command of it fails.
UndoFilesystem ==
  /\ M("undo_fs") /\ UNCHANGED options
  /\ \/ Umount /\ Proceed("undo_dm") /\ UNCHANGED service
     \/ ~fs /\ Refused("undo_dm")
     \/ options.filesystem /\ Fail("undo", "undo_dm")
UndoDevices ==
  LET d == depth[Mounter] IN
  /\ M("undo_dm") /\ UNCHANGED <<options, service>>
  /\ \/ RemoveDevice(Mounter)
     \/ d \notin dm /\ Proceed("undo_loop") /\ UNCHANGED <<stack, cache>>
     \/ d \in dm /\ RemoveFails(d) /\ Goto("undo_loop") /\ UNCHANGED <<stack, cache>>
UndoLoop(step) ==
  /\ M(step) /\ UNCHANGED <<options, service>> /\ Goto("rollback")
  /\ \/ loop # "none" /\ LosetupDetach /\ Works
     \/ /\ UNCHANGED <<stack, cache>>
        /\ \/ (loop = "none" \/ ~DevicesFree) /\ Works
           \/ loop # "none" /\ Fails("undo")

\* MountAuxVolumeImage: a loop device over the image of the service.
AttachImage ==
  /\ M("image") /\ UNCHANGED options
  /\ \/ fuse /\ loop' = "image" /\ Proceed("send_image")
        /\ UNCHANGED <<fuse, dm, fs, cache, service>>
     \/ ~fuse /\ Refused("rollback")
     \/ Fail("attach", "rollback")
SendImage ==
  /\ M("send_image") /\ UNCHANGED options
  /\ \/ CanSend /\ info' = [device |-> "loop", loop |-> TRUE] /\ Proceed("mount_image")
        /\ UNCHANGED <<stack, cache, triggered>>
     \/ ~CanSend /\ Refused("undo_image")
     \/ Fail("send", "undo_image")
MountImage ==
  /\ M("mount_image") /\ UNCHANGED options
  /\ \/ /\ options.filesystem => loop = "image"
        /\ fs' = options.filesystem /\ Proceed("find")
        /\ UNCHANGED <<fuse, loop, dm, cache, service>>
     \/ options.filesystem /\ loop # "image" /\ Refused("rollback")
     \/ options.filesystem /\ Fail("mount", "rollback")

\* Whatever failed, the volume of this path is dismounted if it is found.
Rollback ==
  /\ M("rollback") /\ UNCHANGED <<options, stack, cache, service, faults>>
  /\ IF fuse
     THEN /\ pc' = [pc EXCEPT ![Mounter] = "umount"]
          /\ seen' = [seen EXCEPT ![Mounter] = VolumeInfo]
          /\ UNCHANGED <<depth, result>>
     ELSE Return(Mounter, "failed")

\* GetMountedVolumes must find one volume; there is no rollback any more.
FindMounted ==
  /\ M("find") /\ Return(Mounter, IF fuse THEN "mounted" ELSE "failed")
  /\ UNCHANGED <<options, stack, cache, service, faults>>

-----------------------------------------------------------------------------
MountVolume ==
  /\ \/ StartService \/ MakeDirectory \/ AttachContainer \/ CreateDevice \/ TestDevice
     \/ MountNative \/ SendNative \/ UndoFilesystem \/ UndoDevices
     \/ UndoLoop("undo_loop") \/ UndoLoop("undo_image")
     \/ AttachImage \/ SendImage \/ MountImage \/ Rollback \/ FindMounted
  /\ UNCHANGED overlapped
DismountVolume(p) ==
  /\ \/ DismountFilesystem(p) \/ DismountNativeVolume(p) \/ DetachLoopDevice(p)
     \/ Sync(p) \/ Reread(p) \/ Release(p)
  /\ UNCHANGED overlapped
User == (Write \/ WriteBack) /\ UNCHANGED overlapped

Next == \/ BeginMount \/ MountVolume \/ User
        \/ \E p \in Process : BeginDismount(p) \/ DismountVolume(p)

Spec == Init /\ [][Next]_vars

-----------------------------------------------------------------------------
(* Properties.                                                             *)

\* Failures after which MountVolume or DismountVolume leave something behind
\* that the program does not know of.
GivenUp == {"control", "create_next", "node", "undo", "remove_next", "detach"}
\* Failures of what a rollback does itself
Cleanup == {"umount", "rmdir", "remove", "release"}

\* What the properties take for granted: no failure that is given up, and no native
\* volume dismounted by one process while another still mounts it.
Foreseen == faults \cap GivenUp = {} /\ ~(options.mode = "native" /\ overlapped)

Remains == fs \/ dm # {} \/ loop # "none"

\* While no call is in progress, whatever there is of a volume can be found
\* through the control file and taken down from there, also after calls that
\* failed half-way or ran against each other (CoreUnix.cpp:86-147, 272-290).
Controllable ==
  Idle /\ Foreseen /\ Remains =>
    /\ fuse
    /\ dm # {} => info.device = "dm" /\ 0 \in dm
    /\ loop # "none" => info.loop
    /\ fs => info.device # "none"

\* A mount that failed leaves nothing of the volume behind (CoreLinux.cpp:461-486,
\* CoreUnix.cpp:567-583) if the commands of the rollback work.
FailedMountLeavesNothing ==
  Idle /\ Foreseen /\ result = "failed" /\ faults \cap Cleanup = {} =>
    ~fuse /\ ~Remains

\* The process that dismounts a volume whose protection was triggered, by a write
\* that may still have been cached when it began, says so (CoreUnix.cpp:111-118).
TriggerReported ==
  [][\A p \in Dismounter :
       At(p, "release") /\ pc'[p] = "idle" /\ fuse /\ ~fuse'
       /\ faults \cap GivenUp = {} /\ ~overlapped
       => seen[p].triggered = (triggered \/ cache # "none")]_vars
=============================================================================
