----------------------------- MODULE FuseService -----------------------------
(***************************************************************************)
(* Volume/Volume.cpp under Driver/Fuse/FuseService.cpp: a volume opened    *)
(* for mounting and the callbacks through which the kernel reads and       *)
(* writes it.                                                              *)
(*                                                                         *)
(* An outer volume may be opened with its hidden volume protected: then    *)
(* the range of the hidden volume is remembered, and the first write that  *)
(* meets it is refused together with every later one.  libfuse runs the    *)
(* callbacks in several threads; Volume takes no lock.                     *)
(*                                                                         *)
(* Offsets and lengths are in bytes of the host file.  A V1 volume has a   *)
(* header of one sector at its start, its hidden volume a header that ends *)
(* two sectors before the end of the host and the data just before it.  A  *)
(* V2 volume has a group of headers at either end of the host.             *)
(***************************************************************************)
EXTENDS Integers, FiniteSets

CONSTANTS
  Thread,       \* threads of libfuse
  SectorSize,   \* TC_SECTOR_SIZE_LEGACY, the size of a V1 header
  Sectors,      \* sectors of the host
  GroupSize,    \* TC_VOLUME_HEADER_GROUP_SIZE
  ReadLengths, WriteLengths,  \* lengths of requests
  MaxRequests

ASSUME ServiceAssumption ==
  /\ SectorSize \in Nat \ {0} /\ Sectors \in Nat \ {0} /\ GroupSize \in Nat \ {0}
  /\ GroupSize % SectorSize = 0
  /\ ReadLengths \subseteq Nat \ {0} /\ WriteLengths \subseteq Nat \ {0}
  /\ MaxRequests \in Nat

HostSize == Sectors * SectorSize      \* VolumeHostSize

VARIABLES
  host,        \* the host: its layout, where the hidden volume's data is
  volume,      \* the open Volume: type, protection and protected range
  mounted,     \* MountedVolume: "no", "yes", or "gone" after a dismount
  triggered,   \* HiddenVolumeProtectionTriggered
  written,     \* bytes of the host that were written
  pc,          \* control state of each thread, "idle" between callbacks
  request,     \* the request a thread serves
  answer,      \* what the callback returned
  late,        \* history: the request came after the protection was triggered
  met,         \* history: a write met the hidden volume
  requests     \* number of requests

service == <<host, volume, mounted>>
vars == <<service, triggered, written, pc, request, answer, late, met, requests>>

-----------------------------------------------------------------------------
(* Layouts.                                                                *)

Bytes(start, end) == {b \in 0 .. HostSize - 1 : start <= b /\ b < end}

\* The legacy hidden header ends two sectors before the end of the host.
LegacyHiddenHeader == HostSize - 3 * SectorSize

\* GetDataOffset and GetDataSize of the layouts of a normal volume.
OuterStart(layout) == IF layout = "V1" THEN SectorSize ELSE GroupSize
OuterEnd(layout) == IF layout = "V1" THEN HostSize ELSE HostSize - GroupSize

\* Hosts on which a hidden volume can have been created.
Host ==
  {h \in [layout : {"V1", "V2"}, start : 0 .. HostSize, end : 0 .. HostSize] :
     /\ h.start % SectorSize = 0 /\ h.end % SectorSize = 0
     /\ OuterStart(h.layout) <= h.start /\ h.start < h.end
     /\ IF h.layout = "V1" THEN h.end = LegacyHiddenHeader
        ELSE h.end <= OuterEnd("V2")}

\* What belongs to the hidden volume inside the data area of the outer one.
HiddenBytes(h) ==
  Bytes(h.start, IF h.layout = "V1" THEN h.end + SectorSize ELSE h.end)

NoVolume == [type |-> "Normal", protection |-> "None", start |-> 0, end |-> 0,
             rangeStart |-> 0, rangeEnd |-> 0]

NoRequest == [op |-> "read", offset |-> 0, size |-> 0]
NoAnswer  == [result |-> "none", first |-> 0, size |-> 0]

Init ==
  /\ host \in Host /\ volume = NoVolume /\ mounted = "no"
  /\ triggered = FALSE /\ written = {}
  /\ pc = [t \in Thread |-> "idle"] /\ request = [t \in Thread |-> NoRequest]
  /\ answer = [t \in Thread |-> NoAnswer] /\ late = [t \in Thread |-> FALSE]
  /\ met = FALSE /\ requests = 0

\* VolumeDataSize
DataSize == volume.end - volume.start

-----------------------------------------------------------------------------
(* Volume::Open and FuseService::Mount.                                    *)

DataOf(type) ==
  IF type = "Hidden" THEN <<host.start, host.end>>
  ELSE <<OuterStart(host.layout), OuterEnd(host.layout)>>

\* The protected range: the data of the hidden volume and a V1 header behind it.
MutantProtectedEnd == host.end
ProtectedEnd == IF host.layout = "V1" THEN host.end + SectorSize ELSE host.end

\* The passwords given open the volume; a hidden volume is never protected from
\* itself.
Open(type, protection) ==
  /\ mounted = "no"
  /\ ~(protection = "HiddenVolumeReadOnly" /\ type = "Hidden")
  /\ volume' = [type |-> type, protection |-> protection,
                start |-> DataOf(type)[1], end |-> DataOf(type)[2],
                rangeStart |-> IF protection = "HiddenVolumeReadOnly" THEN host.start ELSE 0,
                rangeEnd |-> IF protection = "HiddenVolumeReadOnly" THEN ProtectedEnd ELSE 0]
  /\ mounted' = "yes"
  /\ UNCHANGED <<host, triggered, written, pc, request, answer, late, met, requests>>

-----------------------------------------------------------------------------
(* The callbacks.                                                          *)

\* Bytes of the host a write request is for.
Target(r) == Bytes(volume.start + r.offset, volume.start + r.offset + r.size)

WithinVolume(r) ==
  /\ r.size % SectorSize = 0 /\ r.offset % SectorSize = 0
  /\ r.offset + r.size <= DataSize

\* The kernel calls back while the volume is mounted.
Request(t, r) ==
  /\ mounted = "yes" /\ pc[t] = "idle" /\ requests < MaxRequests
  /\ pc' = [pc EXCEPT ![t] = r.op] /\ request' = [request EXCEPT ![t] = r]
  /\ late' = [late EXCEPT ![t] = triggered]
  /\ met' = (met \/ /\ r.op = "write" /\ WithinVolume(r)
                    /\ Target(r) \intersect HiddenBytes(host) # {})
  /\ requests' = requests + 1
  /\ UNCHANGED <<service, triggered, written, answer>>

Answer(t, a) ==
  /\ pc' = [pc EXCEPT ![t] = "answered"] /\ answer' = [answer EXCEPT ![t] = a]

Error(t, code) == Answer(t, [result |-> code, first |-> 0, size |-> 0])

\* fuse_service_read: cut at the end of the volume; a request that is not aligned
\* is served from an aligned buffer, of which ReadSectors fills all or nothing.
Cut(r) == IF r.offset + r.size > DataSize THEN DataSize - r.offset ELSE r.size

Skipped(r) == r.offset % SectorSize

RoundedUp(n) ==
  IF n % SectorSize = 0 THEN n ELSE n + (SectorSize - (n % SectorSize))

MutantBufferSize(r) == RoundedUp(Cut(r))
BufferSize(r) == RoundedUp(Cut(r) + Skipped(r))

ReadCallback(t) ==
  LET r == request[t]
      first == r.offset - Skipped(r)
  IN /\ pc[t] = "read"
     /\ CASE volume.start + first + BufferSize(r) > HostSize ->
               Error(t, "missing")                    \* MissingVolumeData
          [] volume.start + first + BufferSize(r) <= HostSize
             /\ Skipped(r) + Cut(r) > BufferSize(r) ->
               Error(t, "EINVAL")                     \* GetRange
          [] OTHER ->
               Answer(t, [result |-> "ok", first |-> first + Skipped(r), size |-> Cut(r)])
     /\ UNCHANGED <<service, triggered, written, request, late, met, requests>>

\* WriteSectors, up to the flag: alignment and size, a read-only volume.
WriteCallback(t) ==
  /\ pc[t] = "write"
  /\ IF ~WithinVolume(request[t]) THEN Error(t, "EINVAL")
     ELSE IF volume.protection = "ReadOnly" THEN Error(t, "EPERM")
     ELSE pc' = [pc EXCEPT ![t] = "flag"] /\ UNCHANGED answer
  /\ UNCHANGED <<service, triggered, written, request, late, met, requests>>

MutantRefused(t) == triggered /\ Target(request[t]) \intersect HiddenBytes(host) # {}
Refused(t) == triggered

CheckTriggered(t) ==
  /\ pc[t] = "flag"
  /\ IF Refused(t) THEN Error(t, "EPERM")
     ELSE /\ pc' = [pc EXCEPT ![t] =
                      IF volume.protection = "HiddenVolumeReadOnly" THEN "range" ELSE "device"]
          /\ UNCHANGED answer
  /\ UNCHANGED <<service, triggered, written, request, late, met, requests>>

\* CheckProtectedRange
MutantOverlaps(start, length) ==
  IF start < volume.rangeStart THEN start + length >= volume.rangeStart
  ELSE start <= volume.rangeEnd - 1

Overlaps(start, length) ==
  IF start < volume.rangeStart
  THEN start + length - 1 >= volume.rangeStart
  ELSE start <= volume.rangeEnd - 1

CheckProtectedRange(t) ==
  /\ pc[t] = "range"
  /\ IF Overlaps(volume.start + request[t].offset, request[t].size)
     THEN triggered' = TRUE /\ Error(t, "EPERM")
     ELSE pc' = [pc EXCEPT ![t] = "device"] /\ UNCHANGED <<triggered, answer>>
  /\ UNCHANGED <<service, written, request, late, met, requests>>

\* The encrypted copy is written; the device may fail after some sectors of it.
WriteDevice(t) ==
  /\ pc[t] = "device"
  /\ \/ /\ written' = written \union Target(request[t])
        /\ Answer(t, [result |-> "ok", first |-> request[t].offset, size |-> request[t].size])
     \/ /\ \E n \in 0 .. request[t].size - 1 :
             /\ n % SectorSize = 0
             /\ written' = written \union Target([request[t] EXCEPT !.size = n])
        /\ Error(t, "EIO")
  /\ UNCHANGED <<service, triggered, request, late, met, requests>>

\* The answer goes to the kernel and the thread takes the next request.
Reply(t) ==
  /\ pc[t] = "answered" /\ pc' = [pc EXCEPT ![t] = "idle"]
  /\ request' = [request EXCEPT ![t] = NoRequest]
  /\ answer' = [answer EXCEPT ![t] = NoAnswer]
  /\ late' = [late EXCEPT ![t] = FALSE]
  /\ UNCHANGED <<service, triggered, written, met, requests>>

Callback(t) ==
  \/ ReadCallback(t) \/ WriteCallback(t) \/ CheckTriggered(t)
  \/ CheckProtectedRange(t) \/ WriteDevice(t) \/ Reply(t)

\* fuse_service_destroy, which libfuse calls after the last callback.
Destroy ==
  /\ mounted = "yes" /\ \A t \in Thread : pc[t] = "idle"
  /\ mounted' = "gone"
  /\ UNCHANGED <<host, volume, triggered, written, pc, request, answer, late, met, requests>>

\* The kernel reads and writes from within the size that getattr reports.
RequestFor ==
  [op : {"read"}, offset : 0 .. DataSize - 1, size : ReadLengths]
    \union [op : {"write"}, offset : 0 .. DataSize - 1, size : WriteLengths]

Next ==
  \/ \E type \in {"Normal", "Hidden"},
        protection \in {"None", "ReadOnly", "HiddenVolumeReadOnly"} : Open(type, protection)
  \/ \E t \in Thread : Callback(t) \/ \E r \in RequestFor : Request(t, r)
  \/ Destroy

Spec == Init /\ [][Next]_vars

-----------------------------------------------------------------------------
(* Properties.                                                             *)

\* Every variable has a value of its kind, and a thread serves a request only
\* while the volume is mounted.
TypeOK ==
  /\ host \in Host /\ mounted \in {"no", "yes", "gone"} /\ triggered \in BOOLEAN
  /\ volume \in [type : {"Normal", "Hidden"},
                 protection : {"None", "ReadOnly", "HiddenVolumeReadOnly"},
                 start : 0 .. HostSize, end : 0 .. HostSize,
                 rangeStart : 0 .. HostSize, rangeEnd : 0 .. HostSize]
  /\ written \subseteq 0 .. HostSize - 1
  /\ pc \in [Thread -> {"idle", "read", "write", "flag", "range", "device", "answered"}]
  /\ request \in [Thread -> [op : {"read", "write"}, offset : Nat, size : Nat]]
  /\ answer \in [Thread -> [result : {"none", "ok", "missing", "EINVAL", "EPERM", "EIO"},
                            first : Nat, size : Nat]]
  /\ late \in [Thread -> BOOLEAN] /\ met \in BOOLEAN /\ requests \in 0 .. MaxRequests
  /\ mounted # "yes" => \A t \in Thread : pc[t] = "idle"

\* Through the file system no header of the mounted volume is overwritten and, with
\* protection, no byte of the hidden volume: neither its data nor a header of it
\* that lies inside the outer volume, whatever the threads interleave.  A volume
\* opened read-only is not written at all.
WritesStayInside ==
  /\ written \subseteq Bytes(volume.start, volume.end)
  /\ volume.protection = "HiddenVolumeReadOnly" => written \intersect HiddenBytes(host) = {}
  /\ volume.protection = "ReadOnly" => written = {}

\* Once a write was refused for the sake of the hidden volume, no write that comes
\* later reaches the device, wherever it goes.
RefusedOnceTriggered == \A t \in Thread : late[t] => pc[t] \notin {"range", "device"}

\* The protection, which stops all writing, is only triggered by a write that
\* would have changed the hidden volume: not by one that ends just before it or
\* begins just behind it.
TriggeredByOverlap == triggered => met

\* A read, however aligned, returns the bytes asked for up to the end of the
\* volume, and all of them.
ReadExact ==
  \A t \in Thread :
    pc[t] = "answered" /\ request[t].op = "read" =>
      /\ answer[t].result = "ok" /\ answer[t].first = request[t].offset
      /\ answer[t].first + answer[t].size
           = IF request[t].offset + request[t].size <= DataSize
             THEN request[t].offset + request[t].size ELSE DataSize
=============================================================================
