-------------------------- MODULE FuseService_proof --------------------------
(***************************************************************************)
(* Proofs about FuseService, for every size of the host and its sectors,   *)
(* every place of the hidden volume, and any number of threads and         *)
(* requests.                                                               *)
(***************************************************************************)
EXTENDS FuseService, TLAPS

HostInv == host \in Host

\* The open volume lies in its host, and the protected range is the hidden volume.
VolumeInv ==
  /\ volume \in [type : {"Normal", "Hidden"},
                 protection : {"None", "ReadOnly", "HiddenVolumeReadOnly"},
                 start : 0 .. HostSize, end : 0 .. HostSize,
                 rangeStart : 0 .. HostSize, rangeEnd : 0 .. HostSize]
  /\ mounted \in {"no", "yes", "gone"}
  /\ mounted = "yes" => volume.start < volume.end
  /\ volume.protection = "HiddenVolumeReadOnly" =>
       volume.rangeStart = host.start /\ volume.rangeEnd = ProtectedEnd

StoredInv ==
  /\ written \subseteq Bytes(volume.start, volume.end)
  /\ volume.protection = "ReadOnly" => written = {}
  /\ mounted = "no" => written = {}
  /\ volume.protection = "HiddenVolumeReadOnly" => written \intersect HiddenBytes(host) = {}

ThreadType ==
  /\ pc \in [Thread -> {"idle", "read", "write", "flag", "range", "device", "answered"}]
  /\ request \in [Thread -> [op : {"read", "write"}, offset : Nat, size : Nat]]
  /\ answer \in [Thread -> [result : {"none", "ok", "missing", "EINVAL", "EPERM", "EIO"},
                            first : Nat, size : Nat]]
  /\ late \in [Thread -> BOOLEAN] /\ met \in BOOLEAN /\ triggered \in BOOLEAN
  /\ requests \in 0 .. MaxRequests

Writing == {"write", "flag", "range", "device"}

\* What the checks made so far tell of the request a thread serves.
ThreadInv ==
  \A t \in Thread :
    /\ pc[t] # "idle" => mounted = "yes"
    /\ pc[t] = "read" => request[t].offset < DataSize
    /\ pc[t] \in Writing => request[t].size > 0
    /\ pc[t] \in {"flag", "range", "device"} =>
         WithinVolume(request[t]) /\ volume.protection # "ReadOnly"
    /\ pc[t] = "range" => volume.protection = "HiddenVolumeReadOnly"
    /\ pc[t] = "device" /\ volume.protection = "HiddenVolumeReadOnly" =>
         ~Overlaps(volume.start + request[t].offset, request[t].size)

\* The histories: a late request is refused before the range is looked at, and
\* what meets the hidden volume has been noted.
TriggerInv ==
  /\ triggered => met
  /\ \A t \in Thread :
       /\ late[t] => triggered /\ pc[t] \notin {"range", "device"}
       /\ pc[t] \in {"write", "flag", "range"} /\ WithinVolume(request[t])
            /\ Target(request[t]) \intersect HiddenBytes(host) # {} => met

IInv == HostInv /\ VolumeInv /\ StoredInv /\ ThreadType /\ ThreadInv /\ TriggerInv

-----------------------------------------------------------------------------
(* Layouts.                                                                *)

LEMMA HostSizeType == HostSize \in Nat /\ SectorSize \in Nat \ {0} /\ GroupSize \in Nat \ {0}
<1>1. \A m, n \in Nat : m * n \in Nat
  OBVIOUS
<1> QED
  BY <1>1, ServiceAssumption DEF ServiceAssumption, HostSize

\* The hidden volume lies inside the host, a V1 header behind it included.
LEMMA HostFacts ==
  ASSUME NEW h \in Host
  PROVE  /\ h.start \in Nat /\ h.end \in Nat /\ h.layout \in {"V1", "V2"}
         /\ 0 < OuterStart(h.layout) /\ OuterStart(h.layout) <= h.start /\ h.start < h.end
         /\ h.end <= HostSize /\ h.end <= OuterEnd(h.layout)
         /\ OuterStart(h.layout) \in 0 .. HostSize /\ OuterEnd(h.layout) \in 0 .. HostSize
         /\ h.layout = "V1" => h.end + SectorSize <= HostSize
BY HostSizeType DEF Host, OuterStart, OuterEnd, LegacyHiddenHeader

\* CheckProtectedRange is exact: it finds a range to overlap the protected one
\* just when they have a byte in common.
LEMMA OverlapExact ==
  ASSUME HostInv, VolumeInv, volume.protection = "HiddenVolumeReadOnly",
         NEW r \in [op : {"read", "write"}, offset : Nat, size : Nat],
         r.size > 0, WithinVolume(r)
  PROVE  Overlaps(volume.start + r.offset, r.size)
           <=> Target(r) \intersect HiddenBytes(host) # {}
<1> DEFINE s == volume.start + r.offset
<1>1. /\ s \in Nat /\ r.size \in Nat \ {0} /\ s + r.size <= HostSize
      /\ volume.rangeStart = host.start /\ volume.rangeEnd = ProtectedEnd
  BY HostSizeType DEF VolumeInv, WithinVolume, DataSize
<1>2. /\ host.start \in Nat /\ ProtectedEnd \in Nat /\ host.start < ProtectedEnd
      /\ ProtectedEnd <= HostSize
  BY HostFacts, HostSizeType DEF HostInv, ProtectedEnd
<1>3. HiddenBytes(host) = Bytes(host.start, ProtectedEnd)
  BY DEF HiddenBytes, ProtectedEnd
<1>4. ASSUME Overlaps(s, r.size) PROVE Target(r) \intersect HiddenBytes(host) # {}
  <2>1. CASE s < host.start
    <3>1. host.start \in Target(r) /\ host.start \in HiddenBytes(host)
      BY <2>1, <1>1, <1>2, <1>3, <1>4, HostSizeType DEF Overlaps, Target, Bytes
    <3> QED
      BY <3>1
  <2>2. CASE ~(s < host.start)
    <3>1. s \in Target(r) /\ s \in HiddenBytes(host)
      BY <2>2, <1>1, <1>2, <1>3, <1>4, HostSizeType DEF Overlaps, Target, Bytes
    <3> QED
      BY <3>1
  <2> QED
    BY <2>1, <2>2
<1>5. ASSUME NEW b \in Target(r) \intersect HiddenBytes(host) PROVE Overlaps(s, r.size)
  BY <1>1, <1>2, <1>3, HostSizeType DEF Overlaps, Target, Bytes
<1> QED
  BY <1>4, <1>5

LEMMA TargetInVolume ==
  ASSUME VolumeInv, NEW r \in [op : {"read", "write"}, offset : Nat, size : Nat],
         WithinVolume(r)
  PROVE  Target(r) \subseteq Bytes(volume.start, volume.end)
BY HostSizeType DEF VolumeInv, WithinVolume, DataSize, Target, Bytes

\* A part of the sectors of a request is part of its target.
LEMMA PartOfTarget ==
  ASSUME VolumeInv, NEW r \in [op : {"read", "write"}, offset : Nat, size : Nat],
         NEW n \in 0 .. r.size
  PROVE  Target([r EXCEPT !.size = n]) \subseteq Target(r)
BY HostSizeType DEF VolumeInv, Target, Bytes

-----------------------------------------------------------------------------
(* The invariant holds.                                                    *)

LEMMA InitIInv == Init => IInv
<1> SUFFICES ASSUME Init PROVE IInv
  OBVIOUS
<1>1. HostInv /\ VolumeInv /\ StoredInv
  BY HostSizeType DEF Init, HostInv, VolumeInv, StoredInv, NoVolume
<1>2. ThreadType
  <2>1. NoRequest \in [op : {"read", "write"}, offset : Nat, size : Nat]
    BY DEF NoRequest
  <2>2. NoAnswer \in [result : {"none", "ok", "missing", "EINVAL", "EPERM", "EIO"},
                      first : Nat, size : Nat]
    BY DEF NoAnswer
  <2>3. requests \in 0 .. MaxRequests
    BY ServiceAssumption DEF ServiceAssumption, Init
  <2> QED
    BY <2>1, <2>2, <2>3 DEF Init, ThreadType
<1>3. ThreadInv /\ TriggerInv
  BY DEF Init, ThreadInv, TriggerInv, Writing
<1> QED
  BY <1>1, <1>2, <1>3 DEF IInv

LEMMA OpenStep ==
  ASSUME IInv, NEW type \in {"Normal", "Hidden"},
         NEW protection \in {"None", "ReadOnly", "HiddenVolumeReadOnly"},
         Open(type, protection)
  PROVE  IInv'
<1> USE DEF IInv
<1>1. HostInv'
  BY DEF HostInv, Open, Host
<1>2. VolumeInv'
  <2>1. /\ DataOf(type)[1] \in 0 .. HostSize /\ DataOf(type)[2] \in 0 .. HostSize
        /\ DataOf(type)[1] < DataOf(type)[2]
    BY HostFacts, HostSizeType DEF HostInv, DataOf
  <2>2. host.start \in 0 .. HostSize /\ ProtectedEnd \in 0 .. HostSize
    BY HostFacts, HostSizeType DEF HostInv, ProtectedEnd
  <2>3. host' = host /\ ProtectedEnd' = ProtectedEnd
    BY DEF Open, ProtectedEnd
  <2> QED
    BY <2>1, <2>2, <2>3, HostSizeType DEF VolumeInv, Open
<1>3. StoredInv'
  BY DEF StoredInv, Open
<1>4. ThreadType' /\ ThreadInv' /\ TriggerInv'
  BY DEF ThreadType, ThreadInv, TriggerInv, Open, Writing
<1> QED
  BY <1>1, <1>2, <1>3, <1>4

\* The volume, and what follows for a thread that is not concerned by a step.
LEMMA ServiceUnchanged ==
  ASSUME IInv, UNCHANGED service PROVE HostInv' /\ VolumeInv'
BY DEF IInv, HostInv, VolumeInv, service, Host, ProtectedEnd

LEMMA RequestStep ==
  ASSUME IInv, NEW t \in Thread, NEW r \in RequestFor, Request(t, r) PROVE IInv'
<1> USE DEF IInv
<1>1. HostInv' /\ VolumeInv'
  BY ServiceUnchanged DEF Request
<1>2. /\ r \in [op : {"read", "write"}, offset : Nat, size : Nat]
      /\ r.size > 0 /\ r.offset < DataSize
  <2>1. DataSize \in Int /\ ReadLengths \subseteq Nat \ {0} /\ WriteLengths \subseteq Nat \ {0}
    BY ServiceAssumption, HostSizeType DEF ServiceAssumption, DataSize, VolumeInv
  <2>2. CASE r \in [op : {"read"}, offset : 0 .. DataSize - 1, size : ReadLengths]
    <3>1. /\ r = [op |-> r.op, offset |-> r.offset, size |-> r.size]
          /\ r.op = "read" /\ r.offset \in 0 .. DataSize - 1 /\ r.size \in ReadLengths
      BY <2>2
    <3>2. r.offset \in Nat /\ r.offset < DataSize /\ r.size \in Nat \ {0}
      BY <2>1, <3>1
    <3> QED
      BY <3>1, <3>2
  <2>3. CASE r \in [op : {"write"}, offset : 0 .. DataSize - 1, size : WriteLengths]
    <3>1. /\ r = [op |-> r.op, offset |-> r.offset, size |-> r.size]
          /\ r.op = "write" /\ r.offset \in 0 .. DataSize - 1 /\ r.size \in WriteLengths
      BY <2>3
    <3>2. r.offset \in Nat /\ r.offset < DataSize /\ r.size \in Nat \ {0}
      BY <2>1, <3>1
    <3> QED
      BY <3>1, <3>2
  <2> QED
    BY <2>2, <2>3 DEF RequestFor
<1>3. StoredInv'
  BY DEF Request, service, StoredInv, HiddenBytes, Bytes
<1>4. ThreadType'
  BY <1>2, ServiceAssumption DEF ServiceAssumption, Request, ThreadType
<1>5. ThreadInv'
  BY <1>2 DEF Request, service, ThreadType, ThreadInv, Writing, WithinVolume, DataSize, Overlaps
<1>6. TriggerInv'
  BY <1>2 DEF Request, service, ThreadType, TriggerInv, WithinVolume, DataSize, Target,
     Bytes, HiddenBytes
<1> QED
  BY <1>1, <1>3, <1>4, <1>5, <1>6

LEMMA RoundedUpType ==
  ASSUME NEW n \in Nat
  PROVE  RoundedUp(n) \in Nat /\ RoundedUp(n) >= n
BY HostSizeType DEF RoundedUp

LEMMA AnswerType ==
  ASSUME ThreadType, NEW t \in Thread,
         NEW a \in [result : {"none", "ok", "missing", "EINVAL", "EPERM", "EIO"},
                   first : Nat, size : Nat],
         Answer(t, a)
  PROVE  /\ pc' \in [Thread -> {"idle", "read", "write", "flag", "range", "device", "answered"}]
         /\ answer' \in [Thread -> [result : {"none", "ok", "missing", "EINVAL", "EPERM", "EIO"},
                                   first : Nat, size : Nat]]
BY DEF ThreadType, Answer

LEMMA ErrorType ==
  ASSUME ThreadType, NEW t \in Thread,
         NEW code \in {"missing", "EINVAL", "EPERM", "EIO"}, Error(t, code)
  PROVE  /\ pc' \in [Thread -> {"idle", "read", "write", "flag", "range", "device", "answered"}]
         /\ answer' \in [Thread -> [result : {"none", "ok", "missing", "EINVAL", "EPERM", "EIO"},
                                   first : Nat, size : Nat]]
BY AnswerType DEF Error

LEMMA ReadStep == ASSUME IInv, NEW t \in Thread, ReadCallback(t) PROVE IInv'
<1> USE DEF IInv
<1> DEFINE r == request[t]
<1>1. HostInv' /\ VolumeInv'
  BY ServiceUnchanged DEF ReadCallback
<1>2. StoredInv'
  BY DEF ReadCallback, service, StoredInv, HiddenBytes, Bytes
<1>3. /\ r \in [op : {"read", "write"}, offset : Nat, size : Nat]
      /\ r.offset < DataSize /\ DataSize \in Int
  BY HostSizeType DEF ReadCallback, ThreadType, ThreadInv, VolumeInv, DataSize
<1>4. Cut(r) \in Nat /\ Skipped(r) \in Nat /\ r.offset - Skipped(r) + Skipped(r) = r.offset
  BY <1>3, HostSizeType DEF Cut, Skipped
<1>5. \E a \in [result : {"none", "ok", "missing", "EINVAL", "EPERM", "EIO"},
                first : Nat, size : Nat] : Answer(t, a)
  BY <1>3, <1>4 DEF ReadCallback, Error
<1>6. ThreadType'
  BY <1>5 DEF ThreadType, Answer, ReadCallback
<1>7. ThreadInv' /\ TriggerInv'
  BY <1>5 DEF ThreadType, ThreadInv, TriggerInv, Answer, ReadCallback, service, Writing,
     WithinVolume, DataSize, Overlaps, Target, Bytes, HiddenBytes
<1> QED
  BY <1>1, <1>2, <1>6, <1>7

LEMMA WriteStep == ASSUME IInv, NEW t \in Thread, WriteCallback(t) PROVE IInv'
<1> USE DEF IInv
<1>1. HostInv' /\ VolumeInv'
  BY ServiceUnchanged DEF WriteCallback
<1>2. StoredInv'
  BY DEF WriteCallback, service, StoredInv, HiddenBytes, Bytes
<1>3. ThreadType'
  BY ErrorType DEF WriteCallback, ThreadType
<1>4. ThreadInv' /\ TriggerInv'
  BY DEF WriteCallback, ThreadType, ThreadInv, TriggerInv, Error, Answer, service, Writing,
     WithinVolume, DataSize, Overlaps, Target, Bytes, HiddenBytes
<1> QED
  BY <1>1, <1>2, <1>3, <1>4

LEMMA FlagStep == ASSUME IInv, NEW t \in Thread, CheckTriggered(t) PROVE IInv'
<1> USE DEF IInv
<1>1. HostInv' /\ VolumeInv'
  BY ServiceUnchanged DEF CheckTriggered
<1>2. StoredInv'
  BY DEF CheckTriggered, service, StoredInv, HiddenBytes, Bytes
<1>3. ThreadType'
  BY ErrorType DEF CheckTriggered, ThreadType
<1>4. ThreadInv' /\ TriggerInv'
  BY DEF CheckTriggered, Refused, ThreadType, ThreadInv, TriggerInv, Error, Answer, service,
     Writing, WithinVolume, DataSize, Overlaps, Target, Bytes, HiddenBytes
<1> QED
  BY <1>1, <1>2, <1>3, <1>4

LEMMA RangeStep == ASSUME IInv, NEW t \in Thread, CheckProtectedRange(t) PROVE IInv'
<1> USE DEF IInv
<1> DEFINE r == request[t]
<1>1. HostInv' /\ VolumeInv'
  BY ServiceUnchanged DEF CheckProtectedRange
<1>2. StoredInv'
  BY DEF CheckProtectedRange, service, StoredInv, HiddenBytes, Bytes
<1>3. ThreadType'
  BY ErrorType DEF CheckProtectedRange, ThreadType
<1>4. ThreadInv'
  BY DEF CheckProtectedRange, ThreadType, ThreadInv, Error, Answer, service,
     Writing, WithinVolume, DataSize, Overlaps
<1>5. ASSUME Overlaps(volume.start + r.offset, r.size) PROVE met
  <2>1. Target(r) \intersect HiddenBytes(host) # {} /\ WithinVolume(r)
    BY <1>5, OverlapExact DEF CheckProtectedRange, ThreadType, ThreadInv, Writing
  <2> QED
    BY <2>1 DEF CheckProtectedRange, TriggerInv
<1>6. TriggerInv'
  BY <1>5 DEF CheckProtectedRange, ThreadType, TriggerInv, Error, Answer, service,
     WithinVolume, DataSize, Target, Bytes, HiddenBytes
<1> QED
  BY <1>1, <1>2, <1>3, <1>4, <1>6

LEMMA DeviceStep == ASSUME IInv, NEW t \in Thread, WriteDevice(t) PROVE IInv'
<1> USE DEF IInv
<1> DEFINE r == request[t]
<1>1. HostInv' /\ VolumeInv'
  BY ServiceUnchanged DEF WriteDevice
<1>2. /\ r \in [op : {"read", "write"}, offset : Nat, size : Nat] /\ r.size > 0
      /\ WithinVolume(r) /\ volume.protection # "ReadOnly" /\ mounted = "yes"
  BY DEF WriteDevice, ThreadType, ThreadInv, Writing
<1>3. written' \subseteq written \union Target(r)
  <2>1. \A n \in 0 .. r.size - 1 : Target([r EXCEPT !.size = n]) \subseteq Target(r)
    BY <1>2, PartOfTarget
  <2> QED
    BY <2>1 DEF WriteDevice
<1>4. volume.protection = "HiddenVolumeReadOnly" =>
        Target(r) \intersect HiddenBytes(host) = {}
  BY <1>2, OverlapExact DEF WriteDevice, ThreadInv
<1>5. StoredInv'
  BY <1>2, <1>3, <1>4, TargetInVolume DEF WriteDevice, service, StoredInv, HiddenBytes, Bytes
<1>6. ThreadType'
  <2>1. CASE Error(t, "EIO")
    BY <2>1, ErrorType DEF WriteDevice, ThreadType
  <2>2. CASE Answer(t, [result |-> "ok", first |-> r.offset, size |-> r.size])
    BY <2>2, <1>2, AnswerType DEF WriteDevice, ThreadType
  <2> QED
    BY <2>1, <2>2 DEF WriteDevice
<1>7. ThreadInv' /\ TriggerInv'
  BY DEF WriteDevice, ThreadType, ThreadInv, TriggerInv, Error, Answer, service,
     Writing, WithinVolume, DataSize, Overlaps, Target, Bytes, HiddenBytes
<1> QED
  BY <1>1, <1>5, <1>6, <1>7

LEMMA ReplyStep == ASSUME IInv, NEW t \in Thread, Reply(t) PROVE IInv'
<1> USE DEF IInv
<1>1. HostInv' /\ VolumeInv'
  BY ServiceUnchanged DEF Reply
<1>2. StoredInv'
  BY DEF Reply, service, StoredInv, HiddenBytes, Bytes
<1>3. ThreadType'
  BY DEF Reply, ThreadType, NoRequest, NoAnswer
<1>4. ThreadInv' /\ TriggerInv'
  BY DEF Reply, ThreadType, ThreadInv, TriggerInv, service,
     Writing, WithinVolume, DataSize, Overlaps, Target, Bytes, HiddenBytes
<1> QED
  BY <1>1, <1>2, <1>3, <1>4

LEMMA DestroyStep == ASSUME IInv, Destroy PROVE IInv'
<1> USE DEF IInv
<1>1. HostInv' /\ VolumeInv'
  BY DEF Destroy, HostInv, VolumeInv, Host, ProtectedEnd
<1>2. StoredInv'
  BY DEF Destroy, StoredInv, HiddenBytes, Bytes
<1>3. ThreadType' /\ ThreadInv' /\ TriggerInv'
  BY DEF Destroy, ThreadType, ThreadInv, TriggerInv, Writing, WithinVolume, DataSize
<1> QED
  BY <1>1, <1>2, <1>3

LEMMA NextIInv == IInv /\ [Next]_vars => IInv'
<1> SUFFICES ASSUME IInv, [Next]_vars PROVE IInv'
  OBVIOUS
<1>1. CASE UNCHANGED vars
  BY <1>1 DEF IInv, vars, service, HostInv, VolumeInv, StoredInv, ThreadType, ThreadInv,
     TriggerInv, Writing, WithinVolume, DataSize, Overlaps, Target, Bytes, HiddenBytes,
     Host, ProtectedEnd
<1>2. CASE Next
  <2>1. ASSUME NEW t \in Thread, Callback(t) PROVE IInv'
    BY <2>1, ReadStep, WriteStep, FlagStep, RangeStep, DeviceStep, ReplyStep DEF Callback
  <2> QED
    BY <1>2, <2>1, OpenStep, RequestStep, DestroyStep DEF Next
<1> QED
  BY <1>1, <1>2

LEMMA Invariance == Spec => []IInv
BY InitIInv, NextIInv, PTL DEF Spec

-----------------------------------------------------------------------------
(* Reads: the volume consists of whole sectors, so that the aligned buffer  *)
(* never reaches behind it.                                                 *)

Aligned(n) == \E k \in Nat : n = k * SectorSize

LEMMA Product ==
  \A a, b, c \in Nat : /\ a * c \in Nat /\ (a + 1) * c = a * c + c
                       /\ a <= b => a * c <= b * c
OBVIOUS

LEMMA Euclid ==
  \A n \in Nat, d \in Nat \ {0} :
    /\ n \div d \in Nat /\ n % d \in 0 .. d - 1
    /\ n = (n \div d) * d + (n % d)
OBVIOUS

LEMMA Division ==
  ASSUME NEW n \in Nat
  PROVE  /\ n \div SectorSize \in Nat /\ n % SectorSize \in 0 .. SectorSize - 1
         /\ n = (n \div SectorSize) * SectorSize + (n % SectorSize)
BY Euclid, HostSizeType

LEMMA AlignedDifference ==
  ASSUME NEW m \in Nat, NEW n \in Nat, Aligned(m), Aligned(n), n <= m
  PROVE  Aligned(m - n)
<1>1. PICK j \in Nat, k \in Nat : m = j * SectorSize /\ n = k * SectorSize
  BY DEF Aligned
<1>2. k <= j
  <2>1. ASSUME j + 1 <= k PROVE FALSE
    BY <2>1, <1>1, Product, HostSizeType
  <2> QED
    BY <2>1, <1>1
<1>3. m - n = (j - k) * SectorSize
  BY <1>1, <1>2, HostSizeType
<1> QED
  BY <1>1, <1>2, <1>3 DEF Aligned

LEMMA AlignedDown ==
  ASSUME NEW n \in Nat
  PROVE  /\ n % SectorSize \in Nat /\ n - (n % SectorSize) \in Nat
         /\ Aligned(n - (n % SectorSize))
<1> DEFINE q == n \div SectorSize
<1>1. q \in Nat /\ n % SectorSize \in Nat /\ n = q * SectorSize + (n % SectorSize)
  BY Division, HostSizeType
<1>2. q * SectorSize \in Nat
  BY <1>1, Product, HostSizeType
<1> HIDE DEF q
<1>3. n - (n % SectorSize) = q * SectorSize
  BY <1>1, <1>2
<1> QED
  BY <1>1, <1>2, <1>3 DEF Aligned

\* Rounding up does not pass a multiple of the sector size.
LEMMA RoundedUpLeast ==
  ASSUME NEW n \in Nat, NEW m \in Nat, Aligned(m), n <= m
  PROVE  RoundedUp(n) <= m
<1>1. CASE n % SectorSize = 0
  BY <1>1 DEF RoundedUp
<1>2. CASE n % SectorSize # 0
  <2> DEFINE q == n \div SectorSize
  <2>1. q \in Nat /\ n = q * SectorSize + (n % SectorSize) /\ n % SectorSize \in 1 .. SectorSize - 1
    BY <1>2, Division
  <2>2. PICK k \in Nat : m = k * SectorSize
    BY DEF Aligned
  <2>3. RoundedUp(n) = (q + 1) * SectorSize
    BY <1>2, <2>1, Product, HostSizeType DEF RoundedUp
  <2>4. q + 1 <= k
    <3>1. ASSUME k <= q PROVE FALSE
      BY <3>1, <2>1, <2>2, Product, HostSizeType
    <3> QED
      BY <3>1, <2>1, <2>2
  <2> QED
    BY <2>1, <2>2, <2>3, <2>4, Product, HostSizeType
<1> QED
  BY <1>1, <1>2

SectorInv == Aligned(volume.start) /\ Aligned(volume.end)

ReadInv ==
  \A t \in Thread :
    /\ pc[t] = "read" => request[t].op = "read"
    /\ pc[t] \in Writing => request[t].op = "write"
    /\ pc[t] = "answered" /\ request[t].op = "read" =>
         /\ answer[t].result = "ok" /\ answer[t].first = request[t].offset
         /\ answer[t].first + answer[t].size
              = IF request[t].offset + request[t].size <= DataSize
                THEN request[t].offset + request[t].size ELSE DataSize

LEMMA SectorAligned ==
  ASSUME NEW n \in Nat, n % SectorSize = 0 PROVE Aligned(n)
<1>1. n = (n \div SectorSize) * SectorSize /\ n \div SectorSize \in Nat
  BY Division, HostSizeType
<1> QED
  BY <1>1 DEF Aligned

LEMMA DataAligned ==
  ASSUME HostInv, NEW type \in {"Normal", "Hidden"}
  PROVE  Aligned(DataOf(type)[1]) /\ Aligned(DataOf(type)[2])
<1>1. Aligned(SectorSize) /\ Aligned(HostSize) /\ Aligned(GroupSize)
  <2>1. SectorSize = 1 * SectorSize /\ HostSize = Sectors * SectorSize
    BY HostSizeType DEF HostSize
  <2> QED
    BY <2>1, SectorAligned, HostSizeType, ServiceAssumption DEF ServiceAssumption, Aligned
<1>2. Aligned(OuterStart(host.layout)) /\ Aligned(OuterEnd(host.layout))
  BY <1>1, AlignedDifference, HostFacts, HostSizeType DEF HostInv, OuterStart, OuterEnd
<1>3. Aligned(host.start) /\ Aligned(host.end)
  BY SectorAligned, HostFacts DEF HostInv, Host
<1> QED
  BY <1>2, <1>3 DEF DataOf

LEMMA ReadAnswer ==
  ASSUME IInv, SectorInv, NEW t \in Thread, ReadCallback(t)
  PROVE  /\ request[t].offset - Skipped(request[t]) + Skipped(request[t]) = request[t].offset
         /\ Cut(request[t]) \in Nat
         /\ Answer(t, [result |-> "ok", first |-> request[t].offset - Skipped(request[t])
                                                   + Skipped(request[t]),
                       size |-> Cut(request[t])])
<1> DEFINE r == request[t]  k == Skipped(r)  n == Cut(r)  d == DataSize
<1>1. /\ r.offset \in Nat /\ r.size \in Nat /\ r.offset < d /\ d \in Nat
      /\ volume.start \in Nat /\ volume.start + d <= HostSize /\ volume.start <= volume.end
  BY HostSizeType DEF IInv, ReadCallback, ThreadType, ThreadInv, VolumeInv, DataSize
<1>2. n \in Nat /\ r.offset + n <= d
  BY <1>1 DEF Cut
<1>3. k \in Nat /\ k <= r.offset /\ Aligned(r.offset - k)
  <2>1. k = r.offset % SectorSize
    BY DEF Skipped
  <2>2. \A m \in Nat : m % SectorSize \in Nat /\ m - (m % SectorSize) \in Nat
                      /\ Aligned(m - (m % SectorSize))
    BY AlignedDown
  <2>3. k \in Nat /\ r.offset - k \in Nat /\ Aligned(r.offset - k)
    BY <2>1, <2>2, <1>1
  <2> QED
    BY <2>3, <1>1
<1>4. Aligned(d)
  BY <1>1, AlignedDifference DEF SectorInv, DataSize, IInv, VolumeInv
<1>5. RoundedUp(n + k) <= d - (r.offset - k) /\ n + k <= RoundedUp(n + k)
  <2>1. Aligned(d - (r.offset - k)) /\ d - (r.offset - k) \in Nat
    BY <1>1, <1>3, <1>4, AlignedDifference
  <2> QED
    BY <2>1, <1>1, <1>2, <1>3, RoundedUpLeast, RoundedUpType
<1>6. /\ ~(volume.start + (r.offset - k) + BufferSize(r) > HostSize)
      /\ volume.start + (r.offset - k) + BufferSize(r) <= HostSize
      /\ ~(k + n > BufferSize(r))
  BY <1>1, <1>2, <1>3, <1>5, RoundedUpType, HostSizeType DEF BufferSize
<1> QED
  BY <1>1, <1>2, <1>3, <1>6 DEF ReadCallback

LEMMA InitReadInv == Init => SectorInv /\ ReadInv
<1> SUFFICES ASSUME Init PROVE SectorInv /\ ReadInv
  OBVIOUS
<1>1. 0 = 0 * SectorSize
  BY HostSizeType
<1> QED
  BY <1>1 DEF Init, SectorInv, ReadInv, Aligned, NoVolume, Writing

LEMMA NextReadInv ==
  ASSUME IInv, SectorInv, ReadInv, [Next]_vars PROVE SectorInv' /\ ReadInv'
<1>1. ASSUME NEW type \in {"Normal", "Hidden"},
             NEW protection \in {"None", "ReadOnly", "HiddenVolumeReadOnly"},
             Open(type, protection)
      PROVE  SectorInv' /\ ReadInv'
  <2>1. volume'.start = DataOf(type)[1] /\ volume'.end = DataOf(type)[2]
    BY <1>1 DEF Open
  <2>2. SectorInv'
    BY <2>1, DataAligned DEF SectorInv, Aligned, IInv
  <2>3. ReadInv'
    BY <1>1 DEF Open, IInv, ThreadInv, ReadInv, Writing
  <2> QED
    BY <2>2, <2>3
<1>2. ASSUME NEW t \in Thread, NEW r \in RequestFor, Request(t, r)
      PROVE  SectorInv' /\ ReadInv'
  <2>1. r.op \in {"read", "write"}
    BY DEF RequestFor
  <2> QED
    BY <2>1, <1>2 DEF Request, service, SectorInv, Aligned, IInv, ThreadType, ReadInv, Writing,
       DataSize
<1>3. ASSUME NEW t \in Thread, ReadCallback(t) PROVE SectorInv' /\ ReadInv'
  <2>1. SectorInv'
    BY <1>3 DEF ReadCallback, service, SectorInv, Aligned
  <2>2. request[t].offset \in Nat /\ request[t].size \in Nat /\ DataSize \in Int
    BY HostSizeType DEF IInv, ThreadType, VolumeInv, DataSize
  <2>3. request[t].offset + Cut(request[t])
          = IF request[t].offset + request[t].size <= DataSize
            THEN request[t].offset + request[t].size ELSE DataSize
    BY <2>2 DEF Cut
  <2>4. Answer(t, [result |-> "ok", first |-> request[t].offset, size |-> Cut(request[t])])
    BY <1>3, ReadAnswer
  <2>5. ReadInv'
    BY <1>3, <2>3, <2>4
    DEF ReadCallback, service, Answer, IInv, ThreadType, ReadInv, Writing, DataSize
  <2> QED
    BY <2>1, <2>5
<1>4. ASSUME NEW t \in Thread,
             WriteCallback(t) \/ CheckTriggered(t) \/ CheckProtectedRange(t) \/ WriteDevice(t)
      PROVE  SectorInv' /\ ReadInv'
  BY <1>4 DEF WriteCallback, CheckTriggered, CheckProtectedRange, WriteDevice, Error, Answer,
     service, SectorInv, Aligned, IInv, ThreadType, ReadInv, Writing, DataSize
<1>5. ASSUME NEW t \in Thread, Reply(t) PROVE SectorInv' /\ ReadInv'
  BY <1>5 DEF Reply, service, SectorInv, Aligned, IInv, ThreadType, ReadInv, Writing, DataSize
<1>6. CASE Destroy \/ UNCHANGED vars
  BY <1>6 DEF Destroy, vars, service, SectorInv, Aligned, ReadInv, Writing, DataSize
<1> QED
  BY <1>1, <1>2, <1>3, <1>4, <1>5, <1>6 DEF Next, Callback

-----------------------------------------------------------------------------
(* The theorems.                                                           *)

\* For every host and every hidden volume in it, writes of any number of threads stay
\* in the data area of the volume; with protection they change no byte of the hidden
\* volume (Volume::CheckProtectedRange, Volume::WriteSectors).
THEOREM WritesSafe == Spec => []WritesStayInside
<1>1. IInv => WritesStayInside
  BY DEF IInv, StoredInv, WritesStayInside
<1> QED
  BY <1>1, Invariance, PTL

\* A write that comes after the protection was triggered never reaches the device.
THEOREM RefusalSafe == Spec => []RefusedOnceTriggered
<1>1. IInv => RefusedOnceTriggered
  BY DEF IInv, TriggerInv, RefusedOnceTriggered
<1> QED
  BY <1>1, Invariance, PTL

\* The protection is triggered by nothing but a write that meets the hidden volume.
THEOREM TriggerExact == Spec => []TriggeredByOverlap
<1>1. IInv => TriggeredByOverlap
  BY DEF IInv, TriggerInv, TriggeredByOverlap
<1> QED
  BY <1>1, Invariance, PTL

\* Whatever the sizes, a read of any alignment returns exactly the bytes asked for
\* up to the end of the volume (fuse_service_read).
THEOREM ReadCorrect == Spec => []ReadExact
<1>1. Init => IInv /\ SectorInv /\ ReadInv
  BY InitIInv, InitReadInv
<1>2. (IInv /\ SectorInv /\ ReadInv) /\ [Next]_vars => (IInv /\ SectorInv /\ ReadInv)'
  BY NextIInv, NextReadInv
<1>3. IInv /\ SectorInv /\ ReadInv => ReadExact
  BY DEF ReadInv, ReadExact
<1> QED
  BY <1>1, <1>2, <1>3, PTL DEF Spec

\* Every variable has a value of its kind, and requests are only served while the
\* volume is mounted.
THEOREM TypeCorrect == Spec => []TypeOK
<1>1. IInv => TypeOK
  BY DEF IInv, HostInv, VolumeInv, StoredInv, ThreadType, ThreadInv, TypeOK, Bytes
<1> QED
  BY <1>1, Invariance, PTL
=============================================================================
