-------------------------- MODULE CoreService_proof --------------------------
(***************************************************************************)
(* Proofs about CoreService, for any number of callers, requests and       *)
(* processes started through sudo: messages without numbers, sent again    *)
(* and answered late over shared pipes, are never mixed up.                *)
(***************************************************************************)
EXTENDS CoreService, SequenceTheorems, TLAPS

Zero == [service |-> 0, elevated |-> 0]
Serving == {"start", "late", "forward", "answer"}

\* One caller at a time is outside of its idle state, and its request is the last one.
CallerInv ==
  /\ \A c \in Caller \ {mutex} : caller[c] = "idle" /\ request[c] = NoRequest
  /\ mutex # NoCaller => /\ caller[mutex] # "idle" /\ request[mutex] \in Request
                         /\ request[mutex].id = serial

\* The service works on the request that a caller waits for.
ServingInv ==
  IF service \in Serving
  THEN mutex # NoCaller /\ caller[mutex] = "wait" /\ served = request[mutex] /\ responses = <<>>
  ELSE served = NoRequest

\* What is in the pipe to the service besides ExitRequest: each part of the one
\* request at most once, and nothing when it was taken, answered or not yet sent.
PipeInv ==
  service # "ended" => \A i \in DOMAIN requests : requests[i].of # Exit =>
    /\ mutex # NoCaller /\ caller[mutex] \in {"rest", "wait"}
    /\ service = "read" /\ responses = <<>> /\ requests[i].of = request[mutex]
    /\ caller[mutex] = "rest" => requests[i].part = 1
    /\ \A j \in DOMAIN requests :
         requests[j].of # Exit /\ requests[j].part = requests[i].part => j = i

ResponseInv ==
  responses # <<>> =>
    /\ Len(responses) = 1 /\ answers = <<>> /\ service \in {"read", "ended"}
    /\ mutex # NoCaller /\ caller[mutex] = "wait" /\ responses[1].id = serial

\* The elevated process that the service knows has died.
Dead == elevated /\ attempt[current].state = "none"
PassedOn == service = "answer" /\ served.elevate

ElevatedInv ==
  /\ forwarded # <<>> => elevated
  /\ elevated \/ service \in {"start", "late"} => current \in Attempt
  /\ service \in {"start", "late"} => ~elevated /\ served.elevate
  /\ service = "forward" => elevated /\ served.elevate
  /\ PassedOn => elevated
  /\ answers # <<>> => /\ Len(answers) = 1 /\ PassedOn /\ answers[1].id = serial
                       /\ answers[1].outcome # "elevation_failed"

\* A living elevated process finds the request that the service works on in its
\* pipe, or has answered it; after it died, what it has not read stays there.
ForwardInv ==
  Dead \/ \/ forwarded = <<>>
          \/ PassedOn /\ forwarded = <<served>> /\ answers = <<>>
          \/ service = "ended" /\ forwarded = <<Exit>>

\* The last request is carried out with its response; all others at most once.
ExecutedInv ==
  /\ \A i \in Serial : /\ executed[i].service + executed[i].elevated <= 1
                       /\ i > serial => executed[i] = Zero
  /\ mutex # NoCaller =>
       /\ executed[serial][IF request[mutex].elevate THEN "service" ELSE "elevated"] = 0
       /\ \/ caller[mutex] # "wait"
          \/ service # "ended" /\ responses = <<>> /\ answers = <<>>
          \/ responses # <<>> /\ responses[1].outcome = "elevation_failed"
          => executed[serial] = Zero

IInv == /\ TypeOK /\ CallerInv /\ ServingInv /\ PipeInv /\ ResponseInv /\ ElevatedInv
        /\ ForwardInv /\ ExecutedInv

-----------------------------------------------------------------------------
(* Sequences as the pipes use them.                                        *)

PipePart == [of : Request \cup {Exit}, part : {1, 2}]
Answer == [id : Serial, outcome : Outcomes]
Process == [state : {"none", "asking", "denied", "launched", "elevated"},
            input : {"open", "synced", "closed"}]

LEMMA Appended ==
  ASSUME NEW S, NEW s \in Seq(S), NEW e \in S
  PROVE  /\ Append(s, e) \in Seq(S) /\ Append(s, e) # <<>>
         /\ \A i \in DOMAIN Append(s, e) :
              \/ i \in DOMAIN s /\ Append(s, e)[i] = s[i]
              \/ i = Len(s) + 1 /\ Append(s, e)[i] = e
         /\ s = <<>> => Append(s, e) = <<e>>
<1>1. /\ Append(s, e) \in Seq(S) /\ Len(Append(s, e)) = Len(s) + 1
      /\ \A i \in 1 .. Len(s) : Append(s, e)[i] = s[i]
      /\ Append(s, e)[Len(s) + 1] = e /\ Append(s, e) # <<>>
  BY AppendProperties
<1>2. /\ Len(s) \in Nat /\ DOMAIN s = 1 .. Len(s)
      /\ DOMAIN Append(s, e) = 1 .. Len(Append(s, e))
  BY <1>1, LenProperties
<1>3. \A i \in DOMAIN Append(s, e) : i \in DOMAIN s \/ i = Len(s) + 1
  BY <1>1, <1>2
<1>4. s = <<>> => Append(s, e) = <<e>>
  OBVIOUS
<1> QED
  BY <1>1, <1>2, <1>3, <1>4

LEMMA Rest ==
  ASSUME NEW S, NEW s \in Seq(S), s # <<>>
  PROVE  /\ Tail(s) \in Seq(S) /\ Head(s) = s[1] /\ Head(s) \in S /\ Len(s) >= 1
         /\ \A i \in DOMAIN Tail(s) : i + 1 \in DOMAIN s /\ Tail(s)[i] = s[i + 1]
         /\ Len(s) = 1 => Tail(s) = <<>>
<1>1. /\ Tail(s) \in Seq(S) /\ Head(s) \in S /\ Len(Tail(s)) = Len(s) - 1
      /\ \A i \in 1 .. Len(Tail(s)) : Tail(s)[i] = s[i + 1]
  BY HeadTailProperties
<1>2. /\ Len(s) \in Nat /\ Len(s) # 0 /\ DOMAIN s = 1 .. Len(s)
      /\ DOMAIN Tail(s) = 1 .. Len(Tail(s))
  BY <1>1, LenProperties, EmptySeq
<1>3. Head(s) = s[1]
  OBVIOUS
<1>4. ASSUME Len(s) = 1 PROVE Tail(s) = <<>>
  <2>1. Len(Tail(s)) = 0
    BY <1>1, <1>4
  <2> QED
    BY <1>1, <2>1, EmptySeq
<1>5. \A i \in DOMAIN Tail(s) : i + 1 \in DOMAIN s
  BY <1>1, <1>2
<1> QED
  BY <1>1, <1>2, <1>3, <1>4, <1>5

LEMMA TwoRead ==
  ASSUME NEW S, NEW s \in Seq(S), Len(s) >= 2
  PROVE  /\ Tail(Tail(s)) \in Seq(S) /\ 1 \in DOMAIN s /\ 2 \in DOMAIN s /\ s[1] \in S
         /\ \A i \in DOMAIN Tail(Tail(s)) :
              /\ i \in Nat \ {0} /\ i + 2 \in DOMAIN s /\ s[i + 2] \in S
              /\ Tail(Tail(s))[i] = s[i + 2]
<1>1. Len(s) \in Nat /\ s # <<>> /\ DOMAIN s = 1 .. Len(s) /\ \A i \in 1 .. Len(s) : s[i] \in S
  BY LenProperties, ElementOfSeq, EmptySeq
<1>2. /\ Tail(s) \in Seq(S) /\ Len(Tail(s)) = Len(s) - 1
      /\ \A i \in 1 .. Len(Tail(s)) : Tail(s)[i] = s[i + 1]
  BY <1>1, HeadTailProperties
<1>3. ASSUME Tail(s) = <<>> PROVE FALSE
  <2>1. Len(Tail(s)) = 0
    BY <1>3, EmptySeq
  <2>2. Len(s) \in Nat /\ Len(s) - 1 = 0
    BY <1>1, <1>2, <2>1
  <2>3. \A n \in Nat : n >= 2 => n - 1 # 0
    OBVIOUS
  <2> QED
    BY <2>2, <2>3
<1>4. /\ Tail(Tail(s)) \in Seq(S) /\ Len(Tail(Tail(s))) = Len(s) - 2
      /\ \A i \in 1 .. Len(Tail(Tail(s))) : Tail(Tail(s))[i] = Tail(s)[i + 1]
  <2>1. /\ Tail(Tail(s)) \in Seq(S) /\ Len(Tail(Tail(s))) = Len(Tail(s)) - 1
        /\ \A i \in 1 .. Len(Tail(Tail(s))) : Tail(Tail(s))[i] = Tail(s)[i + 1]
    BY <1>2, <1>3, HeadTailProperties
  <2> QED
    BY <1>1, <1>2, <2>1
<1>5. DOMAIN Tail(Tail(s)) = 1 .. Len(s) - 2
  BY <1>4, LenProperties
<1> QED
  BY <1>1, <1>2, <1>4, <1>5

LEMMA Single ==
  ASSUME NEW e
  PROVE  /\ Len(<<e>>) = 1 /\ <<e>>[1] = e /\ Head(<<e>>) = e /\ Tail(<<e>>) = <<>>
         /\ <<e>> # <<>> /\ \A i \in DOMAIN <<e>> : i = 1
  OBVIOUS

LEMMA Ids ==
  /\ Exit = NoRequest /\ Exit \notin Request /\ \A r \in Request : r.id \in Serial /\ r # Exit
  /\ Serial \subseteq Nat /\ 0 \notin Serial /\ MaxRequests \in Nat
  /\ NoCaller \notin Caller /\ NoAttempt \notin Attempt
  BY CoreServiceAssumption DEF Exit, NoRequest, Request, Serial
LEMMA SendRequestStep == ASSUME IInv, NEW c \in Caller, SendRequest(c) PROVE IInv'
<1> USE Ids DEF IInv, SendRequest, CanLock, Step, interface, pipes, worker, sudo
<1>1. TypeOK'
  <2>1. serial + 1 \in Serial
    BY DEF TypeOK, Serial
  <2>2. request' \in [Caller -> Request \cup {NoRequest}]
    BY <2>1 DEF TypeOK, Request
  <2>3. caller' \in [Caller -> {"idle", "send", "rest", "wait", "ask"}] /\ serial' \in 0 .. MaxRequests
    BY DEF TypeOK
  <2> QED
    BY <2>2, <2>3 DEF TypeOK
<1>2. CallerInv'
  <2>1. serial + 1 \in Serial
    BY DEF TypeOK, Serial
  <2>2. request'[c] \in Request /\ request'[c].id = serial'
    BY <2>1 DEF TypeOK, Request
  <2>3. \A d \in Caller \ {c} : caller'[d] = "idle" /\ request'[d] = NoRequest
    BY DEF CallerInv
  <2> QED
    BY <2>2, <2>3 DEF CallerInv, TypeOK
<1>3. ServingInv'
  BY DEF ServingInv
<1>4. PipeInv'
  BY DEF PipeInv
<1>5. ResponseInv'
  BY DEF ResponseInv
<1>6. ElevatedInv'
  BY DEF ServingInv, ElevatedInv, PassedOn, Serving
<1>7. ForwardInv'
  BY DEF ForwardInv, Dead, PassedOn
<1>8. ExecutedInv'
  <2>1. serial + 1 \in Serial /\ serial \in Nat
    BY DEF TypeOK, Serial
  <2>2. executed[serial + 1] = Zero
    BY <2>1 DEF ExecutedInv
  <2>3. \A i \in Serial : i > serial + 1 => i > serial
    BY <2>1
  <2>4. executed' = executed /\ serial' = serial + 1 /\ mutex' = c
    OBVIOUS
  <2> QED
    BY <2>2, <2>3, <2>4 DEF ExecutedInv, Zero
<1> QED
  BY <1>1, <1>2, <1>3, <1>4, <1>5, <1>6, <1>7, <1>8

LEMMA SerializeStep == ASSUME IInv, NEW c \in Caller, Serialize(c) PROVE IInv'
<1> USE Ids DEF IInv, Serialize, CanWrite, Write, Step, Leave, Part, interface, pipes, worker,
     sudo
<1>1. TypeOK'
  <2>1. request[c] \in Request
    BY DEF CallerInv
  <2>2. CASE CanWrite
    <3>1. requests \in Seq(PipePart) /\ \A k \in {1, 2} : Part(request[c], k) \in PipePart
      BY <2>1 DEF TypeOK, PipePart
    <3>2. requests' \in Seq(PipePart)
      BY <2>2, <3>1, Appended
    <3> QED
      BY <2>2, <3>2 DEF TypeOK, PipePart
  <2>3. CASE ~CanWrite
    BY <2>3 DEF TypeOK
  <2> QED
    BY <2>2, <2>3
<1>2. CallerInv'
  <2>1. mutex = c /\ request[c] \in Request /\ request[c].id = serial
    BY DEF CallerInv
  <2>2. \A d \in Caller \ {c} : caller'[d] = "idle" /\ request'[d] = NoRequest
    BY <2>1 DEF TypeOK, CallerInv
  <2>3. \/ mutex' = NoCaller /\ caller'[c] = "idle" /\ request'[c] = NoRequest
        \/ mutex' = c /\ caller'[c] # "idle" /\ request'[c] = request[c]
    BY <2>1 DEF TypeOK
  <2> QED
    BY <2>1, <2>2, <2>3 DEF CallerInv
<1>3. ServingInv'
  BY DEF CallerInv, ServingInv
<1>4. PipeInv'
  <2>1. mutex = c /\ request[c] \in Request /\ responses = <<>>
    BY DEF CallerInv, ResponseInv
  <2>2. CASE CanWrite
    <3>1. service = "read"
      BY <2>1, <2>2 DEF TypeOK, ServingInv, Serving
    <3> DEFINE part == Part(request[c], IF caller[c] = "send" THEN 1 ELSE 2)
    <3>2. requests \in Seq(PipePart) /\ part \in PipePart /\ requests' = Append(requests, part)
      BY <2>1, <2>2 DEF TypeOK, PipePart
    <3>3. \A i \in DOMAIN requests' :
            \/ i \in DOMAIN requests /\ requests'[i] = requests[i]
            \/ i = Len(requests) + 1 /\ requests'[i] = part
      BY <3>2, Appended
    <3>4. \A i \in DOMAIN requests : requests[i].of # Exit =>
            caller[c] = "rest" /\ requests[i].part = 1 /\ requests[i].of = request[c]
      BY <2>1, <2>2 DEF PipeInv
    <3>5. caller'[c] = (IF caller[c] = "send" THEN "rest" ELSE "wait")
      BY <2>2 DEF TypeOK
    <3>6. part.of = request[c] /\ part.part = (IF caller[c] = "send" THEN 1 ELSE 2)
      OBVIOUS
    <3> HIDE DEF part
    <3>7. mutex' = mutex /\ request' = request /\ responses' = responses /\ service' = service
      BY <2>2
    <3> QED
      BY <2>1, <3>1, <3>3, <3>4, <3>5, <3>6, <3>7 DEF PipeInv
  <2>3. CASE ~CanWrite
    BY <2>3 DEF PipeInv
  <2> QED
    BY <2>2, <2>3
<1>5. ResponseInv'
  BY DEF CallerInv, ResponseInv
<1>6. ElevatedInv'
  BY DEF ElevatedInv, PassedOn
<1>7. ForwardInv'
  BY DEF ForwardInv, Dead, PassedOn
<1>8. ExecutedInv'
  BY DEF CallerInv, ExecutedInv
<1> QED
  BY <1>1, <1>2, <1>3, <1>4, <1>5, <1>6, <1>7, <1>8

LEMMA GetResponseStep == ASSUME IInv, NEW c \in Caller, GetResponse(c) PROVE IInv'
<1> USE Ids DEF IInv, GetResponse, Step, Leave, TriesAgain, Elevating, interface, pipes,
     worker, sudo
<1>1. TypeOK'
  <2>1. responses' \in Seq(Answer)
    BY Rest DEF TypeOK, Answer
  <2> QED
    BY <2>1 DEF TypeOK, Answer
<1>2. CallerInv'
  <2>1. mutex = c /\ request[c] \in Request /\ request[c].id = serial
    BY DEF CallerInv
  <2>2. \A d \in Caller \ {c} : caller'[d] = "idle" /\ request'[d] = NoRequest
    BY <2>1 DEF TypeOK, CallerInv
  <2>3. \/ mutex' = NoCaller /\ caller'[c] = "idle" /\ request'[c] = NoRequest
        \/ mutex' = c /\ caller'[c] # "idle" /\ request'[c] = request[c]
    BY <2>1 DEF TypeOK
  <2> QED
    BY <2>1, <2>2, <2>3 DEF CallerInv
<1>3. ServingInv'
  BY DEF ServingInv
<1>4. PipeInv'
  BY DEF PipeInv
<1>5. ResponseInv'
  BY DEF TypeOK, ResponseInv
<1>6. ElevatedInv'
  BY DEF ElevatedInv, PassedOn
<1>7. ForwardInv'
  BY DEF ForwardInv, Dead, PassedOn
<1>8. ExecutedInv'
  <2>1. mutex = c /\ Len(responses) = 1 /\ answers = <<>> /\ Head(responses) = responses[1]
    BY Rest DEF CallerInv, ResponseInv
  <2>2. TriesAgain(c, Head(responses).outcome) => executed[serial] = Zero
    BY <2>1 DEF ExecutedInv
  <2>3. executed' = executed /\ serial' = serial
    OBVIOUS
  <2>4. CASE TriesAgain(c, Head(responses).outcome)
    <3>1. mutex' = mutex /\ request' = request
      BY <2>4
    <3> QED
      BY <2>1, <2>2, <2>3, <2>4, <3>1 DEF ExecutedInv
  <2>5. CASE ~TriesAgain(c, Head(responses).outcome)
    <3>1. mutex' = NoCaller
      BY <2>5
    <3> QED
      BY <2>3, <3>1 DEF ExecutedInv
  <2> QED
    BY <2>4, <2>5
<1> QED
  BY <1>1, <1>2, <1>3, <1>4, <1>5, <1>6, <1>7, <1>8

LEMMA ServiceGoneStep == ASSUME IInv, NEW c \in Caller, ServiceGone(c) PROVE IInv'
<1> USE Ids DEF IInv, ServiceGone, Step, Leave, interface, pipes, worker, sudo
<1>1. TypeOK'
  BY DEF TypeOK
<1>2. CallerInv'
  BY DEF TypeOK, CallerInv
<1>3. ServingInv'
  BY DEF ServingInv, Serving
<1>4. PipeInv'
  BY DEF PipeInv
<1>5. ResponseInv'
  BY DEF ResponseInv
<1>6. ElevatedInv'
  BY DEF ElevatedInv, PassedOn
<1>7. ForwardInv'
  BY DEF ForwardInv, Dead, PassedOn
<1>8. ExecutedInv'
  BY DEF ExecutedInv
<1> QED
  BY <1>1, <1>2, <1>3, <1>4, <1>5, <1>6, <1>7, <1>8

LEMMA AskPasswordStep == ASSUME IInv, NEW c \in Caller, AskPassword(c) PROVE IInv'
<1> USE Ids DEF IInv, AskPassword, Step, Leave, interface, pipes, worker, sudo
<1>1. TypeOK'
  <2>1. request[c] \in Request /\ [request[c] EXCEPT !.fast = FALSE] \in Request
    BY DEF CallerInv, Request
  <2>2. request' \in [Caller -> Request \cup {NoRequest}]
    BY <2>1 DEF TypeOK
  <2> QED
    BY <2>2 DEF TypeOK
<1>2. CallerInv'
  <2>1. mutex = c /\ request[c] \in Request
    BY DEF CallerInv
  <2>2. [request[c] EXCEPT !.fast = FALSE] \in Request /\ [request[c] EXCEPT !.fast = FALSE].id = request[c].id
    BY <2>1 DEF Request
  <2>3. \A d \in Caller \ {c} : caller'[d] = "idle" /\ request'[d] = NoRequest
    BY <2>1 DEF TypeOK, CallerInv
  <2>4. \/ mutex' = NoCaller /\ caller'[c] = "idle" /\ request'[c] = NoRequest
        \/ /\ mutex' = c /\ caller'[c] # "idle"
           /\ request'[c] = [request[c] EXCEPT !.fast = FALSE]
    BY <2>1 DEF TypeOK
  <2>5. request[c].id = serial
    BY <2>1 DEF CallerInv
  <2> QED
    BY <2>1, <2>2, <2>3, <2>4, <2>5 DEF CallerInv
<1>3. ServingInv'
  BY DEF CallerInv, ServingInv
<1>4. PipeInv'
  BY DEF CallerInv, PipeInv
<1>5. ResponseInv'
  BY DEF CallerInv, ResponseInv
<1>6. ElevatedInv'
  BY DEF ElevatedInv, PassedOn
<1>7. ForwardInv'
  BY DEF ForwardInv, Dead, PassedOn
<1>8. ExecutedInv'
  <2>1. mutex = c /\ request[c] \in Request /\ responses = <<>>
    BY DEF CallerInv, ResponseInv
  <2>2. executed[serial] = Zero
    BY <2>1 DEF ExecutedInv
  <2>3. executed' = executed /\ serial' = serial /\ (mutex' = c => request'[c].elevate = request[c].elevate)
    BY <2>1 DEF TypeOK, Request
  <2>4. mutex' \in {c, NoCaller}
    BY <2>1
  <2> QED
    BY <2>1, <2>2, <2>3, <2>4 DEF ExecutedInv
<1> QED
  BY <1>1, <1>2, <1>3, <1>4, <1>5, <1>6, <1>7, <1>8

LEMMA StopStep == ASSUME IInv, Stop PROVE IInv'
<1> USE Ids DEF IInv, Stop, CanWrite, Write, Part, interface, pipes, worker, sudo
<1>1. TypeOK'
  <2>1. requests \in Seq(PipePart) /\ \A k \in {1, 2} : Part(Exit, k) \in PipePart
    BY DEF TypeOK, PipePart
  <2>2. requests' \in Seq(PipePart)
    BY <2>1, Appended
  <2> QED
    BY <2>2 DEF TypeOK, PipePart
<1>2. CallerInv'
  BY DEF CallerInv
<1>3. ServingInv'
  BY DEF ServingInv
<1>4. PipeInv'
  <2>1. requests \in Seq(PipePart) /\ \A k \in {1, 2} : Part(Exit, k) \in PipePart
    BY DEF TypeOK, PipePart
  <2>2. \A i \in DOMAIN requests' :
          \/ i \in DOMAIN requests /\ requests'[i] = requests[i]
          \/ requests'[i].of = Exit
    BY <2>1, Appended
  <2>3. UNCHANGED <<mutex, caller, request, service, responses>>
    OBVIOUS
  <2> QED
    BY <2>2, <2>3 DEF PipeInv
<1>5. ResponseInv'
  BY DEF ResponseInv
<1>6. ElevatedInv'
  BY DEF ElevatedInv, PassedOn
<1>7. ForwardInv'
  BY DEF ForwardInv, Dead, PassedOn
<1>8. ExecutedInv'
  BY DEF ExecutedInv
<1> QED
  BY <1>1, <1>2, <1>3, <1>4, <1>5, <1>6, <1>7, <1>8

LEMMA ReadRequestStep == ASSUME IInv, ReadRequest PROVE IInv'
<1> USE Ids DEF IInv, ReadRequest, Whole, Ends, Message, Unused, interface, pipes, worker, sudo
<1>1. TypeOK'
  <2>1. requests \in Seq(PipePart) /\ Len(requests) >= 2
    BY DEF TypeOK, PipePart
  <2>2. requests' \in Seq(PipePart) /\ requests[1] \in PipePart
    BY <2>1, TwoRead
  <2>3. served' \in Request
    BY <2>2 DEF PipePart
  <2>4. attempt' \in [Attempt -> Process] /\ current' \in Attempt \cup {NoAttempt}
    BY DEF TypeOK, Process
  <2> QED
    BY <2>2, <2>3, <2>4 DEF TypeOK, Process
<1>2. CallerInv'
  BY DEF CallerInv
<1>3. ServingInv'
  <2>1. 1 \in DOMAIN requests
    BY TwoRead
  <2> QED
    BY <2>1 DEF ServingInv, PipeInv, Serving
<1>4. PipeInv'
  <2>1. requests \in Seq(PipePart) /\ Len(requests) >= 2
    BY DEF TypeOK, PipePart
  <2>2. /\ 1 \in DOMAIN requests /\ 2 \in DOMAIN requests
        /\ \A i \in DOMAIN requests' :
             /\ i + 2 \in DOMAIN requests /\ requests'[i] = requests[i + 2] /\ i \in Nat \ {0}
             /\ requests[i + 2] \in PipePart
    BY <2>1, TwoRead
  <2>3. \A i \in DOMAIN requests' : requests'[i].of = Exit
    <3> SUFFICES ASSUME NEW i \in DOMAIN requests', requests'[i].of # Exit PROVE FALSE
      OBVIOUS
    <3>1. requests[i + 2].of # Exit /\ i + 2 # 1 /\ i + 2 # 2 /\ requests[i + 2].part \in {1, 2}
      BY <2>2 DEF PipePart
    <3> QED
      BY <2>2, <3>1 DEF PipeInv
  <2> QED
    BY <2>3 DEF PipeInv
<1>5. ResponseInv'
  <2>1. 1 \in DOMAIN requests
    BY TwoRead
  <2> QED
    BY <2>1 DEF PipeInv, ResponseInv
<1>6. ElevatedInv'
  BY DEF ElevatedInv, PassedOn
<1>7. ForwardInv'
  BY DEF ForwardInv, Dead, PassedOn
<1>8. ExecutedInv'
  BY DEF ExecutedInv
<1> QED
  BY <1>1, <1>2, <1>3, <1>4, <1>5, <1>6, <1>7, <1>8

LEMMA ExecuteStep == ASSUME IInv, Execute PROVE IInv'
<1> USE Ids DEF IInv, Execute, Carry, Respond, Response, interface, pipes, worker, sudo
<1>1. TypeOK'
  <2>1. served.id \in Serial
    BY DEF CallerInv, ServingInv, Serving
  <2>2. /\ responses \in Seq(Answer)
        /\ \A outcome \in {"ok", "error", "elevation_failed"} : Response(served.id, outcome) \in Answer
    BY <2>1 DEF TypeOK, Answer, Outcomes
  <2>3. responses' \in Seq(Answer)
    BY <2>2, Appended
  <2>4. executed[served.id] \in [service : Nat, elevated : Nat]
    BY <2>1 DEF TypeOK
  <2>5. [executed[served.id] EXCEPT !["service"] = @ + 1] \in [service : Nat, elevated : Nat]
    BY <2>4
  <2>6. executed' \in [Serial -> [service : Nat, elevated : Nat]]
    BY <2>1, <2>5 DEF TypeOK
  <2> QED
    BY <2>3, <2>6 DEF TypeOK, Answer
<1>2. CallerInv'
  BY DEF CallerInv
<1>3. ServingInv'
  BY DEF ServingInv, Serving
<1>4. PipeInv'
  BY DEF PipeInv
<1>5. ResponseInv'
  BY DEF CallerInv, ServingInv, ResponseInv, ElevatedInv, PassedOn, Serving
<1>6. ElevatedInv'
  BY DEF ElevatedInv, PassedOn
<1>7. ForwardInv'
  BY DEF ForwardInv, Dead, PassedOn
<1>8. ExecutedInv'
  <2>1. served = request[mutex] /\ mutex # NoCaller /\ served.id = serial /\ serial \in Serial
    BY DEF CallerInv, ServingInv, Serving
  <2>2. executed[serial] = Zero
    BY <2>1 DEF ExecutedInv, ServingInv, Serving, ElevatedInv, PassedOn
  <2>3. /\ executed'[serial].service = 1 /\ executed'[serial].elevated = 0
        /\ \A i \in Serial \ {serial} : executed'[i] = executed[i]
    <3>1. executed' = [executed EXCEPT ![serial] = [Zero EXCEPT !["service"] = Zero["service"] + 1]]
      BY <2>1, <2>2
    <3>2. executed \in [Serial -> [service : Nat, elevated : Nat]]
      BY DEF TypeOK
    <3> QED
      BY <2>1, <3>1, <3>2 DEF Zero
  <2>4. /\ caller'[mutex] = "wait" /\ responses' # <<>> /\ responses'[1].outcome # "elevation_failed"
        /\ UNCHANGED <<mutex, request, serial>> /\ ~request[mutex].elevate
    BY <2>1, Single DEF ServingInv, Serving
  <2>5. serial \in Nat /\ \A i \in Serial : i > serial => i # serial
    BY DEF TypeOK
  <2>6. \A i \in Serial : /\ executed'[i].service + executed'[i].elevated <= 1
                          /\ i > serial => executed'[i] = Zero
    BY <2>1, <2>3, <2>5 DEF ExecutedInv
  <2> QED
    BY <2>1, <2>3, <2>4, <2>6 DEF ExecutedInv
<1> QED
  BY <1>1, <1>2, <1>3, <1>4, <1>5, <1>6, <1>7, <1>8

LEMMA QuitStep == ASSUME IInv, Quit PROVE IInv'
<1> USE Ids DEF IInv, Quit, Whole, Ends, Message, EndService, EndOfRequests, interface, pipes,
     worker, sudo
<1>1. TypeOK'
  <2>1. attempt' \in [Attempt -> Process]
    BY DEF TypeOK, Process
  <2>2. forwarded \in Seq(Request \cup {Exit}) /\ Exit \in Request \cup {Exit}
    BY DEF TypeOK
  <2>3. forwarded' \in Seq(Request \cup {Exit})
    BY <2>2, Appended
  <2> QED
    BY <2>1, <2>3 DEF TypeOK
<1>2. CallerInv'
  BY DEF CallerInv
<1>3. ServingInv'
  BY DEF ServingInv, Serving
<1>4. PipeInv'
  BY DEF PipeInv
<1>5. ResponseInv'
  BY DEF ResponseInv
<1>6. ElevatedInv'
  BY DEF ElevatedInv, PassedOn
<1>7. ForwardInv'
  <2>1. elevated /\ Dead => Dead'
    BY DEF Dead, ElevatedInv
  <2>2. ~Dead => forwarded = <<>>
    BY DEF ForwardInv, PassedOn
  <2>3. ~Dead => forwarded' = <<>> \/ forwarded' = <<Exit>>
    BY <2>2
  <2> QED
    BY <2>1, <2>3 DEF ForwardInv, Dead
<1>8. ExecutedInv'
  BY DEF ExecutedInv
<1> QED
  BY <1>1, <1>2, <1>3, <1>4, <1>5, <1>6, <1>7, <1>8

LEMMA SudoDoneStep == ASSUME IInv, SudoDone PROVE IInv'
<1> USE Ids DEF IInv, SudoDone, State, Close, Respond, Response, interface, pipes, worker, sudo
<1>1. TypeOK'
  <2>1. served.id \in Serial
    BY DEF CallerInv, ServingInv, Serving
  <2>2. /\ responses \in Seq(Answer)
        /\ \A outcome \in {"ok", "error", "elevation_failed"} : Response(served.id, outcome) \in Answer
    BY <2>1 DEF TypeOK, Answer, Outcomes
  <2>3. responses' \in Seq(Answer)
    BY <2>2, Appended
  <2>4. attempt' \in [Attempt -> Process]
    <3>1. current \in Attempt /\ attempt[current] \in Process /\ attempt \in [Attempt -> Process]
      BY DEF TypeOK, Process, ElevatedInv
    <3>2. \A new \in {"synced", "closed"} : [attempt[current] EXCEPT !.input = new] \in Process
      BY <3>1 DEF Process
    <3> QED
      BY <3>1, <3>2
  <2> QED
    BY <2>3, <2>4 DEF TypeOK, Answer, Process
<1>2. CallerInv'
  BY DEF CallerInv
<1>3. ServingInv'
  BY DEF ServingInv, Serving
<1>4. PipeInv'
  BY DEF PipeInv
<1>5. ResponseInv'
  BY DEF CallerInv, ServingInv, ResponseInv, ElevatedInv, Serving
<1>6. ElevatedInv'
  BY DEF ElevatedInv, PassedOn
<1>7. ForwardInv'
  BY DEF ElevatedInv, ForwardInv
<1>8. ExecutedInv'
  BY DEF ResponseInv, ElevatedInv, ExecutedInv
<1> QED
  BY <1>1, <1>2, <1>3, <1>4, <1>5, <1>6, <1>7, <1>8

LEMMA TimeOutStep == ASSUME IInv, TimeOut PROVE IInv'
<1> USE Ids DEF IInv, TimeOut, State, Close, AfterTimeout, Respond, Response, interface,
     pipes, worker, sudo
<1>1. TypeOK'
  <2>1. served.id \in Serial
    BY DEF CallerInv, ServingInv, Serving
  <2>2. /\ responses \in Seq(Answer)
        /\ \A outcome \in {"ok", "error", "elevation_failed"} : Response(served.id, outcome) \in Answer
    BY <2>1 DEF TypeOK, Answer, Outcomes
  <2>3. responses' \in Seq(Answer)
    BY <2>2, Appended
  <2>4. attempt' \in [Attempt -> Process]
    BY DEF TypeOK, Process
  <2> QED
    BY <2>3, <2>4 DEF TypeOK, Answer
<1>2. CallerInv'
  BY DEF CallerInv
<1>3. ServingInv'
  BY DEF ServingInv, Serving
<1>4. PipeInv'
  BY DEF PipeInv
<1>5. ResponseInv'
  BY DEF CallerInv, ServingInv, ResponseInv, ElevatedInv, Serving
<1>6. ElevatedInv'
  BY DEF ElevatedInv, PassedOn
<1>7. ForwardInv'
  BY DEF ForwardInv, Dead, PassedOn
<1>8. ExecutedInv'
  BY DEF ElevatedInv, ExecutedInv
<1> QED
  BY <1>1, <1>2, <1>3, <1>4, <1>5, <1>6, <1>7, <1>8

LEMMA LateDoneStep == ASSUME IInv, LateDone PROVE IInv'
<1> USE Ids DEF IInv, LateDone, State, Respond, Response, interface, pipes, worker, sudo
<1>1. TypeOK'
  <2>1. served.id \in Serial
    BY DEF CallerInv, ServingInv, Serving
  <2>2. /\ responses \in Seq(Answer)
        /\ \A outcome \in {"ok", "error", "elevation_failed"} : Response(served.id, outcome) \in Answer
    BY <2>1 DEF TypeOK, Answer, Outcomes
  <2>3. responses' \in Seq(Answer)
    BY <2>2, Appended
  <2> QED
    BY <2>3 DEF TypeOK, Answer
<1>2. CallerInv'
  BY DEF CallerInv
<1>3. ServingInv'
  BY DEF ServingInv, Serving
<1>4. PipeInv'
  BY DEF PipeInv
<1>5. ResponseInv'
  BY DEF CallerInv, ServingInv, ResponseInv, ElevatedInv, Serving
<1>6. ElevatedInv'
  BY DEF ElevatedInv, PassedOn
<1>7. ForwardInv'
  BY DEF ElevatedInv, ForwardInv
<1>8. ExecutedInv'
  BY DEF ElevatedInv, ExecutedInv
<1> QED
  BY <1>1, <1>2, <1>3, <1>4, <1>5, <1>6, <1>7, <1>8

LEMMA ForwardStep == ASSUME IInv, Forward PROVE IInv'
<1> USE Ids DEF IInv, Forward, State, Respond, Response, interface, pipes, worker, sudo
<1>1. TypeOK'
  <2>1. served.id \in Serial
    BY DEF CallerInv, ServingInv, Serving
  <2>2. /\ responses \in Seq(Answer)
        /\ \A outcome \in {"ok", "error", "elevation_failed"} : Response(served.id, outcome) \in Answer
    BY <2>1 DEF TypeOK, Answer, Outcomes
  <2>3. responses' \in Seq(Answer)
    BY <2>2, Appended
  <2>4. served \in Request \cup {Exit} /\ forwarded \in Seq(Request \cup {Exit})
    BY DEF TypeOK
  <2>5. forwarded' \in Seq(Request \cup {Exit})
    BY <2>4, Appended
  <2> QED
    BY <2>3, <2>5 DEF TypeOK, Answer
<1>2. CallerInv'
  BY DEF CallerInv
<1>3. ServingInv'
  BY DEF ServingInv, Serving
<1>4. PipeInv'
  BY DEF PipeInv
<1>5. ResponseInv'
  BY DEF CallerInv, ServingInv, ResponseInv, ElevatedInv, PassedOn, Serving
<1>6. ElevatedInv'
  BY DEF ElevatedInv, PassedOn
<1>7. ForwardInv'
  <2>1. CASE State(current) \in {"launched", "elevated"}
    <3>1. ~Dead /\ forwarded = <<>>
      BY <2>1 DEF ForwardInv, Dead, PassedOn
    <3>2. forwarded' = <<served>> /\ service' = "answer" /\ served' = served /\ served.elevate
      BY <2>1, <3>1 DEF ElevatedInv
    <3>3. answers' = <<>>
      BY DEF ElevatedInv, PassedOn
    <3> QED
      BY <3>2, <3>3 DEF ForwardInv, PassedOn
  <2>2. CASE State(current) \notin {"launched", "elevated"}
    BY <2>2 DEF ForwardInv, Dead, PassedOn
  <2> QED
    BY <2>1, <2>2
<1>8. ExecutedInv'
  BY DEF ExecutedInv
<1> QED
  BY <1>1, <1>2, <1>3, <1>4, <1>5, <1>6, <1>7, <1>8

LEMMA PassAnswerStep == ASSUME IInv, PassAnswer PROVE IInv'
<1> USE Ids DEF IInv, PassAnswer, State, Respond, Response, interface, pipes, worker, sudo
<1>1. TypeOK'
  <2>1. served.id \in Serial
    BY DEF CallerInv, ServingInv, Serving
  <2>2. /\ responses \in Seq(Answer)
        /\ \A outcome \in {"ok", "error", "elevation_failed"} : Response(served.id, outcome) \in Answer
    BY <2>1 DEF TypeOK, Answer, Outcomes
  <2>3. responses' \in Seq(Answer) /\ answers' \in Seq(Answer)
    <3> answers \in Seq(Answer)
      BY DEF TypeOK, Answer
    <3>1. CASE answers # <<>>
      <4>1. Head(answers) \in Answer /\ Tail(answers) \in Seq(Answer)
        BY <3>1, Rest
      <4>2. Append(responses, Head(answers)) \in Seq(Answer)
        BY <2>2, <4>1, Appended
      <4> QED
        BY <3>1, <4>1, <4>2
    <3>2. CASE answers = <<>>
      <4>1. Append(responses, Response(served.id, "error")) \in Seq(Answer)
        BY <2>2, Appended
      <4> QED
        BY <3>2, <4>1
    <3> QED
      BY <3>1, <3>2
  <2> QED
    BY <2>3 DEF TypeOK, Answer
<1>2. CallerInv'
  BY DEF CallerInv
<1>3. ServingInv'
  BY DEF ServingInv, Serving
<1>4. PipeInv'
  BY DEF PipeInv
<1>5. ResponseInv'
  BY DEF TypeOK, CallerInv, ServingInv, ResponseInv, ElevatedInv, Serving
<1>6. ElevatedInv'
  BY DEF TypeOK, ElevatedInv, PassedOn
<1>7. ForwardInv'
  BY DEF ElevatedInv, ForwardInv, Dead
<1>8. ExecutedInv'
  BY DEF ElevatedInv, ExecutedInv, Zero
<1> QED
  BY <1>1, <1>2, <1>3, <1>4, <1>5, <1>6, <1>7, <1>8

LEMMA SudoEndsStep == ASSUME IInv, NEW a \in Attempt, SudoEnds(a) PROVE IInv'
<1> USE Ids DEF IInv, SudoEnds, State, Become, interface, pipes, worker, sudo
<1>1. TypeOK'
  <2>1. attempt' \in [Attempt -> Process]
    BY DEF TypeOK, Process
  <2> QED
    BY <2>1 DEF TypeOK, Process
<1>2. CallerInv'
  BY DEF CallerInv
<1>3. ServingInv'
  BY DEF ServingInv
<1>4. PipeInv'
  BY DEF PipeInv
<1>5. ResponseInv'
  BY DEF ResponseInv
<1>6. ElevatedInv'
  BY DEF ElevatedInv, PassedOn
<1>7. ForwardInv'
  BY DEF ForwardInv, Dead, PassedOn
<1>8. ExecutedInv'
  BY DEF ExecutedInv
<1> QED
  BY <1>1, <1>2, <1>3, <1>4, <1>5, <1>6, <1>7, <1>8

LEMMA SynchronizeStep == ASSUME IInv, NEW a \in Attempt, Synchronize(a) PROVE IInv'
<1> USE Ids DEF IInv, Synchronize, State, Become, WithoutSync, interface, pipes, worker, sudo
<1>1. TypeOK'
  BY DEF TypeOK
<1>2. CallerInv'
  BY DEF CallerInv
<1>3. ServingInv'
  BY DEF ServingInv
<1>4. PipeInv'
  BY DEF PipeInv
<1>5. ResponseInv'
  BY DEF ResponseInv
<1>6. ElevatedInv'
  BY DEF ElevatedInv, PassedOn
<1>7. ForwardInv'
  BY DEF ForwardInv, Dead, PassedOn
<1>8. ExecutedInv'
  BY DEF ExecutedInv
<1> QED
  BY <1>1, <1>2, <1>3, <1>4, <1>5, <1>6, <1>7, <1>8

LEMMA ServeElevatedStep == ASSUME IInv, NEW a \in Attempt, ServeElevated(a) PROVE IInv'
<1> USE Ids DEF IInv, ServeElevated, State, Become, Carry, Ends, Response, interface, pipes,
     worker, sudo
<1>1. TypeOK'
  <2>1. attempt' \in [Attempt -> Process]
    BY DEF TypeOK, Process
  <2>2. forwarded \in Seq(Request \cup {Exit}) /\ answers \in Seq(Answer)
    BY DEF TypeOK, Answer
  <2>3. forwarded' \in Seq(Request \cup {Exit})
    <3>1. forwarded # <<>> => Tail(forwarded) \in Seq(Request \cup {Exit})
      BY <2>2, Rest
    <3> QED
      BY <2>2, <3>1
  <2>4. CASE forwarded # <<>> /\ ~Ends(Head(forwarded))
    <3>1. Head(forwarded) \in Request
      BY <2>2, <2>4, Rest
    <3> DEFINE id == Head(forwarded).id
    <3>2. id \in Serial /\ \A outcome \in {"ok", "error"} : Response(id, outcome) \in Answer
      BY <3>1 DEF Answer, Outcomes
    <3>3. answers' \in Seq(Answer)
      <4>1. PICK outcome \in {"ok", "error"} : answers' = Append(answers, Response(id, outcome))
        BY <2>4
      <4> QED
        BY <2>2, <3>2, <4>1, Appended
    <3>4. executed \in [Serial -> [service : Nat, elevated : Nat]]
      BY DEF TypeOK
    <3>5. [executed[id] EXCEPT !["elevated"] = @ + 1] \in [service : Nat, elevated : Nat]
      <4>1. executed[id] \in [service : Nat, elevated : Nat]
        BY <3>2, <3>4
      <4> QED
        BY <4>1
    <3>6. executed' \in [Serial -> [service : Nat, elevated : Nat]]
      BY <2>4, <3>2, <3>4, <3>5
    <3> QED
      BY <2>1, <2>3, <3>3, <3>6 DEF TypeOK, Answer, Process
  <2>5. CASE ~(forwarded # <<>> /\ ~Ends(Head(forwarded)))
    BY <2>1, <2>3, <2>5 DEF TypeOK, Process
  <2> QED
    BY <2>4, <2>5
<1>2. CallerInv'
  BY DEF CallerInv
<1>3. ServingInv'
  BY DEF ServingInv
<1>4. PipeInv'
  BY DEF PipeInv
<1>5. ResponseInv'
  <2>1. forwarded # <<>> /\ ~Ends(Head(forwarded)) => service = "answer"
    BY Single DEF ForwardInv, Dead, PassedOn
  <2> QED
    BY <2>1 DEF ResponseInv
<1>6. ElevatedInv'
  <2>1. CASE forwarded # <<>> /\ ~Ends(Head(forwarded))
    <3>1. /\ PassedOn /\ forwarded = <<served>> /\ answers = <<>> /\ Head(forwarded) = served
      BY <2>1, Single DEF ForwardInv, Dead
    <3>2. served.id = serial /\ serial \in Serial /\ service = "answer" /\ served = request[mutex]
      BY <3>1 DEF CallerInv, ServingInv, Serving, PassedOn
    <3>3. PICK outcome \in {"ok", "error"} : answers' = <<Response(serial, outcome)>>
      BY <2>1, <3>1, <3>2
    <3> QED
      BY <2>1, <3>1, <3>2, <3>3, Single DEF ElevatedInv, PassedOn
  <2>2. CASE ~(forwarded # <<>> /\ ~Ends(Head(forwarded)))
    <3>1. (forwarded' # <<>> => forwarded # <<>>) /\ answers' = answers
      BY <2>2
    <3> QED
      BY <3>1 DEF ElevatedInv, PassedOn
  <2> QED
    BY <2>1, <2>2
<1>7. ForwardInv'
  <2>1. CASE forwarded # <<>> /\ ~Ends(Head(forwarded))
    <3>1. /\ PassedOn /\ forwarded = <<served>> /\ answers = <<>> /\ Head(forwarded) = served
      BY <2>1, Single DEF ForwardInv, Dead
    <3>2. served.id = serial /\ serial \in Serial /\ service = "answer" /\ served = request[mutex]
      BY <3>1 DEF CallerInv, ServingInv, Serving, PassedOn
    <3> QED
      BY <2>1, <3>1, Single DEF ForwardInv
  <2>2. CASE forwarded # <<>> /\ Ends(Head(forwarded))
    <3>1. elevated /\ attempt'[current].state = "none"
      BY <2>2 DEF TypeOK, ElevatedInv
    <3> QED
      BY <2>2, <3>1 DEF ForwardInv, Dead
  <2>3. CASE forwarded = <<>>
    BY <2>3 DEF ForwardInv
  <2> QED
    BY <2>1, <2>2, <2>3
<1>8. ExecutedInv'
  <2>1. CASE forwarded # <<>> /\ ~Ends(Head(forwarded))
    <3>1. /\ PassedOn /\ forwarded = <<served>> /\ answers = <<>> /\ Head(forwarded) = served
      BY <2>1, Single DEF ForwardInv, Dead
    <3>2. served.id = serial /\ serial \in Serial /\ service = "answer" /\ served = request[mutex]
      BY <3>1 DEF CallerInv, ServingInv, Serving, PassedOn
    <3>3. executed[serial] = Zero
      BY <3>1, <3>2 DEF ExecutedInv, ServingInv, Serving
    <3>4. /\ executed'[serial].service = 0 /\ executed'[serial].elevated = 1
          /\ \A i \in Serial \ {serial} : executed'[i] = executed[i]
      <4>1. executed' = [executed EXCEPT ![serial] = [Zero EXCEPT !["elevated"] = Zero["elevated"] + 1]]
        BY <2>1, <3>1, <3>2, <3>3
      <4>2. executed \in [Serial -> [service : Nat, elevated : Nat]]
        BY DEF TypeOK
      <4> QED
        BY <3>2, <4>1, <4>2 DEF Zero
    <3>5. /\ caller[mutex] = "wait" /\ responses = <<>> /\ request[mutex].elevate
          /\ UNCHANGED <<mutex, caller, request, serial, responses>> /\ answers' # <<>>
      BY <2>1, <3>1, <3>2, Single DEF ServingInv, PassedOn
    <3>6. serial \in Nat /\ \A i \in Serial : i > serial => i # serial
      BY DEF TypeOK
    <3>7. \A i \in Serial : /\ executed'[i].service + executed'[i].elevated <= 1
                            /\ i > serial => executed'[i] = Zero
      BY <3>2, <3>4, <3>6 DEF ExecutedInv
    <3> QED
      BY <3>2, <3>4, <3>5, <3>7 DEF ExecutedInv
  <2>2. CASE ~(forwarded # <<>> /\ ~Ends(Head(forwarded)))
    <3>1. UNCHANGED <<interface, service, responses, answers, executed>>
      BY <2>2
    <3> QED
      BY <3>1 DEF ExecutedInv
  <2> QED
    BY <2>1, <2>2
<1> QED
  BY <1>1, <1>2, <1>3, <1>4, <1>5, <1>6, <1>7, <1>8

LEMMA KilledStep == ASSUME IInv, NEW a \in Attempt, Killed(a) PROVE IInv'
<1> USE Ids DEF IInv, Killed, State, Become, interface, pipes, worker, sudo
<1>1. TypeOK'
  BY DEF TypeOK
<1>2. CallerInv'
  BY DEF CallerInv
<1>3. ServingInv'
  BY DEF ServingInv
<1>4. PipeInv'
  BY DEF PipeInv
<1>5. ResponseInv'
  BY DEF ResponseInv
<1>6. ElevatedInv'
  BY DEF ElevatedInv, PassedOn
<1>7. ForwardInv'
  BY DEF ForwardInv, Dead, PassedOn
<1>8. ExecutedInv'
  BY DEF ExecutedInv
<1> QED
  BY <1>1, <1>2, <1>3, <1>4, <1>5, <1>6, <1>7, <1>8
-----------------------------------------------------------------------------
(* The invariant, and the theorems.                                        *)

LEMMA InitIInv == Init => IInv
<1> SUFFICES ASSUME Init PROVE IInv
  OBVIOUS
<1> USE Ids DEF Init, Zero
<1>1. <<>> \in Seq(PipePart) /\ <<>> \in Seq(Answer) /\ <<>> \in Seq(Request \cup {Exit})
      /\ DOMAIN <<>> = {}
  BY EmptySeq
<1>2. TypeOK
  <2>1. executed \in [Serial -> [service : Nat, elevated : Nat]]
    OBVIOUS
  <2>2. attempt \in [Attempt -> Process]
    BY DEF Process, NoProcess
  <2>3. serial \in 0 .. MaxRequests
    OBVIOUS
  <2>4. /\ requests \in Seq([of : Request \cup {Exit}, part : {1, 2}])
        /\ responses \in Seq([id : Serial, outcome : Outcomes])
        /\ answers \in Seq([id : Serial, outcome : Outcomes])
        /\ forwarded \in Seq(Request \cup {Exit})
    BY <1>1
  <2>5. /\ caller \in [Caller -> {"idle", "send", "rest", "wait", "ask"}]
        /\ request \in [Caller -> Request \cup {NoRequest}]
    OBVIOUS
  <2> QED
    BY <2>1, <2>2, <2>3, <2>4, <2>5 DEF TypeOK, Process
<1>3. CallerInv /\ ServingInv
  BY DEF CallerInv, ServingInv, Serving
<1>4. PipeInv /\ ResponseInv
  BY <1>1 DEF PipeInv, ResponseInv
<1>5. ElevatedInv /\ ForwardInv
  BY DEF ElevatedInv, ForwardInv, PassedOn
<1>6. ExecutedInv
  BY DEF ExecutedInv
<1> QED
  BY <1>2, <1>3, <1>4, <1>5, <1>6 DEF IInv

LEMMA StutterStep == ASSUME IInv, UNCHANGED vars PROVE IInv'
BY DEF vars, interface, pipes, worker, sudo, IInv, TypeOK, CallerInv, ServingInv,
   PipeInv, ResponseInv, ElevatedInv, ForwardInv, ExecutedInv, Dead, PassedOn

LEMMA IInvStep == IInv /\ [Next]_vars => IInv'
<1> SUFFICES ASSUME IInv, [Next]_vars PROVE IInv'
  OBVIOUS
<1>1. CASE \E c \in Caller : InterfaceStep(c)
  BY <1>1, SendRequestStep, SerializeStep, GetResponseStep, ServiceGoneStep,
     AskPasswordStep DEF InterfaceStep
<1>2. CASE Stop
  BY <1>2, StopStep
<1>3. CASE ServiceStep
  BY <1>3, ReadRequestStep, ExecuteStep, QuitStep, SudoDoneStep, TimeOutStep,
     LateDoneStep, ForwardStep, PassAnswerStep DEF ServiceStep
<1>4. CASE \E a \in Attempt : ProcessStep(a)
  BY <1>4, SudoEndsStep, SynchronizeStep, ServeElevatedStep, KilledStep DEF ProcessStep
<1>5. CASE UNCHANGED vars
  BY <1>5, StutterStep
<1> QED
  BY <1>1, <1>2, <1>3, <1>4, <1>5 DEF Next

LEMMA Invariance == Spec => []IInv
BY InitIInv, IInvStep, PTL DEF Spec

LEMMA IInvInStep == IInv => InStep
<1> SUFFICES ASSUME IInv PROVE InStep
  OBVIOUS
<1> USE Ids DEF IInv, TypeOK
<1>1. /\ responses \in Seq(Answer) /\ answers \in Seq(Answer) /\ Len(responses) \in Nat
      /\ DOMAIN responses = 1 .. Len(responses) /\ DOMAIN answers = 1 .. Len(answers)
      /\ responses = <<>> => Len(responses) = 0
      /\ answers = <<>> => Len(answers) = 0
  BY LenProperties DEF Answer
<1>2. mutex # NoCaller => request[mutex].id = serial
  BY DEF CallerInv
<1>3. Len(responses) + Len(answers) <= 1
  <2>1. /\ responses = <<>> \/ answers = <<>>
        /\ responses = <<>> \/ Len(responses) = 1
        /\ answers = <<>> \/ Len(answers) = 1
    BY DEF ResponseInv, ElevatedInv
  <2>2. Len(responses) \in {0, 1} /\ Len(answers) \in {0, 1}
        /\ (Len(responses) = 0 \/ Len(answers) = 0)
    BY <1>1, <2>1
  <2>3. \A m, n \in {0, 1} : m = 0 \/ n = 0 => m + n <= 1
    OBVIOUS
  <2> QED
    BY <2>2, <2>3
<1>4. \A i \in DOMAIN responses :
        mutex # NoCaller /\ caller[mutex] = "wait" /\ responses[i].id = request[mutex].id
  BY <1>1, <1>2 DEF ResponseInv
<1>5. \A i \in DOMAIN answers : service # "ended" => answers[i].id = served.id
  BY <1>1, <1>2 DEF ElevatedInv, PassedOn, ServingInv, Serving
<1> QED
  BY <1>3, <1>4, <1>5 DEF InStep

LEMMA IInvExecutedOnce == IInv => ExecutedOnce
<1> SUFFICES ASSUME IInv, NEW i \in Serial
             PROVE  /\ executed[i].service + executed[i].elevated <= 1
                    /\ \A c \in Caller : request[c].id = i =>
                         /\ executed[i][IF request[c].elevate THEN "service" ELSE "elevated"] = 0
                         /\ caller[c] # "wait" => executed[i] = [service |-> 0, elevated |-> 0]
  BY DEF ExecutedOnce
<1>1. \A c \in Caller : request[c].id = i => c = mutex /\ mutex # NoCaller /\ i = serial
  BY Ids DEF IInv, CallerInv, NoRequest
<1> QED
  BY <1>1 DEF IInv, ExecutedInv, Zero

\* Every variable has a value of its kind, for any number of callers and requests.
THEOREM TypeCorrect == Spec => []TypeOK
<1>1. IInv => TypeOK
  BY DEF IInv
<1> QED
  BY <1>1, Invariance, PTL

\* Whatever is sent again, comes late, is refused or killed: a response in a pipe
\* belongs to the request its reader waits for (CoreService::SendRequest).
THEOREM ResponsesInStep == Spec => []InStep
BY IInvInStep, Invariance, PTL

\* No request is carried out twice, by the process without privileges and the
\* elevated one together, however often it is sent again.
THEOREM CarriedOutOnce == Spec => []ExecutedOnce
BY IInvExecutedOnce, Invariance, PTL
=============================================================================
