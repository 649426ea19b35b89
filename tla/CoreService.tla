----------------------------- MODULE CoreService -----------------------------
(***************************************************************************)
(* Core/Unix/CoreService.cpp: the processes that carry out what the user   *)
(* interface may not.                                                      *)
(*                                                                         *)
(* The interface forks a service at its start and sends it requests over a *)
(* pipe.  A request that needs privileges is passed on, over a second pair *)
(* of pipes, to a process that the service starts through sudo when it is  *)
(* first needed.  sudo is given a dummy password and one second, then the  *)
(* password of the user and six; an answer that is late is a failure, and  *)
(* the interface sends the same request again.  All three processes read   *)
(* and write the same few pipes without any numbers in the messages.       *)
(*                                                                         *)
(* sudo, the pipes and the ends of processes are external, modelled by     *)
(* what the code relies on.  A message is written in two parts.            *)
(***************************************************************************)
EXTENDS Naturals, Sequences, FiniteSets

CONSTANTS
  Caller,        \* threads of the interface that call SendRequest
  Attempt,       \* processes started through sudo that exist at one time
  MaxRequests,   \* calls of SendRequest
  MayCrash,      \* the elevated process may be killed
  NoCaller, NoAttempt

ASSUME CoreServiceAssumption ==
  /\ NoCaller \notin Caller /\ NoAttempt \notin Attempt
  /\ MaxRequests \in Nat \ {0} /\ MayCrash \in BOOLEAN

VARIABLES
  mutex,       \* who holds the mutex of SendRequest
  caller,      \* the step of each caller
  request,     \* the request of each caller
  serial,      \* requests so far
  available,   \* ElevatedServiceAvailable of the interface
  main,        \* the main thread of the interface: "running", "stopping", "ended"
  requests,    \* the pipe to the service, message by message part
  responses,   \* the pipe back
  service,     \* the step of the service
  served,      \* the request the service works on
  elevated,    \* ElevatedServiceAvailable of the service
  attempt,     \* each process started through sudo, and its standard input
  current,     \* the one whose pipes the service holds
  forwarded,   \* what is in the pipe to it
  answers,     \* and in the pipe back
  executed     \* history: how often each request was carried out, and by whom

interface == <<mutex, caller, request, serial, available, main>>
pipes     == <<requests, responses>>
worker    == <<service, served, elevated>>
sudo      == <<attempt, current, forwarded, answers>>
vars      == <<interface, pipes, worker, sudo, executed>>

Serial == 1 .. MaxRequests
Request == [id : Serial, elevate : BOOLEAN, fast : BOOLEAN]
NoRequest == [id |-> 0, elevate |-> FALSE, fast |-> FALSE]
Exit == [id |-> 0, elevate |-> FALSE, fast |-> FALSE]
Part(message, part) == [of |-> message, part |-> part]
Outcomes == {"ok", "error", "elevation_failed"}
Response(id, outcome) == [id |-> id, outcome |-> outcome]
NoProcess == [state |-> "none", input |-> "closed"]

Init ==
  /\ mutex = NoCaller /\ caller = [c \in Caller |-> "idle"] /\ request = [c \in Caller |-> NoRequest]
  /\ serial = 0 /\ available = FALSE /\ main = "running"
  /\ requests = <<>> /\ responses = <<>>
  /\ service = "read" /\ served = NoRequest /\ elevated = FALSE
  /\ attempt = [a \in Attempt |-> NoProcess] /\ current = NoAttempt
  /\ forwarded = <<>> /\ answers = <<>>
  /\ executed = [i \in Serial |-> [service |-> 0, elevated |-> 0]]

TypeOK ==
  /\ mutex \in Caller \cup {NoCaller} /\ serial \in 0 .. MaxRequests
  /\ caller \in [Caller -> {"idle", "send", "rest", "wait", "ask"}]
  /\ request \in [Caller -> Request \cup {NoRequest}] /\ served \in Request \cup {NoRequest}
  /\ available \in BOOLEAN /\ elevated \in BOOLEAN
  /\ main \in {"running", "stopping", "ended"}
  /\ requests \in Seq([of : Request \cup {Exit}, part : {1, 2}])
  /\ responses \in Seq([id : Serial, outcome : Outcomes])
  /\ answers \in Seq([id : Serial, outcome : Outcomes])
  /\ forwarded \in Seq(Request \cup {Exit})
  /\ service \in {"read", "start", "late", "forward", "answer", "ended"}
  /\ attempt \in [Attempt -> [state : {"none", "asking", "denied", "launched", "elevated"},
                              input : {"open", "synced", "closed"}]]
  /\ current \in Attempt \cup {NoAttempt}
  /\ executed \in [Serial -> [service : Nat, elevated : Nat]]

-----------------------------------------------------------------------------
(* SendRequest, in a thread of the interface.                              *)

\* Writing to a process that has ended raises an exception.
CanWrite == service # "ended"
Write(message, part) == requests' = Append(requests, Part(message, part))
Step(c, next) == caller' = [caller EXCEPT ![c] = next]
Leave(c) == /\ Step(c, "idle") /\ mutex' = NoCaller
            /\ request' = [request EXCEPT ![c] = NoRequest]

MutantCanLock == \A c \in Caller : mutex = c => caller[c] = "ask"
CanLock == mutex = NoCaller
SendRequest(c) ==
  /\ main # "ended" /\ caller[c] = "idle" /\ CanLock /\ serial < MaxRequests
  /\ mutex' = c /\ serial' = serial + 1 /\ Step(c, "send")
  /\ \E privileges \in BOOLEAN :
       request' = [request EXCEPT ![c] = [id |-> serial + 1, elevate |-> privileges,
                                          fast |-> privileges /\ ~available]]
  /\ UNCHANGED <<available, main, pipes, worker, sudo, executed>>

Serialize(c) ==
  /\ main # "ended" /\ caller[c] \in {"send", "rest"}
  /\ IF CanWrite
     THEN /\ Write(request[c], IF caller[c] = "send" THEN 1 ELSE 2)
          /\ Step(c, IF caller[c] = "send" THEN "rest" ELSE "wait")
          /\ UNCHANGED <<mutex, request>>
     ELSE Leave(c) /\ UNCHANGED requests
  /\ UNCHANGED <<serial, available, main, responses, worker, sudo, executed>>

\* Only a failed elevation, while there is no elevated process, is tried again.
Elevating(c) == request[c].elevate /\ ~available
MutantTriesAgain(c, outcome) == Elevating(c) /\ outcome # "ok"
TriesAgain(c, outcome) == Elevating(c) /\ outcome = "elevation_failed"
GetResponse(c) ==
  /\ main # "ended" /\ caller[c] = "wait" /\ responses # <<>>
  /\ responses' = Tail(responses)
  /\ LET outcome == Head(responses).outcome IN
     IF TriesAgain(c, outcome) THEN Step(c, "ask") /\ UNCHANGED <<mutex, request, available>>
     ELSE Leave(c) /\ available' = (available \/ (Elevating(c) /\ outcome = "ok"))
  /\ UNCHANGED <<serial, main, requests, worker, sudo, executed>>
ServiceGone(c) ==
  /\ main # "ended" /\ caller[c] = "wait" /\ responses = <<>> /\ service = "ended"
  /\ Leave(c) /\ UNCHANGED <<serial, available, main, pipes, worker, sudo, executed>>

\* AdminPasswordCallback: the user enters a password or gives up.
AskPassword(c) ==
  /\ main # "ended" /\ caller[c] = "ask"
  /\ \/ /\ request' = [request EXCEPT ![c].fast = FALSE] /\ Step(c, "send")
        /\ UNCHANGED mutex
     \/ Leave(c)
  /\ UNCHANGED <<serial, available, main, pipes, worker, sudo, executed>>

\* Stop does not take the mutex; the process then ends, or it is killed.
Stop ==
  /\ main # "ended" /\ UNCHANGED <<mutex, caller, request, serial, available>>
  /\ \/ main = "running" /\ CanWrite /\ Write(Exit, 1) /\ main' = "stopping"
     \/ main = "stopping" /\ CanWrite /\ Write(Exit, 2) /\ main' = "ended"
     \/ main' = "ended" /\ UNCHANGED requests
  /\ UNCHANGED <<responses, worker, sudo, executed>>

-----------------------------------------------------------------------------
(* ProcessRequests, in the service.                                        *)

Carry(id, by) == executed' = [executed EXCEPT ![id][by] = @ + 1]
Respond(outcome) == /\ responses' = Append(responses, Response(served.id, outcome))
                    /\ service' = "read" /\ served' = NoRequest

Close(a) == [attempt EXCEPT ![a].input = "closed"]
\* The end of the service closes its pipes.
EndService == /\ service' = "ended" /\ served' = NoRequest
              /\ attempt' = [a \in Attempt |-> [attempt[a] EXCEPT !.input = "closed"]]

Unused == {a \in Attempt : a # current /\ attempt[a].state \in {"none", "denied"}}
Whole == /\ Len(requests) >= 2 /\ requests[1].part = 1 /\ requests[2].part = 2
         /\ requests[1].of = requests[2].of
Message == requests[1].of
Ends(message) == message = Exit

\* A request is read; one that needs privileges starts sudo, or is passed on.
ReadRequest ==
  /\ service = "read" /\ Whole /\ ~Ends(Message)
  /\ requests' = Tail(Tail(requests)) /\ served' = Message
  /\ \/ ~Message.elevate /\ service' = "answer" /\ UNCHANGED <<attempt, current>>
     \/ Message.elevate /\ elevated /\ service' = "forward" /\ UNCHANGED <<attempt, current>>
     \/ /\ Message.elevate /\ ~elevated /\ service' = "start"
        /\ \E a \in Unused : /\ current' = a
                             /\ attempt' = [attempt EXCEPT ![a] = [state |-> "asking", input |-> "open"]]
  /\ UNCHANGED <<interface, responses, elevated, forwarded, answers, executed>>

\* The service carries the request out itself.
Execute ==
  /\ service = "answer" /\ ~served.elevate
  /\ Carry(served.id, "service") /\ \E outcome \in {"ok", "error"} : Respond(outcome)
  /\ UNCHANGED <<interface, requests, elevated, sudo>>

\* ExitRequest, a message that makes no sense, and the end of the interface
EndOfRequests == main = "ended" /\ Len(requests) < 2
Quit ==
  /\ service = "read" /\ EndService
  /\ \/ Whole /\ Ends(Message)
        /\ forwarded' = IF elevated THEN Append(forwarded, Exit) ELSE forwarded
     \/ Len(requests) >= 2 /\ ~Whole /\ UNCHANGED forwarded
     \/ EndOfRequests /\ UNCHANGED forwarded
  /\ UNCHANGED <<interface, pipes, elevated, current, answers, executed>>

-----------------------------------------------------------------------------
(* StartElevated, in the service.                                          *)

State(a) == attempt[a].state

\* sudo has ended: its status says whether the elevated process was launched.
SudoDone ==
  /\ service = "start" /\ State(current) # "asking"
  /\ IF State(current) = "launched"
     THEN /\ attempt' = [attempt EXCEPT ![current].input = "synced"]
          /\ elevated' = TRUE /\ service' = "forward" /\ UNCHANGED <<served, responses, current>>
     ELSE /\ attempt' = Close(current) /\ current' = NoAttempt /\ UNCHANGED elevated
          /\ Respond(IF State(current) = "denied" THEN "elevation_failed" ELSE "error")
  /\ UNCHANGED <<interface, requests, forwarded, answers, executed>>

\* The time is up: with the dummy password the attempt is left alone, with the
\* user's password its end is awaited.
MutantAfterTimeout == attempt
AfterTimeout == Close(current)
TimeOut ==
  /\ service = "start" /\ State(current) = "asking" /\ attempt' = AfterTimeout
  /\ IF served.fast
     THEN Respond("elevation_failed") /\ current' = NoAttempt
     ELSE service' = "late" /\ UNCHANGED <<served, responses, current>>
  /\ UNCHANGED <<interface, requests, elevated, forwarded, answers, executed>>

\* An elevated process that comes late finds its pipes closed, and so does the
\* service: fcntl fails.
LateDone ==
  /\ service = "late" /\ State(current) # "asking" /\ current' = NoAttempt
  /\ Respond(IF State(current) = "denied" THEN "elevation_failed" ELSE "error")
  /\ UNCHANGED <<interface, requests, elevated, attempt, forwarded, answers, executed>>

Forward ==
  /\ service = "forward"
  /\ IF State(current) \in {"launched", "elevated"}
     THEN /\ forwarded' = Append(forwarded, served) /\ service' = "answer"
          /\ UNCHANGED <<served, responses>>
     ELSE Respond("error") /\ UNCHANGED forwarded
  /\ UNCHANGED <<interface, requests, elevated, attempt, current, answers, executed>>

\* The answer, or the exception that there is none, is passed back.
PassAnswer ==
  /\ service = "answer" /\ served.elevate
  /\ \/ /\ answers # <<>> /\ answers' = Tail(answers)
        /\ responses' = Append(responses, Head(answers))
        /\ service' = "read" /\ served' = NoRequest
     \/ answers = <<>> /\ State(current) = "none" /\ Respond("error") /\ UNCHANGED answers
  /\ UNCHANGED <<interface, requests, elevated, attempt, current, forwarded, executed>>

-----------------------------------------------------------------------------
(* sudo and the elevated process.                                          *)

Become(a, state) == attempt' = [attempt EXCEPT ![a].state = state]

\* sudo may take its time, but not when there is nothing left to read.
SudoEnds(a) ==
  /\ State(a) = "asking" /\ \E state \in {"denied", "launched"} : Become(a, state)
  /\ UNCHANGED <<interface, pipes, worker, current, forwarded, answers, executed>>

\* ProcessElevatedRequests: the sync code is awaited, whatever else is in the pipe.
MutantWithoutSync == "launched"
WithoutSync == "none"
Synchronize(a) ==
  /\ State(a) = "launched" /\ attempt[a].input # "open"
  /\ Become(a, IF attempt[a].input = "synced" THEN "elevated" ELSE WithoutSync)
  /\ UNCHANGED <<interface, pipes, worker, current, forwarded, answers, executed>>

ServeElevated(a) ==
  /\ State(a) = "elevated" /\ a = current
  /\ \/ /\ forwarded # <<>> /\ ~Ends(Head(forwarded))
        /\ forwarded' = Tail(forwarded) /\ Carry(Head(forwarded).id, "elevated")
        /\ \E outcome \in {"ok", "error"} :
             answers' = Append(answers, Response(Head(forwarded).id, outcome))
        /\ UNCHANGED attempt
     \/ /\ forwarded # <<>> /\ Ends(Head(forwarded))
        /\ forwarded' = Tail(forwarded) /\ Become(a, "none") /\ UNCHANGED <<answers, executed>>
     \/ /\ forwarded = <<>> /\ attempt[a].input = "closed"
        /\ Become(a, "none") /\ UNCHANGED <<forwarded, answers, executed>>
  /\ UNCHANGED <<interface, pipes, worker, current>>

Killed(a) ==
  /\ MayCrash /\ State(a) \in {"launched", "elevated"} /\ Become(a, "none")
  /\ UNCHANGED <<interface, pipes, worker, current, forwarded, answers, executed>>

-----------------------------------------------------------------------------
InterfaceStep(c) == SendRequest(c) \/ Serialize(c) \/ GetResponse(c) \/ ServiceGone(c)
                    \/ AskPassword(c)
ServiceStep == \/ ReadRequest \/ Execute \/ Quit \/ SudoDone \/ TimeOut \/ LateDone
               \/ Forward \/ PassAnswer
ProcessStep(a) == SudoEnds(a) \/ Synchronize(a) \/ ServeElevated(a) \/ Killed(a)
Next == \/ \E c \in Caller : InterfaceStep(c)
        \/ Stop \/ ServiceStep \/ \E a \in Attempt : ProcessStep(a)

Spec == Init /\ [][Next]_vars

\* The service is scheduled, as are the processes it starts; sudo ends once its
\* input has ended; a thread writes the whole of its request.
FairSpec ==
  /\ Spec /\ WF_vars(ServiceStep) /\ \A c \in Caller : WF_vars(Serialize(c))
  /\ \A c \in Caller : WF_vars(GetResponse(c) \/ ServiceGone(c))
  /\ \A a \in Attempt : /\ WF_vars(Synchronize(a) \/ ServeElevated(a))
                        /\ WF_vars(attempt[a].input = "closed" /\ SudoEnds(a))

-----------------------------------------------------------------------------
(* Properties.                                                             *)

\* A response in a pipe belongs to the request its reader waits for, whatever was
\* sent again, came late or went wrong before (CoreService.cpp:28-42, 289-327).
InStep ==
  /\ Len(responses) + Len(answers) <= 1
  /\ \A i \in DOMAIN responses :
       mutex # NoCaller /\ caller[mutex] = "wait" /\ responses[i].id = request[mutex].id
  /\ \A i \in DOMAIN answers : service # "ended" => answers[i].id = served.id

\* However often a request is sent again for want of privileges, it is carried out
\* at most once, and by the process it is meant for (CoreService.cpp:302-321, 110-124).
ExecutedOnce ==
  \A i \in Serial :
    /\ executed[i].service + executed[i].elevated <= 1
    /\ \A c \in Caller : request[c].id = i =>
         /\ executed[i][IF request[c].elevate THEN "service" ELSE "elevated"] = 0
         /\ caller[c] # "wait" => executed[i] = [service |-> 0, elevated |-> 0]

\* Every request is answered: a sudo that waits for a better password does not keep
\* the interface waiting (CoreService.cpp:441-468).
Answered == \A c \in Caller : caller[c] = "wait" /\ main = "running"
                              ~> caller[c] # "wait" \/ main # "running"

\* A process that was started through sudo and is no longer served ends, and all
\* processes end with the interface (CoreService.cpp:443-445, 98-104, 53-69).
NoneLeft ==
  /\ \A a \in Attempt : State(a) \in {"asking", "launched"} /\ a # current
                        ~> State(a) \in {"none", "denied"}
  /\ main = "ended" ~> service = "ended" /\ \A a \in Attempt : State(a) \in {"none", "denied"}
=============================================================================
