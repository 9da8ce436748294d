---------------------------- MODULE ClientProofs ----------------------------
(***************************************************************************)
(* Safety of the client for every number of requests, every capacity of    *)
(* its channels and every set of messages the entity may send.             *)
(***************************************************************************)
EXTENDS Client, TLAPS

(* The socket task runs only for a bound socket, and a blocked forward     *)
(* holds the message it forwards.                                          *)
SocketShape ==
    /\ conn = 0 => task = "Ended"
    /\ task = "Forward" => carry \in Message

(* process_received_message works on a message.                            *)
InboxFilled == inner \in {"SendAlive", "Dispatch"} => inbox \in Message

TypeInv == TypeOK /\ SocketShape /\ InboxFilled

(* Requests are numbered as they are issued.                               *)
Numbered == \A r \in Request : r > issued <=> answer[r].is = "Unissued"

(* A oneshot that was not used carries nothing.                            *)
BlankUntilAnswered ==
    \A r \in Request :
        answer[r].is \in {"Unissued", "Open"} => answer[r].msg = NoMessage

----------------------------------------------------------------------------
(* Facts about the channels.                                               *)

(* A message put into a channel is the last one of it.                     *)
LEMMA AppendFacts ==
    ASSUME NEW S, NEW s \in Seq(S), NEW e \in S
    PROVE  /\ Append(s, e) \in Seq(S)
           /\ Len(Append(s, e)) = Len(s) + 1
           /\ \A i \in 1..Len(s) : Append(s, e)[i] = s[i]
           /\ Append(s, e)[Len(s) + 1] = e
OBVIOUS

(* A message taken out of a channel is the first one of it.                *)
LEMMA TakeFacts ==
    ASSUME NEW S, NEW s \in Seq(S), s # <<>>
    PROVE  /\ Head(s) \in S /\ Head(s) = s[1]
           /\ Tail(s) \in Seq(S)
           /\ Len(s) \in Nat \ {0}
           /\ Len(Tail(s)) = Len(s) - 1
           /\ \A i \in 1..Len(Tail(s)) : Tail(s)[i] = s[i + 1]
OBVIOUS

(* The channel of a fresh connection is empty.                             *)
LEMMA EmptyFacts ==
    ASSUME NEW S
    PROVE  <<>> \in Seq(S) /\ Len(<<>>) = 0
OBVIOUS

----------------------------------------------------------------------------
(* Types.                                                                  *)

(* Every operation on the socket keeps its channels within their capacity  *)
(* and its state well-formed.                                              *)
LEMMA SocketSteps ==
    ASSUME SocketTypeOK, SocketShape,
           \/ BindSocket \/ ShutDownSocket \/ ReceiveSocket \/ SocketLoop
           \/ \E request \in Requests : conn # 0 /\ SendSocket(request)
           \/ UNCHANGED socketVars
    PROVE  SocketTypeOK' /\ SocketShape'
<1> USE SocketAssumption DEF SocketTypeOK, SocketShape
<1>1. CASE BindSocket
  BY <1>1, EmptyFacts DEF BindSocket
<1>2. CASE ShutDownSocket
  BY <1>2, EmptyFacts DEF ShutDownSocket
<1>3. CASE ReceiveSocket
  BY <1>3, TakeFacts DEF ReceiveSocket
<1>4. ASSUME NEW request \in Requests, conn # 0, SendSocket(request)
      PROVE  SocketTypeOK' /\ SocketShape'
  BY <1>4, AppendFacts DEF SendSocket
<1>5. CASE UNCHANGED socketVars
  BY <1>5 DEF socketVars
<1>6. ASSUME NEW kind \in EntitySends, SocketRead(kind)
      PROVE  SocketTypeOK' /\ SocketShape'
  BY <1>6 DEF SocketRead, Message
<1>7. CASE SocketForward
  BY <1>7, AppendFacts DEF SocketForward
<1>8. CASE SocketWrite
  BY <1>8, TakeFacts DEF SocketWrite
<1>9. CASE EntityCloses
  BY <1>9 DEF EntityCloses
<1>10. CASE SocketEnds
  BY <1>10, EmptyFacts DEF SocketEnds
<1> QED
  BY <1>1, <1>2, <1>3, <1>4, <1>5, <1>6, <1>7, <1>8, <1>9, <1>10
     DEF SocketLoop

(* Whatever is sent on the oneshot of the request in flight, the answers   *)
(* stay answers.                                                           *)
LEMMA ToldType ==
    ASSUME InnerTypeOK, NEW value \in Answer
    PROVE  Told(value) \in [Request -> Answer]
BY DEF Told, InnerTypeOK, ActiveRequest, NoRequest

(* A plain outcome, and a message carried back, are answers.               *)
LEMMA AnswerTypes ==
    /\ \A outcome \in Outcomes : Plain(outcome) \in Answer
    /\ \A m \in Message \cup {NoMessage} : Carrying(m) \in Answer
BY DEF Plain, Carrying, Answer, Outcomes

(* Leaving the loop.                                                       *)
LEMMA ExitType ==
    ASSUME TypeInv, NEW told \in [Request -> Answer], ExitLoop(told)
    PROVE  InnerTypeOK' /\ InboxFilled' /\ SocketTypeOK' /\ SocketShape'
<1>1. SocketTypeOK' /\ SocketShape'
  BY SocketSteps DEF TypeInv, TypeOK, ExitLoop
<1>2. answer' \in [Request -> Answer]
  BY AnswerTypes DEF ExitLoop, Outcomes
<1>3. QED
  BY <1>1, <1>2, EmptyFacts, InnerAssumption
     DEF TypeInv, TypeOK, InnerTypeOK, InboxFilled, ExitLoop

(* What an arm of the select in run does to the inner task's own state.    *)
LEMMA SelectTypes ==
    ASSUME TypeInv,
           \/ DeadlineReached \/ TakeControl \/ TakeMessage \/ SocketLost
    PROVE  InnerTypeOK' /\ InboxFilled'
<1>1. Told(Plain("ResponseTimeoutExceeded")) \in [Request -> Answer]
      /\ Told(Plain("RequestSuperseded")) \in [Request -> Answer]
      /\ Told(Plain("SocketClosedUnexpectedly")) \in [Request -> Answer]
  BY ToldType, AnswerTypes DEF TypeInv, TypeOK, Outcomes
<1> USE InnerAssumption DEF TypeInv, TypeOK, InnerTypeOK, InboxFilled
<1>2. CASE DeadlineReached
  BY <1>1, <1>2 DEF DeadlineReached, Complete
<1>3. CASE TakeControl
  <2>1. /\ Head(control) \in ControlMessage
        /\ Tail(control) \in Seq(ControlMessage)
        /\ Len(Tail(control)) <= ControlCap
    BY <1>3, TakeFacts DEF TakeControl
  <2>2. Head(control) \in ActiveRequest
    BY <2>1 DEF ControlMessage, ActiveRequest
  <2> QED
    BY <1>1, <1>3, <2>1, <2>2 DEF TakeControl
<1>4. CASE TakeMessage
  BY <1>4, TakeFacts DEF TakeMessage, ReceiveSocket, SocketTypeOK
<1>5. CASE SocketLost
  BY <1>1, <1>5 DEF SocketLost, Complete
<1> QED
  BY <1>2, <1>3, <1>4, <1>5

(* What handle_control_message does to it.                                 *)
LEMMA HandleTypes ==
    ASSUME TypeInv,
           \/ HandleBindSocket \/ SocketBound \/ BindFails
           \/ HandleUnbindSocket \/ HandleSend \/ HandleSendFails
           \/ HandleReceiveBuffered \/ HandleReceive
    PROVE  InnerTypeOK' /\ InboxFilled'
<1>1. \A outcome \in Outcomes : Told(Plain(outcome)) \in [Request -> Answer]
  BY ToldType, AnswerTypes DEF TypeInv, TypeOK
<1>2. Told(Carrying(pending)) \in [Request -> Answer]
  BY ToldType, AnswerTypes DEF TypeInv, TypeOK, InnerTypeOK
<1>3. active \in ActiveRequest => active.req \in 0..MaxRequest
  BY InnerAssumption DEF ActiveRequest, Request
<1> USE InnerAssumption DEF TypeInv, TypeOK, InnerTypeOK, InboxFilled
<1>4. CASE HandleBindSocket
  BY <1>4 DEF HandleBindSocket
<1>5. CASE SocketBound
  BY <1>1, <1>5 DEF SocketBound, Complete, Outcomes
<1>6. CASE BindFails
  BY <1>1, <1>6 DEF BindFails, Complete, Outcomes
<1>7. CASE HandleUnbindSocket
  BY <1>1, <1>7 DEF HandleUnbindSocket, Complete, Outcomes
<1>8. CASE HandleSend
  <2>1. active \in ActiveRequest
    BY <1>8 DEF HandleSend, Handling, NoRequest
  <2>2. active' \in ActiveRequest
    BY <1>8, <2>1 DEF HandleSend, ActiveRequest, Awaiting, AwaitKinds
  <2> QED
    BY <1>3, <1>8, <2>1, <2>2 DEF HandleSend
<1>9. CASE HandleSendFails
  BY <1>1, <1>9 DEF HandleSendFails, Complete, Outcomes
<1>10. CASE HandleReceiveBuffered
  BY <1>2, <1>10 DEF HandleReceiveBuffered, Complete
<1>11. CASE HandleReceive
  <2>1. active \in ActiveRequest
    BY <1>11 DEF HandleReceive, Handling, NoRequest
  <2>2. active' \in ActiveRequest \cup {NoRequest}
    BY <1>11, <2>1 DEF HandleReceive, Complete, ActiveRequest, AwaitKinds
  <2> QED
    BY <1>1, <1>3, <1>11, <2>1, <2>2
       DEF HandleReceive, Complete, Outcomes
<1> QED
  BY <1>4, <1>5, <1>6, <1>7, <1>8, <1>9, <1>10, <1>11

(* What process_received_message does to it, unless it leaves the loop.    *)
LEMMA ProcessTypes ==
    ASSUME TypeInv, inner' # "Exited",
           \/ AnswerAliveCheck \/ AckReceived \/ AckIgnored
           \/ ResponseReceived \/ BufferResponse \/ ForwardUpdate
           \/ DropMessage
    PROVE  InnerTypeOK' /\ InboxFilled'
<1>1. \A outcome \in Outcomes : Told(Plain(outcome)) \in [Request -> Answer]
  BY ToldType, AnswerTypes DEF TypeInv, TypeOK
<1>2. Told(Carrying(inbox)) \in [Request -> Answer]
  BY ToldType, AnswerTypes DEF TypeInv, TypeOK, InnerTypeOK
<1> USE InnerAssumption DEF TypeInv, TypeOK, InnerTypeOK, InboxFilled
<1>3. CASE AnswerAliveCheck
  BY <1>3 DEF AnswerAliveCheck
<1>4. CASE AckReceived
  BY <1>1, <1>4 DEF AckReceived, Complete, Processed, Outcomes
<1>5. CASE AckIgnored
  BY <1>5 DEF AckIgnored, Processed
<1>6. CASE ResponseReceived
  BY <1>1, <1>2, <1>6
     DEF ResponseReceived, ExitLoop, Complete, Processed, Outcomes
<1>7. CASE BufferResponse
  BY <1>7 DEF BufferResponse, Processed
<1>8. CASE ForwardUpdate
  <2>1. inbox \in Message /\ Append(updates, inbox) \in Seq(Message)
        /\ Len(Append(updates, inbox)) = Len(updates) + 1
    BY <1>8, AppendFacts DEF ForwardUpdate
  <2>2. /\ Len(updates) < UpdateCap /\ updates' = Append(updates, inbox)
        /\ inner' = "Select" /\ inbox' = NoMessage
        /\ UNCHANGED <<client, control, waiter, issued, answer, active,
                       deadline, pending>>
    BY <1>8 DEF ForwardUpdate, ExitLoop, Processed
  <2>3. updates' \in Seq(Message) /\ Len(updates') <= UpdateCap
    BY <2>1, <2>2
  <2> QED
    BY <2>2, <2>3
<1>9. CASE DropMessage
  BY <1>9 DEF DropMessage, Processed
<1> QED
  BY <1>3, <1>4, <1>5, <1>6, <1>7, <1>8, <1>9

(* The steps of the inner task that can neither end it nor write to the    *)
(* socket task.                                                            *)
LEMMA PlainSteps ==
    ASSUME InnerLoop, ~ControlClosed, ~ForwardUpdate, ~ResponseReceived,
           ~HandleSend, ~AnswerAliveCheck
    PROVE  /\ inner' # "Exited"
           /\ BindSocket \/ ShutDownSocket \/ ReceiveSocket
              \/ UNCHANGED socketVars
<1>1. CASE DeadlineReached \/ TakeControl
  BY <1>1 DEF DeadlineReached, TakeControl
<1>2. CASE TakeMessage \/ SocketLost
  BY <1>2 DEF TakeMessage, SocketLost
<1>3. CASE HandleBindSocket \/ SocketBound \/ BindFails
  BY <1>3 DEF HandleBindSocket, SocketBound, BindFails
<1>4. CASE HandleUnbindSocket \/ HandleSendFails
  BY <1>4 DEF HandleUnbindSocket, HandleSendFails
<1>5. CASE HandleReceiveBuffered \/ HandleReceive
  BY <1>5 DEF HandleReceiveBuffered, HandleReceive
<1>6. CASE AckReceived \/ AckIgnored \/ BufferResponse \/ DropMessage
  BY <1>6 DEF AckReceived, AckIgnored, BufferResponse, DropMessage, Processed
<1> QED
  BY <1>1, <1>2, <1>3, <1>4, <1>5, <1>6 DEF InnerLoop

(* Every step of the inner task keeps its types and those of its socket.   *)
LEMMA InnerSteps ==
    ASSUME TypeInv, InnerLoop
    PROVE  InnerTypeOK' /\ InboxFilled' /\ SocketTypeOK' /\ SocketShape'
<1>1. CASE inner' = "Exited"
  <2>1. answer \in [Request -> Answer]
    BY DEF TypeInv, TypeOK, InnerTypeOK
  <2>2. PICK told \in [Request -> Answer] : ExitLoop(told)
    <3>1. CASE ControlClosed
      BY <2>1, <3>1 DEF ControlClosed
    <3>2. CASE ForwardUpdate
      BY <1>1, <2>1, <3>2 DEF ForwardUpdate, Processed
    <3>3. CASE ResponseReceived
      <4>1. /\ Carrying(inbox) \in Answer
            /\ Plain("UnexpectedMessageType") \in Answer
        BY AnswerTypes DEF TypeInv, TypeOK, InnerTypeOK, Outcomes
      <4>2. /\ Told(Carrying(inbox)) \in [Request -> Answer]
            /\ Told(Plain("UnexpectedMessageType")) \in [Request -> Answer]
        BY <4>1, ToldType DEF TypeInv, TypeOK
      <4> QED
        BY <1>1, <3>3, <4>2 DEF ResponseReceived, Processed
    <3>4. ~HandleSend /\ ~AnswerAliveCheck
      BY <1>1 DEF HandleSend, AnswerAliveCheck
    <3> QED
      BY <1>1, <3>1, <3>2, <3>3, <3>4, PlainSteps
  <2> QED
    BY <2>2, ExitType
<1>2. CASE inner' # "Exited"
  <2>1. ~ControlClosed
    BY <1>2 DEF ControlClosed, ExitLoop
  <2>2. InnerTypeOK' /\ InboxFilled'
    BY <1>2, <2>1, SelectTypes, HandleTypes, ProcessTypes DEF InnerLoop
  <2>3. \/ BindSocket \/ ShutDownSocket \/ ReceiveSocket
        \/ \E request \in Requests : conn # 0 /\ SendSocket(request)
        \/ UNCHANGED socketVars
    <3>1. CASE HandleSend
      BY <3>1 DEF HandleSend, Outgoing, Requests
    <3>2. CASE AnswerAliveCheck
      BY <3>2 DEF AnswerAliveCheck, Requests, SendSocket, TypeInv, SocketShape
    <3>3. CASE ForwardUpdate
      BY <1>2, <3>3 DEF ForwardUpdate, ExitLoop
    <3>4. CASE ResponseReceived
      BY <1>2, <3>4 DEF ResponseReceived, ExitLoop
    <3> QED
      BY <2>1, <3>1, <3>2, <3>3, <3>4, PlainSteps
  <2> QED
    BY <2>2, <2>3, SocketSteps DEF TypeInv, TypeOK
<1> QED
  BY <1>1, <1>2

(* A request that enters the control channel.                              *)
LEMMA IssueTypes ==
    ASSUME TypeInv, NEW kind \in ControlKinds, Issue(kind)
    PROVE  InnerTypeOK' /\ InboxFilled' /\ UNCHANGED socketVars
<1>0. Request \subseteq 0..MaxRequest
  BY InnerAssumption DEF Request
<1> USE InnerAssumption DEF TypeInv, TypeOK, InnerTypeOK, InboxFilled
<1>1. issued + 1 \in Request
  BY DEF Issue, Request
<1>2. [kind |-> kind, req |-> issued + 1] \in ControlMessage
  BY <1>1 DEF ControlMessage
<1>3. control' \in Seq(ControlMessage) /\ Len(control') <= ControlCap
  BY <1>2, AppendFacts DEF Issue
<1>4. answer' \in [Request -> Answer]
  BY <1>1, AnswerTypes DEF Issue, Outcomes
<1>5. issued' \in 0..MaxRequest /\ waiter' \in 0..MaxRequest
  <2>1. issued' = issued + 1 /\ waiter' = issued + 1
    BY DEF Issue
  <2> QED
    BY <1>0, <1>1, <2>1, Zenon
<1> QED
  BY <1>3, <1>4, <1>5 DEF Issue

(* Every step of the caller.                                               *)
LEMMA CallerSteps ==
    ASSUME TypeInv, Caller
    PROVE  /\ InnerTypeOK' /\ InboxFilled' /\ UNCHANGED socketVars
           /\ call' \in Calls \cup {Idle, Done}
<1> USE InnerAssumption DEF TypeInv, TypeOK, InnerTypeOK, InboxFilled
<1>1. CASE CallReconnect
  BY <1>1 DEF CallReconnect, Calls, innerVars
<1>2. CASE StartBind
  <2>1. call' \in Calls
    BY <1>2 DEF StartBind, Resume, Calls, Idle, Done
  <2> QED
    BY <1>2, <2>1, IssueTypes DEF StartBind, ControlKinds
<1>3. CASE StartActivation
  <2>1. call' \in Calls
    BY <1>3 DEF StartActivation, Resume, Calls, Idle, Done
  <2> QED
    BY <1>3, <2>1, IssueTypes DEF StartActivation, ControlKinds
<1>4. ASSUME NEW kind \in {"UnbindSocket", "SendDiagnosticMessage",
                           "ReceiveDiagnosticResponse"}, CallRequest(kind)
      PROVE  /\ InnerTypeOK' /\ InboxFilled' /\ UNCHANGED socketVars
             /\ call' \in Calls
  <2>1. call' \in Calls
    BY <1>4 DEF CallRequest, Calls
  <2> QED
    BY <1>4, <2>1, IssueTypes DEF CallRequest, ControlKinds
<1>5. CASE BindReplied
  BY <1>5 DEF BindReplied, Return, BindSucceeds, Resume, Untouched, Calls,
              Idle, Done
<1>6. CASE ActivationReplied
  BY <1>6 DEF ActivationReplied, Return, BindSucceeds, Untouched, Calls,
              Idle, Done
<1>7. CASE ActivationElapsed
  BY <1>7 DEF ActivationElapsed, BindSucceeds, Untouched, Calls, Idle, Done
<1>8. CASE BindRefused
  BY <1>8 DEF BindRefused, Return, Untouched
<1>9. CASE ReconnectUpdate \/ DrainUpdate
  <2>0. updates # <<>> /\ updates' = Tail(updates)
    BY <1>9 DEF ReconnectUpdate, DrainUpdate
  <2>1. updates' \in Seq(Message) /\ Len(updates') <= UpdateCap
    BY <2>0, TakeFacts
  <2> QED
    BY <1>9, <2>1 DEF ReconnectUpdate, DrainUpdate
<1>10. CASE ReconnectNothing
  BY <1>10 DEF ReconnectNothing, innerVars
<1>11. CASE RequestReplied
  BY <1>11 DEF RequestReplied, Untouched
<1>12. CASE Cancel
  BY <1>12 DEF Cancel, Return, Untouched
<1>13. CASE DropClient \/ ShutDownReturns
  BY <1>13 DEF DropClient, ShutDownReturns, Untouched
<1>14. CASE CallShutDown
  BY <1>14 DEF CallShutDown, Untouched, Calls
<1> QED
  BY <1>1, <1>2, <1>3, <1>4, <1>5, <1>6, <1>7, <1>8, <1>9, <1>10, <1>11,
     <1>12, <1>13, <1>14 DEF Caller, CallerReplies

(* Every step of the system.                                               *)
LEMMA TypeStep ==
    ASSUME TypeInv, [Next]_vars
    PROVE  TypeInv'
<1>1. CASE Caller
  BY <1>1, CallerSteps, SocketSteps DEF TypeInv, TypeOK
<1>2. CASE InnerLoop /\ UNCHANGED call
  BY <1>2, InnerSteps DEF TypeInv, TypeOK
<1>3. CASE SocketLoop /\ UNCHANGED <<call, innerVars>>
  BY <1>3, SocketSteps
     DEF TypeInv, TypeOK, InnerTypeOK, InboxFilled, innerVars
<1>4. CASE UNCHANGED vars
  BY <1>4, SocketSteps
     DEF TypeInv, TypeOK, InnerTypeOK, InboxFilled, innerVars, vars
<1> QED
  BY <1>1, <1>2, <1>3, <1>4 DEF Next

(* Where every behaviour starts.                                           *)
LEMMA TypeBase == Init => TypeInv
BY EmptyFacts, AnswerTypes, SocketAssumption, InnerAssumption
   DEF Init, SocketInit, InnerInit, TypeInv, TypeOK, SocketTypeOK,
       InnerTypeOK, SocketShape, InboxFilled, Calls, Outcomes

(* Type correctness: the client's three tasks keep every channel within    *)
(* its capacity and never work on a message or a request they do not have. *)
THEOREM TypeCorrect == Spec => []TypeOK
<1>1. TypeInv => TypeOK
  BY DEF TypeInv
<1> QED
  BY <1>1, TypeBase, TypeStep, PTL DEF Spec

----------------------------------------------------------------------------
(* Requests and their answers.                                             *)

(* The channel keeps requests in the order they were issued, all of them   *)
(* newer than the one in flight.                                           *)
InIssueOrder ==
    /\ \A i \in 1..Len(control) : active.req < control[i].req
    /\ \A i, j \in 1..Len(control) : i < j => control[i].req < control[j].req

Ledger == NoRequestLost /\ InIssueOrder /\ Numbered /\ BlankUntilAnswered

(* A value that can be sent on a oneshot, and one that is sent anywhere    *)
(* but in the control arm.                                                 *)
Sent(value) == value \in Answer /\ value.is \notin {"Unissued", "Open"}
Final(value) == Sent(value) /\ value.is # "RequestSuperseded"

(* The ways a step can touch the ledger, besides issuing a request and     *)
(* taking one from the control channel: not at all; by answering the       *)
(* request in flight; by answering everything held.                        *)
Quiet ==
    UNCHANGED <<control, answer, issued>> /\ active'.req = active.req

Settles ==
    /\ \E value \in Answer : Final(value) /\ Complete(value)
    /\ UNCHANGED <<control, issued>>

Exits ==
    /\ control' = <<>> /\ active' = NoRequest /\ UNCHANGED issued
    /\ answer' \in [Request -> Answer]
    /\ \A r \in Request : IF r \in Held THEN Final(answer'[r])
                                        ELSE answer'[r] = answer[r]

(* A request is held when it is in flight or queued.                       *)
LEMMA HeldWhen ==
    ASSUME TypeInv, NEW r \in Request
    PROVE  r \in Held <=> \/ r = active.req
                          \/ \E i \in 1..Len(control) : control[i].req = r
BY InnerAssumption DEF Held, Request

(* The same of the next state.                                             *)
LEMMA HeldWhenPrime ==
    ASSUME TypeInv', NEW r \in Request
    PROVE  r \in Held' <=> \/ r = active'.req
                           \/ \E i \in 1..Len(control') : control'[i].req = r
BY InnerAssumption DEF Held, Request

(* The numbers of the requests in flight and queued.                       *)
LEMMA RequestNumbers ==
    ASSUME TypeInv
    PROVE  /\ active = NoRequest \/ active.req \in Request
           /\ active = NoRequest <=> active.req = 0
           /\ \A i \in 1..Len(control) : control[i].req \in Request
           /\ Request \subseteq Nat \ {0}
           /\ Len(control) \in Nat
<1> USE InnerAssumption DEF TypeInv, TypeOK, InnerTypeOK
<1>1. Request \subseteq Nat \ {0}
  BY DEF Request
<1>2. \A i \in 1..Len(control) : control[i] \in ControlMessage
  OBVIOUS
<1>3. active = NoRequest \/ active.req \in Request
  BY DEF ActiveRequest
<1> QED
  BY <1>1, <1>2, <1>3 DEF ControlMessage, NoRequest

(* A step that touches no request.                                         *)
LEMMA QuietStep ==
    ASSUME TypeInv, TypeInv', Ledger, Quiet
    PROVE  Ledger'
<1>1. /\ control' = control /\ answer' = answer /\ issued' = issued
      /\ active'.req = active.req
  BY DEF Quiet
<1>2. Held' = Held
  BY <1>1 DEF Held
<1>3. NoRequestLost'
  BY <1>1, <1>2 DEF Ledger, NoRequestLost
<1>4. InIssueOrder'
  BY <1>1 DEF Ledger, InIssueOrder
<1>5. Numbered' /\ BlankUntilAnswered'
  BY <1>1 DEF Ledger, Numbered, BlankUntilAnswered
<1> QED
  BY <1>3, <1>4, <1>5 DEF Ledger

(* A step that answers the request in flight.                              *)
LEMMA SettlesStep ==
    ASSUME TypeInv, TypeInv', Ledger, Settles
    PROVE  Ledger'
<1>1. PICK value \in Answer : Final(value) /\ Complete(value)
  BY DEF Settles
<1>2. active'.req = 0 /\ control' = control /\ issued' = issued
  BY <1>1 DEF Settles, Complete, NoRequest
<1>3. \A r \in Request :
         answer'[r] = IF r = active.req THEN value ELSE answer[r]
  BY <1>1, RequestNumbers
     DEF Complete, Told, TypeInv, TypeOK, InnerTypeOK
<1>4. \A i \in 1..Len(control) : control[i].req # active.req
  BY RequestNumbers DEF Ledger, InIssueOrder
<1>5. NoRequestLost'
  <2> SUFFICES ASSUME NEW r \in Request
               PROVE  answer'[r].is = "Open" <=> r \in Held'
    BY DEF NoRequestLost
  <2>1. r \in Held' <=> \E i \in 1..Len(control) : control[i].req = r
    BY <1>2, HeldWhenPrime, RequestNumbers
  <2>2. CASE r = active.req
    BY <1>1, <1>3, <1>4, <2>1, <2>2 DEF Final, Sent
  <2>3. CASE r # active.req
    BY <1>3, <2>1, <2>3, HeldWhen DEF Ledger, NoRequestLost
  <2> QED
    BY <2>2, <2>3
<1>6. InIssueOrder'
  BY <1>2, RequestNumbers DEF Ledger, InIssueOrder
<1>7. Numbered'
  <2> SUFFICES ASSUME NEW r \in Request
               PROVE  r > issued <=> answer'[r].is = "Unissued"
    BY <1>2 DEF Numbered
  <2>1. CASE r = active.req
    <3>1. answer[r].is = "Open"
      BY <2>1, HeldWhen DEF Ledger, NoRequestLost
    <3> QED
      BY <1>1, <1>3, <2>1, <3>1 DEF Ledger, Numbered, Final, Sent
  <2>2. CASE r # active.req
    BY <1>3, <2>2 DEF Ledger, Numbered
  <2> QED
    BY <2>1, <2>2
<1>8. BlankUntilAnswered'
  BY <1>1, <1>3 DEF Ledger, BlankUntilAnswered, Final, Sent
<1> QED
  BY <1>5, <1>6, <1>7, <1>8 DEF Ledger

(* The end of the loop answers everything held.                            *)
LEMMA ExitsStep ==
    ASSUME TypeInv, TypeInv', Ledger, Exits
    PROVE  Ledger'
<1>1. Len(control') = 0 /\ active'.req = 0 /\ issued' = issued
  BY EmptyFacts DEF Exits, NoRequest
<1>2. NoRequestLost'
  <2> SUFFICES ASSUME NEW r \in Request
               PROVE  answer'[r].is # "Open" /\ r \notin Held'
    BY DEF NoRequestLost
  <2>1. r \notin Held'
    BY <1>1, HeldWhenPrime, RequestNumbers
  <2> QED
    BY <2>1 DEF Exits, Final, Sent, Ledger, NoRequestLost
<1>3. InIssueOrder'
  BY <1>1 DEF InIssueOrder
<1>4. Numbered'
  <2> SUFFICES ASSUME NEW r \in Request
               PROVE  r > issued <=> answer'[r].is = "Unissued"
    BY <1>1 DEF Numbered
  <2>1. CASE r \in Held
    BY <2>1 DEF Exits, Final, Sent, Ledger, NoRequestLost, Numbered
  <2>2. CASE r \notin Held
    BY <2>2 DEF Exits, Ledger, Numbered
  <2> QED
    BY <2>1, <2>2
<1>5. BlankUntilAnswered'
  BY DEF Exits, Final, Sent, Ledger, BlankUntilAnswered
<1> QED
  BY <1>2, <1>3, <1>4, <1>5 DEF Ledger

(* The control arm answers the request in flight, and the oldest request   *)
(* in the channel takes its place.                                         *)
LEMMA TakeStep ==
    ASSUME TypeInv, TypeInv', Ledger, TakeControl
    PROVE  Ledger'
<1>1. /\ control # <<>> /\ control' = Tail(control)
      /\ active' = Head(control) /\ issued' = issued
  BY DEF TakeControl
<1>2. /\ active' = control[1] /\ Len(control) \in Nat \ {0}
      /\ Len(control') = Len(control) - 1
      /\ \A i \in 1..Len(control') : control'[i] = control[i + 1]
  BY <1>1, TakeFacts DEF TypeInv, TypeOK, InnerTypeOK
<1>3. \A r \in Request :
         answer'[r] = IF r = active.req THEN Plain("RequestSuperseded")
                                        ELSE answer[r]
  BY RequestNumbers
     DEF TakeControl, Told, TypeInv, TypeOK, InnerTypeOK
<1>4. \A i \in 1..Len(control) : active.req < control[i].req
  BY DEF Ledger, InIssueOrder
<1>5. \A r \in Request :
         r \in Held' <=> \E i \in 1..Len(control) : control[i].req = r
  <2> SUFFICES ASSUME NEW r \in Request
               PROVE  r \in Held' <=>
                        \E i \in 1..Len(control) : control[i].req = r
    OBVIOUS
  <2>1. ASSUME r \in Held'
        PROVE  \E i \in 1..Len(control) : control[i].req = r
    <3>1. CASE r = active'.req
      BY <1>2, <3>1
    <3>2. CASE \E i \in 1..Len(control') : control'[i].req = r
      <4>1. PICK i \in 1..Len(control') : control'[i].req = r
        BY <3>2
      <4> QED
        BY <1>2, <4>1
    <3> QED
      BY <2>1, <3>1, <3>2, HeldWhenPrime
  <2>2. ASSUME NEW i \in 1..Len(control), control[i].req = r
        PROVE  r \in Held'
    <3>1. CASE i = 1
      BY <1>2, <2>2, <3>1, HeldWhenPrime
    <3>2. CASE i # 1
      <4>1. i - 1 \in 1..Len(control') /\ control'[i - 1] = control[i]
        BY <1>2, <3>2
      <4> QED
        BY <2>2, <4>1, HeldWhenPrime
    <3> QED
      BY <3>1, <3>2
  <2> QED
    BY <2>1, <2>2
<1>6. NoRequestLost'
  <2> SUFFICES ASSUME NEW r \in Request
               PROVE  answer'[r].is = "Open" <=> r \in Held'
    BY DEF NoRequestLost
  <2>1. CASE r = active.req
    <3>1. answer'[r] = Plain("RequestSuperseded")
      BY <1>3, <2>1
    <3>2. answer'[r].is # "Open"
      BY <3>1 DEF Plain
    <3>3. ASSUME NEW i \in 1..Len(control), control[i].req = r
          PROVE  FALSE
      <4>1. r < r /\ r \in Nat
        BY <1>4, <2>1, <3>3, RequestNumbers
      <4> QED
        BY <4>1
    <3> QED
      BY <1>5, <3>2, <3>3, Zenon
  <2>2. CASE r # active.req
    BY <1>3, <1>5, <2>2, HeldWhen DEF Ledger, NoRequestLost
  <2> QED
    BY <2>1, <2>2
<1>7. InIssueOrder'
  <2>1. \A i \in 1..Len(control') :
           /\ i + 1 \in 1..Len(control) /\ 1 < i + 1
           /\ control'[i].req = control[i + 1].req
    BY <1>2
  <2>2. \A i \in 1..Len(control') : active'.req < control'[i].req
    BY <1>2, <2>1 DEF Ledger, InIssueOrder
  <2>3. ASSUME NEW i \in 1..Len(control'), NEW j \in 1..Len(control'), i < j
        PROVE  control'[i].req < control'[j].req
    BY <2>1, <2>3 DEF Ledger, InIssueOrder
  <2> QED
    BY <2>2, <2>3 DEF InIssueOrder
<1>8. Numbered'
  <2> SUFFICES ASSUME NEW r \in Request
               PROVE  r > issued <=> answer'[r].is = "Unissued"
    BY <1>1 DEF Numbered
  <2>1. CASE r = active.req
    BY <1>3, <2>1, HeldWhen DEF Ledger, NoRequestLost, Numbered, Plain
  <2>2. CASE r # active.req
    BY <1>3, <2>2 DEF Ledger, Numbered
  <2> QED
    BY <2>1, <2>2
<1>9. BlankUntilAnswered'
  <2> SUFFICES ASSUME NEW r \in Request, answer'[r].is \in {"Unissued", "Open"}
               PROVE  answer'[r].msg = NoMessage
    BY DEF BlankUntilAnswered
  <2>1. CASE r = active.req
    BY <1>3, <2>1 DEF Plain
  <2>2. CASE r # active.req
    BY <1>3, <2>2 DEF Ledger, BlankUntilAnswered
  <2> QED
    BY <2>1, <2>2
<1> QED
  BY <1>6, <1>7, <1>8, <1>9 DEF Ledger

(* A request enters the control channel behind all others.                 *)
LEMMA IssueStep ==
    ASSUME TypeInv, TypeInv', Ledger, NEW kind \in ControlKinds, Issue(kind)
    PROVE  Ledger'
<1> DEFINE new == issued + 1
<1>1. new \in Request /\ issued' = new /\ active' = active
  BY InnerAssumption DEF Issue, Request, TypeInv, TypeOK, InnerTypeOK
<1>2. /\ Len(control) \in Nat /\ Len(control') = Len(control) + 1
      /\ \A i \in 1..Len(control) : control'[i] = control[i]
      /\ control'[Len(control) + 1].req = new
  <2>1. [kind |-> kind, req |-> new] \in ControlMessage
    BY <1>1 DEF ControlMessage
  <2> QED
    BY <2>1, AppendFacts, SMTT(30) DEF Issue, TypeInv, TypeOK, InnerTypeOK
<1>3. \A r \in Request :
         answer'[r] = IF r = new THEN Plain("Open") ELSE answer[r]
  BY <1>1 DEF Issue, TypeInv, TypeOK, InnerTypeOK
<1>4. \A r \in Request : r \in Held => r < new
  <2>1. \A r \in Request : r \in Held => ~(r > issued)
    BY DEF Ledger, NoRequestLost, Numbered
  <2>2. issued \in Nat
    BY DEF TypeInv, TypeOK, InnerTypeOK
  <2> QED
    BY <2>1, <2>2, RequestNumbers
<1>5. \A r \in Request : r \in Held' <=> r \in Held \/ r = new
  <2> SUFFICES ASSUME NEW r \in Request
               PROVE  r \in Held' <=> r \in Held \/ r = new
    OBVIOUS
  <2>1. ASSUME r \in Held'
        PROVE  r \in Held \/ r = new
    <3>1. CASE r = active'.req
      BY <1>1, <3>1, HeldWhen
    <3>2. ASSUME NEW i \in 1..Len(control'), control'[i].req = r
          PROVE  r \in Held \/ r = new
      <4>1. CASE i \in 1..Len(control)
        BY <1>2, <3>2, <4>1, HeldWhen
      <4>2. CASE i = Len(control) + 1
        BY <1>2, <3>2, <4>2
      <4> QED
        BY <1>2, <4>1, <4>2
    <3> QED
      BY <2>1, <3>1, <3>2, HeldWhenPrime
  <2>2. ASSUME r \in Held \/ r = new
        PROVE  r \in Held'
    <3>1. CASE r = active.req
      BY <1>1, <3>1, HeldWhenPrime
    <3>2. ASSUME NEW i \in 1..Len(control), control[i].req = r
          PROVE  r \in Held'
      <4>1. i \in 1..Len(control') /\ control'[i].req = r
        BY <1>2, <3>2
      <4> QED
        BY <4>1, HeldWhenPrime
    <3>3. CASE r = new
      <4>1. Len(control) + 1 \in 1..Len(control')
        BY <1>2
      <4> QED
        BY <1>2, <3>3, <4>1, HeldWhenPrime
    <3> QED
      BY <2>2, <3>1, <3>2, <3>3, HeldWhen
  <2> QED
    BY <2>1, <2>2
<1>6. NoRequestLost'
  BY <1>3, <1>5 DEF Ledger, NoRequestLost, Plain
<1>7. InIssueOrder'
  <2>1. \A i \in 1..Len(control) : control[i].req < new
    BY <1>4, HeldWhen, RequestNumbers
  <2>2. active.req < new
    BY <1>1, <1>4, HeldWhen, RequestNumbers
  <2>3. \A i \in 1..Len(control') :
           i \in 1..Len(control) \/ i = Len(control) + 1
    BY <1>2
  <2> QED
    BY <1>1, <1>2, <2>1, <2>2, <2>3 DEF Ledger, InIssueOrder
<1>8. Numbered'
  <2>1. issued \in Nat
    BY DEF TypeInv, TypeOK, InnerTypeOK
  <2>2. ASSUME NEW r \in Request
        PROVE  r > issued' <=> answer'[r].is = "Unissued"
    <3>1. r \in Nat
      BY RequestNumbers
    <3>2. r > issued <=> answer[r].is = "Unissued"
      BY DEF Ledger, Numbered
    <3>3. CASE r = new
      <4>1. ~(r > issued')
        BY <1>1, <2>1, <3>1, <3>3
      <4>2. answer'[r].is = "Open"
        BY <1>3, <3>3 DEF Plain
      <4> QED
        BY <4>1, <4>2
    <3>4. CASE r # new
      <4>1. r > issued' <=> r > issued
        BY <1>1, <2>1, <3>1, <3>4
      <4>2. answer'[r] = answer[r]
        BY <1>3, <3>4
      <4> QED
        BY <3>2, <4>1, <4>2
    <3> QED
      BY <3>3, <3>4
  <2> QED
    BY <2>2 DEF Numbered
<1>9. BlankUntilAnswered'
  BY <1>3 DEF Ledger, BlankUntilAnswered, Plain
<1> QED
  BY <1>6, <1>7, <1>8, <1>9 DEF Ledger

(* What the code sends on a oneshot is final.                              *)
LEMMA FinalValues ==
    /\ \A outcome \in Outcomes \ {"Unissued", "Open", "RequestSuperseded"} :
           Final(Plain(outcome))
    /\ \A m \in Message \cup {NoMessage} : Final(Carrying(m))
BY AnswerTypes DEF Final, Sent, Plain, Carrying

(* Leaving the loop, with the request in flight answered or not.           *)
LEMMA ExitKind ==
    ASSUME TypeInv, Ledger, NEW told \in [Request -> Answer], ExitLoop(told),
           \A r \in Request :
               told[r] = answer[r] \/ (r = active.req /\ Final(told[r]))
    PROVE  Exits
<1>1. Final(Plain("Closed"))
  BY FinalValues DEF Outcomes
<1>2. answer' \in [Request -> Answer]
  BY AnswerTypes DEF ExitLoop, Outcomes
<1>3. ASSUME NEW r \in Request
      PROVE  IF r \in Held THEN Final(answer'[r])
                           ELSE answer'[r] = answer[r]
  <2>1. answer'[r] = IF r \in Held /\ told[r].is = "Open"
                     THEN Plain("Closed") ELSE told[r]
    BY DEF ExitLoop
  <2>2. CASE r \in Held
    BY <1>1, <2>1, <2>2 DEF Ledger, NoRequestLost, Final, Sent
  <2>3. CASE r \notin Held
    BY <2>1, <2>3, HeldWhen
  <2> QED
    BY <2>2, <2>3
<1> QED
  BY <1>2, <1>3 DEF Exits, ExitLoop

(* Every step of the inner task is of one of the kinds.                    *)
LEMMA InnerKinds ==
    ASSUME TypeInv, Ledger, InnerLoop
    PROVE  Quiet \/ Settles \/ Exits \/ TakeControl
<1>1. \A outcome \in Outcomes \ {"Unissued", "Open", "RequestSuperseded"} :
         Complete(Plain(outcome)) /\ UNCHANGED <<control, issued>> => Settles
  BY FinalValues DEF Settles, Final, Sent
<1>2. \A m \in Message \cup {NoMessage} :
         Complete(Carrying(m)) /\ UNCHANGED <<control, issued>> => Settles
  BY FinalValues DEF Settles, Final, Sent
<1>3. /\ answer \in [Request -> Answer]
      /\ inbox \in Message \cup {NoMessage}
      /\ pending \in Message \cup {NoMessage}
  BY DEF TypeInv, TypeOK, InnerTypeOK
<1>4. ExitLoop(answer) => Exits
  BY <1>3, ExitKind
<1>5. CASE DeadlineReached
  BY <1>1, <1>5 DEF DeadlineReached, Outcomes
<1>6. CASE ControlClosed
  BY <1>4, <1>6 DEF ControlClosed
<1>7. CASE TakeMessage \/ HandleBindSocket \/ AnswerAliveCheck
           \/ AckIgnored \/ BufferResponse \/ DropMessage
  BY <1>7 DEF Quiet, TakeMessage, HandleBindSocket, AnswerAliveCheck,
              AckIgnored, BufferResponse, DropMessage
<1>8. CASE SocketLost
  BY <1>1, <1>8 DEF SocketLost, Outcomes
<1>9. CASE SocketBound \/ BindFails
  BY <1>1, <1>9 DEF SocketBound, BindFails, Outcomes
<1>10. CASE HandleUnbindSocket
  BY <1>1, <1>10 DEF HandleUnbindSocket, Outcomes
<1>11. CASE HandleSend
  <2>1. active \in ActiveRequest
    BY <1>11 DEF HandleSend, Handling, TypeInv, TypeOK, InnerTypeOK,
                 NoRequest
  <2> QED
    BY <1>11, <2>1 DEF HandleSend, ActiveRequest, Quiet
<1>12. CASE HandleSendFails
  BY <1>1, <1>12 DEF HandleSendFails, Outcomes
<1>13. CASE HandleReceiveBuffered
  BY <1>2, <1>3, <1>13 DEF HandleReceiveBuffered
<1>14. CASE HandleReceive
  <2>1. active \in ActiveRequest
    BY <1>14 DEF HandleReceive, Handling, TypeInv, TypeOK, InnerTypeOK,
                 NoRequest
  <2>2. CASE conn = 0
    BY <1>1, <1>14, <2>2 DEF HandleReceive, Outcomes
  <2>3. CASE conn # 0
    BY <1>14, <2>1, <2>3 DEF HandleReceive, ActiveRequest, Quiet
  <2> QED
    BY <2>2, <2>3
<1>15. CASE AckReceived
  BY <1>1, <1>15 DEF AckReceived, Outcomes
<1>16. CASE ResponseReceived
  <2>1. PICK value \in {Carrying(inbox), Plain("UnexpectedMessageType")} :
           \/ Complete(value) /\ UNCHANGED <<control, issued>>
           \/ ExitLoop(Told(value))
    BY <1>16 DEF ResponseReceived
  <2>2. Final(value)
    BY <1>3, FinalValues DEF Outcomes
  <2>3. Told(value) \in [Request -> Answer]
    BY <2>2, ToldType DEF TypeInv, TypeOK, Final, Sent
  <2>4. \A r \in Request : \/ Told(value)[r] = answer[r]
                           \/ r = active.req /\ Final(Told(value)[r])
    BY <1>3, <2>2 DEF Told
  <2>5. ExitLoop(Told(value)) => Exits
    BY <2>3, <2>4, ExitKind
  <2> QED
    BY <1>1, <1>2, <1>3, <2>1, <2>5 DEF Outcomes
<1>17. CASE ForwardUpdate
  BY <1>4, <1>17 DEF ForwardUpdate, Quiet
<1> QED
  BY <1>5, <1>6, <1>7, <1>8, <1>9, <1>10, <1>11, <1>12, <1>13, <1>14, <1>15,
     <1>16, <1>17 DEF InnerLoop

(* A step of the caller issues a request or leaves the inner task and its  *)
(* socket alone.                                                           *)
LEMMA CallerKinds ==
    ASSUME Caller
    PROVE  \/ UNCHANGED <<control, issued, answer, inner, active, deadline,
                          inbox, pending, socketVars>>
           \/ \E kind \in ControlKinds : Issue(kind)
<1>1. CASE StartBind \/ StartActivation
  BY <1>1 DEF StartBind, StartActivation, ControlKinds
<1>2. ASSUME NEW kind \in {"UnbindSocket", "SendDiagnosticMessage",
                           "ReceiveDiagnosticResponse"},
             CallRequest(kind)
      PROVE  \E k \in ControlKinds : Issue(k)
  BY <1>2 DEF CallRequest, ControlKinds
<1>3. CASE CallReconnect \/ ReconnectNothing
  BY <1>3 DEF CallReconnect, ReconnectNothing, innerVars
<1>4. CASE BindReplied \/ ActivationReplied \/ ActivationElapsed \/ BindRefused
  BY <1>4 DEF BindReplied, ActivationReplied, ActivationElapsed, BindRefused,
              Untouched
<1>5. CASE ReconnectUpdate \/ DrainUpdate
  BY <1>5 DEF ReconnectUpdate, DrainUpdate
<1>6. CASE RequestReplied \/ ShutDownReturns \/ Cancel
  BY <1>6 DEF RequestReplied, ShutDownReturns, Cancel, Untouched
<1>7. CASE DropClient \/ CallShutDown
  BY <1>7 DEF DropClient, CallShutDown, Untouched
<1> QED
  BY <1>1, <1>2, <1>3, <1>4, <1>5, <1>6, <1>7 DEF Caller, CallerReplies

(* Every step of the system is of one of the kinds, or a request comes in. *)
LEMMA StepKinds ==
    ASSUME TypeInv, Ledger, [Next]_vars
    PROVE  \/ Quiet \/ Settles \/ Exits \/ TakeControl
           \/ \E kind \in ControlKinds : Issue(kind)
<1>1. CASE Caller
  BY <1>1, CallerKinds DEF Quiet
<1>2. CASE SocketLoop /\ UNCHANGED <<call, innerVars>>
  BY <1>2 DEF Quiet, innerVars
<1>3. CASE UNCHANGED vars
  BY <1>3 DEF Quiet, vars, innerVars
<1> QED
  BY <1>1, <1>2, <1>3, InnerKinds DEF Next

(* Every step keeps the ledger.                                            *)
LEMMA LedgerStep ==
    ASSUME TypeInv, Ledger, [Next]_vars
    PROVE  Ledger'
BY TypeStep, StepKinds, QuietStep, SettlesStep, ExitsStep, TakeStep, IssueStep

(* Where every behaviour starts.                                           *)
LEMMA LedgerBase == Init => Ledger
<1> SUFFICES ASSUME Init PROVE Ledger
  OBVIOUS
<1>1. /\ Len(control) = 0 /\ active.req = 0 /\ issued = 0
      /\ \A r \in Request : answer[r].is = "Unissued" /\ answer[r].msg = NoMessage
  BY EmptyFacts DEF Init, InnerInit, NoRequest, Plain
<1>2. NoRequestLost
  <2>1. Held = {}
    BY <1>1 DEF Held
  <2> QED
    BY <1>1, <2>1 DEF NoRequestLost
<1>3. InIssueOrder
  BY <1>1 DEF InIssueOrder
<1>4. Numbered
  BY <1>1, InnerAssumption DEF Numbered, Request
<1>5. BlankUntilAnswered
  BY <1>1 DEF BlankUntilAnswered
<1> QED
  BY <1>2, <1>3, <1>4, <1>5 DEF Ledger

(* Take-or-restore, for every number of requests: the inner task never     *)
(* drops the Sender of a request it has not answered, and never keeps one  *)
(* it has answered.                                                        *)
THEOREM NoSenderDropped == Spec => []NoRequestLost
<1>1. Ledger => NoRequestLost
  BY DEF Ledger
<1> QED
  BY <1>1, TypeBase, TypeStep, LedgerBase, LedgerStep, PTL DEF Spec

(* The call under way waits for the newest request, which is not           *)
(* superseded as long as there is no newer one.                            *)
Newest == waiter # 0 =>
              waiter = issued /\ answer[waiter].is # "RequestSuperseded"

(* A call stops waiting or waits for the request it issues.                *)
LEMMA WaiterMoves ==
    ASSUME [Next]_vars
    PROVE  \/ waiter' \in {waiter, 0}
           \/ \E kind \in ControlKinds : Issue(kind)
<1>1. CASE BindReplied \/ ActivationReplied \/ ActivationElapsed \/ BindRefused
  BY <1>1 DEF BindReplied, ActivationReplied, ActivationElapsed, BindRefused,
              Return, BindSucceeds
<1>2. CASE ReconnectUpdate \/ DrainUpdate \/ CallReconnect \/ ReconnectNothing
  BY <1>2 DEF ReconnectUpdate, DrainUpdate, CallReconnect, ReconnectNothing,
              innerVars
<1>3. CASE RequestReplied \/ ShutDownReturns \/ Cancel \/ DropClient \/ CallShutDown
  BY <1>3 DEF RequestReplied, ShutDownReturns, Cancel, Return, DropClient,
              CallShutDown
<1>4. CASE StartBind \/ StartActivation
  BY <1>4 DEF StartBind, StartActivation, ControlKinds
<1>5. ASSUME NEW kind \in {"UnbindSocket", "SendDiagnosticMessage",
                           "ReceiveDiagnosticResponse"},
             CallRequest(kind)
      PROVE  \E k \in ControlKinds : Issue(k)
  BY <1>5 DEF CallRequest, ControlKinds
<1>6. CASE InnerLoop
  BY <1>6 DEF InnerLoop, DeadlineReached, ControlClosed, TakeControl,
     TakeMessage, SocketLost, HandleBindSocket, SocketBound, BindFails,
     HandleUnbindSocket, HandleSend, HandleSendFails, HandleReceiveBuffered,
     HandleReceive, AnswerAliveCheck, AckIgnored, AckReceived,
     ResponseReceived, BufferResponse, ForwardUpdate, DropMessage, ExitLoop
<1>7. CASE UNCHANGED waiter
  BY <1>7
<1> QED
  BY <1>1, <1>2, <1>3, <1>4, <1>5, <1>6, <1>7
     DEF Next, Caller, CallerReplies, vars, innerVars

(* The control arm supersedes an older request than the newest.            *)
LEMMA NewestStep ==
    ASSUME TypeInv, Ledger, Newest, [Next]_vars
    PROVE  Newest'
<1>1. CASE \E kind \in ControlKinds : Issue(kind)
  <2>1. /\ waiter' = issued' /\ waiter' \in Request
        /\ answer' = [answer EXCEPT ![waiter'] = Plain("Open")]
    BY <1>1, InnerAssumption DEF Issue, Request, TypeInv, TypeOK, InnerTypeOK
  <2>2. answer'[waiter'] = Plain("Open")
    BY <2>1 DEF TypeInv, TypeOK, InnerTypeOK
  <2> QED
    BY <2>1, <2>2 DEF Newest, Plain
<1>2. CASE waiter' = 0
  BY <1>2 DEF Newest
<1>3. ASSUME waiter' = waiter, waiter # 0,
             Quiet \/ Settles \/ Exits \/ TakeControl
      PROVE  Newest'
  <2>1. issued' = issued
    BY <1>3 DEF Quiet, Settles, Exits, TakeControl
  <2>2. waiter = issued /\ answer[waiter].is # "RequestSuperseded"
    BY <1>3 DEF Newest
  <2>3. waiter \in Request /\ issued \in Nat
    BY <1>3, InnerAssumption DEF Request, TypeInv, TypeOK, InnerTypeOK
  <2>4. CASE Quiet
    BY <1>3, <2>1, <2>2, <2>4 DEF Newest, Quiet
  <2>5. CASE Settles
    <3>1. PICK value \in Answer : Final(value) /\ Complete(value)
      BY <2>5 DEF Settles
    <3>2. answer'[waiter] \in {answer[waiter], value}
      BY <2>3, <3>1 DEF Complete, Told, TypeInv, TypeOK, InnerTypeOK
    <3> QED
      BY <1>3, <2>1, <2>2, <3>1, <3>2 DEF Newest, Final, Sent
  <2>6. CASE Exits
    <3>1. answer'[waiter] = answer[waiter] \/ Final(answer'[waiter])
      BY <2>3, <2>6 DEF Exits
    <3> QED
      BY <1>3, <2>1, <2>2, <3>1 DEF Newest, Final, Sent
  <2>7. CASE TakeControl
    <3>1. 1 \in 1..Len(control)
      BY <2>7, TakeFacts DEF TakeControl, TypeInv, TypeOK, InnerTypeOK
    <3>2. active.req < control[1].req /\ control[1].req \in Request
      BY <3>1, RequestNumbers DEF Ledger, InIssueOrder
    <3>3. answer[control[1].req].is = "Open"
      BY <3>1, <3>2, HeldWhen DEF Ledger, NoRequestLost
    <3>4. ~(control[1].req > issued)
      BY <3>2, <3>3 DEF Ledger, Numbered
    <3>5. active.req # waiter
      BY <2>2, <2>3, <3>2, <3>4, RequestNumbers
    <3>6. answer'[waiter] = answer[waiter]
      BY <2>3, <2>7, <3>5 DEF TakeControl, Told, TypeInv, TypeOK, InnerTypeOK
    <3> QED
      BY <1>3, <2>1, <2>2, <3>6 DEF Newest
  <2> QED
    BY <1>3, <2>4, <2>5, <2>6, <2>7
<1> QED
  BY <1>1, <1>2, <1>3, WaiterMoves, StepKinds

(* RequestSuperseded tells only calls that nobody waits for: the inner     *)
(* task takes requests in the order they were issued, so what it displaces *)
(* is older than the request of the call under way.                        *)
THEOREM WaitersAreNotSuperseded == Spec => []SupersededIsAbandoned
<1>1. Newest => SupersededIsAbandoned
  BY DEF Newest, SupersededIsAbandoned
<1>2. Init => Newest
  BY Zenon DEF Init, InnerInit, Newest
<1> QED
  BY <1>1, <1>2, TypeBase, TypeStep, LedgerBase, LedgerStep, NewestStep,
     PTL DEF Spec

----------------------------------------------------------------------------
(* The request in flight.                                                  *)

InFlight == PendingIsArmed /\ PendingHasSocket /\ NoWaitBesideBuffer

(* The inner task never waits without a deadline of the request's own,     *)
(* without a socket, or beside a response it already has.                  *)
LEMMA InFlightInner ==
    ASSUME TypeInv, InFlight, InnerLoop
    PROVE  InFlight'
<1> USE DEF InFlight, PendingIsArmed, PendingHasSocket, NoWaitBesideBuffer
<1>1. CASE DeadlineReached
  BY <1>1 DEF DeadlineReached, Complete, NoRequest, socketVars
<1>2. CASE TakeControl
  <2>1. Head(control) \in ControlMessage
    BY <1>2, TakeFacts DEF TakeControl, TypeInv, TypeOK, InnerTypeOK
  <2> QED
    BY <1>2, <2>1 DEF TakeControl, ControlMessage, ControlKinds
<1>3. CASE TakeMessage
  BY <1>3 DEF TakeMessage, ReceiveSocket
<1>4. CASE SocketLost
  BY <1>4 DEF SocketLost, Complete, NoRequest
<1>5. CASE HandleBindSocket
  BY <1>5 DEF HandleBindSocket, Handling
<1>6. CASE SocketBound \/ BindFails
  BY <1>6, SMTT(30) DEF SocketBound, BindFails, Complete, NoRequest
<1>7. CASE HandleUnbindSocket \/ HandleSendFails \/ HandleReceiveBuffered
  BY <1>7, SMTT(30) DEF HandleUnbindSocket, HandleSendFails, HandleReceiveBuffered,
              Complete, NoRequest
<1>8. CASE HandleSend
  <2>1. active \in ActiveRequest
    BY <1>8 DEF HandleSend, Handling, TypeInv, TypeOK, InnerTypeOK,
                NoRequest
  <2> QED
    BY <1>8, <2>1 DEF HandleSend, SendSocket, ActiveRequest, Awaiting,
                      AwaitKinds
<1>9. CASE HandleReceive
  <2>1. active \in ActiveRequest
    BY <1>9 DEF HandleReceive, Handling, TypeInv, TypeOK, InnerTypeOK,
                NoRequest
  <2> QED
    BY <1>9, <2>1 DEF HandleReceive, ActiveRequest, AwaitKinds, Complete,
                      NoRequest, socketVars
<1>10. CASE AnswerAliveCheck
  BY <1>10 DEF AnswerAliveCheck, SendSocket, socketVars
<1>11. CASE AckReceived \/ AckIgnored \/ DropMessage
  BY <1>11, SMTT(30) DEF AckReceived, AckIgnored, DropMessage, Processed, Complete,
               NoRequest, socketVars
<1>12. CASE ResponseReceived
  BY <1>12, SMTT(30) DEF ResponseReceived, ExitLoop, Processed, Complete, NoRequest,
               socketVars
<1>13. CASE BufferResponse
  BY <1>13 DEF BufferResponse, Processed, NoRequest, socketVars
<1>14. CASE ForwardUpdate
  BY <1>14 DEF ForwardUpdate, ExitLoop, Processed, NoRequest, socketVars
<1>15. CASE ControlClosed
  BY <1>15 DEF ControlClosed, ExitLoop, NoRequest
<1> QED
  BY <1>1, <1>2, <1>3, <1>4, <1>5, <1>6, <1>7, <1>8, <1>9, <1>10, <1>11,
     <1>12, <1>13, <1>14, <1>15 DEF InnerLoop

(* No other task disturbs that.                                            *)
LEMMA InFlightStep ==
    ASSUME TypeInv, InFlight, [Next]_vars
    PROVE  InFlight'
<1>1. CASE Caller
  <2>1. UNCHANGED <<inner, active, deadline, pending, conn>>
    BY <1>1, CallerKinds, Zenon DEF Issue, socketVars
  <2> QED
    BY <2>1
       DEF InFlight, PendingIsArmed, PendingHasSocket, NoWaitBesideBuffer
<1>2. CASE SocketLoop /\ UNCHANGED <<call, innerVars>>
  <2>1. UNCHANGED conn
    BY <1>2 DEF SocketLoop, SocketRead, SocketForward, SocketWrite,
                EntityCloses, SocketEnds
  <2> QED
    BY <1>2, <2>1 DEF InFlight, PendingIsArmed, PendingHasSocket,
                      NoWaitBesideBuffer, innerVars
<1>3. CASE UNCHANGED vars
  BY <1>3 DEF InFlight, PendingIsArmed, PendingHasSocket,
              NoWaitBesideBuffer, vars, innerVars, socketVars
<1> QED
  BY <1>1, <1>2, <1>3, InFlightInner DEF Next

(* Where every behaviour starts.                                           *)
LEMMA InFlightBase == Init => InFlight
BY DEF Init, InnerInit, InFlight, PendingIsArmed, PendingHasSocket,
       NoWaitBesideBuffer, NoRequest

(* The deadline left set by a delivered response can never fire for        *)
(* another request: whatever waits has a deadline and it is its own.       *)
THEOREM DeadlineIsItsOwn == Spec => []PendingIsArmed
<1>1. InFlight => PendingIsArmed
  BY DEF InFlight
<1> QED
  BY <1>1, TypeBase, TypeStep, InFlightBase, InFlightStep, PTL DEF Spec

(* The unwrap of tcp_data_socket in process_received_message cannot fail,  *)
(* and nothing waits for a socket that is gone.                            *)
THEOREM WaitsWithSocket == Spec => []PendingHasSocket
<1>1. InFlight => PendingHasSocket
  BY DEF InFlight
<1> QED
  BY <1>1, TypeBase, TypeStep, InFlightBase, InFlightStep, PTL DEF Spec

(* A receive never waits while a response is buffered.                     *)
THEOREM BufferIsDrainedFirst == Spec => []NoWaitBesideBuffer
<1>1. InFlight => NoWaitBesideBuffer
  BY DEF InFlight
<1> QED
  BY <1>1, TypeBase, TypeStep, InFlightBase, InFlightStep, PTL DEF Spec

----------------------------------------------------------------------------
(* The oneshots implement RequestReply.                                    *)

(* Answering every open request up to r.                                   *)
LEMMA UpTo ==
    ASSUME TypeInv, TypeInv', Ledger, NEW r \in Request,
           answer[r].is = "Open",
           \A q \in Request : IF q <= r /\ answer[q].is = "Open"
                              THEN Sent(answer'[q])
                              ELSE answer'[q] = answer[q]
    PROVE  Replies!AnswerUpTo(r)
<1>1. \A q \in Request : /\ answer[q] = Plain("Open") <=> answer[q].is = "Open"
                         /\ Sent(answer'[q]) =>
                               answer'[q] \notin {Plain("Unissued"), Plain("Open")}
  <2> SUFFICES ASSUME NEW q \in Request
               PROVE  /\ answer[q] = Plain("Open") <=> answer[q].is = "Open"
                      /\ Sent(answer'[q]) =>
                            answer'[q] \notin {Plain("Unissued"), Plain("Open")}
    OBVIOUS
  <2>1. answer[q] \in Answer
    BY DEF TypeInv, TypeOK, InnerTypeOK
  <2>2. answer[q].is = "Open" => answer[q].msg = NoMessage
    BY DEF Ledger, BlankUntilAnswered
  <2>3. Plain("Unissued").is = "Unissued" /\ Plain("Open").is = "Open"
    BY DEF Plain
  <2>4. answer[q].is = "Open" => answer[q] = Plain("Open")
    BY <2>1, <2>2 DEF Answer, Plain
  <2>5. Sent(answer'[q]) =>
            answer'[q] \notin {Plain("Unissued"), Plain("Open")}
    BY <2>3, Zenon DEF Sent
  <2> QED
    BY <2>3, <2>4, <2>5, Zenon
<1>2. answer' = [q \in 1..MaxRequest |->
                    IF q <= r /\ answer[q] = Plain("Open") THEN answer'[q]
                                                           ELSE answer[q]]
  BY <1>1 DEF TypeInv, TypeOK, InnerTypeOK, Request
<1>3. ASSUME NEW q \in 1..r
      PROVE  answer'[q] \notin {Plain("Unissued"), Plain("Open")}
  <2>1. q \in Request /\ q <= r
    BY InnerAssumption DEF Request
  <2>2. issued \in Nat /\ ~(r > issued)
    BY SMTT(30) DEF Ledger, Numbered, TypeInv, TypeOK, InnerTypeOK
  <2>3. ~(q > issued)
    BY <2>1, <2>2, RequestNumbers
  <2>4. answer[q].is # "Unissued"
    BY <2>1, <2>3 DEF Ledger, Numbered
  <2>5. Plain("Unissued").is = "Unissued" /\ Plain("Open").is = "Open"
    BY DEF Plain
  <2>6. CASE answer[q].is = "Open"
    BY <1>1, <2>1, <2>6, Zenon
  <2>7. CASE answer[q].is # "Open"
    <3>1. answer'[q] = answer[q]
      BY <2>1, <2>7, Zenon
    <3> QED
      BY <2>4, <2>5, <2>7, <3>1
  <2> QED
    BY <2>6, <2>7
<1> QED
  BY <1>1, <1>2, <1>3 DEF Replies!AnswerUpTo, Replies!Answered

(* Answering the request in flight: by the order of the requests nothing   *)
(* older is open.                                                          *)
LEMMA TellsInOrder ==
    ASSUME TypeInv, TypeInv', Ledger, NEW value \in Answer, Sent(value),
           answer' = Told(value)
    PROVE  UNCHANGED answer \/ \E r \in Request : Replies!AnswerUpTo(r)
<1>1. CASE active = NoRequest
  BY <1>1 DEF Told
<1>2. CASE active # NoRequest
  <2>1. active.req \in Request /\ answer[active.req].is = "Open"
    <3>1. active.req \in Request
      BY <1>2, RequestNumbers, Zenon
    <3>2. active.req \in Held
      BY <3>1, HeldWhen, Zenon
    <3> QED
      BY <3>1, <3>2, Zenon DEF Ledger, NoRequestLost
  <2>2. ASSUME NEW q \in Request, q <= active.req, answer[q].is = "Open"
        PROVE  q = active.req
    <3>1. q \in Held
      BY <2>2 DEF Ledger, NoRequestLost
    <3>2. ASSUME NEW i \in 1..Len(control), control[i].req = q
          PROVE  FALSE
      <4>1. active.req < q
        BY <3>2 DEF Ledger, InIssueOrder
      <4> QED
        BY <2>1, <2>2, <4>1, RequestNumbers
    <3> QED
      BY <3>1, <3>2, HeldWhen
  <2>3. \A q \in Request : IF q <= active.req /\ answer[q].is = "Open"
                           THEN Sent(answer'[q])
                           ELSE answer'[q] = answer[q]
    <3>1. answer \in [Request -> Answer]
      BY DEF TypeInv, TypeOK, InnerTypeOK
    <3>2. answer' = [answer EXCEPT ![active.req] = value]
      BY <1>2 DEF Told
    <3>3. \A q \in Request :
             answer'[q] = IF q = active.req THEN value ELSE answer[q]
      BY <2>1, <3>1, <3>2
    <3>4. active.req <= active.req
      <4>1. active.req \in Nat
        BY <2>1, RequestNumbers, Zenon
      <4> QED
        BY <4>1
    <3> QED
      BY <2>1, <2>2, <3>3, <3>4, Zenon
  <2> QED
    BY <2>1, <2>3, UpTo
<1> QED
  BY <1>1, <1>2

(* Leaving the loop answers every open request at once, the newest of them *)
(* the last one queued.                                                    *)
LEMMA ExitsInOrder ==
    ASSUME TypeInv, TypeInv', Ledger, Exits
    PROVE  UNCHANGED answer \/ \E r \in Request : Replies!AnswerUpTo(r)
<1>1. \A q \in Request : IF answer[q].is = "Open" THEN Sent(answer'[q])
                                                  ELSE answer'[q] = answer[q]
  BY DEF Exits, Ledger, NoRequestLost, Final, Sent
<1>2. ASSUME NEW r \in Request, answer[r].is = "Open",
             \A q \in Request : answer[q].is = "Open" => q <= r
      PROVE  Replies!AnswerUpTo(r)
  BY <1>1, <1>2, UpTo
<1>3. CASE Len(control) # 0
  <2> DEFINE r == control[Len(control)].req
  <2>1. Len(control) \in 1..Len(control) /\ r \in Request
    <3>1. Len(control) \in Nat
      BY RequestNumbers, Zenon
    <3>2. Len(control) \in 1..Len(control)
      BY <1>3, <3>1
    <3> QED
      BY <3>2, RequestNumbers, Zenon
  <2>2. answer[r].is = "Open"
    BY <2>1, HeldWhen DEF Ledger, NoRequestLost
  <2>3. ASSUME NEW q \in Request, answer[q].is = "Open"
        PROVE  q <= r
    <3>1. CASE q = active.req
      BY <2>1, <3>1, RequestNumbers DEF Ledger, InIssueOrder
    <3>2. ASSUME NEW i \in 1..Len(control), control[i].req = q
          PROVE  q <= r
      BY <2>1, <3>2, RequestNumbers DEF Ledger, InIssueOrder
    <3> QED
      BY <2>3, <3>1, <3>2, HeldWhen DEF Ledger, NoRequestLost
  <2> QED
    BY <1>2, <2>1, <2>2, <2>3
<1>4. CASE Len(control) = 0 /\ active # NoRequest
  <2>1. active.req \in Request /\ answer[active.req].is = "Open"
    BY <1>4, HeldWhen, RequestNumbers DEF Ledger, NoRequestLost
  <2>2. \A q \in Request : answer[q].is = "Open" => q = active.req
    BY <1>4, HeldWhen DEF Ledger, NoRequestLost
  <2> QED
    BY <1>2, <2>1, <2>2, RequestNumbers
<1>5. CASE Len(control) = 0 /\ active = NoRequest
  <2>1. \A q \in Request : answer[q].is # "Open"
    BY <1>5, HeldWhen, RequestNumbers DEF Ledger, NoRequestLost
  <2> QED
    BY <1>1, <2>1 DEF TypeInv, TypeOK, InnerTypeOK
<1> QED
  BY <1>3, <1>4, <1>5

(* A request that is issued is the lowest number not yet used.             *)
LEMMA IssuesInOrder ==
    ASSUME TypeInv, Ledger, NEW kind \in ControlKinds, Issue(kind)
    PROVE  Replies!Issue(issued + 1) /\ issued + 1 \in Request
<1>1. issued + 1 \in Request /\ issued \in Nat
  BY InnerAssumption DEF Issue, Request, TypeInv, TypeOK, InnerTypeOK
<1>2. answer[issued + 1] = Plain("Unissued")
  <2>1. answer[issued + 1] \in Answer
    BY <1>1 DEF TypeInv, TypeOK, InnerTypeOK
  <2>2. answer[issued + 1].is = "Unissued"
    <3>1. issued + 1 > issued
      BY <1>1
    <3> QED
      BY <1>1, <3>1 DEF Ledger, Numbered
  <2>3. answer[issued + 1].msg = NoMessage
    BY <1>1, <2>2 DEF Ledger, BlankUntilAnswered
  <2> QED
    BY <2>1, <2>2, <2>3 DEF Answer, Plain
<1>3. \A q \in 1..issued : q \in Request /\ answer[q] # Plain("Unissued")
  <2> SUFFICES ASSUME NEW q \in 1..issued
               PROVE  q \in Request /\ answer[q] # Plain("Unissued")
    OBVIOUS
  <2>1. q \in Request /\ ~(q > issued)
    BY <1>1, InnerAssumption DEF Request
  <2>2. answer[q].is # "Unissued"
    BY <2>1 DEF Ledger, Numbered
  <2>3. Plain("Unissued").is = "Unissued"
    BY DEF Plain
  <2> QED
    BY <2>1, <2>2, <2>3, Zenon
<1> QED
  BY <1>1, <1>2, <1>3 DEF Replies!Issue, Issue

(* The client implements the request-reply abstraction, for every number   *)
(* of requests: answers come in the order of the requests, once each, and  *)
(* are never taken back.                                                   *)
THEOREM ImplementsRequestReply == Spec => AnswersOnceInOrder
<1>1. Init => Replies!Init
  BY DEF Init, InnerInit, Replies!Init, Request
<1>2. ASSUME TypeInv, Ledger, [Next]_vars
      PROVE  [Replies!Next]_answer
  <2>1. CASE Quiet
    BY <2>1 DEF Quiet
  <2>2. CASE Settles
    BY <1>2, <2>2, TypeStep, TellsInOrder
       DEF Settles, Complete, Final, Replies!Next, Request
  <2>3. CASE Exits
    BY <1>2, <2>3, TypeStep, ExitsInOrder DEF Replies!Next, Request
  <2>4. CASE TakeControl
    <3>1. Sent(Plain("RequestSuperseded"))
      BY AnswerTypes DEF Sent, Plain, Outcomes
    <3> QED
      BY <1>2, <2>4, <3>1, TypeStep, TellsInOrder
         DEF TakeControl, Sent, Replies!Next, Request
  <2>5. CASE \E kind \in ControlKinds : Issue(kind)
    BY <1>2, <2>5, IssuesInOrder DEF Replies!Next, Request
  <2> QED
    BY <1>2, <2>1, <2>2, <2>3, <2>4, <2>5, StepKinds
<1> QED
  BY <1>1, <1>2, TypeBase, TypeStep, LedgerBase, LedgerStep, PTL
     DEF Spec, AnswersOnceInOrder, Replies!Spec

----------------------------------------------------------------------------
(* What a step may never do.                                               *)

(* Steps of the caller and of the socket task leave the buffer alone.      *)
LEMMA CallerKeepsTask ==
    ASSUME Caller \/ (SocketLoop /\ UNCHANGED <<call, innerVars>>) \/ UNCHANGED vars
    PROVE  UNCHANGED <<inner, pending>>
<1>1. CASE Caller
  BY <1>1, Zenon
     DEF Caller, CallerReplies, CallReconnect, StartBind, StartActivation, CallRequest, Issue, BindReplied, ActivationReplied, ActivationElapsed,
     BindRefused, ReconnectUpdate, ReconnectNothing, RequestReplied, DrainUpdate,
     ShutDownReturns, Cancel, DropClient, CallShutDown, Untouched, innerVars
<1>2. CASE SocketLoop /\ UNCHANGED <<call, innerVars>>
  BY <1>2 DEF innerVars
<1>3. CASE UNCHANGED vars
  BY <1>3 DEF vars, innerVars
<1> QED
  BY <1>1, <1>2, <1>3

(* While the client is in use the inner task ends only over a response to  *)
(* a call that was given up.                                               *)
THEOREM OnlyGivenUpCallsEndLoop == Spec => LoopEndsOnlyForGivenUpCall
<1>1. ASSUME [Next]_vars, inner # "Exited", inner' = "Exited", client = "Open"
      PROVE  inner = "Dispatch" /\ AwaitsResponse /\ waiter # active.req
  <2>1. InnerLoop
    BY <1>1, CallerKeepsTask DEF Next
  <2>2. CASE ControlClosed \/ ForwardUpdate
    BY <1>1, <2>2 DEF ControlClosed, ForwardUpdate, Processed
  <2>3. CASE ResponseReceived
    BY <1>1, <2>3 DEF ResponseReceived, Processed
  <2>4. CASE \/ DeadlineReached \/ TakeControl \/ TakeMessage \/ SocketLost
             \/ HandleBindSocket \/ SocketBound \/ BindFails \/ HandleUnbindSocket
             \/ HandleSend \/ HandleSendFails \/ HandleReceiveBuffered
             \/ HandleReceive
    BY <1>1, <2>4 DEF DeadlineReached, TakeControl, TakeMessage, SocketLost,
       HandleBindSocket, SocketBound, BindFails, HandleUnbindSocket, HandleSend,
       HandleSendFails, HandleReceiveBuffered, HandleReceive
  <2>5. CASE \/ AnswerAliveCheck \/ AckReceived \/ AckIgnored
             \/ BufferResponse \/ DropMessage
    BY <1>1, <2>5 DEF AnswerAliveCheck, AckReceived, AckIgnored, BufferResponse,
       DropMessage, Processed
  <2> QED
    BY <2>1, <2>2, <2>3, <2>4, <2>5 DEF InnerLoop
<1>2. [Next]_vars =>
          [inner # "Exited" /\ inner' = "Exited" /\ client = "Open" =>
              inner = "Dispatch" /\ AwaitsResponse /\ waiter # active.req]_vars
  BY <1>1
<1> QED
  BY <1>2, PTL DEF Spec, LoopEndsOnlyForGivenUpCall

(* A buffered response is given up only to a receive that is open, or to a *)
(* newer response.                                                         *)
THEOREM BufferIsKept == Spec => BufferOutlivesSocket
<1>1. ASSUME TypeInv, Ledger, [Next]_vars,
             pending # NoMessage, pending' # pending, inner' # "Exited"
      PROVE  \/ pending'.kind = "DiagnosticMessage"
             \/ \E r \in Request : /\ answer[r].is = "Open"
                                   /\ answer'[r] = Carrying(pending)
  <2>1. InnerLoop
    BY <1>1, CallerKeepsTask DEF Next
  <2>2. CASE HandleReceiveBuffered
    <3>1. active # NoRequest /\ answer' = Told(Carrying(pending))
      BY <2>2 DEF HandleReceiveBuffered, Handling, Complete, NoRequest
    <3>2. active.req \in Request /\ answer[active.req].is = "Open"
      BY <1>1, <3>1, HeldWhen, RequestNumbers DEF Ledger, NoRequestLost
    <3>3. answer'[active.req] = Carrying(pending)
      BY <1>1, <3>1, <3>2 DEF Told, TypeInv, TypeOK, InnerTypeOK
    <3> QED
      BY <3>2, <3>3
  <2>3. CASE BufferResponse
    BY <2>3, Zenon DEF BufferResponse
  <2>4. CASE ControlClosed \/ ResponseReceived \/ ForwardUpdate
    BY <1>1, <2>4 DEF ControlClosed, ResponseReceived, ForwardUpdate, ExitLoop
  <2>5. CASE \/ DeadlineReached \/ TakeControl \/ TakeMessage \/ SocketLost
             \/ HandleBindSocket \/ SocketBound \/ BindFails \/ HandleUnbindSocket
             \/ HandleSend \/ HandleSendFails \/ HandleReceive
    BY <1>1, <2>5, Zenon DEF DeadlineReached, TakeControl, TakeMessage, SocketLost,
       HandleBindSocket, SocketBound, BindFails, HandleUnbindSocket, HandleSend,
       HandleSendFails, HandleReceive
  <2>6. CASE AnswerAliveCheck \/ AckReceived \/ AckIgnored \/ DropMessage
    BY <1>1, <2>6 DEF AnswerAliveCheck, AckReceived, AckIgnored, DropMessage
  <2> QED
    BY <2>1, <2>2, <2>3, <2>4, <2>5, <2>6, Zenon DEF InnerLoop
<1>2. TypeInv /\ Ledger /\ [Next]_vars =>
          [pending # NoMessage /\ pending' # pending /\ inner' # "Exited" =>
              \/ pending'.kind = "DiagnosticMessage"
              \/ \E r \in Request : /\ answer[r].is = "Open"
                                    /\ answer'[r] = Carrying(pending)]_vars
  BY <1>1
<1> QED
  BY <1>2, TypeBase, TypeStep, LedgerBase, LedgerStep, PTL
     DEF Spec, BufferOutlivesSocket
=============================================================================
