----------------------------- MODULE ClientInner ----------------------------
(***************************************************************************)
(* The inner task of the client: a select loop over a deadline, the        *)
(* control channel and the socket, holding at most one request in flight.  *)
(*                                                                         *)
(* A pass of the loop is two or three steps: the select arm that runs,     *)
(* then what the pass does with the request or the message it took.  Each  *)
(* await that can suspend the task for long (connecting, waiting for room  *)
(* in the socket channel or in the update channel) is a step whose guard   *)
(* is what the task waits for.                                             *)
(*                                                                         *)
(* Requests are numbered in the order they enter the control channel.      *)
(* Each carries the Sender of a oneshot channel; answer[r] is what was     *)
(* sent on it.                                                             *)
(*                                                                         *)
(* Next to some actions stands a faulty variant, a bug the code could have *)
(* had; no specification uses it, and each breaks a property.              *)
(***************************************************************************)
EXTENDS SocketManager

CONSTANTS MaxRequest,   (* bound: requests issued in a behaviour           *)
          ControlCap,   (* capacity of the control channel; 16             *)
          UpdateCap     (* capacity of the update channel; 16              *)

ASSUME InnerAssumption ==
    MaxRequest \in Nat /\ ControlCap \in Nat \ {0} /\ UpdateCap \in Nat \ {0}

VARIABLES
    client,    (* "Open": the facade holds control_sender and              *)
               (* update_receiver; "Closing": only the latter (shut_down); *)
               (* "Dropped": neither                                       *)
    control,   (* the control channel                                      *)
    updates,   (* the update channel                                       *)
    waiter,    (* the request whose oneshot Receiver is alive; 0 for none  *)
    issued,    (* requests sent so far                                     *)
    answer,    (* what each oneshot carried                                *)
    inner,     (* where the task is: at its select, in                     *)
               (* handle_control_message ("Handle", "Connect"), in         *)
               (* process_received_message ("SendAlive", "Dispatch"), or   *)
               (* past the loop                                            *)
    active,    (* active_request, also while handle_control_message has    *)
               (* taken it                                                 *)
    deadline,  (* the request whose handler set await_response_deadline;   *)
               (* 0 for None                                               *)
    inbox,     (* the message process_received_message is working on       *)
    pending    (* pending_diagnostic_response                              *)

innerVars == <<client, control, updates, waiter, issued, answer, inner,
               active, deadline, inbox, pending>>

Request == 1..MaxRequest
ControlKinds == {"BindSocket", "UnbindSocket", "RoutingActivation",
                 "SendDiagnosticMessage", "ReceiveDiagnosticResponse"}

(* The stored requests: as they were received, and as they wait.  An       *)
(* AwaitResponse is split by the payload type of the message it keeps.     *)
AwaitKinds == {"AwaitAck", "AwaitActivation", "AwaitDiagnostic"}
ControlMessage == [kind: ControlKinds, req: Request]
ActiveRequest == [kind: ControlKinds \cup AwaitKinds, req: Request]
NoRequest == [kind |-> "None", req |-> 0]

AwaitsResponse == active.kind \in {"AwaitActivation", "AwaitDiagnostic"}
AwaitedRequest == IF active.kind = "AwaitActivation"
                  THEN "RoutingActivationRequest" ELSE "DiagnosticMessage"

Outcomes == {"Unissued", "Open", "Ok", "Message", "SocketNotBound",
             "ConnectError", "ConnectionClosed", "DiagnosticMessageNack",
             "RequestSuperseded", "ResponseTimeoutExceeded",
             "UnexpectedMessageType", "SocketClosedUnexpectedly", "Closed"}
Answer == [is: Outcomes, msg: Message \cup {NoMessage}]

Plain(outcome) == [is |-> outcome, msg |-> NoMessage]
Carrying(m) == [is |-> "Message", msg |-> m]

(* The answers once the request in flight, if there is one, is sent a      *)
(* value on its oneshot.                                                   *)
Told(value) ==
    IF active = NoRequest THEN answer
    ELSE [answer EXCEPT ![active.req] = value]

(* The requests whose Senders the task still holds.                        *)
Held == ({active.req} \ {0}) \cup {control[i].req : i \in 1..Len(control)}

InnerTypeOK ==
    /\ client \in {"Open", "Closing", "Dropped"}
    /\ control \in Seq(ControlMessage) /\ Len(control) <= ControlCap
    /\ updates \in Seq(Message) /\ Len(updates) <= UpdateCap
    /\ waiter \in 0..MaxRequest /\ issued \in 0..MaxRequest
    /\ answer \in [Request -> Answer]
    /\ inner \in {"Select", "Handle", "Connect", "SendAlive", "Dispatch",
                  "Exited"}
    /\ active \in ActiveRequest \cup {NoRequest}
    /\ deadline \in 0..MaxRequest
    /\ inbox \in Message \cup {NoMessage}
    /\ pending \in Message \cup {NoMessage}

InnerInit ==
    /\ client = "Open"
    /\ control = <<>> /\ updates = <<>>
    /\ waiter = 0 /\ issued = 0
    /\ answer = [r \in Request |-> Plain("Unissued")]
    /\ inner = "Select"
    /\ active = NoRequest /\ deadline = 0
    /\ inbox = NoMessage /\ pending = NoMessage

----------------------------------------------------------------------------
(* Completing the request in flight with a value: active_request.take()    *)
(* and response.send(value).                                               *)
Complete(value) ==
    /\ answer' = Told(value)
    /\ active' = NoRequest

(* Leaving the loop drops everything the task owns: the control channel    *)
(* with the Senders in it, a Sender it still holds, the socket handle.     *)
ExitLoop(told) ==
    /\ inner' = "Exited"
    /\ answer' = [r \in Request |->
                     IF r \in Held /\ told[r].is = "Open"
                     THEN Plain("Closed") ELSE told[r]]
    /\ control' = <<>>
    /\ active' = NoRequest /\ deadline' = 0
    /\ inbox' = NoMessage /\ pending' = NoMessage
    /\ ShutDownSocket
    /\ UNCHANGED <<client, updates, waiter, issued>>

----------------------------------------------------------------------------
(* The arms of the select in run.                                          *)

(* The deadline arm; time is abstracted to the deadline being set.  The    *)
(* arm answers only AwaitAck and AwaitResponse; by PendingIsArmed nothing  *)
(* else is in flight here.                                                 *)
DeadlineReached ==
    /\ inner = "Select"
    /\ active # NoRequest /\ deadline # 0
    /\ Complete(Plain("ResponseTimeoutExceeded"))
    /\ deadline' = 0
    /\ UNCHANGED <<client, control, updates, waiter, issued, inner, inbox,
                   pending, socketVars>>

(* A faulty variant: the new request is stored, then superseded.           *)
TakeControlStoresFirst ==
    /\ inner = "Select"
    /\ control # <<>>
    /\ answer' = [Told(Plain("Closed")) EXCEPT
                      ![Head(control).req] = Plain("RequestSuperseded")]
    /\ active' = NoRequest /\ deadline' = 0
    /\ control' = Tail(control)
    /\ inner' = "Select"
    /\ UNCHANGED <<client, updates, waiter, issued, inbox, pending,
                   socketVars>>

(* The control arm: the request still in flight is superseded.             *)
TakeControl ==
    /\ inner = "Select"
    /\ control # <<>>
    /\ answer' = Told(Plain("RequestSuperseded"))
    /\ deadline' = 0
    /\ active' = Head(control)
    /\ control' = Tail(control)
    /\ inner' = "Handle"
    /\ UNCHANGED <<client, updates, waiter, issued, inbox, pending,
                   socketVars>>

(* A faulty variant: the loop notes the end and does not break.            *)
ControlClosedNoBreak ==
    /\ inner = "Select"
    /\ client # "Open" /\ control = <<>>
    /\ UNCHANGED <<innerVars, socketVars>>

(* The control arm, every sender being gone and the channel empty.         *)
ControlClosed ==
    /\ inner = "Select"
    /\ client # "Open" /\ control = <<>>
    /\ ExitLoop(answer)

(* The socket arm, with a message.                                         *)
TakeMessage ==
    /\ inner = "Select"
    /\ conn # 0
    /\ ReceiveSocket /\ Head(rx).kind # "Malformed"
    /\ inbox' = Head(rx)
    /\ inner' = IF Head(rx).kind = "AliveCheckRequest" THEN "SendAlive"
                                                       ELSE "Dispatch"
    /\ UNCHANGED <<client, control, updates, waiter, issued, answer, active,
                   deadline, pending>>

(* Faulty variants: the request in flight is left waiting; the loop is     *)
(* left together with the socket; the error goes to the request that set   *)
(* the deadline, which may be an answered one.                             *)
SocketLostUntold ==
    /\ inner = "Select"
    /\ conn # 0
    /\ SocketDone \/ (rx # <<>> /\ Head(rx).kind = "Malformed")
    /\ ShutDownSocket
    /\ UNCHANGED innerVars

SocketLostExits ==
    /\ inner = "Select"
    /\ conn # 0
    /\ SocketDone \/ (rx # <<>> /\ Head(rx).kind = "Malformed")
    /\ ExitLoop(Told(Plain("SocketClosedUnexpectedly")))

SocketLostTellsDeadline ==
    /\ inner = "Select"
    /\ conn # 0
    /\ SocketDone \/ (rx # <<>> /\ Head(rx).kind = "Malformed")
    /\ ShutDownSocket
    /\ answer' = IF deadline = 0 THEN answer
                 ELSE [answer EXCEPT
                          ![deadline] = Plain("SocketClosedUnexpectedly")]
    /\ active' = NoRequest /\ deadline' = 0
    /\ UNCHANGED <<client, control, updates, waiter, issued, inner, inbox,
                   pending>>

(* The socket arm, with an error: the socket is cleaned up, the loop goes  *)
(* on so that a reconnection stays possible.                               *)
SocketLost ==
    /\ inner = "Select"
    /\ conn # 0
    /\ SocketDone \/ (rx # <<>> /\ Head(rx).kind = "Malformed")
    /\ ShutDownSocket
    /\ deadline' = 0
    /\ Complete(Plain("SocketClosedUnexpectedly"))
    /\ UNCHANGED <<client, control, updates, waiter, issued, inner, inbox,
                   pending>>

----------------------------------------------------------------------------
(* handle_control_message, by the kind of the request taken.               *)

Handling(kind) == inner = "Handle" /\ active.kind = kind

(* A faulty variant: a new connection starts with an empty buffer.         *)
HandleBindSocketClears ==
    /\ Handling("BindSocket")
    /\ inner' = "Connect"
    /\ IF conn # 0 THEN ShutDownSocket ELSE UNCHANGED socketVars
    /\ pending' = NoMessage
    /\ UNCHANGED <<client, control, updates, waiter, issued, answer, active,
                   deadline, inbox>>

(* bind_socket first shuts the old socket down ...                         *)
HandleBindSocket ==
    /\ Handling("BindSocket")
    /\ inner' = "Connect"
    /\ IF conn # 0 THEN ShutDownSocket ELSE UNCHANGED socketVars
    /\ UNCHANGED <<client, control, updates, waiter, issued, answer, active,
                   deadline, inbox, pending>>

(* ... and then connects.                                                  *)
SocketBound ==
    /\ inner = "Connect"
    /\ BindSocket
    /\ Complete(Plain("Ok"))
    /\ inner' = "Select"
    /\ UNCHANGED <<client, control, updates, waiter, issued, deadline, inbox,
                   pending>>

(* The client address is invalid, the port is not 13400, the connection is *)
(* refused or takes longer than CONNECT_TIMEOUT: the socket stays None.    *)
BindFails ==
    /\ inner = "Connect"
    /\ Complete(Plain("ConnectError"))
    /\ inner' = "Select"
    /\ UNCHANGED <<client, control, updates, waiter, issued, deadline, inbox,
                   pending, socketVars>>

HandleUnbindSocket ==
    /\ Handling("UnbindSocket")
    /\ IF conn # 0
       THEN ShutDownSocket /\ Complete(Plain("Ok"))
       ELSE UNCHANGED socketVars /\ Complete(Plain("SocketNotBound"))
    /\ inner' = "Select"
    /\ UNCHANGED <<client, control, updates, waiter, issued, deadline, inbox,
                   pending>>

(* A request that goes out on the socket: what is sent and what is then    *)
(* awaited.                                                                *)
Outgoing == IF active.kind = "RoutingActivation"
            THEN "RoutingActivationRequest" ELSE "DiagnosticMessage"
Awaiting == IF active.kind = "RoutingActivation"
            THEN "AwaitActivation" ELSE "AwaitAck"

(* A faulty variant: no deadline is set.                                   *)
HandleSendUnarmed ==
    /\ Handling("RoutingActivation") \/ Handling("SendDiagnosticMessage")
    /\ conn # 0
    /\ SendSocket(Outgoing)
    /\ active' = [active EXCEPT !.kind = Awaiting]
    /\ inner' = "Select"
    /\ UNCHANGED <<client, control, updates, waiter, issued, answer, deadline,
                   inbox, pending>>

HandleSend ==
    /\ Handling("RoutingActivation") \/ Handling("SendDiagnosticMessage")
    /\ conn # 0
    /\ SendSocket(Outgoing)
    /\ deadline' = active.req
    /\ active' = [active EXCEPT !.kind = Awaiting]
    /\ inner' = "Select"
    /\ UNCHANGED <<client, control, updates, waiter, issued, answer, inbox,
                   pending>>

(* No socket, or one whose task has ended.                                 *)
HandleSendFails ==
    /\ Handling("RoutingActivation") \/ Handling("SendDiagnosticMessage")
    /\ conn = 0 \/ task = "Ended"
    /\ Complete(Plain(IF conn = 0 THEN "SocketNotBound"
                                  ELSE "ConnectionClosed"))
    /\ inner' = "Select"
    /\ UNCHANGED <<client, control, updates, waiter, issued, deadline, inbox,
                   pending, socketVars>>

(* The buffer is drained before the socket is looked at.                   *)
HandleReceiveBuffered ==
    /\ Handling("ReceiveDiagnosticResponse")
    /\ pending # NoMessage
    /\ Complete(Carrying(pending))
    /\ pending' = NoMessage
    /\ inner' = "Select"
    /\ UNCHANGED <<client, control, updates, waiter, issued, deadline, inbox,
                   socketVars>>

(* A faulty variant: the buffer is not looked at.                          *)
HandleReceiveUnbuffered ==
    /\ Handling("ReceiveDiagnosticResponse")
    /\ IF conn = 0
       THEN Complete(Plain("SocketNotBound")) /\ UNCHANGED deadline
       ELSE /\ deadline' = active.req
            /\ active' = [active EXCEPT !.kind = "AwaitDiagnostic"]
            /\ UNCHANGED answer
    /\ inner' = "Select"
    /\ UNCHANGED <<client, control, updates, waiter, issued, inbox, pending,
                   socketVars>>

HandleReceive ==
    /\ Handling("ReceiveDiagnosticResponse")
    /\ pending = NoMessage
    /\ IF conn = 0
       THEN Complete(Plain("SocketNotBound")) /\ UNCHANGED deadline
       ELSE /\ deadline' = active.req
            /\ active' = [active EXCEPT !.kind = "AwaitDiagnostic"]
            /\ UNCHANGED answer
    /\ inner' = "Select"
    /\ UNCHANGED <<client, control, updates, waiter, issued, inbox, pending,
                   socketVars>>

----------------------------------------------------------------------------
(* process_received_message.                                               *)

(* An alive check is answered, the result of the send ignored, and the     *)
(* message then goes the way of every other message.                       *)
AnswerAliveCheck ==
    /\ inner = "SendAlive"
    /\ \/ SendSocket("AliveCheckResponse")
       \/ task = "Ended" /\ UNCHANGED socketVars
    /\ inner' = "Dispatch"
    /\ UNCHANGED <<client, control, updates, waiter, issued, answer, active,
                   deadline, inbox, pending>>

(* Back to the select.                                                     *)
Processed ==
    /\ inner' = "Select"
    /\ inbox' = NoMessage

AckReceived ==
    /\ inner = "Dispatch"
    /\ inbox.kind \in AckKinds /\ active.kind = "AwaitAck"
    /\ Complete(Plain(IF is_positive_ack(inbox.kind)
                      THEN "Ok" ELSE "DiagnosticMessageNack"))
    /\ deadline' = 0
    /\ Processed
    /\ UNCHANGED <<client, control, updates, waiter, issued, pending,
                   socketVars>>

(* A faulty variant: the request is taken and not put back.                *)
AckIgnoredTakes ==
    /\ inner = "Dispatch"
    /\ is_positive_ack(inbox.kind) /\ active.kind # "AwaitAck"
    /\ active' = NoRequest
    /\ Processed
    /\ UNCHANGED <<client, control, updates, waiter, issued, answer, deadline,
                   pending, socketVars>>

(* Nothing waits for this acknowledgement.                                 *)
AckIgnored ==
    /\ inner = "Dispatch"
    /\ is_positive_ack(inbox.kind) /\ active.kind # "AwaitAck"
    /\ Processed
    /\ UNCHANGED <<client, control, updates, waiter, issued, answer, active,
                   deadline, pending, socketVars>>

(* A message for an AwaitResponse.  The deadline stays set.  When the      *)
(* caller no longer listens, response.send fails and the loop is left.     *)
ResponseReceived ==
    /\ inner = "Dispatch"
    /\ ~is_positive_ack(inbox.kind) /\ AwaitsResponse
    /\ LET value == IF is_response(AwaitedRequest, PayloadType(inbox.kind))
                    THEN Carrying(inbox) ELSE Plain("UnexpectedMessageType")
       IN  IF waiter = active.req
           THEN /\ Complete(value)
                /\ Processed
                /\ UNCHANGED <<client, control, updates, waiter, issued,
                               deadline, pending, socketVars>>
           ELSE ExitLoop(Told(value))

(* Nothing is in flight: a diagnostic message is kept for the next         *)
(* receive, replacing the one kept before.                                 *)
BufferResponse ==
    /\ inner = "Dispatch"
    /\ active = NoRequest /\ inbox.kind = "DiagnosticMessage"
    /\ pending' = inbox
    /\ Processed
    /\ UNCHANGED <<client, control, updates, waiter, issued, answer, active,
                   deadline, socketVars>>

(* Any other message goes to the update channel, waiting for room; the     *)
(* loop is left when the receiver is gone.                                 *)
ForwardUpdate ==
    /\ inner = "Dispatch"
    /\ active = NoRequest
    /\ inbox.kind \notin {"DiagnosticMessage", "PositiveAck"}
    /\ \/ /\ client = "Dropped"
          /\ ExitLoop(answer)
       \/ /\ client # "Dropped"
          /\ Len(updates) < UpdateCap
          /\ updates' = Append(updates, inbox)
          /\ Processed
          /\ UNCHANGED <<client, control, waiter, issued, answer, active,
                         deadline, pending, socketVars>>

(* A send waits for its acknowledgement: anything else is dropped.         *)
DropMessage ==
    /\ inner = "Dispatch"
    /\ active.kind = "AwaitAck" /\ inbox.kind \notin AckKinds
    /\ Processed
    /\ UNCHANGED <<client, control, updates, waiter, issued, answer, active,
                   deadline, pending, socketVars>>

InnerLoop ==
    \/ DeadlineReached \/ TakeControl \/ ControlClosed
    \/ TakeMessage \/ SocketLost
    \/ HandleBindSocket \/ SocketBound \/ BindFails \/ HandleUnbindSocket
    \/ HandleSend \/ HandleSendFails
    \/ HandleReceiveBuffered \/ HandleReceive
    \/ AnswerAliveCheck \/ AckReceived \/ AckIgnored \/ ResponseReceived
    \/ BufferResponse \/ ForwardUpdate \/ DropMessage
=============================================================================
