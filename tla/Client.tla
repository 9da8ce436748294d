------------------------------- MODULE Client -------------------------------
(***************************************************************************)
(* The client facade on top of the inner task and the socket task: the     *)
(* public methods of Client, each of which sends control messages to the   *)
(* inner task and awaits their oneshots.                                   *)
(*                                                                         *)
(* The methods borrow the client mutably, so at most one call is under way *)
(* at a time.  Its future may be dropped at any await (a timeout or a      *)
(* select around it): the call is cancelled, the oneshot Receiver it held  *)
(* is dropped, and what it had sent stays sent.                            *)
(***************************************************************************)
EXTENDS ClientInner

CONSTANTS Activate,  (* routing_activation_options.is_some()               *)
          Patient    (* no call is cancelled, and the inner task's         *)
                     (* activation deadline is never behind the facade's   *)

ASSUME ClientAssumption == Activate \in BOOLEAN /\ Patient \in BOOLEAN

VARIABLE call       (* the call under way and the await it is suspended at *)

vars == <<call, innerVars, socketVars>>

Calls == [op: {"Connect", "Reconnect"},
          at: {"Start", "Bind", "Bound", "Activate", "Updates"}]
         \cup [op: {"UnbindSocket", "SendDiagnosticMessage",
                    "ReceiveDiagnosticResponse"}, at: {"Reply"}]
         \cup [op: {"ShutDown"}, at: {"Drain"}]
Idle == [op |-> "None", at |-> "None"]
Done == [op |-> "Done", at |-> "None"]

TypeOK ==
    /\ SocketTypeOK
    /\ InnerTypeOK
    /\ call \in Calls \cup {Idle, Done}

Init ==
    /\ SocketInit
    /\ InnerInit
    /\ call = [op |-> "Connect", at |-> "Start"]

----------------------------------------------------------------------------
Resume(at) == call' = [call EXCEPT !.at = at]

(* control_sender.send(..).await: the next request enters the channel and  *)
(* the call waits for its oneshot.                                         *)
Issue(kind) ==
    /\ inner # "Exited"
    /\ issued < MaxRequest
    /\ Len(control) < ControlCap
    /\ issued' = issued + 1
    /\ waiter' = issued + 1
    /\ control' = Append(control, [kind |-> kind, req |-> issued + 1])
    /\ answer' = [answer EXCEPT ![issued + 1] = Plain("Open")]
    /\ UNCHANGED <<client, updates, inner, active, deadline, inbox, pending,
                   socketVars>>

(* The awaited oneshot has a value, or its Sender is gone.                 *)
Replied == waiter # 0 /\ answer[waiter].is # "Open"
ReplyIs == answer[waiter].is

(* The call returns or is dropped.  A connect that did not succeed never   *)
(* yields a Client, and shut_down owns it: the channel ends go with it.    *)
Return ==
    /\ waiter' = 0
    /\ IF call.op \in {"Connect", "ShutDown"}
       THEN call' = Done /\ client' = "Dropped"
       ELSE call' = Idle /\ UNCHANGED client

Untouched == UNCHANGED <<control, updates, issued, answer, inner, active,
                         deadline, inbox, pending, socketVars>>

(* bind_socket succeeded: connect is over, reconnect goes on to look for   *)
(* an in-flight message.                                                   *)
BindSucceeds ==
    /\ waiter' = 0
    /\ call' = IF call.op = "Connect" THEN Idle
               ELSE [call EXCEPT !.at = "Updates"]
    /\ UNCHANGED client

----------------------------------------------------------------------------
(* connect and reconnect: bind_socket.                                     *)

CallReconnect ==
    /\ call = Idle /\ client = "Open"
    /\ call' = [op |-> "Reconnect", at |-> "Start"]
    /\ UNCHANGED <<innerVars, socketVars>>

StartBind ==
    /\ call.at = "Start"
    /\ Issue("BindSocket")
    /\ Resume("Bind")

(* The bind result is inspected before routing is activated.               *)
BindReplied ==
    /\ call.at = "Bind" /\ Replied
    /\ IF ReplyIs # "Ok" THEN Return
       ELSE IF Activate THEN Resume("Bound") /\ waiter' = 0 /\ UNCHANGED client
       ELSE BindSucceeds
    /\ Untouched

StartActivation ==
    /\ call.at = "Bound"
    /\ Issue("RoutingActivation")
    /\ Resume("Activate")

(* A closed channel counts as a server without routing activation; a       *)
(* denial and every other error fail the call.                             *)
ActivationReplied ==
    /\ call.at = "Activate" /\ Replied
    /\ \/ /\ \/ ReplyIs = "Closed"
             \/ answer[waiter].msg.kind = "ActivationGranted"
          /\ BindSucceeds
       \/ /\ ReplyIs # "Closed"
          /\ answer[waiter].msg.kind # "ActivationGranted"
          /\ Return
    /\ Untouched

(* The caller's own two seconds are over, whatever the inner task does.    *)
ActivationElapsed ==
    /\ ~Patient
    /\ call.at = "Activate" /\ ~Replied
    /\ BindSucceeds
    /\ Untouched

(* The control channel is closed: the inner task is gone.                  *)
BindRefused ==
    /\ call.at \in {"Start", "Bound"} /\ inner = "Exited"
    /\ Return
    /\ Untouched

(* reconnect reads one message from the update channel, or gives up after  *)
(* five seconds or at the end of the channel.                              *)
ReconnectUpdate ==
    /\ call.at = "Updates" /\ updates # <<>>
    /\ updates' = Tail(updates)
    /\ call' = Idle
    /\ UNCHANGED <<client, control, waiter, issued, answer, inner, active,
                   deadline, inbox, pending, socketVars>>

ReconnectNothing ==
    /\ call.at = "Updates" /\ updates = <<>>
    /\ call' = Idle
    /\ UNCHANGED <<innerVars, socketVars>>

----------------------------------------------------------------------------
(* unbind_socket, send_diagnostic_message, receive_diagnostic_response.    *)

CallRequest(kind) ==
    /\ call = Idle /\ client = "Open"
    /\ Issue(kind)
    /\ call' = [op |-> kind, at |-> "Reply"]

(* unbind_socket unwraps: with the oneshot closed it panics, and the       *)
(* unwinding drops the client.                                             *)
RequestReplied ==
    /\ call.at = "Reply" /\ Replied
    /\ waiter' = 0
    /\ IF call.op = "UnbindSocket" /\ ReplyIs = "Closed"
       THEN call' = Done /\ client' = "Dropped"
       ELSE call' = Idle /\ UNCHANGED client
    /\ Untouched

----------------------------------------------------------------------------
(* Dropping a future, and dropping the client.                             *)

Cancel ==
    /\ ~Patient
    /\ call \notin {Idle, Done}
    /\ Return
    /\ Untouched

DropClient ==
    /\ call = Idle /\ client = "Open"
    /\ call' = Done
    /\ client' = "Dropped"
    /\ UNCHANGED waiter /\ Untouched

CallShutDown ==
    /\ call = Idle /\ client = "Open"
    /\ call' = [op |-> "ShutDown", at |-> "Drain"]
    /\ client' = "Closing"
    /\ UNCHANGED waiter /\ Untouched

DrainUpdate ==
    /\ call.at = "Drain" /\ updates # <<>>
    /\ updates' = Tail(updates)
    /\ UNCHANGED <<call, client, control, waiter, issued, answer, inner,
                   active, deadline, inbox, pending, socketVars>>

ShutDownReturns ==
    /\ call.at = "Drain" /\ updates = <<>> /\ inner = "Exited"
    /\ call' = Done
    /\ client' = "Dropped"
    /\ UNCHANGED waiter /\ Untouched

CallerReplies ==
    \/ BindReplied \/ ActivationReplied \/ ActivationElapsed \/ BindRefused
    \/ ReconnectUpdate \/ ReconnectNothing \/ RequestReplied
    \/ DrainUpdate \/ ShutDownReturns

Caller ==
    \/ CallReconnect \/ StartBind \/ StartActivation
    \/ \E kind \in {"UnbindSocket", "SendDiagnosticMessage",
                    "ReceiveDiagnosticResponse"} : CallRequest(kind)
    \/ CallerReplies
    \/ Cancel \/ DropClient \/ CallShutDown

Next ==
    \/ Caller
    \/ InnerLoop /\ UNCHANGED call
    \/ SocketLoop /\ UNCHANGED <<call, innerVars>>

Spec == Init /\ [][Next]_vars

(***************************************************************************)
(* Fairness.  The runtime polls a task that is ready, so the steps of the  *)
(* inner task and of the socket loop are weakly fair; so is the caller     *)
(* once its await is ready.  A timer that is set fires, a connection       *)
(* attempt ends (CONNECT_TIMEOUT) and the entity's TCP stack takes what is *)
(* written or fails.  Nothing is assumed of the entity's messages, nor of  *)
(* when calls are made or cancelled.                                       *)
(***************************************************************************)
InnerStep == InnerLoop /\ UNCHANGED call
SocketStep == (SocketForward \/ SocketWrite \/ SocketSeesClose)
              /\ UNCHANGED <<call, innerVars>>

Fairness ==
    /\ WF_vars(InnerStep)
    /\ WF_vars(DeadlineReached /\ UNCHANGED call)
    /\ WF_vars(SocketStep)
    /\ WF_vars(CallerReplies)
    /\ WF_vars(StartBind) /\ WF_vars(StartActivation)

FairSpec == Spec /\ Fairness

----------------------------------------------------------------------------
(* Properties.                                                             *)

(* Take-or-restore: a request is unanswered exactly as long as the task    *)
(* holds its Sender, in the control channel or in active_request.  A       *)
(* Sender taken out and not restored is dropped: its caller would see a    *)
(* closed channel in place of an answer.                                   *)
NoRequestLost ==
    \A r \in Request : answer[r].is = "Open" <=> r \in Held

(* The comment in the control arm of run: the new request wins, as the one *)
(* it displaces is "a request nobody is waiting for".  RequestSuperseded   *)
(* never reaches the call under way, only calls that were given up.        *)
SupersededIsAbandoned ==
    waiter # 0 => answer[waiter].is # "RequestSuperseded"

(* The comment on take_await_response in process_received_message: a       *)
(* deadline left set by an earlier request can never fire.  A request in   *)
(* flight at the select always has a deadline, and it is its own.          *)
PendingIsArmed ==
    inner \in {"Select", "SendAlive", "Dispatch"} /\ active # NoRequest
        => active.kind \in AwaitKinds /\ deadline = active.req

(* A request waits, and an alive check is answered (with an unwrap of      *)
(* tcp_data_socket), only with a socket bound.                             *)
PendingHasSocket ==
    \/ inner \in {"Handle", "Connect", "Exited"}
    \/ (active # NoRequest \/ inner # "Select") => conn # 0

(* A receive never waits for the entity while a response that has already  *)
(* arrived sits in the buffer.                                             *)
NoWaitBesideBuffer == active.kind = "AwaitDiagnostic" => pending = NoMessage

(* A buffered response is given up only to a receive or to a newer         *)
(* response: losing, closing or rebinding the socket leaves it in place.   *)
BufferOutlivesSocket ==
    [][pending # NoMessage /\ pending' # pending /\ inner' # "Exited" =>
          \/ pending'.kind = "DiagnosticMessage"
          \/ \E r \in Request : /\ answer[r].is = "Open"
                                /\ answer'[r] = Carrying(pending)]_vars

(* The oneshots implement the request-reply abstraction: answers come in   *)
(* order, once each, and never change.                                     *)
Replies == INSTANCE RequestReply
           WITH Max <- MaxRequest, answer <- answer,
                Unissued <- Plain("Unissued"), Open <- Plain("Open")
AnswersOnceInOrder == Replies!Spec

(* While the client is in use, only one thing ends the inner task: a       *)
(* response for a receive or an activation whose caller has given up       *)
(* (process_received_message).  Lost sockets, deadlines, malformed and     *)
(* unexpected messages do not.                                             *)
LoopEndsOnlyForGivenUpCall ==
    [][inner # "Exited" /\ inner' = "Exited" /\ client = "Open" =>
          inner = "Dispatch" /\ AwaitsResponse /\ waiter # active.req]_vars

(* Every request is answered: by the entity, by its deadline, by the loss  *)
(* of the socket, by the next request or by the end of the task.           *)
RequestsAnswered ==
    \A r \in Request : answer[r].is = "Open" ~> answer[r].is # "Open"

(* shut_down comes to an end.                                              *)
ShutDownEnds == call.op = "ShutDown" ~> call = Done

----------------------------------------------------------------------------
(* What the documentation says and the code does not do; each is refuted   *)
(* by a run.                                                               *)

(* reconnect returns "a Response if there was one in flight when the       *)
(* client or server disconnected": it comes back empty-handed only when no *)
(* response of the connection that broke is at hand.                       *)
ReconnectFindsResponse ==
    [][ReconnectNothing => pending = NoMessage \/ pending.conn = conn]_vars

(* A regression test: cancelling a call "must not brick the client".  The  *)
(* inner task runs as long as the client is in use.                        *)
LoopSurvives == inner = "Exited" => client # "Open"

(* send_diagnostic_message returns an error if "a negative ACK is          *)
(* received": the 0x8003 frame fails the send that waits for its           *)
(* acknowledgement.                                                        *)
NegativeAckFailsSend ==
    [][inner = "Dispatch" /\ inner' = "Select"
       /\ inbox.kind = "DiagnosticNack" /\ active.kind = "AwaitAck"
          => answer'[active.req].is = "DiagnosticMessageNack"]_innerVars

=============================================================================
