------------------------------- MODULE Server -------------------------------
(***************************************************************************)
(* The TCP half of the async server: the accept loop of                    *)
(* run_server_with_listener, which serves one connection at a time, the    *)
(* read loop of handle_client_connection and the dispatch of               *)
(* handle_client_message to the connection handler the user supplies.      *)
(*                                                                         *)
(* Testers are TCP connections: each connects, writes and closes once.     *)
(* Every await of the server (accept, read, a handler, a write) is a       *)
(* boundary between steps, at which testers go on.  The handler is         *)
(* external: any of its methods may fail, and it grants or denies routing  *)
(* as it likes.                                                            *)
(***************************************************************************)
EXTENDS Integers, Sequences

CONSTANTS Testers, Sources, None,
          MaxFrames,   (* bound: frames the testers write in all           *)
          MaxWrites    (* bound: messages a handler writes for one request *)

ASSUME ServerAssumption ==
    /\ None \notin Testers /\ Sources \subseteq Nat \ {0}
    /\ MaxFrames \in Nat /\ MaxWrites \in Nat

VARIABLES
    link,           (* a tester's end of its connection                    *)
    backlog,        (* connections accept has not returned yet             *)
    inbox,          (* frames written and not yet read                     *)
    sent,           (* number of frames written                            *)
    at,             (* the await the accept loop is at                     *)
    serving,        (* the connection being handled                        *)
    active_connections,
    tester_logical_address,  (* of the connection served; 0 for None       *)
    request,        (* the message the handler is working on               *)
    writes,         (* messages the handler wrote for it                   *)
    log             (* the handler's answers on the connection served      *)

testerVars == <<link, backlog, inbox, sent>>
connectionVars == <<serving, active_connections, tester_logical_address,
                    request, writes, log>>
vars == <<testerVars, at, connectionVars>>

(* Payloads as handle_client_message tells them apart.  "Ignored" is an    *)
(* entity status or vehicle identification request, "Unexpected" any other *)
(* payload, "Malformed" bytes for which the codec reports an error.        *)
Messages == [kind: {"Activation"}, source: Sources] \cup
            [kind: {"AliveCheck", "Diagnostic", "Ignored", "Unexpected",
                    "Malformed"}]
Handled == {"Activation", "AliveCheck", "Diagnostic"}

Answers == [is: {"Granted", "Denied"}, source: Sources] \cup
           [is: {"Alive"}, address: Sources \cup {0}]

TypeOK ==
    /\ link \in [Testers -> {"New", "Up", "Closed"}]
    /\ backlog \in Seq(Testers)
    /\ inbox \in [Testers -> Seq(Messages)]
    /\ sent \in 0..MaxFrames
    /\ at \in {"Accept", "Backoff", "Read", "Handle", "Write"}
    /\ serving \in Testers \cup {None}
    /\ active_connections \in Nat
    /\ tester_logical_address \in Sources \cup {0}
    /\ request \in Messages \cup {None}
    /\ writes \in 0..MaxWrites
    /\ log \in Seq(Answers)

Init ==
    /\ link = [t \in Testers |-> "New"]
    /\ backlog = <<>>
    /\ inbox = [t \in Testers |-> <<>>]
    /\ sent = 0
    /\ at = "Accept"
    /\ serving = None /\ active_connections = 0
    /\ tester_logical_address = 0
    /\ request = None /\ writes = 0 /\ log = <<>>

----------------------------------------------------------------------------
(* The testers.                                                            *)

TesterConnects(t) ==
    /\ link[t] = "New"
    /\ link' = [link EXCEPT ![t] = "Up"]
    /\ backlog' = Append(backlog, t)
    /\ UNCHANGED <<inbox, sent, at, connectionVars>>

TesterSends(t, message) ==
    /\ link[t] = "Up"
    /\ sent < MaxFrames
    /\ inbox' = [inbox EXCEPT ![t] = Append(@, message)]
    /\ sent' = sent + 1
    /\ UNCHANGED <<link, backlog, at, connectionVars>>

TesterCloses(t) ==
    /\ link[t] = "Up"
    /\ link' = [link EXCEPT ![t] = "Closed"]
    /\ UNCHANGED <<backlog, inbox, sent, at, connectionVars>>

----------------------------------------------------------------------------
(* run_server_with_listener                                                *)

Accept ==
    /\ at = "Accept" /\ backlog # <<>>
    /\ serving' = Head(backlog)
    /\ backlog' = Tail(backlog)
    /\ active_connections' = active_connections + 1
    /\ tester_logical_address' = 0
    /\ log' = <<>>
    /\ at' = "Read"
    /\ UNCHANGED <<link, inbox, sent, request, writes>>

AcceptFails ==
    /\ at = "Accept"
    /\ at' = "Backoff"
    /\ UNCHANGED <<testerVars, connectionVars>>

(* A faulty variant: the loop never returns to accept.                     *)
BackoffForever ==
    /\ at = "Backoff"
    /\ UNCHANGED vars

BackoffOver ==
    /\ at = "Backoff"
    /\ at' = "Accept"
    /\ UNCHANGED <<testerVars, connectionVars>>

----------------------------------------------------------------------------
(* handle_client_connection                                                *)

(* A faulty variant: the count is not taken back.                          *)
ReturnsCounted ==
    /\ at' = "Accept"
    /\ serving' = None
    /\ request' = None /\ writes' = 0
    /\ UNCHANGED <<active_connections, tester_logical_address, log>>

(* A faulty variant: it is taken back by hand and by the guard.            *)
ReturnsCountedTwice ==
    /\ at' = "Accept"
    /\ serving' = None
    /\ active_connections' = active_connections - 2
    /\ request' = None /\ writes' = 0
    /\ UNCHANGED <<tester_logical_address, log>>

(* It returns, whether Ok or Err; the guard is dropped and the socket with *)
(* it, so the tester's end is closed and what it wrote is gone.            *)
Returns ==
    /\ at' = "Accept"
    /\ serving' = None
    /\ active_connections' = active_connections - 1
    /\ request' = None /\ writes' = 0
    /\ UNCHANGED <<tester_logical_address, log>>

Hangup ==
    /\ link' = [link EXCEPT ![serving] = "Closed"]
    /\ inbox' = [inbox EXCEPT ![serving] = <<>>]
    /\ UNCHANGED <<backlog, sent>>

ReadMessage ==
    /\ at = "Read" /\ inbox[serving] # <<>>
    /\ Head(inbox[serving]).kind \in Handled
    /\ request' = Head(inbox[serving])
    /\ inbox' = [inbox EXCEPT ![serving] = Tail(@)]
    /\ at' = "Handle"
    /\ UNCHANGED <<link, backlog, sent, serving, active_connections,
                   tester_logical_address, writes, log>>

ReadIgnored ==
    /\ at = "Read" /\ inbox[serving] # <<>>
    /\ Head(inbox[serving]).kind = "Ignored"
    /\ inbox' = [inbox EXCEPT ![serving] = Tail(@)]
    /\ UNCHANGED <<link, backlog, sent, at, connectionVars>>

(* A codec error, or an UnexpectedMessageType error of the dispatch.       *)
ReadRefused ==
    /\ at = "Read" /\ inbox[serving] # <<>>
    /\ Head(inbox[serving]).kind \in {"Malformed", "Unexpected"}
    /\ Hangup
    /\ Returns

(* The end of the stream, seen after the last frame, or a read error:      *)
(* after a reset what was not read is lost.                                *)
StreamEnds ==
    /\ at = "Read" /\ link[serving] = "Closed"
    /\ Hangup
    /\ Returns

----------------------------------------------------------------------------
(* handle_client_message: the handler's methods, and the write of the      *)
(* response it returns.                                                    *)

Answered(answer) ==
    /\ log' = Append(log, answer)
    /\ at' = "Write"
    /\ request' = None
    /\ UNCHANGED <<testerVars, serving, active_connections, writes>>

AliveAnswered ==
    /\ at = "Handle" /\ request.kind = "AliveCheck"
    /\ Answered([is |-> "Alive", address |-> tester_logical_address])
    /\ UNCHANGED tester_logical_address

ActivationGranted ==
    /\ at = "Handle" /\ request.kind = "Activation"
    /\ tester_logical_address' = request.source
    /\ Answered([is |-> "Granted", source |-> request.source])

(* A faulty variant: the address is recorded whatever the handler says.    *)
ActivationDeniedRecorded ==
    /\ at = "Handle" /\ request.kind = "Activation"
    /\ tester_logical_address' = request.source
    /\ Answered([is |-> "Denied", source |-> request.source])

(* Denied, or answered with some other payload.                            *)
ActivationDenied ==
    /\ at = "Handle" /\ request.kind = "Activation"
    /\ UNCHANGED tester_logical_address
    /\ Answered([is |-> "Denied", source |-> request.source])

(* One send of the ResponseWriter.                                         *)
DiagnosticWrites ==
    /\ at = "Handle" /\ request.kind = "Diagnostic"
    /\ writes < MaxWrites
    /\ writes' = writes + 1
    /\ UNCHANGED <<testerVars, at, serving, active_connections,
                   tester_logical_address, request, log>>

DiagnosticDone ==
    /\ at = "Handle" /\ request.kind = "Diagnostic"
    /\ at' = "Read"
    /\ request' = None /\ writes' = 0
    /\ UNCHANGED <<testerVars, serving, active_connections,
                   tester_logical_address, log>>

(* The handler returns an error, its own or that of a failed write.        *)
HandlerFails ==
    /\ at = "Handle"
    /\ Hangup
    /\ Returns

ResponseWritten ==
    /\ at = "Write"
    /\ at' = "Read"
    /\ UNCHANGED <<testerVars, connectionVars>>

(* An error of the encoder or of the socket; the tester may be up.         *)
WriteFails ==
    /\ at = "Write"
    /\ Hangup
    /\ Returns

ServerStep ==
    \/ Accept \/ BackoffOver
    \/ ReadMessage \/ ReadIgnored \/ ReadRefused \/ StreamEnds
    \/ AliveAnswered \/ ActivationGranted \/ ActivationDenied
    \/ DiagnosticDone \/ HandlerFails
    \/ ResponseWritten \/ WriteFails

Next ==
    \/ \E t \in Testers : TesterConnects(t) \/ TesterCloses(t)
    \/ \E t \in Testers, message \in Messages : TesterSends(t, message)
    \/ AcceptFails \/ DiagnosticWrites
    \/ ServerStep

Spec == Init /\ [][Next]_vars

(* The server's task is polled, a handler returns and a failing accept     *)
(* does not fail for ever.  Every tester closes some day: the server never *)
(* ends a connection for being silent.                                     *)
FairSpec ==
    /\ Spec
    /\ WF_vars(ServerStep) /\ SF_vars(Accept)
    /\ \A t \in Testers : WF_vars(TesterCloses(t))

----------------------------------------------------------------------------
(* Properties.                                                             *)

(* active_connections counts the connections being handled: one at most,   *)
(* and none once handle_client_connection has returned on any of its paths *)
(* (ActiveConnectionGuard).                                                *)
ConnectionsCounted == active_connections = IF serving = None THEN 0 ELSE 1

GrantsBefore(i) == {j \in 1..(i - 1) : log[j].is = "Granted"}
DeniedSince(j, i) == \E k \in (j + 1)..(i - 1) : log[k].is = "Denied"

(* The address the handler is told of in an alive check is 0 until an      *)
(* activation is granted on this very connection, and then the source of   *)
(* the latest one granted; after a denial it may be 0 again, but is never  *)
(* an address that was denied, nor one of an earlier connection            *)
(* (tester_logical_address).                                               *)
AliveNamesLatestGrant ==
    \A i \in 1..Len(log) : log[i].is = "Alive" =>
        IF GrantsBefore(i) = {} THEN log[i].address = 0
        ELSE \E j \in GrantsBefore(i) :
                /\ \A k \in GrantsBefore(i) : k <= j
                /\ \/ log[i].address = log[j].source
                   \/ log[i].address = 0 /\ DeniedSince(j, i)

(* A tester that connects is served, if the testers before it close: no    *)
(* accept error, handler error or malformed message ends the accept loop.  *)
TestersServed ==
    \A t \in Testers : (\E i \in 1..Len(backlog) : backlog[i] = t)
                           ~> (serving = t)

=============================================================================
