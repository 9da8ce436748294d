---------------------------- MODULE SocketManager ---------------------------
(***************************************************************************)
(* One TCP connection of the client: the spawned socket task, which moves  *)
(* messages between the TCP stream and two bounded channels, and the       *)
(* handle the inner task holds on those channels.  The entity at the other *)
(* end of the stream is the environment: it may send anything at any time, *)
(* close the stream or reset it.                                           *)
(*                                                                         *)
(* A handle that was shut down or dropped leaves its task running only to  *)
(* write out what was queued; nothing that task does is visible to the     *)
(* client, so the model forgets the task together with the handle.         *)
(***************************************************************************)
EXTENDS DoipMessages, Sequences

CONSTANTS SocketCap,    (* capacity of each of the two socket channels; 16 *)
          EntitySends,  (* the kinds of message the entity may send        *)
          EntityBudget  (* bound: messages the entity sends in a behaviour *)

ASSUME SocketAssumption ==
    SocketCap \in Nat \ {0} /\ EntityBudget \in Nat /\ EntitySends \subseteq Kinds

VARIABLES
    conn,      (* the connection of tcp_data_socket; 0 when it is None     *)
    conns,     (* connections established so far                           *)
    rx,        (* rx_tx/rx_rx: messages on their way to the inner task     *)
    tx,        (* tx_tx/tx_rx: messages on their way to the entity         *)
    task,      (* the socket loop: at its select, blocked in rx_tx.send    *)
               (* ("Forward"), or past its break                           *)
    carry,     (* the message a blocked rx_tx.send holds                   *)
    stream,    (* what FramedRead yields: messages, or None once closed    *)
    sent       (* messages the entity has sent                             *)

socketVars == <<conn, conns, rx, tx, task, carry, stream, sent>>

Requests == {"RoutingActivationRequest", "DiagnosticMessage",
             "AliveCheckResponse"}

SocketTypeOK ==
    /\ conn \in Nat /\ conns \in Nat
    /\ rx \in Seq(Message) /\ Len(rx) <= SocketCap
    /\ tx \in Seq(Requests) /\ Len(tx) <= SocketCap
    /\ task \in {"Select", "Forward", "Ended"}
    /\ carry \in Message \cup {NoMessage}
    /\ stream \in {"Open", "Closed"}
    /\ sent \in 0..EntityBudget

SocketInit ==
    /\ conn = 0 /\ conns = 0
    /\ rx = <<>> /\ tx = <<>>
    /\ task = "Ended" /\ carry = NoMessage
    /\ stream = "Closed"
    /\ sent = 0

----------------------------------------------------------------------------
(* What the inner task does with its handle.                               *)

(* The connection stands: fresh channels, and a task at the top of its     *)
(* loop.                                                                   *)
BindSocket ==
    /\ conns' = conns + 1
    /\ conn' = conns + 1
    /\ rx' = <<>> /\ tx' = <<>>
    /\ task' = "Select" /\ carry' = NoMessage
    /\ stream' = "Open"
    /\ UNCHANGED sent

(* shut_down, or the handle being dropped: neither waits for the task.     *)
ShutDownSocket ==
    /\ conn' = 0
    /\ rx' = <<>> /\ tx' = <<>>
    /\ task' = "Ended" /\ carry' = NoMessage
    /\ stream' = "Closed"
    /\ UNCHANGED <<conns, sent>>

(* A faulty variant: the channel is unbounded.                             *)
SendSocketUnbounded(request) ==
    /\ task # "Ended"
    /\ tx' = Append(tx, request)
    /\ UNCHANGED <<conn, conns, rx, task, carry, stream, sent>>

(* sender.send(message).await: it waits for room, and fails once the task  *)
(* has dropped tx_rx.                                                      *)
SendSocket(request) ==
    /\ task # "Ended"
    /\ Len(tx) < SocketCap
    /\ tx' = Append(tx, request)
    /\ UNCHANGED <<conn, conns, rx, task, carry, stream, sent>>

(* receiver.recv(): what is buffered first; None once the task is over.    *)
ReceiveSocket ==
    /\ rx # <<>>
    /\ rx' = Tail(rx)
    /\ UNCHANGED <<conn, conns, tx, task, carry, stream, sent>>

SocketDone == conn # 0 /\ rx = <<>> /\ task = "Ended"

----------------------------------------------------------------------------
(* The socket loop.                                                        *)

(* The read arm got a message, or a decode error.  After an error the      *)
(* FramedRead stream is finished.                                          *)
SocketRead(kind) ==
    /\ task = "Select" /\ stream = "Open"
    /\ sent < EntityBudget
    /\ task' = "Forward"
    /\ carry' = [kind |-> kind, conn |-> conn]
    /\ stream' = IF kind = "Malformed" THEN "Closed" ELSE "Open"
    /\ sent' = sent + 1
    /\ UNCHANGED <<conn, conns, rx, tx>>

(* rx_tx.send(..).await of that arm: no other arm runs until there is room *)
SocketForward ==
    /\ task = "Forward"
    /\ Len(rx) < SocketCap
    /\ rx' = Append(rx, carry)
    /\ task' = "Select" /\ carry' = NoMessage
    /\ UNCHANGED <<conn, conns, tx, stream, sent>>

(* The write arm *)
SocketWrite ==
    /\ task = "Select"
    /\ tx # <<>>
    /\ tx' = Tail(tx)
    /\ UNCHANGED <<conn, conns, rx, task, carry, stream, sent>>

(* The entity closes its side *)
EntityCloses ==
    /\ task # "Ended" /\ stream = "Open"
    /\ stream' = "Closed"
    /\ UNCHANGED <<conn, conns, rx, tx, task, carry, sent>>

(* The loop breaks: the stream ended, a read or a write failed, or nothing *)
(* happened for TCP_TIMEOUT_GENERAL_INACTIVITY.  What tx holds is lost,    *)
(* what rx holds can still be received.                                    *)
SocketEnds ==
    /\ task = "Select"
    /\ task' = "Ended"
    /\ tx' = <<>> /\ stream' = "Closed"
    /\ UNCHANGED <<conn, conns, rx, carry, sent>>

(* A select over a finished stream is ready at once, so this end is not a  *)
(* matter of timeouts or errors.                                           *)
SocketSeesClose == stream = "Closed" /\ SocketEnds

SocketLoop ==
    \/ \E kind \in EntitySends : SocketRead(kind)
    \/ SocketForward
    \/ SocketWrite
    \/ EntityCloses
    \/ SocketEnds
=============================================================================
