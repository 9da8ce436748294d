---------------------------- MODULE UdpResponder ----------------------------
(***************************************************************************)
(* The UDP half of the async server: run_udp_responder answers plain       *)
(* vehicle identification requests on a socket the caller bound, and logs  *)
(* and skips everything else.  Datagrams are numbered in arrival order.    *)
(***************************************************************************)
EXTENDS Naturals, Sequences

CONSTANT MaxDatagrams   (* bound: datagrams that arrive                    *)

ASSUME UdpAssumption == MaxDatagrams \in Nat

(* "Plain" is payload type 0x0001, "Directed" 0x0002 or 0x0003, which      *)
(* Payload::decode does not tell from a plain one; "Short" is the first    *)
(* bytes of a message and no more.                                         *)
Datagrams == {"Plain", "Directed", "Other", "Undecodable", "Short"}

VARIABLES
    arrived,   (* the datagrams that reached the socket                    *)
    taken,     (* how many recv_from has taken off it                      *)
    buf,       (* the message the whole of buf would decode to             *)
    at,        (* "Receive", "Backoff" after a socket error, or "Send"     *)
    replies    (* the datagrams whose reply was handed to send_to          *)

vars == <<arrived, taken, buf, at, replies>>

TypeOK ==
    /\ arrived \in Seq(Datagrams) /\ taken \in 0..Len(arrived)
    /\ buf \in Datagrams \ {"Short"}
    /\ at \in {"Receive", "Backoff", "Send"}
    /\ replies \in Seq(1..MaxDatagrams)

Init ==
    /\ arrived = <<>> /\ taken = 0 /\ buf = "Undecodable"
    /\ at = "Receive" /\ replies = <<>>

Arrives(datagram) ==
    /\ Len(arrived) < MaxDatagrams
    /\ arrived' = Append(arrived, datagram)
    /\ UNCHANGED <<taken, buf, at, replies>>

(* recv_from writes the datagram to the front of buf, which is not cleared *)
(* in between: behind a short one stands what the last one left.           *)
Receives ==
    /\ at = "Receive" /\ taken < Len(arrived)
    /\ taken' = taken + 1
    /\ LET datagram == arrived[taken + 1]
       IN  buf' = IF datagram = "Short" THEN buf ELSE datagram

ReceiveFails ==
    /\ at = "Receive"
    /\ at' = "Backoff"
    /\ UNCHANGED <<arrived, taken, buf, replies>>

(* An error that takes a datagram with it: WSAEMSGSIZE.                    *)
ReceiveLoses ==
    /\ Receives
    /\ at' = "Backoff"
    /\ UNCHANGED <<arrived, replies>>

(* A faulty variant: a socket error ends the loop.                         *)
BackoffForever ==
    /\ at = "Backoff"
    /\ UNCHANGED vars

BackoffOver ==
    /\ at = "Backoff"
    /\ at' = "Receive"
    /\ UNCHANGED <<arrived, taken, buf, replies>>

(* A faulty variant: all of buf is decoded.                                *)
DecodedToTheEnd(filled, datagram) == filled

(* Message::decode(&buf[..len]).                                           *)
Decoded(filled, datagram) ==
    IF datagram = "Short" THEN "Undecodable" ELSE filled

(* The two matches, on the payload and on the payload type of the header.  *)
Answerable(message) == message = "Plain"

(* Undecodable, some other payload, a directed request, or a handler or an *)
(* encoder that fails.                                                     *)
DatagramSkipped ==
    /\ Receives
    /\ UNCHANGED <<arrived, at, replies>>

DatagramAnswered ==
    /\ Receives
    /\ Answerable(Decoded(buf', arrived[taken + 1]))
    /\ at' = "Send"
    /\ UNCHANGED <<arrived, replies>>

(* send_to returns; an error is logged.                                    *)
ReplySent ==
    /\ at = "Send"
    /\ at' = "Receive"
    /\ replies' = Append(replies, taken)
    /\ UNCHANGED <<arrived, taken, buf>>

Responds == BackoffOver \/ DatagramSkipped \/ DatagramAnswered \/ ReplySent

Next ==
    \/ \E datagram \in Datagrams : Arrives(datagram)
    \/ ReceiveFails \/ ReceiveLoses
    \/ Responds

Spec == Init /\ [][Next]_vars

(* The task is polled, and a failing recv_from does not fail for ever.     *)
FairSpec == Spec /\ WF_vars(Responds)
                 /\ SF_vars(DatagramSkipped \/ DatagramAnswered)

----------------------------------------------------------------------------
(* Properties.                                                             *)

(* A reply goes to a plain request only, to each at most once and in order *)
(* of arrival: a directed request, which may be meant for another entity,  *)
(* gets silence although it decodes to the same payload, and so does a     *)
(* datagram that a request still in buf would complete.                    *)
OnlyPlainProbesAnswered ==
    /\ \A i \in 1..Len(replies) : arrived[replies[i]] = "Plain"
    /\ \A i, j \in 1..Len(replies) : i < j => replies[i] < replies[j]

(* Every datagram that arrives is taken off the socket: no socket error,   *)
(* undecodable datagram or failing handler ends discovery.                 *)
DatagramsTaken ==
    \A n \in 1..MaxDatagrams : (Len(arrived) >= n) ~> (taken >= n)
=============================================================================
