---------------------------- MODULE DoipMessages ----------------------------
(***************************************************************************)
(* The DoIP messages as far as the client tells them apart: the payload    *)
(* type in the header, and for the two payloads whose code changes what    *)
(* the client does, whether that code is a success.  User data, addresses, *)
(* versions and lengths are abstracted away.                               *)
(***************************************************************************)
EXTENDS Naturals

(* What an entity may put on a tester's TCP_DATA socket.  "NegativeAck" is *)
(* a 0x8002 frame with a negative code, the only negative acknowledgement  *)
(* the constructors of this crate build; "DiagnosticNack" is the 0x8003    *)
(* frame, whose decoder keeps no code; "Other" stands for every remaining  *)
(* decodable payload; "Malformed" for bytes the codec reports as an error. *)
Kinds == {"ActivationGranted", "ActivationDenied", "PositiveAck",
          "NegativeAck", "DiagnosticNack", "DiagnosticMessage",
          "AliveCheckRequest", "Other", "Malformed"}

AckKinds == {"PositiveAck", "NegativeAck"}

(* header.payload_type of a decoded message *)
PayloadType(kind) ==
    CASE kind \in {"ActivationGranted", "ActivationDenied"} ->
             "RoutingActivationResponse"
      [] kind \in AckKinds -> "DiagnosticMessagePositiveAcknowledge"
      [] kind = "DiagnosticNack" -> "DiagnosticMessageNegativeAcknowledge"
      [] OTHER -> kind

is_positive_ack(kind) == kind = "PositiveAck"

(* Which payload types answer a request, by the payload type of the        *)
(* request.  The client only ever asks it for these two requests.          *)
is_response(request, type) ==
    CASE request = "RoutingActivationRequest" ->
             type = "RoutingActivationResponse"
      [] request = "DiagnosticMessage" ->
             type \in {"DiagnosticMessageNegativeAcknowledge",
                       "DiagnosticMessagePositiveAcknowledge",
                       "DiagnosticMessage"}
      [] OTHER -> FALSE

(* A received message and the connection that carried it (a count of the   *)
(* connections bound so far), 0 and "None" standing for no message.        *)
Message == [kind: Kinds, conn: Nat \ {0}]
NoMessage == [kind |-> "None", conn |-> 0]
=============================================================================
