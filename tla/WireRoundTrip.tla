--------------------------- MODULE WireRoundTrip ---------------------------
(***************************************************************************)
(* One frame with a body that grows field by field, and what its decoders  *)
(* and encoders must agree on at every size: the question the fuzz targets *)
(* fuzz_roundtrip.rs, fuzz_message_parse.rs and fuzz_payload_parse.rs ask, *)
(* asked of every body made of the fields' boundary values.                *)
(***************************************************************************)
EXTENDS Wire, SequencesExt

CONSTANTS Types,   (* payload types, as the numbers on the wire            *)
          Codes,   (* the byte that the fields of a body hold, or else 0   *)
          Layout,  (* for a payload type, the widths of its fields         *)
          Extra,   (* how many bytes may follow the last field             *)
          Behind   (* the bytes that follow the frame                      *)

ASSUME RoundTripAssumption ==
    /\ Types \subseteq U16
    /\ Codes \subseteq Byte
    /\ DOMAIN Layout = Types
    /\ \A t \in Types : Layout[t] \in Seq(Nat \ {0})
    /\ Extra \in Nat
    /\ Behind \in Seq(Byte)

VARIABLES type, fill, body, fields

vars == <<type, fill, body, fields>>

Init ==
    /\ type \in Types
    /\ fill \in Codes
    /\ body = <<>>
    /\ fields = 0

Width(n) == IF n > Len(Layout[type]) THEN 1 ELSE Layout[type][n]

AddField(byte) ==
    /\ fields < Len(Layout[type]) + Extra
    /\ Len(body) + Width(fields + 1) <= U32Max
    /\ fields' = fields + 1
    /\ body' = body \o [i \in 1..Width(fields + 1) |-> byte]
    /\ UNCHANGED <<type, fill>>

Next == \E byte \in {0, fill} : AddField(byte)

Spec == Init /\ [][Next]_vars

(* The frame's version is the fill byte too, so that every one is met.     *)
FrameWith(inverse_byte) ==
    <<fill, inverse_byte>> \o be16(type) \o be32(Len(body)) \o body
Frame == FrameWith(255 - fill)

----------------------------------------------------------------------------
(* "if a frame decodes, re-encoding it and decoding that again must yield  *)
(* the same message" (fuzz_roundtrip.rs): what Message::encode writes for  *)
(* a decoded message is as long as encoded_size said, decodes to the same  *)
(* version, type and payload with nothing left over, and encodes to the    *)
(* same bytes again; and decoding never touches what follows the frame.    *)
ReencodingIsStable ==
    LET first == MessageDecode(Frame \o Behind)
        encoded == MessageEncode(first.value.message)
        second == MessageDecode(encoded.value)
    IN  first.is = "Ok" =>
            /\ first.value.rest = Behind
            /\ encoded.is = "Ok"
            /\ Len(encoded.value) = MessageEncodedSize(first.value.message)
            /\ second.is = "Ok"
            /\ second.value.rest = <<>>
            /\ second.value.message.payload = first.value.message.payload
            /\ second.value.message.header =
                   [first.value.message.header EXCEPT
                        !.payload_length = Len(encoded.value) - HeaderSize]
            /\ MessageEncode(second.value.message) = encoded

(* Payload::decode keeps every byte it understands: encoding its result    *)
(* gives back the front of the body, whatever bytes were ignored behind    *)
(* it.  Only the second spelling of "no group id", six 0xFF, comes back as *)
(* the first, six zeros.                                                   *)
EveryByteKept ==
    LET payload == PayloadDecode(body, PayloadType(type))
        encoded == PayloadEncode(payload.value)
        spelled == IF payload.value.kind = "VehicleAnnouncement"
                      /\ array(body, 26, 6) = six(255)
                   THEN [i \in DOMAIN body |->
                            IF i \in 26..31 THEN 0 ELSE body[i]]
                   ELSE body
    IN  payload.is = "Ok" => IsPrefix(encoded, spelled)

(* try_frame followed by Payload::decode, as the codec and the bare-metal  *)
(* entity read, and Message::decode, as the UDP side reads, give the same  *)
(* verdict on every front part of the same bytes, the inverse version      *)
(* right or wrong; only a frame that is not there yet is "None" to the one *)
(* and Incomplete to the other.                                            *)
DecodersAgree ==
    \A n \in 0..Len(Frame \o Behind), inverse_byte \in {fill, 255 - fill} :
        LET buf == SubSeq(FrameWith(inverse_byte) \o Behind, 1, n)
            frame == try_frame(buf)
            payload == PayloadDecode(frame.value.payload,
                                     frame.value.header.payload_type)
            message == MessageDecode(buf)
        IN  CASE frame.is = "None" -> message.is = "Incomplete"
              [] frame.is \notin {"None", "Ok"} -> message = frame
              [] frame.is = "Ok" /\ payload.is # "Ok" -> message = payload
              [] frame.is = "Ok" /\ payload.is = "Ok" ->
                     message = Ok([message |-> [header |-> frame.value.header,
                                                payload |-> payload.value],
                                   rest |-> SubSeq(buf, frame.value.consumed + 1,
                                                   Len(buf))])

=============================================================================
