-------------------------------- MODULE Wire --------------------------------
(***************************************************************************)
(* The wire format: how headers, codes and payload bodies become bytes and *)
(* how bytes become messages again.  Encoders and decoders are translated  *)
(* separately, as the code has them, so that nothing makes them inverse to *)
(* each other but what they say.                                           *)
(*                                                                         *)
(* A byte is a number below 256 and a buffer a sequence of bytes.  A code  *)
(* is a pair: the name of the variant and the byte it carries, 0 where it  *)
(* carries none.  An Option of an array is that array, or <<>> for None.   *)
(* The owned and the borrowed form of a message are the same value.        *)
(***************************************************************************)
EXTENDS Naturals, Sequences

CONSTANT U32Max   (* the largest payload length a header can state         *)

Byte == 0..255
U16Size == 65536
U16 == 0..(U16Size - 1)

(* No more than a u32 can hold; small in a model that is to exceed it.     *)
ASSUME WireAssumption == U32Max \in Nat /\ U32Max \div U16Size \in U16

(* read_u16_be, write_u16_be, read_array and read_optional_array of        *)
(* automotive_wire_codec.  A read beyond the buffer is Incomplete; all the *)
(* reads of a body are in sequence, so it is Incomplete exactly when the   *)
(* buffer is shorter than what they read together.                         *)
u16(buf, i) == 256 * buf[i] + buf[i + 1]
be16(n) == <<n \div 256, n % 256>>
u32(buf, i) == U16Size * u16(buf, i) + u16(buf, i + 2)
be32(n) == be16(n \div U16Size) \o be16(n % U16Size)
array(buf, i, n) == SubSeq(buf, i, i + n - 1)
optional_array(buf, i, n) ==
    IF Len(buf) < i + n - 1 THEN <<>> ELSE array(buf, i, n)

(* The variants that carry the number they were read from.  Version 0 is   *)
(* a Reserved without one; it would carry 0.                               *)
Carrying == {"Reserved", "ReservedFuture", "ReservedVehicleManufacturer",
             "VehicleManufacturerSpecific"}
code(name, number) == <<name, IF name \in Carrying THEN number ELSE 0>>
byte_of(table, c) == IF c[1] \in DOMAIN table THEN table[c[1]] ELSE c[2]

----------------------------------------------------------------------------
(* The codes: what a byte decodes to, and the byte a variant encodes to.   *)

NackCodeFrom(byte) ==
    CASE byte = 0 -> "IncorrectPatternFormat"
      [] byte = 1 -> "UnknownPayloadType"
      [] byte = 2 -> "MessageTooLarge"
      [] byte = 3 -> "OutOfMemory"
      [] byte = 4 -> "InvalidPayloadLength"
      [] OTHER -> "Reserved"
NackCodeInto ==
    [IncorrectPatternFormat |-> 0, UnknownPayloadType |-> 1,
     MessageTooLarge |-> 2, OutOfMemory |-> 3, InvalidPayloadLength |-> 4]
NackCode(byte) == code(NackCodeFrom(byte), byte)

PowerModeFrom(byte) ==
    CASE byte = 0 -> "NotReady"
      [] byte = 1 -> "Ready"
      [] byte = 2 -> "NotSupported"
      [] OTHER -> "Reserved"
PowerModeInto == [NotReady |-> 0, Ready |-> 1, NotSupported |-> 2]
DiagnosticPowerModeCode(byte) == code(PowerModeFrom(byte), byte)

NodeTypeFrom(byte) ==
    CASE byte = 0 -> "DoIPGateway"
      [] byte = 1 -> "DoIPNode"
      [] OTHER -> "Reserved"
NodeTypeInto == [DoIPGateway |-> 0, DoIPNode |-> 1]
EntityStatusNodeType(byte) == code(NodeTypeFrom(byte), byte)

AckCodeFrom(byte) ==
    CASE byte = 0 -> "RoutingConfirmationAck"
      [] byte = 2 -> "InvalidSourceAddress"
      [] byte = 3 -> "UnknownTargetAddress"
      [] byte = 4 -> "DiagnosticMessageTooLarge"
      [] byte = 5 -> "OutOfMemory"
      [] byte = 6 -> "TargetUnreachable"
      [] byte = 7 -> "UnknownNetwork"
      [] byte = 8 -> "TransportProtocolError"
      [] OTHER -> "Reserved"
AckCodeInto ==
    [RoutingConfirmationAck |-> 0, InvalidSourceAddress |-> 2,
     UnknownTargetAddress |-> 3, DiagnosticMessageTooLarge |-> 4,
     OutOfMemory |-> 5, TargetUnreachable |-> 6, UnknownNetwork |-> 7,
     TransportProtocolError |-> 8]
DiagnosticAckCode(byte) == code(AckCodeFrom(byte), byte)

ActivationTypeFrom(byte) ==
    CASE byte = 0 -> "Default"
      [] byte = 1 -> "RegulationRequired"
      [] byte = 224 -> "CentralSecurity"
      [] byte \in 225..255 -> "VehicleManufacturerSpecific"
      [] OTHER -> "Reserved"
ActivationTypeInto ==
    [Default |-> 0, RegulationRequired |-> 1, CentralSecurity |-> 224]
ActivationTypeCode(byte) == code(ActivationTypeFrom(byte), byte)

ResponseCodeFrom(byte) ==
    CASE byte = 0 -> "DeniedUnknownSourceAddress"
      [] byte = 1 -> "DeniedAllTcpSocketsRegisteredAndActive"
      [] byte = 2 -> "DeniedSourceAddressAlreadyActivated"
      [] byte = 3 -> "DeniedSourceAddressAlreadyRegistered"
      [] byte = 4 -> "DeniedMissingAuthentication"
      [] byte = 5 -> "DeniedRejectedConfirmation"
      [] byte = 6 -> "DeniedUnsupportedRoutingActivationType"
      [] byte = 7 -> "DeniedEncryptedConnectionViaTLSRequired"
      [] byte = 16 -> "RoutingSuccessfullyActivated"
      [] byte = 17 -> "RoutingSuccessfullyActivatedConfirmationRequired"
      [] byte \in 224..254 -> "VehicleManufacturerSpecific"
      [] OTHER -> "Reserved"
ResponseCodeInto ==
    [DeniedUnknownSourceAddress |-> 0,
     DeniedAllTcpSocketsRegisteredAndActive |-> 1,
     DeniedSourceAddressAlreadyActivated |-> 2,
     DeniedSourceAddressAlreadyRegistered |-> 3,
     DeniedMissingAuthentication |-> 4, DeniedRejectedConfirmation |-> 5,
     DeniedUnsupportedRoutingActivationType |-> 6,
     DeniedEncryptedConnectionViaTLSRequired |-> 7,
     RoutingSuccessfullyActivated |-> 16,
     RoutingSuccessfullyActivatedConfirmationRequired |-> 17]
RoutingActivationResponseCode(byte) == code(ResponseCodeFrom(byte), byte)

FurtherActionFrom(byte) ==
    CASE byte = 0 -> "NoFurtherActionRequired"
      [] byte = 16 -> "RoutingActivationRequiredToInitiateCentralSecurity"
      [] byte \in 17..255 -> "VehicleManufacturerSpecific"
      [] OTHER -> "Reserved"
FurtherActionInto ==
    [NoFurtherActionRequired |-> 0,
     RoutingActivationRequiredToInitiateCentralSecurity |-> 16]
FurtherActionRequired(byte) == code(FurtherActionFrom(byte), byte)

SyncStatusFrom(byte) ==
    CASE byte = 0 -> "Synchronized"
      [] byte = 16 -> "Incomplete"
      [] OTHER -> "Reserved"
SyncStatusInto == [Synchronized |-> 0, Incomplete |-> 16]
VinGidSyncStatus(byte) == code(SyncStatusFrom(byte), byte)

VersionFrom(byte) ==
    CASE byte = 0 -> "Reserved"
      [] byte = 1 -> "V2010"
      [] byte = 2 -> "V2012"
      [] byte = 3 -> "V2019"
      [] byte = 255 -> "VehicleIdentificationRequest"
      [] OTHER -> "ReservedFuture"
VersionInto == [Reserved |-> 0, V2010 |-> 1, V2012 |-> 2, V2019 |-> 3,
                VehicleIdentificationRequest |-> 255]
ProtocolVersion(byte) == code(VersionFrom(byte), byte)
VersionInverses == [Reserved |-> 255, V2010 |-> 254, V2012 |-> 253,
                    V2019 |-> 252, VehicleIdentificationRequest |-> 0]
inverse(version) == IF version[1] = "ReservedFuture" THEN 255 - version[2]
                    ELSE VersionInverses[version[1]]

PayloadTypeFrom(value) ==
    IF value \in 0..8
    THEN <<"NegativeAcknowledge", "VehicleIdentificationRequest",
           "VehicleIdentificationRequestWithEID",
           "VehicleIdentificationRequestWithVIN", "VehicleAnnouncement",
           "RoutingActivationRequest", "RoutingActivationResponse",
           "AliveCheckRequest", "AliveCheckResponse">>[value + 1]
    ELSE IF value \in 16385..16388
    THEN <<"DoIPEntityStatusRequest", "DoIPEntityStatusResponse",
           "DiagnosticPowerModeInfoRequest",
           "DiagnosticPowerModeInfoResponse">>[value - 16384]
    ELSE IF value \in 32769..32771
    THEN <<"DiagnosticMessage", "DiagnosticMessagePositiveAcknowledge",
           "DiagnosticMessageNegativeAcknowledge">>[value - 32768]
    ELSE IF value \in 61440..65535 THEN "ReservedVehicleManufacturer"
    ELSE "Reserved"
PayloadTypeInto ==
    [NegativeAcknowledge |-> 0, VehicleIdentificationRequest |-> 1,
     VehicleIdentificationRequestWithEID |-> 2,
     VehicleIdentificationRequestWithVIN |-> 3, VehicleAnnouncement |-> 4,
     RoutingActivationRequest |-> 5, RoutingActivationResponse |-> 6,
     AliveCheckRequest |-> 7, AliveCheckResponse |-> 8,
     DoIPEntityStatusRequest |-> 16385, DoIPEntityStatusResponse |-> 16386,
     DiagnosticPowerModeInfoRequest |-> 16387,
     DiagnosticPowerModeInfoResponse |-> 16388, DiagnosticMessage |-> 32769,
     DiagnosticMessagePositiveAcknowledge |-> 32770,
     DiagnosticMessageNegativeAcknowledge |-> 32771]
PayloadType(value) == code(PayloadTypeFrom(value), value)

----------------------------------------------------------------------------
(* The bodies.  A decoder gives [is |-> "Ok", value |-> ...] or an error;  *)
(* Incomplete is the only one a body decoder has.                          *)

Ok(v) == [is |-> "Ok", value |-> v]
Err(e) == [is |-> e, value |-> [kind |-> "None"]]

(* Reads n bytes or is Incomplete; the bytes behind them are left over.    *)
Body(buf, n, value) == IF Len(buf) < n THEN Err("Incomplete") ELSE Ok(value)

DoIPNackDecode(buf) ==
    Body(buf, 1, [kind |-> "DoIPNack", nack_code |-> NackCode(buf[1])])
DoIPNackEncode(p) == <<byte_of(NackCodeInto, p.nack_code)>>

PowerModeInfoResponseDecode(buf) ==
    Body(buf, 1, [kind |-> "PowerModeInfoResponse",
                  power_mode |-> DiagnosticPowerModeCode(buf[1])])
PowerModeInfoResponseEncode(p) == <<byte_of(PowerModeInto, p.power_mode)>>

AliveCheckResponseDecode(buf) ==
    Body(buf, 2, [kind |-> "AliveCheckResponse", source_address |-> u16(buf, 1)])
AliveCheckResponseEncode(p) == be16(p.source_address)

(* max_data_size is a u32: its two halves.                                 *)
EntityStatusResponseDecode(buf) ==
    Body(buf, 7, [kind |-> "EntityStatusResponse",
                  node_type |-> EntityStatusNodeType(buf[1]),
                  max_concurrent_tcp_sockets |-> buf[2],
                  open_tcp_sockets |-> buf[3],
                  max_data_size |-> <<u16(buf, 4), u16(buf, 6)>>])
EntityStatusResponseEncode(p) ==
    <<byte_of(NodeTypeInto, p.node_type)>>
    \o <<p.max_concurrent_tcp_sockets>> \o <<p.open_tcp_sockets>>
    \o be16(p.max_data_size[1]) \o be16(p.max_data_size[2])

DiagnosticMessageDecode(buf) ==
    Body(buf, 4, [kind |-> "DiagnosticMessage", source_address |-> u16(buf, 1),
                  target_address |-> u16(buf, 3),
                  user_data |-> SubSeq(buf, 5, Len(buf))])
DiagnosticMessageEncode(p) ==
    be16(p.source_address) \o be16(p.target_address) \o p.user_data

DiagnosticMessageAckDecode(buf) ==
    Body(buf, 5, [kind |-> "DiagnosticMessageAck",
                  source_address |-> u16(buf, 1),
                  target_address |-> u16(buf, 3),
                  ack_code |-> DiagnosticAckCode(buf[5]),
                  previous_message_data |-> SubSeq(buf, 6, Len(buf))])
DiagnosticMessageAckEncode(p) ==
    be16(p.source_address) \o be16(p.target_address)
    \o <<byte_of(AckCodeInto, p.ack_code)>> \o p.previous_message_data

RoutingActivationRequestDecode(buf) ==
    Body(buf, 7, [kind |-> "RoutingActivationRequest",
                  source_address |-> u16(buf, 1),
                  activation_type |-> ActivationTypeCode(buf[3]),
                  reserved |-> array(buf, 4, 4),
                  reserved_vehicle_manufacturer |-> optional_array(buf, 8, 4)])
RoutingActivationRequestEncode(p) ==
    be16(p.source_address) \o <<byte_of(ActivationTypeInto, p.activation_type)>>
    \o p.reserved \o p.reserved_vehicle_manufacturer

RoutingActivationResponseDecode(buf) ==
    Body(buf, 9, [kind |-> "RoutingActivationResponse",
                  logical_address_tester |-> u16(buf, 1),
                  logical_address_of_doip_entity |-> u16(buf, 3),
                  routing_activation_response_code |->
                      RoutingActivationResponseCode(buf[5]),
                  reserved_oem |-> array(buf, 6, 4),
                  oem_specific |-> optional_array(buf, 10, 4)])
(* A faulty variant: the two addresses are written in the other order.     *)
RoutingActivationResponseEncodeSwapped(p) ==
    be16(p.logical_address_of_doip_entity) \o be16(p.logical_address_tester)
    \o <<byte_of(ResponseCodeInto, p.routing_activation_response_code)>>
    \o p.reserved_oem \o p.oem_specific
RoutingActivationResponseEncode(p) ==
    be16(p.logical_address_tester) \o be16(p.logical_address_of_doip_entity)
    \o <<byte_of(ResponseCodeInto, p.routing_activation_response_code)>>
    \o p.reserved_oem \o p.oem_specific

(* A group id of six zeros, or of six 0xFF, says that none is set.         *)
six(byte) == [i \in 1..6 |-> byte]
VehicleIdentificationResponseDecode(buf, kind) ==
    Body(buf, 33,
         [kind |-> kind, vin |-> array(buf, 1, 17),
          logical_address |-> u16(buf, 18), entity_id |-> array(buf, 20, 6),
          group_id |-> IF array(buf, 26, 6) \in {six(0), six(255)} THEN <<>>
                       ELSE array(buf, 26, 6),
          further_action |-> FurtherActionRequired(buf[32]),
          vin_gid_sync_status |-> VinGidSyncStatus(buf[33])])
VehicleIdentificationResponseEncode(p) ==
    p.vin \o be16(p.logical_address) \o p.entity_id
    \o (IF p.group_id = <<>> THEN six(0) ELSE p.group_id)
    \o <<byte_of(FurtherActionInto, p.further_action)>>
    \o <<byte_of(SyncStatusInto, p.vin_gid_sync_status)>>

----------------------------------------------------------------------------
(* The payload: the body its type calls for.  Bytes behind the body, and   *)
(* any bytes of a type without a body, are ignored by a decoder.           *)

PayloadDecode(buf, payload_type) ==
    CASE payload_type[1] = "AliveCheckResponse" -> AliveCheckResponseDecode(buf)
      [] payload_type[1] = "NegativeAcknowledge" -> DoIPNackDecode(buf)
      [] payload_type[1] \in {"VehicleIdentificationRequest",
                              "VehicleIdentificationRequestWithEID",
                              "VehicleIdentificationRequestWithVIN"} ->
             Ok([kind |-> "VehicleIdentificationRequest"])
      [] payload_type[1] = "VehicleAnnouncement" ->
             VehicleIdentificationResponseDecode(buf, "VehicleAnnouncement")
      [] payload_type[1] = "RoutingActivationRequest" ->
             RoutingActivationRequestDecode(buf)
      [] payload_type[1] = "RoutingActivationResponse" ->
             RoutingActivationResponseDecode(buf)
      [] payload_type[1] = "AliveCheckRequest" ->
             Ok([kind |-> "AliveCheckRequest"])
      [] payload_type[1] = "DoIPEntityStatusRequest" ->
             Ok([kind |-> "EntityStatusRequest"])
      [] payload_type[1] = "DoIPEntityStatusResponse" ->
             EntityStatusResponseDecode(buf)
      [] payload_type[1] = "DiagnosticPowerModeInfoResponse" ->
             PowerModeInfoResponseDecode(buf)
      [] payload_type[1] = "DiagnosticMessage" -> DiagnosticMessageDecode(buf)
      [] payload_type[1] = "DiagnosticMessagePositiveAcknowledge" ->
             DiagnosticMessageAckDecode(buf)
      [] payload_type[1] = "DiagnosticMessageNegativeAcknowledge" ->
             Ok([kind |-> "DiagnosticMessageNack"])
      [] OTHER -> Err("UnsupportedPayloadType")

BodilessKinds == {"AliveCheckRequest", "DiagnosticMessageNack",
                  "EntityStatusRequest", "VehicleIdentificationRequest"}

PayloadEncodedSize(p) ==
    CASE p.kind \in BodilessKinds -> 0
      [] p.kind \in {"DoIPNack", "PowerModeInfoResponse"} -> 1
      [] p.kind = "AliveCheckResponse" -> 2
      [] p.kind = "DiagnosticMessage" -> 4 + Len(p.user_data)
      [] p.kind = "DiagnosticMessageAck" -> 5 + Len(p.previous_message_data)
      [] p.kind = "EntityStatusResponse" -> 7
      [] p.kind = "RoutingActivationRequest" ->
             IF p.reserved_vehicle_manufacturer = <<>> THEN 7 ELSE 11
      [] p.kind = "RoutingActivationResponse" ->
             IF p.oem_specific = <<>> THEN 9 ELSE 9 + 4
      [] p.kind \in {"VehicleIdentificationResponse", "VehicleAnnouncement"} -> 33

PayloadEncode(p) ==
    CASE p.kind \in BodilessKinds -> <<>>
      [] p.kind = "DoIPNack" -> DoIPNackEncode(p)
      [] p.kind = "PowerModeInfoResponse" -> PowerModeInfoResponseEncode(p)
      [] p.kind = "AliveCheckResponse" -> AliveCheckResponseEncode(p)
      [] p.kind = "DiagnosticMessage" -> DiagnosticMessageEncode(p)
      [] p.kind = "DiagnosticMessageAck" -> DiagnosticMessageAckEncode(p)
      [] p.kind = "EntityStatusResponse" -> EntityStatusResponseEncode(p)
      [] p.kind = "RoutingActivationRequest" -> RoutingActivationRequestEncode(p)
      [] p.kind = "RoutingActivationResponse" ->
             RoutingActivationResponseEncode(p)
      [] p.kind \in {"VehicleIdentificationResponse", "VehicleAnnouncement"} ->
             VehicleIdentificationResponseEncode(p)

----------------------------------------------------------------------------
(* The header, the frame and the message.                                  *)

HeaderSize == 8

HeaderNew(protocol_version, payload_type, payload_length) ==
    [protocol_version |-> protocol_version,
     inverse_protocol_version |-> inverse(protocol_version),
     payload_type |-> payload_type, payload_length |-> payload_length]

version_inverse_correct(header) ==
    header.inverse_protocol_version = inverse(header.protocol_version)

HeaderDecode(buf) ==
    IF Len(buf) < HeaderSize THEN Err("Incomplete")
    ELSE LET header == [protocol_version |-> ProtocolVersion(buf[1]),
                        inverse_protocol_version |-> buf[2],
                        payload_type |-> PayloadType(u16(buf, 3)),
                        payload_length |-> u32(buf, 5)]
         IN  IF version_inverse_correct(header) THEN Ok(header)
             ELSE Err("VersionInverseIncorrect")

HeaderEncode(header) ==
    <<byte_of(VersionInto, header.protocol_version),
      header.inverse_protocol_version>>
    \o be16(byte_of(PayloadTypeInto, header.payload_type))
    \o be32(header.payload_length)

(* A faulty variant: off by one where the buffer ends with the frame.      *)
try_frame_late(buf) ==
    IF Len(buf) < HeaderSize THEN Err("None")
    ELSE LET header == HeaderDecode(array(buf, 1, HeaderSize))
             total == HeaderSize + header.value.payload_length
         IN  IF header.is # "Ok" THEN header
             ELSE IF Len(buf) - HeaderSize <= header.value.payload_length
             THEN Err("None")
             ELSE Ok([header |-> header.value, consumed |-> total,
                      payload |-> SubSeq(buf, HeaderSize + 1, total)])

(* One frame off the front of a buffer: "None" as long as the buffer does  *)
(* not hold all of it.                                                     *)
try_frame(buf) ==
    IF Len(buf) < HeaderSize THEN Err("None")
    ELSE LET header == HeaderDecode(array(buf, 1, HeaderSize))
             total == HeaderSize + header.value.payload_length
         IN  IF header.is # "Ok" THEN header
             ELSE IF Len(buf) - HeaderSize < header.value.payload_length
             THEN Err("None")
             ELSE Ok([header |-> header.value, consumed |-> total,
                      payload |-> SubSeq(buf, HeaderSize + 1, total)])

(* Message::decode, which the UDP side and the fuzz targets use, frames    *)
(* for itself.  What it leaves over is its second result.                  *)
MessageDecode(buf) ==
    LET header == HeaderDecode(buf)
        rest == SubSeq(buf, HeaderSize + 1, Len(buf))
        length == header.value.payload_length
        payload == PayloadDecode(SubSeq(rest, 1, length),
                                 header.value.payload_type)
    IN  CASE header.is # "Ok" -> header
          [] header.is = "Ok" /\ Len(rest) < length -> Err("Incomplete")
          [] header.is = "Ok" /\ Len(rest) >= length ->
                 IF payload.is # "Ok" THEN payload
                 ELSE Ok([message |-> [header |-> header.value,
                                       payload |-> payload.value],
                          rest |-> SubSeq(rest, length + 1, Len(rest))])

MessageEncodedSize(message) == HeaderSize + PayloadEncodedSize(message.payload)

(* A faulty variant: the length the message's header was made with.        *)
MessageEncodeAsStated(message) ==
    LET payload_length == message.header.payload_length
        header == HeaderNew(message.header.protocol_version,
                            message.header.payload_type, payload_length)
    IN  IF payload_length > U32Max THEN Err("PayloadTooLarge")
        ELSE Ok(HeaderEncode(header) \o PayloadEncode(message.payload))

(* The length field is derived from the payload, whatever the message's    *)
(* own header says.                                                        *)
MessageEncode(message) ==
    LET payload_length == PayloadEncodedSize(message.payload)
        header == HeaderNew(message.header.protocol_version,
                            message.header.payload_type, payload_length)
    IN  IF payload_length > U32Max THEN Err("PayloadTooLarge")
        ELSE Ok(HeaderEncode(header) \o PayloadEncode(message.payload))

(* A faulty variant: an unsupported frame costs the connection.            *)
is_framing_fatal_always(error) == error \notin {"Ok", "None"}

is_framing_fatal(error) == error \in {"VersionInverseIncorrect", "Incomplete"}

----------------------------------------------------------------------------
(* The messages that a reader gets back as they were sent.  A code that    *)
(* carries a number carries none that has a name of its own: it is what    *)
(* some number decodes to.  A group id is not one of those that say None.  *)
(* The type in the header is one whose body the payload is.                *)

Bytes(n) == [1..n -> Byte]
Option(arrays) == arrays \cup {<<>>}

DoIPNacks ==
    [kind : {"DoIPNack"}, nack_code : {NackCode(b) : b \in Byte}]
PowerModeInfoResponses ==
    [kind : {"PowerModeInfoResponse"},
     power_mode : {DiagnosticPowerModeCode(b) : b \in Byte}]
AliveCheckResponses == [kind : {"AliveCheckResponse"}, source_address : U16]
EntityStatusResponses ==
    [kind : {"EntityStatusResponse"},
     node_type : {EntityStatusNodeType(b) : b \in Byte},
     max_concurrent_tcp_sockets : Byte, open_tcp_sockets : Byte,
     max_data_size : U16 \X U16]
DiagnosticMessages ==
    [kind : {"DiagnosticMessage"}, source_address : U16, target_address : U16,
     user_data : Seq(Byte)]
DiagnosticMessageAcks ==
    [kind : {"DiagnosticMessageAck"}, source_address : U16, target_address : U16,
     ack_code : {DiagnosticAckCode(b) : b \in Byte},
     previous_message_data : Seq(Byte)]
RoutingActivationRequests ==
    [kind : {"RoutingActivationRequest"}, source_address : U16,
     activation_type : {ActivationTypeCode(b) : b \in Byte},
     reserved : Bytes(4), reserved_vehicle_manufacturer : Option(Bytes(4))]
RoutingActivationResponses ==
    [kind : {"RoutingActivationResponse"}, logical_address_tester : U16,
     logical_address_of_doip_entity : U16,
     routing_activation_response_code :
         {RoutingActivationResponseCode(b) : b \in Byte},
     reserved_oem : Bytes(4), oem_specific : Option(Bytes(4))]
VehicleIdentificationResponses ==
    [kind : {"VehicleIdentificationResponse", "VehicleAnnouncement"},
     vin : Bytes(17), logical_address : U16, entity_id : Bytes(6),
     group_id : Option(Bytes(6) \ {six(0), six(255)}),
     further_action : {FurtherActionRequired(b) : b \in Byte},
     vin_gid_sync_status : {VinGidSyncStatus(b) : b \in Byte}]

Payloads ==
    [kind : BodilessKinds] \cup DoIPNacks \cup PowerModeInfoResponses
    \cup AliveCheckResponses \cup EntityStatusResponses \cup DiagnosticMessages
    \cup DiagnosticMessageAcks \cup RoutingActivationRequests
    \cup RoutingActivationResponses \cup VehicleIdentificationResponses

(* The payload types whose body a payload is.                              *)
TypesOf(kind) ==
    CASE kind = "DoIPNack" -> {"NegativeAcknowledge"}
      [] kind = "VehicleIdentificationRequest" ->
             {"VehicleIdentificationRequest",
              "VehicleIdentificationRequestWithEID",
              "VehicleIdentificationRequestWithVIN"}
      [] kind \in {"VehicleIdentificationResponse", "VehicleAnnouncement"} ->
             {"VehicleAnnouncement"}
      [] kind = "EntityStatusRequest" -> {"DoIPEntityStatusRequest"}
      [] kind = "EntityStatusResponse" -> {"DoIPEntityStatusResponse"}
      [] kind = "PowerModeInfoResponse" -> {"DiagnosticPowerModeInfoResponse"}
      [] kind = "DiagnosticMessageAck" ->
             {"DiagnosticMessagePositiveAcknowledge"}
      [] kind = "DiagnosticMessageNack" ->
             {"DiagnosticMessageNegativeAcknowledge"}
      [] kind \in {"AliveCheckRequest", "AliveCheckResponse",
                   "RoutingActivationRequest", "RoutingActivationResponse",
                   "DiagnosticMessage"} -> {kind}

Headers ==
    [protocol_version : {ProtocolVersion(b) : b \in Byte},
     inverse_protocol_version : Byte,
     payload_type : {PayloadType(t) : t \in U16}, payload_length : Nat]

Faithful(message) ==
    /\ message \in [header : Headers, payload : Payloads]
    /\ version_inverse_correct(message.header)
    /\ message.header.payload_type[1] \in TypesOf(message.payload.kind)

(* What arrives for a message: that message with the length it really has; *)
(* an identification response arrives as an announcement.                  *)
Received(message) ==
    [header |-> [message.header EXCEPT
                     !.payload_length = PayloadEncodedSize(message.payload)],
     payload |-> IF message.payload.kind = "VehicleIdentificationResponse"
                 THEN [message.payload EXCEPT !.kind = "VehicleAnnouncement"]
                 ELSE message.payload]

----------------------------------------------------------------------------
(* The constructors.  payload_len panics beyond U32Max; a message that     *)
(* large is built from its fields instead.                                 *)

payload_len(p) == PayloadEncodedSize(p)

alive_check_request(v) ==
    [header |-> HeaderNew(v, <<"AliveCheckRequest", 0>>, 0),
     payload |-> [kind |-> "AliveCheckRequest"]]

alive_check_response(v, source_address) ==
    [header |-> HeaderNew(v, <<"AliveCheckResponse", 0>>, 2),
     payload |-> [kind |-> "AliveCheckResponse",
                  source_address |-> source_address]]

WithLength(v, payload_type, payload) ==
    [header |-> HeaderNew(v, <<payload_type, 0>>, payload_len(payload)),
     payload |-> payload]

diagnostic_message(v, source_address, target_address, user_data) ==
    WithLength(v, "DiagnosticMessage",
        [kind |-> "DiagnosticMessage", source_address |-> source_address,
         target_address |-> target_address, user_data |-> user_data])

diagnostic_message_ack(v, source_address, target_address, ack_code, previous) ==
    WithLength(v, "DiagnosticMessagePositiveAcknowledge",
        [kind |-> "DiagnosticMessageAck", source_address |-> source_address,
         target_address |-> target_address, ack_code |-> ack_code,
         previous_message_data |-> previous])

routing_activation_request(v, source_address, activation_type, manufacturer) ==
    WithLength(v, "RoutingActivationRequest",
        [kind |-> "RoutingActivationRequest", source_address |-> source_address,
         activation_type |-> activation_type, reserved |-> <<0, 0, 0, 0>>,
         reserved_vehicle_manufacturer |-> manufacturer])

routing_activation_response(v, tester, entity, response_code, reserved, oem) ==
    WithLength(v, "RoutingActivationResponse",
        [kind |-> "RoutingActivationResponse", logical_address_tester |-> tester,
         logical_address_of_doip_entity |-> entity,
         routing_activation_response_code |-> response_code,
         reserved_oem |-> reserved, oem_specific |-> oem])

(* Stamped as an announcement: the two share their payload type.           *)
vehicle_identification_response(v, response) ==
    WithLength(v, "VehicleAnnouncement", response)

default_message ==
    [header |-> HeaderNew(<<"V2012", 0>>, <<"DiagnosticMessage", 0>>, 0),
     payload |-> [kind |-> "DiagnosticMessage", source_address |-> 0,
                  target_address |-> 0, user_data |-> <<>>]]

=============================================================================
