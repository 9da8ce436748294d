------------------------ MODULE WireRoundTripProofs ------------------------
(***************************************************************************)
(* What WireRoundTrip's run checks for a few types, codes and sizes, for   *)
(* all of them: the two readers agree, no byte that was understood is      *)
(* lost, and a decoded message is written and read again as it is.         *)
(***************************************************************************)
EXTENDS WireRoundTrip, WireProofs

----------------------------------------------------------------------------
(* The bodies of the specification: bytes, no more than a u32 can count.   *)

Counted ==
    /\ type \in U16
    /\ type \in Types
    /\ fill \in Byte
    /\ fields \in Nat
    /\ body \in Seq(Byte)
    /\ Len(body) <= U32Max

(* What the assumptions say of the constants, fact by fact.                *)
LEMMA ConstantsAre ==
    /\ \A t \in Types : t \in U16 /\ Layout[t] \in Seq(Nat \ {0})
    /\ \A c \in Codes : c \in Byte
    /\ Behind \in Seq(Byte)
    /\ U32Max \in Nat
<1>1. \A t \in Types : t \in U16
  BY RoundTripAssumption, Zenon
<1>2. \A t \in Types : Layout[t] \in Seq(Nat \ {0})
  BY RoundTripAssumption, Zenon
<1>3. \A c \in Codes : c \in Byte
  BY RoundTripAssumption, Zenon
<1>4. Behind \in Seq(Byte)
  BY RoundTripAssumption, Zenon
<1> QED
  BY <1>1, <1>2, <1>3, <1>4, WireAssumption, Zenon

(* A field is as wide as its layout says, and the bytes behind are one     *)
(* field each.                                                             *)
LEMMA WidthIs ==
    ASSUME Counted
    PROVE  Width(fields + 1) \in Nat
<1>1. fields + 1 \in Nat \ {0} /\ Layout[type] \in Seq(Nat \ {0})
  BY ConstantsAre DEF Counted
<1>2. CASE fields + 1 > Len(Layout[type])
  BY <1>2 DEF Width
<1>3. CASE ~(fields + 1 > Len(Layout[type]))
  <2>1. fields + 1 \in 1..Len(Layout[type])
    BY <1>1, <1>3
  <2>2. Layout[type][fields + 1] \in Nat
    BY <1>1, <2>1
  <2> QED
    BY <1>3, <2>2 DEF Width
<1> QED
  BY <1>2, <1>3

(* However many fields were added, the body is bytes that a length field   *)
(* can count.                                                              *)
LEMMA BodyCounted == Spec => []Counted
<1>1. Init => Counted
  <2> SUFFICES ASSUME Init PROVE Counted
    OBVIOUS
  <2>1. type \in U16 /\ type \in Types /\ fill \in Byte
    BY ConstantsAre, Zenon DEF Init
  <2>2. fields = 0 /\ body = <<>>
    BY Zenon DEF Init
  <2>3. fields \in Nat /\ body \in Seq(Byte) /\ Len(body) = 0
    BY <2>2
  <2>4. Len(body) <= U32Max
    BY <2>3, ConstantsAre, SMT
  <2> QED
    BY <2>1, <2>3, <2>4, Zenon DEF Counted
<1>2. Counted /\ [Next]_vars => Counted'
  <2> SUFFICES ASSUME Counted, [Next]_vars PROVE Counted'
    OBVIOUS
  <2>1. CASE UNCHANGED vars
    BY <2>1, Zenon DEF vars, Counted
  <2>2. ASSUME NEW byte \in {0, fill}, AddField(byte)
        PROVE  Counted'
    <3> DEFINE w == Width(fields + 1)
               field == [i \in 1..w |-> byte]
    <3>1. /\ type' = type /\ fill' = fill
          /\ fields' = fields + 1 /\ body' = body \o field
          /\ Len(body) + w <= U32Max
      BY <2>2, Zenon DEF AddField
    <3>2. 0 \in Byte /\ fields + 1 \in Nat
      BY SMT DEF Byte, Counted
    <3>3. byte \in Byte
      BY <2>2, <3>2, Zenon DEF Counted
    <3>4. w \in Nat
      BY WidthIs, Zenon
    <3> HIDE DEF w
    <3>5. field \in Seq(Byte) /\ Len(field) = w
      BY <3>3, <3>4
    <3> HIDE DEF field
    <3>6. body' \in Seq(Byte) /\ Len(body') = Len(body) + w
      BY <3>1, <3>5, Cat, Zenon DEF Counted
    <3>7. Len(body') <= U32Max /\ fields' \in Nat
      BY <3>1, <3>2, <3>6, Zenon
    <3> QED
      BY <3>1, <3>6, <3>7, Zenon DEF Counted
  <2> QED
    BY <2>1, <2>2, Zenon DEF Next
<1> QED
  BY <1>1, <1>2, PTL DEF Spec

----------------------------------------------------------------------------
(* The frame.                                                              *)

(* The length field is bytes.                                              *)
LEMMA LengthIsBuffer ==
    ASSUME NEW n \in Nat, n <= U32Max
    PROVE  be32(n) \in Seq(Byte)
<1> DEFINE high == be16(n \div U16Size)
           low == be16(n % U16Size)
<1>1. n \div U16Size \in U16 /\ n % U16Size \in U16
  BY LengthWritten, Zenon
<1>2. high \in Seq(Byte) /\ low \in Seq(Byte)
  BY <1>1, WordIsBuffer, Zenon
<1>3. be32(n) = high \o low
  BY Zenon DEF be32
<1> HIDE DEF high, low
<1> QED
  BY <1>2, <1>3, Cat, Zenon

(* Whatever inverse byte is written, the frame is bytes, and as long.      *)
LEMMA FrameIsBuffer ==
    ASSUME Counted, NEW byte \in Byte
    PROVE  /\ FrameWith(byte) \o Behind \in Seq(Byte)
           /\ Len(FrameWith(byte) \o Behind) =
                  2 + Len(be16(type)) + Len(be32(Len(body))) + Len(body)
                    + Len(Behind)
<1> DEFINE version == <<fill, byte>>
           kind == be16(type)
           size == be32(Len(body))
<1>1. type \in U16 /\ fill \in Byte /\ body \in Seq(Byte)
  BY Zenon DEF Counted
<1>2. version \in Seq(Byte) /\ Len(version) = 2
  BY <1>1
<1>3. kind \in Seq(Byte)
  BY <1>1, WordIsBuffer, Zenon
<1>4. size \in Seq(Byte)
  <2>1. Len(body) \in Nat
    BY <1>1, LenProperties, Zenon
  <2> QED
    BY <2>1, LengthIsBuffer, Zenon DEF Counted
<1>5. FrameWith(byte) = version \o kind \o size \o body
  BY Zenon DEF FrameWith
<1> HIDE DEF version, kind, size
<1>6. version \o kind \in Seq(Byte) /\ Len(version \o kind) = 2 + Len(kind)
  <2>1. version \in Seq(Byte)
    BY <1>2, Zenon
  <2>2. /\ version \o kind \in Seq(Byte)
        /\ Len(version \o kind) = Len(version) + Len(kind)
    BY <1>3, <2>1, Cat, Zenon
  <2> QED
    BY <1>2, <2>2, Zenon
<1>7. /\ version \o kind \o size \in Seq(Byte)
      /\ Len(version \o kind \o size) = 2 + Len(kind) + Len(size)
  BY <1>4, <1>6, Cat, Zenon
<1>8. /\ FrameWith(byte) \in Seq(Byte)
      /\ Len(FrameWith(byte)) = 2 + Len(kind) + Len(size) + Len(body)
  BY <1>1, <1>5, <1>7, Cat, Zenon
<1>9. /\ FrameWith(byte) \o Behind \in Seq(Byte)
      /\ Len(FrameWith(byte) \o Behind) = Len(FrameWith(byte)) + Len(Behind)
  BY <1>8, ConstantsAre, Cat, Zenon
<1> QED
  BY <1>8, <1>9, Zenon DEF kind, size

(* try_frame with Payload::decode and Message::decode agree on every front *)
(* part of every frame, whatever the layouts, codes and bytes behind it.   *)
THEOREM ReadersAgree == Spec => []DecodersAgree
<1>1. ASSUME Counted
      PROVE  DecodersAgree
  <2> SUFFICES ASSUME NEW n \in 0..Len(Frame \o Behind),
                      NEW byte \in {fill, 255 - fill}
               PROVE  SubSeq(FrameWith(byte) \o Behind, 1, n) \in Seq(Byte)
    BY Agreement, ZenonT(40) DEF DecodersAgree
  <2>1. fill \in Byte /\ 255 - fill \in Byte
    BY <1>1, SMT DEF Counted, Byte
  <2>2. byte \in Byte
    BY <2>1, Zenon
  <2> DEFINE whole == FrameWith(byte) \o Behind
  <2>3. whole \in Seq(Byte) /\ Len(Frame \o Behind) = Len(whole)
    BY <1>1, <2>1, <2>2, FrameIsBuffer, Zenon DEF Frame
  <2> HIDE DEF whole
  <2>4. n \in 0..Len(whole) /\ Len(whole) \in Nat /\ 1 \in Nat \ {0}
    BY <2>3, LenProperties
  <2>5. n \in Nat /\ n <= Len(whole)
    BY <2>4, SMT
  <2>6. SubSeq(whole, 1, n) \in Seq(Byte)
    BY <2>3, <2>4, <2>5, Part, Zenon
  <2> QED
    BY <2>6, Zenon DEF whole
<1> QED
  BY <1>1, BodyCounted, PTL

(* The frame with the right inverse byte is a header with the body's       *)
(* length, and the body.                                                   *)
Stamp == HeaderNew(ProtocolVersion(fill), PayloadType(type), Len(body))

LEMMA FrameIsStamped ==
    ASSUME Counted
    PROVE  /\ Stamp \in Headers /\ version_inverse_correct(Stamp)
           /\ Stamp.payload_length = Len(body)
           /\ Stamp.payload_type = PayloadType(type)
           /\ Frame = HeaderEncode(Stamp) \o body
<1> DEFINE version == ProtocolVersion(fill)
           kind == PayloadType(type)
           n == Len(body)
<1>1. type \in U16 /\ fill \in Byte /\ body \in Seq(Byte)
  BY Zenon DEF Counted
<1>2. n \in Nat /\ 255 - fill \in Byte
  BY <1>1, SMT DEF Byte
<1>3. inverse(version) = 255 - fill
  BY <1>1, VersionInverted, Zenon
<1>4. byte_of(VersionInto, version) = fill /\ byte_of(PayloadTypeInto, kind) = type
  BY <1>1, VersionKept, PayloadTypeKept, Zenon
<1>5. /\ version \in {ProtocolVersion(b) : b \in Byte}
      /\ kind \in {PayloadType(t) : t \in U16}
  BY <1>1, Zenon
<1>6. Stamp = [protocol_version |-> version, inverse_protocol_version |-> 255 - fill,
               payload_type |-> kind, payload_length |-> n]
  BY <1>3, Zenon DEF Stamp, HeaderNew
<1> HIDE DEF version, kind, n
<1>7. /\ Stamp.protocol_version = version
      /\ Stamp.inverse_protocol_version = 255 - fill
      /\ Stamp.payload_type = kind /\ Stamp.payload_length = n
  BY <1>6
<1>8. Stamp \in Headers
  <2> DEFINE i == 255 - fill
  <2>1. i \in Byte /\ Stamp = [protocol_version |-> version,
                               inverse_protocol_version |-> i,
                               payload_type |-> kind, payload_length |-> n]
    BY <1>2, <1>6, Zenon
  <2> HIDE DEF i
  <2> QED
    BY <1>2, <1>5, <2>1 DEF Headers
<1>9. version_inverse_correct(Stamp)
  BY <1>3, <1>7, Zenon DEF version_inverse_correct
<1>10. Frame = HeaderEncode(Stamp) \o body
  BY <1>4, <1>7, Zenon DEF Frame, FrameWith, HeaderEncode, n
<1> QED
  BY <1>7, <1>8, <1>9, <1>10, Zenon DEF kind, n

(* try_frame takes the frame, and leaves what is behind it.                *)
LEMMA FrameTaken ==
    ASSUME Counted
    PROVE  LET buf == Frame \o Behind
           IN  /\ buf \in Seq(Byte)
               /\ try_frame(buf) = Ok([header |-> Stamp, consumed |-> Len(Frame),
                                       payload |-> body])
               /\ SubSeq(buf, Len(Frame) + 1, Len(buf)) = Behind
<1> DEFINE buf == Frame \o Behind
           taken == [header |-> Stamp, consumed |-> Len(Frame), payload |-> body]
<1>1. body \in Seq(Byte) /\ Len(body) <= U32Max /\ Behind \in Seq(Byte)
  BY ConstantsAre, Zenon DEF Counted
<1>2. Frame \in Seq(Byte) /\ try_frame(Frame) = Ok(taken)
  BY <1>1, FrameIsStamped, FrameWritten, Zenon
<1>3. /\ buf \in Seq(Byte) /\ Len(buf) = Len(Frame) + Len(Behind)
  BY <1>1, <1>2, Cat, Zenon
<1>4. Ok(taken).is # "None"
  <2> HIDE DEF taken
  <2> QED
    BY DEF Ok
<1>5. try_frame(buf) = Ok(taken)
  BY <1>1, <1>2, <1>4, FrameIsLocal, Zenon
<1>6. SubSeq(buf, Len(Frame) + 1, Len(Frame) + Len(Behind)) = Behind
  BY <1>1, <1>2, Rear, Zenon
<1> QED
  BY <1>3, <1>5, <1>6, Zenon

----------------------------------------------------------------------------
(* Every byte that is understood is kept.                                  *)

(* A front part of a buffer is a prefix of it.                             *)
LEMMA FrontIsPrefix ==
    ASSUME NEW t \in Seq(Byte), NEW n \in Nat, n <= Len(t)
    PROVE  IsPrefix(SubSeq(t, 1, n), t)
<1> DEFINE s == SubSeq(t, 1, n)
<1>1. Len(t) \in Nat /\ 1 \in Nat \ {0}
  OBVIOUS
<1>2. s \in Seq(Byte) /\ Len(s) = n
  BY <1>1, Part, SMT
<1> HIDE DEF s
<1>3. SubSeq(s, 1, Len(s)) = s
  BY <1>2
<1>4. Len(s) <= Len(t) /\ SubSeq(t, 1, Len(s)) = s
  BY <1>2, Zenon DEF s
<1> QED
  BY <1>3, <1>4, Zenon DEF IsPrefix, s

(* Buffers that agree up to some index have the same front.                *)
LEMMA SameFront ==
    ASSUME NEW s \in Seq(Byte), NEW t \in Seq(Byte), NEW n \in Nat,
           n <= Len(s), n <= Len(t), \A k \in 1..n : s[k] = t[k]
    PROVE  SubSeq(s, 1, n) = SubSeq(t, 1, n)
<1> DEFINE a == SubSeq(s, 1, n)
           b == SubSeq(t, 1, n)
<1>1. Len(s) \in Nat /\ Len(t) \in Nat /\ 1 \in Nat \ {0}
  OBVIOUS
<1>2. a \in Seq(Byte) /\ Len(a) = n /\ \A k \in 1..n : a[k] = s[k]
  BY <1>1, Part, SMT
<1>3. b \in Seq(Byte) /\ Len(b) = n /\ \A k \in 1..n : b[k] = t[k]
  BY <1>1, Part, SMT
<1> HIDE DEF a, b
<1>4. Len(a) = Len(b) /\ \A k \in 1..Len(a) : a[k] = b[k]
  BY <1>2, <1>3, Zenon
<1>5. a = b
  BY <1>2, <1>3, <1>4, Same, Zenon
<1> QED
  BY <1>5, Zenon DEF a, b

(* An announcement is spelled as it came, up to the group id that says     *)
(* None.                                                                   *)
LEMMA SpelledIsFront ==
    ASSUME NEW buf \in Seq(Byte), Len(buf) >= 33
    PROVE  LET zeroed == [i \in DOMAIN buf |-> IF i \in 26..31 THEN 0 ELSE buf[i]]
               spelled == IF array(buf, 26, 6) = six(255) THEN zeroed ELSE buf
           IN  IsPrefix(Spelled(buf), spelled)
<1> DEFINE zeroed == [i \in DOMAIN buf |-> IF i \in 26..31 THEN 0 ELSE buf[i]]
<1>1. /\ Len(buf) \in Nat /\ 33 \in Nat /\ 33 <= Len(buf) /\ 26 + 6 - 1 = 31
      /\ 25 \in Nat /\ 31 \in Nat /\ 32 \in Nat /\ 25 + 1 = 26 /\ 31 + 1 = 32
      /\ 32 + 1 = 33 /\ 25 <= 31 /\ 31 <= 32 /\ 32 <= 33
      /\ 31 <= Len(buf) /\ 32 <= Len(buf) /\ 25 <= Len(buf)
  BY SMT
<1>2. ASSUME NEW t \in Seq(Byte), Len(t) = Len(buf)
      PROVE  SubSeq(t, 1, 25) \o SubSeq(t, 26, 31) \o SubSeq(t, 32, 32)
                 \o SubSeq(t, 33, 33) = SubSeq(t, 1, 33)
  <2>1. SubSeq(t, 1, 25) \o SubSeq(t, 25 + 1, 31) = SubSeq(t, 1, 31)
    BY <1>1, <1>2, Grown, Zenon
  <2>2. SubSeq(t, 1, 31) \o SubSeq(t, 31 + 1, 32) = SubSeq(t, 1, 32)
    BY <1>1, <1>2, Grown, Zenon
  <2>3. SubSeq(t, 1, 32) \o SubSeq(t, 32 + 1, 33) = SubSeq(t, 1, 33)
    BY <1>1, <1>2, Grown, Zenon
  <2> QED
    BY <1>1, <2>1, <2>2, <2>3, Zenon
<1>3. CASE array(buf, 26, 6) # six(255)
  <2>1. array(buf, 26, 6) = SubSeq(buf, 26, 31)
    BY <1>1, Zenon DEF array
  <2>2. Spelled(buf) = SubSeq(buf, 1, 33)
    BY <1>2, <1>3, <2>1, Zenon DEF Spelled
  <2>3. IsPrefix(Spelled(buf), buf)
    BY <1>1, <2>2, FrontIsPrefix, Zenon
  <2> QED
    BY <1>3, <2>3, Zenon
<1>4. CASE array(buf, 26, 6) = six(255)
  <2>1. zeroed \in Seq(Byte) /\ Len(zeroed) = Len(buf)
    <3> DEFINE n == Len(buf)
    <3>1. n \in Nat /\ DOMAIN buf = 1..n /\ 0 \in Byte
      BY SMT DEF Byte
    <3>2. \A i \in 1..n : buf[i] \in Byte
      BY ElementOfSeq, Zenon
    <3>3. zeroed = [i \in 1..n |-> IF i \in 26..31 THEN 0 ELSE buf[i]]
      BY <3>1, Zenon
    <3>4. zeroed \in [1..n -> Byte]
      BY <3>1, <3>2, <3>3, Zenon
    <3> HIDE DEF n, zeroed
    <3>5. zeroed \in Seq(Byte) /\ Len(zeroed) = n
      BY <3>1, <3>4
    <3> QED
      BY <3>5, Zenon DEF n
  <2>2. \A k \in 1..Len(buf) : zeroed[k] = IF k \in 26..31 THEN 0 ELSE buf[k]
    BY SMT
  <2> HIDE DEF zeroed
  <2>3. SubSeq(zeroed, 1, 25) = SubSeq(buf, 1, 25)
    <3>1. \A k \in 1..25 : zeroed[k] = buf[k]
      BY <1>1, <2>2, SMT
    <3>2. 25 <= Len(zeroed)
      BY <1>1, <2>1, Zenon
    <3> QED
      BY <1>1, <2>1, <3>1, <3>2, SameFront, Zenon
  <2>4. SubSeq(zeroed, 26, 31) = six(0)
    BY <1>1, <2>1, <2>2, SMT DEF six
  <2>5. SubSeq(zeroed, 32, 32) = SubSeq(buf, 32, 32)
    BY <1>1, <2>1, <2>2, SMT
  <2>6. SubSeq(zeroed, 33, 33) = SubSeq(buf, 33, 33)
    BY <1>1, <2>1, <2>2, SMT
  <2>7. Spelled(buf) = SubSeq(zeroed, 1, 33)
    BY <1>2, <1>4, <2>1, <2>3, <2>4, <2>5, <2>6, Zenon DEF Spelled
  <2>8. IsPrefix(Spelled(buf), zeroed)
    BY <1>1, <2>1, <2>7, FrontIsPrefix, Zenon
  <2> QED
    BY <1>4, <2>8, Zenon DEF zeroed
<1> QED
  BY <1>3, <1>4, Zenon

(* Payload::decode keeps every byte it understands, for bodies of every    *)
(* type, content and length.                                               *)
THEOREM BytesKept == Spec => []EveryByteKept
<1>1. ASSUME Counted
      PROVE  EveryByteKept
  <2> DEFINE payload == PayloadDecode(body, PayloadType(type))
             zeroed == [i \in DOMAIN body |-> IF i \in 26..31 THEN 0 ELSE body[i]]
             spelled == IF payload.value.kind = "VehicleAnnouncement"
                           /\ array(body, 26, 6) = six(255)
                        THEN zeroed ELSE body
  <2> SUFFICES ASSUME payload.is = "Ok"
               PROVE  IsPrefix(PayloadEncode(payload.value), spelled)
    BY Zenon DEF EveryByteKept
  <2>1. body \in Seq(Byte)
    BY <1>1, Zenon DEF Counted
  <2>2. PICK p \in Payloads :
            /\ payload = Ok(p)
            /\ \/ /\ p.kind # "VehicleAnnouncement"
                  /\ \E n \in 0..Len(body) : PayloadEncode(p) = SubSeq(body, 1, n)
               \/ /\ p.kind = "VehicleAnnouncement"
                  /\ Len(body) >= 33
                  /\ PayloadEncode(p) = Spelled(body)
    BY <2>1, PayloadRead, Zenon
  <2>3. payload.value = p
    <3> HIDE DEF payload
    <3> QED
      BY <2>2 DEF Ok
  <2>4. CASE p.kind # "VehicleAnnouncement"
    <3>1. PICK n \in 0..Len(body) : PayloadEncode(p) = SubSeq(body, 1, n)
      BY <2>2, <2>4, Zenon
    <3>2. n \in Nat /\ n <= Len(body)
      BY <2>1, SMT
    <3>3. IsPrefix(PayloadEncode(p), body)
      BY <2>1, <3>1, <3>2, FrontIsPrefix, Zenon
    <3> QED
      BY <2>3, <2>4, <3>3, Zenon
  <2>5. CASE p.kind = "VehicleAnnouncement"
    BY <2>1, <2>2, <2>3, <2>5, SpelledIsFront, Zenon
  <2> QED
    BY <2>4, <2>5, Zenon
<1> QED
  BY <1>1, BodyCounted, PTL

----------------------------------------------------------------------------
(* A decoded message is written and read again as it is.                   *)

(* What Payload::decode reads is a payload of the type that it was read    *)
(* for, no longer than the body.                                           *)
LEMMA PayloadFits ==
    ASSUME NEW buf \in Seq(Byte), NEW kind, PayloadDecode(buf, kind).is = "Ok"
    PROVE  \E p \in Payloads :
               /\ PayloadDecode(buf, kind) = Ok(p)
               /\ kind[1] \in TypesOf(p.kind)
               /\ Arrived(p) = p
               /\ PayloadEncodedSize(p) \in Nat
               /\ PayloadEncodedSize(p) <= Len(buf)
<1>1. PICK p \in Payloads :
          /\ PayloadDecode(buf, kind) = Ok(p)
          /\ kind[1] \in TypesOf(p.kind)
          /\ p.kind # "VehicleIdentificationResponse"
          /\ \/ /\ p.kind # "VehicleAnnouncement"
                /\ \E n \in 0..Len(buf) : PayloadEncode(p) = SubSeq(buf, 1, n)
             \/ /\ p.kind = "VehicleAnnouncement"
                /\ Len(buf) >= 33
                /\ PayloadEncode(p) = Spelled(buf)
  BY PayloadRead, Zenon
<1>2. Arrived(p) = p
  BY <1>1, Zenon DEF Arrived
<1>3. PayloadEncode(p) \in Seq(Byte) /\ Len(PayloadEncode(p)) = PayloadEncodedSize(p)
  BY <1>1, PayloadWritten, Zenon
<1>4. PayloadEncodedSize(p) \in Nat /\ PayloadEncodedSize(p) <= Len(buf)
  <2>1. CASE p.kind # "VehicleAnnouncement"
    <3>1. PICK n \in 0..Len(buf) : PayloadEncode(p) = SubSeq(buf, 1, n)
      BY <1>1, <2>1, Zenon
    <3>2. n \in Nat /\ n <= Len(buf) /\ Len(SubSeq(buf, 1, n)) = n
      <4>1. Len(buf) \in Nat /\ n \in Nat /\ n <= Len(buf) /\ 1 \in Nat \ {0}
        BY SMT
      <4> QED
        BY <4>1, Part, SMT
    <3> QED
      BY <1>3, <3>1, <3>2, Zenon
  <2>2. CASE p.kind = "VehicleAnnouncement"
    <3>1. PayloadEncodedSize(p) = 33
      BY <2>2 DEF PayloadEncodedSize, BodilessKinds
    <3>2. 33 \in Nat /\ 33 <= Len(buf)
      BY <1>1, <2>2, SMT
    <3> QED
      BY <3>1, <3>2, Zenon
  <2> QED
    BY <2>1, <2>2, Zenon
<1> QED
  BY <1>1, <1>2, <1>4, Zenon

(* Message::encode, for messages that differ only in the length their own  *)
(* header states.                                                          *)
LEMMA LengthIsDerived ==
    ASSUME NEW h \in Headers, NEW n, NEW p
    PROVE  MessageEncode([header |-> [h EXCEPT !.payload_length = n],
                          payload |-> p]) =
               MessageEncode([header |-> h, payload |-> p])
<1> DEFINE a == [header |-> [h EXCEPT !.payload_length = n], payload |-> p]
           b == [header |-> h, payload |-> p]
<1>1. /\ a.header.protocol_version = h.protocol_version
      /\ a.header.payload_type = h.payload_type
      /\ a.payload = p
  BY DEF Headers
<1>2. b.header = h /\ b.payload = p
  OBVIOUS
<1> HIDE DEF a, b
<1>3. MessageEncode(a) = MessageEncode(b)
  BY <1>1, <1>2, Zenon DEF MessageEncode
<1> QED
  BY <1>3, Zenon DEF a, b

(* A faithful message with a payload that fits is written, read and        *)
(* written again as it is, its header's length apart.                      *)
LEMMA MessageComesBack ==
    ASSUME NEW h \in Headers, version_inverse_correct(h), NEW p \in Payloads,
           h.payload_type[1] \in TypesOf(p.kind), Arrived(p) = p,
           PayloadEncodedSize(p) \in Nat, PayloadEncodedSize(p) <= U32Max
    PROVE  LET m == [header |-> h, payload |-> p]
               e == MessageEncode(m).value
               r == [header |-> [h EXCEPT !.payload_length = Len(e) - HeaderSize],
                     payload |-> p]
           IN  /\ MessageEncode(m).is = "Ok"
               /\ Len(e) = MessageEncodedSize(m)
               /\ MessageDecode(e) = Ok([message |-> r, rest |-> <<>>])
               /\ MessageEncode(r) = MessageEncode(m)
<1> DEFINE m == [header |-> h, payload |-> p]
           e == MessageEncode(m).value
           r == [header |-> [h EXCEPT !.payload_length = Len(e) - HeaderSize],
                 payload |-> p]
           size == PayloadEncodedSize(p)
<1>1. m.header = h /\ m.payload = p /\ m \in [header : Headers, payload : Payloads]
  OBVIOUS
<1> HIDE DEF m
<1>2. Faithful(m)
  BY <1>1, Zenon DEF Faithful
<1>3. MessageEncode(m).is = "Ok"
  <2>1. ~(size > U32Max)
    <3> HIDE DEF size
    <3>1. size \in Nat /\ size <= U32Max
      BY Zenon DEF size
    <3> QED
      BY <3>1, WireAssumption, SMT
  <2>2. \A v : Ok(v).is = "Ok"
    BY DEF Ok
  <2> QED
    BY <1>1, <2>1, <2>2, Zenon DEF MessageEncode
<1>4. /\ e \in Seq(Byte) /\ Len(e) = MessageEncodedSize(m)
      /\ try_frame(e) = Ok([header |-> Received(m).header, consumed |-> Len(e),
                            payload |-> PayloadEncode(m.payload)])
      /\ PayloadDecode(PayloadEncode(m.payload), Received(m).header.payload_type) =
             Ok(Received(m).payload)
  BY <1>2, <1>3, MessageWritten, Zenon
<1> HIDE DEF e
<1>5. MessageDecode(e) =
          Ok([message |-> [header |-> Received(m).header,
                           payload |-> Received(m).payload],
              rest |-> SubSeq(e, Len(e) + 1, Len(e))])
  BY <1>4, MessageOfFrame, Zenon
<1>6. SubSeq(e, Len(e) + 1, Len(e)) = <<>>
  BY <1>4, SMT
<1>7. Received(m) = [header |-> [h EXCEPT !.payload_length = size], payload |-> p]
  BY <1>1, Zenon DEF Received, Arrived
<1>8. Len(e) - HeaderSize = size
  <2>1. Len(e) = HeaderSize + size
    BY <1>1, <1>4, Zenon DEF MessageEncodedSize
  <2>2. size \in Nat /\ HeaderSize \in Nat
    BY DEF HeaderSize
  <2> HIDE DEF size
  <2> QED
    BY <2>1, <2>2, SMT
<1>9. Received(m) = r
  BY <1>7, <1>8, Zenon
<1>10. [header |-> Received(m).header, payload |-> Received(m).payload] = r
  <2>1. r.header = [h EXCEPT !.payload_length = Len(e) - HeaderSize] /\ r.payload = p
    OBVIOUS
  <2> QED
    BY <1>9, <2>1, Zenon
<1>11. MessageEncode(r) = MessageEncode(m)
  BY LengthIsDerived, Zenon DEF m
<1> QED
  BY <1>3, <1>4, <1>5, <1>6, <1>10, <1>11, Zenon DEF m, e

(* "if a frame decodes, re-encoding it and decoding that again must yield  *)
(* the same message", for frames of every type, content and length that a  *)
(* length field can count.                                                 *)
THEOREM ReencodingStable == Spec => []ReencodingIsStable
<1>1. ASSUME Counted
      PROVE  ReencodingIsStable
  <2> DEFINE buf == Frame \o Behind
             first == MessageDecode(buf)
             decoded == PayloadDecode(body, Stamp.payload_type)
             framed == try_frame(buf)
             inner == PayloadDecode(framed.value.payload,
                                    framed.value.header.payload_type)
  <2>1. /\ buf \in Seq(Byte)
        /\ framed = Ok([header |-> Stamp, consumed |-> Len(Frame), payload |-> body])
        /\ SubSeq(buf, Len(Frame) + 1, Len(buf)) = Behind
    BY <1>1, FrameTaken, Zenon
  <2>2. /\ Stamp \in Headers /\ version_inverse_correct(Stamp)
        /\ Stamp.payload_type = PayloadType(type)
    BY <1>1, FrameIsStamped, Zenon
  <2>3. framed.is = "Ok" /\ inner = decoded
    <3>1. /\ framed.is = "Ok" /\ framed.value.header = Stamp
          /\ framed.value.payload = body
      <4> HIDE DEF framed
      <4> QED
        BY <2>1 DEF Ok
    <3> QED
      BY <3>1, Zenon
  <2> SUFFICES ASSUME first.is = "Ok"
               PROVE  LET encoded == MessageEncode(first.value.message)
                          second == MessageDecode(encoded.value)
                      IN  /\ first.value.rest = Behind
                          /\ encoded.is = "Ok"
                          /\ Len(encoded.value) =
                                 MessageEncodedSize(first.value.message)
                          /\ second.is = "Ok"
                          /\ second.value.rest = <<>>
                          /\ second.value.message.payload =
                                 first.value.message.payload
                          /\ second.value.message.header =
                                 [first.value.message.header EXCEPT
                                      !.payload_length =
                                          Len(encoded.value) - HeaderSize]
                          /\ MessageEncode(second.value.message) = encoded
    BY Zenon DEF ReencodingIsStable
  <2>4. decoded.is = "Ok"
    <3>1. inner.is # "Ok" => first = inner
      BY <2>1, <2>3, Agreement, Zenon
    <3> QED
      BY <2>3, <3>1, Zenon
  <2>5. body \in Seq(Byte) /\ Len(body) <= U32Max
    BY <1>1, Zenon DEF Counted
  <2>6. PICK p \in Payloads :
            /\ decoded = Ok(p)
            /\ Stamp.payload_type[1] \in TypesOf(p.kind)
            /\ Arrived(p) = p
            /\ PayloadEncodedSize(p) \in Nat
            /\ PayloadEncodedSize(p) <= Len(body)
    BY <2>4, <2>5, PayloadFits, Zenon
  <2>7. PayloadEncodedSize(p) <= U32Max
    <3> DEFINE size == PayloadEncodedSize(p)
    <3> HIDE DEF size
    <3>1. size \in Nat /\ size <= Len(body)
      BY <2>6, Zenon DEF size
    <3>2. size <= U32Max
      BY <2>5, <3>1, WireAssumption, SMT
    <3> QED
      BY <3>2, Zenon DEF size
  <2> DEFINE m == [header |-> Stamp, payload |-> p]
             encoded == MessageEncode(m)
             e == encoded.value
             second == MessageDecode(e)
             r == [header |-> [Stamp EXCEPT !.payload_length = Len(e) - HeaderSize],
                   payload |-> p]
  <2>8. first = Ok([message |-> m, rest |-> Behind])
    BY <2>1, <2>6, MessageOfFrame, Zenon
  <2>9. first.value.message = m /\ first.value.rest = Behind
    <3> HIDE DEF first, m
    <3> QED
      BY <2>8 DEF Ok
  <2>10. /\ encoded.is = "Ok"
         /\ Len(e) = MessageEncodedSize(m)
         /\ second = Ok([message |-> r, rest |-> <<>>])
         /\ MessageEncode(r) = encoded
    BY <2>2, <2>6, <2>7, MessageComesBack, Zenon
  <2>11. second.is = "Ok" /\ second.value.message = r /\ second.value.rest = <<>>
    <3> HIDE DEF second, r
    <3> QED
      BY <2>10 DEF Ok
  <2>12. /\ m.header = Stamp /\ m.payload = p /\ r.payload = p
         /\ r.header = [Stamp EXCEPT !.payload_length = Len(e) - HeaderSize]
    <3> HIDE DEF e
    <3> QED
      OBVIOUS
  <2> HIDE DEF first, m, r
  <2>13. /\ second.value.message.payload = m.payload
         /\ second.value.message.header =
                [m.header EXCEPT !.payload_length = Len(e) - HeaderSize]
    BY <2>11, <2>12, Zenon
  <2> QED
    BY <2>9, <2>10, <2>11, <2>13, Zenon
<1> QED
  BY <1>1, BodyCounted, PTL

=============================================================================
