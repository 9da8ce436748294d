----------------------------- MODULE WireProofs -----------------------------
(***************************************************************************)
(* Facts about headers, frames and messages of every value and length: a   *)
(* header and a message come back as they were written, a frame is taken   *)
(* off the front of a buffer whatever is behind it and not before all of   *)
(* it is there, and the two ways in which the code takes a message off a   *)
(* buffer agree.                                                           *)
(***************************************************************************)
EXTENDS WirePayloadProofs

----------------------------------------------------------------------------

(* Two bytes read where they were written.                                 *)
LEMMA PairAt ==
    ASSUME NEW buf \in Seq(Byte), NEW i \in 1..(Len(buf) - 1), NEW a, NEW b,
           SubSeq(buf, i, i + 1) = <<a, b>>
    PROVE  buf[i] = a /\ buf[i + 1] = b
<1>1. <<buf[i], buf[i + 1]>> = SubSeq(buf, i, i + 1)
  BY TwoBytes, Zenon
<1>2. <<buf[i], buf[i + 1]>> = <<a, b>>
  BY <1>1, Zenon
<1>3. /\ <<buf[i], buf[i + 1]>>[1] = <<a, b>>[1]
      /\ <<buf[i], buf[i + 1]>>[2] = <<a, b>>[2]
  BY <1>2, Zenon
<1> QED
  BY <1>3, SMT

(* The order in which parts are joined does not matter.                    *)
LEMMA Joined ==
    ASSUME NEW a \in Seq(Byte), NEW b \in Seq(Byte), NEW c \in Seq(Byte)
    PROVE  /\ b \o c \in Seq(Byte) /\ Len(b \o c) = Len(b) + Len(c)
           /\ a \o (b \o c) = a \o b \o c
<1>1. b \o c \in Seq(Byte) /\ Len(b \o c) = Len(b) + Len(c)
  BY SMT
<1>2. a \o (b \o c) = a \o b \o c
  BY SMT
<1> QED
  BY <1>1, <1>2, Zenon

(* write_u32_be: the two words of a length that a u32 holds.               *)
LEMMA LengthWritten ==
    ASSUME NEW n \in Nat, n <= U32Max
    PROVE  /\ n \div U16Size \in U16 /\ n % U16Size \in U16
           /\ U16Size * (n \div U16Size) + (n % U16Size) = n
<1>1. U32Max \in Nat /\ U32Max \div U16Size \in U16
  BY WireAssumption
<1>2. U32Max \div U16Size \in Nat /\ U32Max \div U16Size < U16Size
  BY <1>1, InU16, Zenon
<1>3. /\ n \div U16Size \in Nat /\ n \div U16Size < U16Size
      /\ n % U16Size \in Nat /\ n % U16Size < U16Size
      /\ U16Size * (n \div U16Size) + (n % U16Size) = n
  BY <1>1, <1>2, SMT DEF U16Size
<1> QED
  BY <1>3, InU16, Zenon

(* read_u32_be: any four bytes are a length.                               *)
LEMMA LengthRead ==
    ASSUME NEW buf \in Seq(Byte), NEW i \in 1..(Len(buf) - 3)
    PROVE  u32(buf, i) \in Nat
<1> DEFINE a == u16(buf, i)
           b == u16(buf, i + 2)
<1>1. i \in 1..(Len(buf) - 1) /\ i + 2 \in 1..(Len(buf) - 1)
  BY SMT
<1>2. a \in U16 /\ b \in U16
  BY <1>1, WordBack, Zenon
<1>3. u32(buf, i) = U16Size * a + b
  BY Zenon DEF u32
<1> HIDE DEF a, b
<1>4. a \in Nat /\ b \in Nat
  BY <1>2, InU16, Zenon
<1>5. U16Size * a + b \in Nat
  BY <1>4, SMT DEF U16Size
<1> QED
  BY <1>3, <1>5, Zenon

(* A header that a u32 can state the length of: its eight bytes decode to  *)
(* it.                                                                     *)
LEMMA HeaderWritten ==
    ASSUME NEW h \in Headers, version_inverse_correct(h),
           h.payload_length <= U32Max
    PROVE  /\ HeaderEncode(h) \in Seq(Byte)
           /\ Len(HeaderEncode(h)) = HeaderSize
           /\ HeaderDecode(HeaderEncode(h)) = Ok(h)
<1> DEFINE version == h.protocol_version
           inverted == h.inverse_protocol_version
           type == h.payload_type
           n == h.payload_length
           v == byte_of(VersionInto, version)
           t == byte_of(PayloadTypeInto, type)
           high == n \div U16Size
           low == n % U16Size
           a == <<v, inverted>>
           b == be16(t)
           c == be16(high)
           d == be16(low)
           e == a \o b \o c \o d
<1>1. h = [protocol_version |-> version, inverse_protocol_version |-> inverted,
           payload_type |-> type, payload_length |-> n]
  BY DEF Headers
<1>2. /\ version \in {ProtocolVersion(m) : m \in Byte} /\ inverted \in Byte
      /\ type \in {PayloadType(m) : m \in U16} /\ n \in Nat /\ n <= U32Max
  BY DEF Headers
<1>3. HeaderEncode(h) = a \o b \o (c \o d)
  BY Zenon DEF HeaderEncode, be32
<1> HIDE DEF version, inverted, type, n
<1>4. v \in Byte /\ ProtocolVersion(v) = version
  BY <1>2, VersionKept, Zenon
<1>5. t \in U16 /\ PayloadType(t) = type
  BY <1>2, PayloadTypeKept, Zenon
<1>6. high \in U16 /\ low \in U16 /\ U16Size * high + low = n
  BY <1>2, LengthWritten, Zenon
<1> HIDE DEF v, t, high, low
<1>7. a \in Seq(Byte) /\ Len(a) = 2
  BY <1>2, <1>4, SMT
<1>8. /\ b \in Seq(Byte) /\ Len(b) = 2 /\ c \in Seq(Byte) /\ Len(c) = 2
      /\ d \in Seq(Byte) /\ Len(d) = 2
  BY <1>5, <1>6, WordIsBuffer, Zenon
<1>9. a = <<v, inverted>> /\ b = be16(t) /\ c = be16(high) /\ d = be16(low)
  OBVIOUS
<1> HIDE DEF a, b, c, d
<1>10. a \in Seq(Byte) /\ b \in Seq(Byte) /\ c \in Seq(Byte) /\ d \in Seq(Byte)
  BY <1>7, <1>8, Zenon
<1>11. HeaderEncode(h) = e
  <2> DEFINE ab == a \o b
  <2>1. ab \in Seq(Byte)
    BY <1>10, SMT
  <2> HIDE DEF ab
  <2>2. ab \o (c \o d) = ab \o c \o d
    BY <1>10, <2>1, SMT
  <2> QED
    BY <1>3, <2>2, Zenon DEF ab
<1>12. FourParts(a, b, c, d)
  BY <1>10, FourPartsWritten, Zenon
<1>13. LET i == Len(a)
           j == i + Len(b)
           k == j + Len(c)
       IN  /\ e \in Seq(Byte) /\ Len(e) = k + Len(d)
           /\ SubSeq(e, 1, i) = a
           /\ SubSeq(e, i + 1, j) = b
           /\ SubSeq(e, j + 1, k) = c
           /\ SubSeq(e, k + 1, k + Len(d)) = d
  BY <1>12, Zenon DEF FourParts
<1> HIDE DEF e
<1>14. /\ e \in Seq(Byte) /\ Len(e) = 8
       /\ SubSeq(e, 1, 1 + 1) = a /\ SubSeq(e, 3, 3 + 1) = b
       /\ SubSeq(e, 5, 5 + 1) = c /\ SubSeq(e, 7, 7 + 1) = d
  BY <1>7, <1>8, <1>13, SMT
<1>15. /\ 1 \in 1..(Len(e) - 1) /\ 3 \in 1..(Len(e) - 1)
       /\ 5 \in 1..(Len(e) - 1) /\ 7 \in 1..(Len(e) - 1)
       /\ 1 + 1 = 2 /\ 5 + 2 = 7 /\ HeaderSize = 8 /\ ~(8 < 8)
  BY <1>14, SMT DEF HeaderSize
<1>16. e[1] = v /\ e[2] = inverted
  <2>1. SubSeq(e, 1, 1 + 1) = <<v, inverted>>
    BY <1>9, <1>14, Zenon
  <2>2. e[1] = v /\ e[1 + 1] = inverted
    <3>1. e \in Seq(Byte) /\ 1 \in 1..(Len(e) - 1)
      BY <1>14, <1>15, Zenon
    <3>2. <<e[1], e[1 + 1]>> = SubSeq(e, 1, 1 + 1)
      BY <3>1, TwoBytes, Zenon
    <3> DEFINE x == e[1]
               y == e[1 + 1]
    <3>3. <<x, y>> = <<v, inverted>>
      BY <2>1, <3>2, Zenon
    <3> HIDE DEF x, y
    <3>4. x = v /\ y = inverted
      BY <3>3, SMT
    <3> QED
      BY <3>4, Zenon DEF x, y
  <2> QED
    BY <2>2, SMT
<1>17. u16(e, 3) = t
  BY <1>5, <1>9, <1>14, <1>15, WordAt, Zenon
<1>18. u16(e, 5) = high
  BY <1>6, <1>9, <1>14, <1>15, WordAt, Zenon
<1>19. u16(e, 7) = low
  BY <1>6, <1>9, <1>14, <1>15, WordAt, Zenon
<1>20. u32(e, 5) = n
  BY <1>6, <1>15, <1>18, <1>19, Zenon DEF u32
<1>21. HeaderDecode(e) = Ok(h)
  <2> DEFINE header == [protocol_version |-> ProtocolVersion(e[1]),
                        inverse_protocol_version |-> e[2],
                        payload_type |-> PayloadType(u16(e, 3)),
                        payload_length |-> u32(e, 5)]
  <2>1. header = h
    BY <1>1, <1>4, <1>5, <1>16, <1>17, <1>20, Zenon
  <2>2. ~(Len(e) < HeaderSize)
    BY <1>14, <1>15, Zenon
  <2>3. HeaderDecode(e) = IF version_inverse_correct(header) THEN Ok(header)
                          ELSE Err("VersionInverseIncorrect")
    BY <2>2, Zenon DEF HeaderDecode
  <2> QED
    BY <2>1, <2>3, Zenon
<1> QED
  BY <1>11, <1>14, <1>15, <1>21, Zenon

(* What Header::decode accepts is a header with the right inverse version. *)
LEMMA HeaderRead ==
    ASSUME NEW buf \in Seq(Byte), HeaderDecode(buf).is = "Ok"
    PROVE  /\ Len(buf) >= HeaderSize
           /\ HeaderDecode(buf).value \in Headers
           /\ version_inverse_correct(HeaderDecode(buf).value)
<1> DEFINE header == [protocol_version |-> ProtocolVersion(buf[1]),
                      inverse_protocol_version |-> buf[2],
                      payload_type |-> PayloadType(u16(buf, 3)),
                      payload_length |-> u32(buf, 5)]
<1>1. HeaderDecode(buf) =
          IF Len(buf) < HeaderSize THEN Err("Incomplete")
          ELSE IF version_inverse_correct(header) THEN Ok(header)
          ELSE Err("VersionInverseIncorrect")
  BY Zenon DEF HeaderDecode
<1>2. Err("Incomplete").is # "Ok" /\ Err("VersionInverseIncorrect").is # "Ok"
  BY DEF Err
<1>3. /\ ~(Len(buf) < HeaderSize) /\ version_inverse_correct(header)
      /\ HeaderDecode(buf) = Ok(header)
  BY <1>1, <1>2, Zenon
<1>4. Ok(header).value = header
  BY DEF Ok
<1>5. /\ Len(buf) >= HeaderSize /\ 1 \in 1..Len(buf) /\ 2 \in 1..Len(buf)
      /\ 3 \in 1..(Len(buf) - 1) /\ 5 \in 1..(Len(buf) - 3)
  BY <1>3, SMT DEF HeaderSize
<1>6. buf[1] \in Byte /\ buf[2] \in Byte
  BY <1>5, OneByte, Zenon
<1>7. u16(buf, 3) \in U16
  BY <1>5, WordBack, Zenon
<1>8. u32(buf, 5) \in Nat
  BY <1>5, LengthRead, Zenon
<1>9. header \in Headers
  <2> DEFINE version == ProtocolVersion(buf[1])
             inverted == buf[2]
             type == PayloadType(u16(buf, 3))
             n == u32(buf, 5)
  <2>1. /\ version \in {ProtocolVersion(m) : m \in Byte} /\ inverted \in Byte
        /\ type \in {PayloadType(m) : m \in U16} /\ n \in Nat
    BY <1>6, <1>7, <1>8, Zenon
  <2> HIDE DEF version, inverted, type, n
  <2>2. [protocol_version |-> version, inverse_protocol_version |-> inverted,
         payload_type |-> type, payload_length |-> n] \in Headers
    BY <2>1 DEF Headers
  <2> QED
    BY <2>2, Zenon DEF version, inverted, type, n
<1> QED
  BY <1>3, <1>4, <1>5, <1>9, Zenon

(* Header::decode reads no byte beyond the header.                         *)
LEMMA HeaderIsLocal ==
    ASSUME NEW s \in Seq(Byte), NEW buf \in Seq(Byte),
           Len(s) >= HeaderSize, Len(buf) >= HeaderSize,
           \A k \in 1..HeaderSize : s[k] = buf[k]
    PROVE  HeaderDecode(s) = HeaderDecode(buf)
<1>1. HeaderSize = 8 /\ Len(s) \in Nat /\ Len(buf) \in Nat
  BY SMT DEF HeaderSize
<1>2. /\ s[1] = buf[1] /\ s[2] = buf[2] /\ s[3] = buf[3] /\ s[4] = buf[4]
      /\ s[5] = buf[5] /\ s[6] = buf[6] /\ s[7] = buf[7] /\ s[8] = buf[8]
  BY <1>1, SMT
<1>3. /\ 3 + 1 = 4 /\ 5 + 1 = 6 /\ 5 + 2 = 7 /\ 7 + 1 = 8
      /\ ~(Len(s) < HeaderSize) /\ ~(Len(buf) < HeaderSize)
  BY <1>1, SMT
<1>4. /\ u16(s, 3) = u16(buf, 3) /\ u16(s, 5) = u16(buf, 5)
      /\ u16(s, 7) = u16(buf, 7)
  BY <1>2, <1>3, SMT DEF u16
<1>5. u32(s, 5) = u32(buf, 5)
  BY <1>3, <1>4, Zenon DEF u32
<1> QED
  BY <1>2, <1>3, <1>4, <1>5, Zenon DEF HeaderDecode

(* try_frame on a buffer that holds a header, by what the header says.     *)
FrameOf(buf, header) ==
    IF header.is # "Ok" THEN header
    ELSE IF Len(buf) - HeaderSize < header.value.payload_length THEN Err("None")
    ELSE Ok([header |-> header.value,
             consumed |-> HeaderSize + header.value.payload_length,
             payload |-> SubSeq(buf, HeaderSize + 1,
                                HeaderSize + header.value.payload_length)])

(* try_frame decodes the first eight bytes, and they alone are the header. *)
LEMMA FrameIs ==
    ASSUME NEW buf \in Seq(Byte), Len(buf) >= HeaderSize
    PROVE  try_frame(buf) = FrameOf(buf, HeaderDecode(buf))
<1> DEFINE front == array(buf, 1, HeaderSize)
<1>1. /\ HeaderSize = 8 /\ Len(buf) \in Nat /\ 1 \in Nat \ {0} /\ 8 \in Nat
      /\ 1 + 8 - 1 = 8 /\ 8 <= Len(buf) /\ ~(Len(buf) < HeaderSize)
  BY SMT DEF HeaderSize
<1>2. front = SubSeq(buf, 1, 8)
  BY <1>1, Zenon DEF array
<1> HIDE DEF front
<1>3. /\ front \in Seq(Byte) /\ Len(front) = 8
      /\ \A k \in 1..8 : front[k] = buf[k]
  BY <1>1, <1>2, Part, SMT
<1>4. Len(front) >= HeaderSize /\ \A k \in 1..HeaderSize : front[k] = buf[k]
  BY <1>1, <1>3, SMT
<1>5. HeaderDecode(front) = HeaderDecode(buf)
  BY <1>3, <1>4, HeaderIsLocal, Zenon
<1> QED
  BY <1>1, <1>5, Zenon DEF try_frame, FrameOf, front

(* What a header reads as, and the length it states.                       *)
LEMMA HeaderVerdicts ==
    ASSUME NEW buf \in Seq(Byte), Len(buf) >= HeaderSize
    PROVE  \/ HeaderDecode(buf) = Err("VersionInverseIncorrect")
           \/ /\ HeaderDecode(buf).is = "Ok"
              /\ HeaderDecode(buf).value.payload_length \in Nat
<1>1. ~(Len(buf) < HeaderSize)
  BY SMT DEF HeaderSize
<1>2. CASE HeaderDecode(buf).is = "Ok"
  <2> DEFINE header == HeaderDecode(buf).value
  <2>1. header \in Headers
    BY <1>2, HeaderRead, Zenon
  <2> HIDE DEF header
  <2>2. header.payload_length \in Nat
    BY <2>1 DEF Headers
  <2> QED
    BY <1>2, <2>2, Zenon DEF header
<1>3. CASE HeaderDecode(buf).is # "Ok"
  <2>1. \A v : Ok(v).is = "Ok"
    BY DEF Ok
  <2> QED
    BY <1>1, <1>3, <2>1, Zenon DEF HeaderDecode
<1> QED
  BY <1>2, <1>3, Zenon

(* More bytes behind what try_frame has a verdict on do not change it.     *)
LEMMA FrameIsLocal ==
    ASSUME NEW s \in Seq(Byte), NEW t \in Seq(Byte), try_frame(s).is # "None"
    PROVE  try_frame(s \o t) = try_frame(s)
<1> DEFINE buf == s \o t
           header == HeaderDecode(s)
           n == header.value.payload_length
<1>1. /\ buf \in Seq(Byte) /\ Len(buf) = Len(s) + Len(t)
      /\ \A k \in 1..Len(s) : buf[k] = s[k]
  BY Cat, Zenon
<1>2. \A i \in Nat \ {0}, j \in Nat :
          j <= Len(s) => SubSeq(buf, i, j) = SubSeq(s, i, j)
  BY Kept, Zenon
<1>3. /\ HeaderSize \in Nat /\ HeaderSize + 1 \in Nat \ {0}
      /\ Len(s) \in Nat /\ Len(t) \in Nat
  BY SMT DEF HeaderSize
<1>4. Err("None").is = "None"
  BY DEF Err
<1>5. ~(Len(s) < HeaderSize)
  BY <1>4, Zenon DEF try_frame
<1> HIDE DEF buf
<1>6. Len(s) >= HeaderSize /\ Len(buf) >= HeaderSize
  BY <1>1, <1>3, <1>5, SMT
<1>7. \A k \in 1..HeaderSize : s[k] = buf[k]
  BY <1>1, <1>3, <1>6, SMT
<1>8. HeaderDecode(buf) = header
  BY <1>1, <1>6, <1>7, HeaderIsLocal, Zenon
<1>9. try_frame(s) = FrameOf(s, header)
  BY <1>6, FrameIs, Zenon
<1>10. try_frame(buf) = FrameOf(buf, header)
  BY <1>1, <1>6, <1>8, FrameIs, Zenon
<1>11. CASE header.is # "Ok"
  BY <1>9, <1>10, <1>11, Zenon DEF FrameOf, buf
<1>12. CASE header.is = "Ok"
  <2>1. n \in Nat
    <3>1. Err("VersionInverseIncorrect").is # "Ok"
      BY DEF Err
    <3> QED
      BY <1>6, <1>12, <3>1, HeaderVerdicts, Zenon
  <2>2. ~(Len(s) - HeaderSize < n)
    BY <1>4, <1>9, <1>12, Zenon DEF FrameOf
  <2> HIDE DEF n
  <2>3. ~(Len(buf) - HeaderSize < n)
        /\ HeaderSize + n \in Nat /\ HeaderSize + n <= Len(s)
    BY <1>1, <1>3, <2>1, <2>2, SMT
  <2>4. SubSeq(buf, HeaderSize + 1, HeaderSize + n) =
            SubSeq(s, HeaderSize + 1, HeaderSize + n)
    BY <1>2, <1>3, <2>3, Zenon
  <2>5. FrameOf(buf, header) = FrameOf(s, header)
    BY <1>12, <2>2, <2>3, <2>4, Zenon DEF FrameOf, n
  <2> QED
    BY <1>9, <1>10, <2>5, Zenon DEF buf
<1> QED
  BY <1>11, <1>12, Zenon

(* try_frame has no verdict on less than the frame it takes.               *)
LEMMA FrameIsWhole ==
    ASSUME NEW buf \in Seq(Byte), NEW i \in Nat, i < Len(buf),
           \/ /\ try_frame(buf).is = "Ok"
              /\ try_frame(buf).value.consumed = Len(buf)
           \/ Len(buf) = HeaderSize
    PROVE  try_frame(SubSeq(buf, 1, i)) = Err("None")
<1> DEFINE s == SubSeq(buf, 1, i)
           header == HeaderDecode(buf)
           n == header.value.payload_length
<1>1. Len(buf) \in Nat /\ 1 \in Nat \ {0} /\ i <= Len(buf) /\ HeaderSize = 8
  BY SMT DEF HeaderSize
<1>2. s \in Seq(Byte) /\ Len(s) = i /\ \A k \in 1..i : s[k] = buf[k]
  BY <1>1, Part, SMT
<1> HIDE DEF s
<1>3. CASE Len(s) < HeaderSize
  BY <1>3, Zenon DEF try_frame, s
<1>4. CASE ~(Len(s) < HeaderSize)
  <2>1. Len(s) >= HeaderSize /\ Len(buf) >= HeaderSize /\ Len(buf) # HeaderSize
    BY <1>1, <1>2, <1>4, SMT
  <2>2. \A k \in 1..HeaderSize : s[k] = buf[k]
    BY <1>1, <1>2, <2>1, SMT
  <2>3. HeaderDecode(s) = header
    BY <1>2, <2>1, <2>2, HeaderIsLocal, Zenon
  <2>4. try_frame(s) = FrameOf(s, header) /\ try_frame(buf) = FrameOf(buf, header)
    BY <1>2, <2>1, <2>3, FrameIs, Zenon
  <2>5. FrameOf(buf, header).is = "Ok" /\ FrameOf(buf, header).value.consumed = Len(buf)
    BY <2>1, <2>4, Zenon
  <2>6. header.is = "Ok"
    BY <2>5, Zenon DEF FrameOf
  <2>7. n \in Nat
    <3>1. Err("VersionInverseIncorrect").is # "Ok"
      BY DEF Err
    <3> QED
      BY <2>1, <2>6, <3>1, HeaderVerdicts, Zenon
  <2>8. Err("None").is # "Ok" /\ \A v : Ok(v).value = v
    BY DEF Err, Ok
  <2>9. FrameOf(buf, header).value.consumed = HeaderSize + n
    <3>1. FrameOf(buf, header) =
              Ok([header |-> header.value, consumed |-> HeaderSize + n,
                  payload |-> SubSeq(buf, HeaderSize + 1, HeaderSize + n)])
      BY <2>5, <2>6, <2>8, Zenon DEF FrameOf
    <3> HIDE DEF header, n
    <3> QED
      BY <3>1 DEF Ok
  <2> HIDE DEF n
  <2>10. Len(s) - HeaderSize < n
    <3>1. HeaderSize + n = Len(buf)
      BY <2>5, <2>9, Zenon
    <3> QED
      BY <1>1, <1>2, <2>7, <3>1, SMT
  <2> QED
    BY <2>4, <2>6, <2>10, Zenon DEF FrameOf, n, s
<1> QED
  BY <1>3, <1>4, Zenon

(* The bytes behind the first n.                                           *)
LEMMA PartBehind ==
    ASSUME NEW s \in Seq(Byte), NEW n \in Nat, n <= Len(s)
    PROVE  /\ SubSeq(s, n + 1, Len(s)) \in Seq(Byte)
           /\ Len(SubSeq(s, n + 1, Len(s))) = Len(s) - n
           /\ \A k \in 1..Len(SubSeq(s, n + 1, Len(s))) :
                  SubSeq(s, n + 1, Len(s))[k] = s[n + k]
<1>1. SubSeq(s, n + 1, Len(s)) \in Seq(Byte)
  OBVIOUS
<1>2. Len(SubSeq(s, n + 1, Len(s))) = Len(s) - n
  OBVIOUS
<1>3. ASSUME NEW k \in 1..(Len(s) - n)
      PROVE  SubSeq(s, n + 1, Len(s))[k] = s[n + k]
  OBVIOUS
<1> QED
  BY <1>1, <1>2, <1>3, Zenon

(* The payload and what is behind it, cut off the buffer or off the rest   *)
(* behind the header.                                                      *)
LEMMA SameCut ==
    ASSUME NEW buf \in Seq(Byte), NEW h \in Nat, NEW n \in Nat, h + n <= Len(buf)
    PROVE  LET rest == SubSeq(buf, h + 1, Len(buf))
           IN  /\ Len(rest) = Len(buf) - h
               /\ SubSeq(rest, 1, n) = SubSeq(buf, h + 1, h + n)
               /\ SubSeq(rest, n + 1, Len(rest)) = SubSeq(buf, h + n + 1, Len(buf))
<1> DEFINE rest == SubSeq(buf, h + 1, Len(buf))
           payload == SubSeq(buf, h + 1, h + n)
           behind == SubSeq(buf, h + n + 1, Len(buf))
<1>1. /\ rest \in Seq(Byte) /\ Len(rest) = Len(buf) - h
      /\ \A k \in 1..Len(rest) : rest[k] = buf[h + k]
  <2>1. h <= Len(buf)
    OBVIOUS
  <2> QED
    BY <2>1, PartBehind, Zenon
<1>2. /\ payload \in Seq(Byte) /\ Len(payload) = n
      /\ \A k \in 1..Len(payload) : payload[k] = buf[h + k]
  BY Part
<1>3. /\ behind \in Seq(Byte) /\ Len(behind) = Len(buf) - h - n
      /\ \A k \in 1..Len(behind) : behind[k] = buf[h + n + k]
  <2>1. h + n \in Nat /\ Len(buf) - h - n = Len(buf) - (h + n)
    OBVIOUS
  <2> QED
    BY <2>1, PartBehind, Zenon
<1>4. Len(buf) \in Nat
  OBVIOUS
<1> HIDE DEF rest, payload, behind
<1>5. SubSeq(rest, 1, n) = payload
  <2> DEFINE p == SubSeq(rest, 1, n)
  <2>1. /\ p \in Seq(Byte) /\ Len(p) = n
        /\ \A k \in 1..n : p[k] = rest[k]
    BY <1>1, <1>4, Part
  <2> HIDE DEF p
  <2>2. ASSUME NEW k \in 1..Len(p)
        PROVE  p[k] = payload[k]
    <3>1. k \in 1..n /\ k \in 1..Len(payload) /\ k \in 1..Len(rest)
      BY <1>1, <1>2, <1>4, <2>1
    <3> QED
      BY <1>1, <1>2, <2>1, <3>1, Zenon
  <2>3. p = payload
    BY <1>2, <2>1, <2>2, Same
  <2> QED
    BY <2>3 DEF p
<1>6. SubSeq(rest, n + 1, Len(rest)) = behind
  <2> DEFINE r == SubSeq(rest, n + 1, Len(rest))
  <2>1. /\ r \in Seq(Byte) /\ Len(r) = Len(buf) - h - n
        /\ \A k \in 1..Len(r) : r[k] = rest[n + k]
    <3>1. /\ n <= Len(rest) /\ rest \in Seq(Byte)
          /\ Len(rest) - n = Len(buf) - h - n
      BY <1>1, <1>4, SMT
    <3> QED
      BY <3>1, PartBehind, Zenon
  <2> HIDE DEF r
  <2>2. ASSUME NEW k \in 1..Len(r)
        PROVE  r[k] = behind[k]
    <3>1. /\ k \in 1..Len(behind) /\ n + k \in 1..Len(rest)
          /\ h + (n + k) = h + n + k
      BY <1>1, <1>3, <1>4, <2>1
    <3> QED
      BY <1>1, <1>3, <2>1, <3>1, Zenon
  <2>3. r = behind
    BY <1>3, <2>1, <2>2, Same
  <2> QED
    BY <2>3, Zenon DEF r
<1> QED
  BY <1>1, <1>5, <1>6, Zenon DEF rest, payload, behind

(* On any buffer: try_frame followed by Payload::decode, and               *)
(* Message::decode, give the same verdict.                                 *)
LEMMA Agreement ==
    ASSUME NEW buf \in Seq(Byte)
    PROVE  LET frame == try_frame(buf)
               payload == PayloadDecode(frame.value.payload,
                                        frame.value.header.payload_type)
               message == MessageDecode(buf)
           IN  CASE frame.is = "None" -> message.is = "Incomplete"
                 [] frame.is \notin {"None", "Ok"} -> message = frame
                 [] frame.is = "Ok" /\ payload.is # "Ok" -> message = payload
                 [] frame.is = "Ok" /\ payload.is = "Ok" ->
                        message = Ok([message |-> [header |-> frame.value.header,
                                                   payload |-> payload.value],
                                      rest |-> SubSeq(buf,
                                                      frame.value.consumed + 1,
                                                      Len(buf))])
<1> DEFINE frame == try_frame(buf)
           payload == PayloadDecode(frame.value.payload,
                                    frame.value.header.payload_type)
           message == MessageDecode(buf)
           header == HeaderDecode(buf)
           length == header.value.payload_length
           rest == SubSeq(buf, HeaderSize + 1, Len(buf))
           inner == PayloadDecode(SubSeq(rest, 1, length),
                                  header.value.payload_type)
<1>1. Len(buf) \in Nat /\ HeaderSize = 8
  BY DEF HeaderSize
<1>2. message =
          CASE header.is # "Ok" -> header
            [] header.is = "Ok" /\ Len(rest) < length -> Err("Incomplete")
            [] header.is = "Ok" /\ Len(rest) >= length ->
                   IF inner.is # "Ok" THEN inner
                   ELSE Ok([message |-> [header |-> header.value,
                                         payload |-> inner.value],
                            rest |-> SubSeq(rest, length + 1, Len(rest))])
  BY Zenon DEF MessageDecode
<1>3. CASE Len(buf) < HeaderSize
  <2>1. frame = Err("None") /\ header = Err("Incomplete")
    BY <1>3, Zenon DEF try_frame, HeaderDecode
  <2> HIDE DEF frame, payload, message, header, rest, inner
  <2>2. frame.is = "None" /\ message = header
    BY <1>2, <2>1 DEF Err
  <2> QED
    BY <2>1, <2>2 DEF Err, frame, payload, message
<1>4. CASE ~(Len(buf) < HeaderSize)
  <2>1. Len(buf) >= HeaderSize
    BY <1>1, <1>4, SMT
  <2>2. frame = FrameOf(buf, header)
    BY <2>1, FrameIs, Zenon
  <2>3. CASE header.is # "Ok"
    <3>1. header.is = "VersionInverseIncorrect"
      <4>1. header = Err("VersionInverseIncorrect")
        BY <2>1, <2>3, HeaderVerdicts, Zenon
      <4> QED
        BY <4>1 DEF Err
    <3> HIDE DEF frame, payload, message, header, rest, inner
    <3>2. frame = header /\ message = header
      BY <1>2, <2>2, <2>3 DEF FrameOf
    <3> QED
      BY <3>1, <3>2, Zenon DEF frame, payload, message
  <2>4. CASE header.is = "Ok" /\ Len(buf) - HeaderSize < length
    <3>1. Len(rest) = Len(buf) - HeaderSize
      <4>1. HeaderSize \in Nat /\ 0 \in Nat /\ HeaderSize + 0 <= Len(buf)
        BY <1>1, <1>4
      <4> QED
        BY <4>1, SameCut, Zenon
    <3>2. length \in Nat
      <4>1. Err("VersionInverseIncorrect").is # "Ok"
        BY DEF Err
      <4> QED
        BY <2>1, <2>4, <4>1, HeaderVerdicts, Zenon
    <3> HIDE DEF frame, payload, message, header, rest, inner
    <3>3. frame = Err("None")
      BY <2>2, <2>4, Zenon DEF FrameOf
    <3>4. Len(rest) < length /\ ~(Len(rest) >= length)
      <4> HIDE DEF length
      <4> QED
        BY <1>1, <2>4, <3>1, <3>2
    <3>5. message = Err("Incomplete")
      BY <1>2, <2>4, <3>4
    <3> QED
      BY <3>3, <3>5 DEF Err, frame, payload, message
  <2>5. CASE header.is = "Ok" /\ ~(Len(buf) - HeaderSize < length)
    <3>1. length \in Nat
      <4>1. Err("VersionInverseIncorrect").is # "Ok"
        BY DEF Err
      <4> QED
        BY <2>1, <2>5, <4>1, HeaderVerdicts, Zenon
    <3>2. /\ Len(rest) = Len(buf) - HeaderSize
          /\ SubSeq(rest, 1, length) =
                 SubSeq(buf, HeaderSize + 1, HeaderSize + length)
          /\ SubSeq(rest, length + 1, Len(rest)) =
                 SubSeq(buf, HeaderSize + length + 1, Len(buf))
      <4> HIDE DEF header, length
      <4>1. HeaderSize + length <= Len(buf) /\ HeaderSize \in Nat
        BY <1>1, <2>5, <3>1
      <4> QED
        BY <3>1, <4>1, SameCut, Zenon
    <3>3. frame = Ok([header |-> header.value, consumed |-> HeaderSize + length,
                      payload |-> SubSeq(buf, HeaderSize + 1,
                                         HeaderSize + length)])
      BY <2>2, <2>5, Zenon DEF FrameOf
    <3>4. /\ frame.is = "Ok"
          /\ frame.value.header = header.value
          /\ frame.value.consumed = HeaderSize + length
          /\ frame.value.payload = SubSeq(buf, HeaderSize + 1, HeaderSize + length)
      <4> HIDE DEF frame, header, length
      <4> QED
        BY <3>3 DEF Ok
    <3>5. payload = inner
      BY <3>2, <3>4, Zenon
    <3> HIDE DEF frame, payload, header, rest, inner
    <3>6. message = IF inner.is # "Ok" THEN inner
                    ELSE Ok([message |-> [header |-> header.value,
                                          payload |-> inner.value],
                             rest |-> SubSeq(rest, length + 1, Len(rest))])
      <4> HIDE DEF message, length
      <4>1. Len(rest) >= length /\ ~(Len(rest) < length)
        BY <1>1, <2>5, <3>1, <3>2
      <4> QED
        BY <1>2, <2>5, <4>1
    <3> HIDE DEF message
    <3>7. CASE inner.is # "Ok"
      BY <3>4, <3>5, <3>6, <3>7, Zenon DEF frame, payload, message
    <3>8. CASE inner.is = "Ok"
      BY <3>2, <3>4, <3>5, <3>6, <3>8, Zenon DEF frame, payload, message
    <3> QED
      BY <3>7, <3>8, Zenon
  <2> QED
    BY <2>3, <2>4, <2>5, Zenon
<1> QED
  BY <1>3, <1>4, Zenon

(* A message that both readers find whole.                                 *)
LEMMA MessageOfFrame ==
    ASSUME NEW buf \in Seq(Byte), NEW h, NEW n, NEW b, NEW p,
           try_frame(buf) = Ok([header |-> h, consumed |-> n, payload |-> b]),
           PayloadDecode(b, h.payload_type) = Ok(p)
    PROVE  MessageDecode(buf) =
               Ok([message |-> [header |-> h, payload |-> p],
                   rest |-> SubSeq(buf, n + 1, Len(buf))])
<1> DEFINE frame == try_frame(buf)
           payload == PayloadDecode(frame.value.payload,
                                    frame.value.header.payload_type)
<1>1. /\ frame.is = "Ok" /\ frame.value.header = h
      /\ frame.value.consumed = n /\ frame.value.payload = b
  <2> HIDE DEF frame
  <2>1. frame = Ok([header |-> h, consumed |-> n, payload |-> b])
    BY Zenon DEF frame
  <2> QED
    BY <2>1 DEF Ok
<1>2. payload = Ok(p)
  BY <1>1, Zenon
<1>3. payload.is = "Ok" /\ payload.value = p
  <2> HIDE DEF payload
  <2> QED
    BY <1>2 DEF Ok
<1>4. MessageDecode(buf) =
          Ok([message |-> [header |-> frame.value.header, payload |-> payload.value],
              rest |-> SubSeq(buf, frame.value.consumed + 1, Len(buf))])
  BY <1>1, <1>3, Agreement, Zenon
<1> QED
  BY <1>1, <1>3, <1>4, Zenon

(* A header written with the length of the body behind it is the frame     *)
(* that try_frame takes, all of it and no more.                            *)
LEMMA FrameWritten ==
    ASSUME NEW h \in Headers, version_inverse_correct(h),
           NEW body \in Seq(Byte), h.payload_length = Len(body),
           Len(body) <= U32Max
    PROVE  LET e == HeaderEncode(h) \o body
           IN  /\ e \in Seq(Byte) /\ Len(e) = HeaderSize + Len(body)
               /\ try_frame(e) = Ok([header |-> h, consumed |-> Len(e),
                                     payload |-> body])
<1> DEFINE front == HeaderEncode(h)
           e == front \o body
<1>1. h.payload_length <= U32Max
  BY Zenon
<1>2. front \in Seq(Byte) /\ Len(front) = HeaderSize /\ HeaderDecode(front) = Ok(h)
  BY <1>1, HeaderWritten, Zenon
<1> HIDE DEF front
<1>3. /\ e \in Seq(Byte) /\ Len(e) = Len(front) + Len(body)
      /\ \A k \in 1..Len(front) : e[k] = front[k]
  BY <1>2, Cat, Zenon
<1>4. SubSeq(e, Len(front) + 1, Len(front) + Len(body)) = body
  BY <1>2, Rear, Zenon
<1>5. Len(body) \in Nat /\ HeaderSize = 8
  BY SMT DEF HeaderSize
<1> HIDE DEF e
<1>6. Len(e) = HeaderSize + Len(body)
  BY <1>2, <1>3, Zenon
<1>7. Len(front) >= HeaderSize /\ Len(e) >= HeaderSize
      /\ ~(Len(e) - HeaderSize < Len(body))
  BY <1>2, <1>5, <1>6, SMT
<1>8. \A k \in 1..HeaderSize : e[k] = front[k]
  BY <1>2, <1>3, Zenon
<1>9. HeaderDecode(e) = Ok(h)
  BY <1>2, <1>3, <1>7, <1>8, HeaderIsLocal, Zenon
<1>10. try_frame(e) = FrameOf(e, Ok(h))
  BY <1>3, <1>7, <1>9, FrameIs, Zenon
<1>11. Ok(h).is = "Ok" /\ Ok(h).value = h
  BY DEF Ok
<1>12. SubSeq(e, HeaderSize + 1, HeaderSize + Len(body)) = body
  BY <1>2, <1>4, Zenon
<1>13. FrameOf(e, Ok(h)) = Ok([header |-> h, consumed |-> Len(e), payload |-> body])
  BY <1>6, <1>7, <1>11, <1>12, Zenon DEF FrameOf
<1> QED
  BY <1>3, <1>6, <1>10, <1>13, Zenon DEF e, front

(* Message::encode writes a frame with the length that the payload really  *)
(* has, whatever the message's own header says, and it reads back.         *)
LEMMA MessageWritten ==
    ASSUME NEW m, Faithful(m), MessageEncode(m).is = "Ok"
    PROVE  LET e == MessageEncode(m).value
               h == Received(m).header
           IN  /\ e \in Seq(Byte) /\ Len(e) = MessageEncodedSize(m)
               /\ try_frame(e) = Ok([header |-> h, consumed |-> Len(e),
                                     payload |-> PayloadEncode(m.payload)])
               /\ PayloadDecode(PayloadEncode(m.payload), h.payload_type) =
                      Ok(Received(m).payload)
<1> DEFINE p == m.payload
           n == PayloadEncodedSize(p)
           h == HeaderNew(m.header.protocol_version, m.header.payload_type, n)
           body == PayloadEncode(p)
<1>1. /\ m \in [header : Headers, payload : Payloads]
      /\ version_inverse_correct(m.header)
      /\ m.header.payload_type[1] \in TypesOf(p.kind)
  BY Zenon DEF Faithful
<1>2. m.header \in Headers /\ p \in Payloads
  BY <1>1
<1>3. MessageEncode(m) = IF n > U32Max THEN Err("PayloadTooLarge")
                         ELSE Ok(HeaderEncode(h) \o body)
  BY Zenon DEF MessageEncode
<1>4. Err("PayloadTooLarge").is # "Ok" /\ \A v : Ok(v).value = v
  BY DEF Err, Ok
<1>5. ~(n > U32Max) /\ MessageEncode(m).value = HeaderEncode(h) \o body
  BY <1>3, <1>4, Zenon
<1>6. /\ body \in Seq(Byte) /\ Len(body) = n
      /\ \A type : type = m.header.payload_type
             => PayloadDecode(body, type) = Ok(Arrived(p))
  BY <1>1, <1>2, PayloadWritten, Zenon
<1>7. n \in Nat
  <2>1. Len(body) \in Nat
    BY <1>6, LenProperties, Zenon
  <2> QED
    BY <1>6, <2>1, Zenon
<1>8. Received(m) = [header |-> h, payload |-> Arrived(p)]
  <2>1. m.header = [protocol_version |-> m.header.protocol_version,
                    inverse_protocol_version |-> inverse(m.header.protocol_version),
                    payload_type |-> m.header.payload_type,
                    payload_length |-> m.header.payload_length]
    <3>1. m.header.inverse_protocol_version = inverse(m.header.protocol_version)
      BY <1>1, Zenon DEF version_inverse_correct
    <3> DEFINE i == inverse(m.header.protocol_version)
               g == m.header
    <3> HIDE DEF i, g
    <3>2. g \in Headers /\ g.inverse_protocol_version = i
      BY <1>2, <3>1, Zenon DEF i, g
    <3>3. g = [protocol_version |-> g.protocol_version,
               inverse_protocol_version |-> i,
               payload_type |-> g.payload_type,
               payload_length |-> g.payload_length]
      BY <3>2 DEF Headers
    <3> QED
      BY <3>3, Zenon DEF i, g
  <2>2. [m.header EXCEPT !.payload_length = n] = h
    <3> DEFINE i == inverse(m.header.protocol_version)
               v == m.header.protocol_version
               t == m.header.payload_type
               g == m.header
               l == m.header.payload_length
    <3>1. g = [protocol_version |-> v, inverse_protocol_version |-> i,
               payload_type |-> t, payload_length |-> l]
      BY <2>1, Zenon
    <3>2. h = [protocol_version |-> v, inverse_protocol_version |-> i,
               payload_type |-> t, payload_length |-> n]
      BY Zenon DEF HeaderNew
    <3> HIDE DEF g, v, i, t, l, h, n
    <3>3. [g EXCEPT !.payload_length = n] = h
      BY <3>1, <3>2
    <3> QED
      BY <3>3, Zenon DEF g
  <2> QED
    BY <2>2, Zenon DEF Received, Arrived
<1>9. Received(m).header = h /\ Received(m).payload = Arrived(p)
  <2> HIDE DEF h
  <2> QED
    BY <1>8
<1>10. h \in Headers /\ version_inverse_correct(h) /\ h.payload_length = n
       /\ h.payload_type = m.header.payload_type
  <2>1. inverse(m.header.protocol_version) \in Byte
    <3>1. m.header.inverse_protocol_version \in Byte
      BY <1>2 DEF Headers
    <3> QED
      BY <1>1, <3>1, Zenon DEF version_inverse_correct
  <2>2. /\ m.header.protocol_version \in {ProtocolVersion(b) : b \in Byte}
        /\ m.header.payload_type \in {PayloadType(t) : t \in U16}
    BY <1>2 DEF Headers
  <2> HIDE DEF n
  <2>3. h \in Headers
    BY <1>7, <2>1, <2>2 DEF HeaderNew, Headers
  <2>4. /\ h.inverse_protocol_version = inverse(h.protocol_version)
        /\ h.payload_length = n /\ h.payload_type = m.header.payload_type
    BY DEF HeaderNew
  <2> QED
    BY <2>3, <2>4, Zenon DEF version_inverse_correct
<1> HIDE DEF n, h, body
<1>11. Len(body) <= U32Max /\ h.payload_length = Len(body)
  <2>1. n <= U32Max
    BY <1>5, <1>7, WireAssumption, SMT
  <2> QED
    BY <1>6, <1>10, <2>1, Zenon
<1> DEFINE e == HeaderEncode(h) \o body
<1>12. /\ e \in Seq(Byte) /\ Len(e) = HeaderSize + Len(body)
       /\ try_frame(e) = Ok([header |-> h, consumed |-> Len(e), payload |-> body])
  BY <1>6, <1>10, <1>11, FrameWritten, Zenon
<1> HIDE DEF e
<1>13. Len(e) = MessageEncodedSize(m)
  BY <1>6, <1>12, Zenon DEF MessageEncodedSize, n
<1>14. PayloadDecode(body, h.payload_type) = Ok(Received(m).payload)
  BY <1>6, <1>9, <1>10, Zenon
<1> QED
  BY <1>5, <1>9, <1>12, <1>13, <1>14, Zenon DEF e, body

----------------------------------------------------------------------------
(* The versions a header can be made with: what a byte decodes to.         *)
Versions == {ProtocolVersion(b) : b \in Byte}

(* The names that some number of a payload type decodes to.                *)
LEMMA TypeNamed ==
    ASSUME NEW name \in {"AliveCheckRequest", "AliveCheckResponse",
                         "DiagnosticMessage",
                         "DiagnosticMessagePositiveAcknowledge",
                         "RoutingActivationRequest",
                         "RoutingActivationResponse", "VehicleAnnouncement"}
    PROVE  <<name, 0>> \in {PayloadType(t) : t \in U16}
<1>1. name \notin Carrying
  BY DEF Carrying
<1>2. /\ PayloadTypeFrom(4) = "VehicleAnnouncement"
      /\ PayloadTypeFrom(5) = "RoutingActivationRequest"
      /\ PayloadTypeFrom(6) = "RoutingActivationResponse"
      /\ PayloadTypeFrom(7) = "AliveCheckRequest"
      /\ PayloadTypeFrom(8) = "AliveCheckResponse"
      /\ PayloadTypeFrom(32769) = "DiagnosticMessage"
      /\ PayloadTypeFrom(32770) = "DiagnosticMessagePositiveAcknowledge"
  BY SMT DEF PayloadTypeFrom
<1>3. PICK t \in U16 : PayloadTypeFrom(t) = name
  <2>1. /\ 4 \in U16 /\ 5 \in U16 /\ 6 \in U16 /\ 7 \in U16 /\ 8 \in U16
        /\ 32769 \in U16 /\ 32770 \in U16
    BY SMT DEF U16, U16Size
  <2>2. \A k : k \in {PayloadTypeFrom(n) : n \in U16}
                  => \E n \in U16 : PayloadTypeFrom(n) = k
    BY Zenon
  <2>3. name \in {PayloadTypeFrom(n) : n \in U16}
    BY <1>2, <2>1, SMT
  <2> QED
    BY <2>2, <2>3, Zenon
<1>4. PayloadType(t) = <<name, 0>>
  BY <1>1, <1>3, SMT DEF PayloadType, code
<1> QED
  BY <1>4, SMT

(* Header::new in front of a payload that its type is for.                 *)
LEMMA Stamped ==
    ASSUME NEW v \in Versions, NEW name, NEW p \in Payloads, NEW n \in Nat,
           <<name, 0>> \in {PayloadType(t) : t \in U16},
           name \in TypesOf(p.kind)
    PROVE  Faithful([header |-> HeaderNew(v, <<name, 0>>, n), payload |-> p])
<1> DEFINE h == HeaderNew(v, <<name, 0>>, n)
<1>1. inverse(v) \in Byte
  <2>1. PICK b \in Byte : v = ProtocolVersion(b)
    BY DEF Versions
  <2>2. inverse(v) = 255 - b
    BY <2>1, VersionInverted, Zenon
  <2> QED
    BY <2>2, SMT DEF Byte
<1> DEFINE i == inverse(v)
           types == {PayloadType(t) : t \in U16}
<1>2. h = [protocol_version |-> v, inverse_protocol_version |-> i,
           payload_type |-> <<name, 0>>, payload_length |-> n]
  BY Zenon DEF HeaderNew
<1> HIDE DEF h, i, types
<1>3. /\ h.protocol_version = v /\ h.inverse_protocol_version = i
      /\ h.payload_type[1] = name
  BY <1>2, SMT
<1>4. h \in [protocol_version : Versions, inverse_protocol_version : Byte,
             payload_type : types, payload_length : Nat]
  <2>1. i \in Byte /\ <<name, 0>> \in types
    BY <1>1, Zenon DEF i, types
  <2> QED
    BY <1>2, <2>1, SMT
<1>5. h \in Headers
  BY <1>4, Zenon DEF Headers, Versions, types
<1> DEFINE m == [header |-> h, payload |-> p]
<1>6. m.header = h /\ m.payload = p /\ m \in [header : Headers, payload : Payloads]
  BY <1>5, SMT
<1> HIDE DEF m
<1>7. Faithful(m)
  BY <1>3, <1>6, Zenon DEF Faithful, version_inverse_correct, i
<1> QED
  BY <1>7, Zenon DEF m, h

(* A payload has a size.                                                   *)
LEMMA Sized ==
    ASSUME NEW p \in Payloads, NEW name, name \in TypesOf(p.kind)
    PROVE  PayloadEncodedSize(p) \in Nat
<1>1. <<name, 0>>[1] \in TypesOf(p.kind)
  BY SMT
<1>2. /\ PayloadEncode(p) \in Seq(Byte)
      /\ Len(PayloadEncode(p)) = PayloadEncodedSize(p)
  BY <1>1, PayloadWritten, Zenon
<1>3. Len(PayloadEncode(p)) \in Nat
  BY <1>2, LenProperties, Zenon
<1> QED
  BY <1>2, <1>3, Zenon

(* The constructors that take the length from the payload.                 *)
LEMMA StampedWithLength ==
    ASSUME NEW v \in Versions, NEW name, NEW p \in Payloads,
           <<name, 0>> \in {PayloadType(t) : t \in U16},
           name \in TypesOf(p.kind)
    PROVE  Faithful(WithLength(v, name, p))
<1>1. PayloadEncodedSize(p) \in Nat
  BY Sized, Zenon
<1>2. WithLength(v, name, p) =
          [header |-> HeaderNew(v, <<name, 0>>, PayloadEncodedSize(p)),
           payload |-> p]
  BY Zenon DEF WithLength, payload_len
<1> QED
  BY <1>1, <1>2, Stamped, Zenon

(* Every constructor of Message and OwnedMessage makes a message that its  *)
(* reader gets back as it was sent, for every version, address and data,   *)
(* every code that a byte decodes to and every group id that does not say  *)
(* None: MessageCodec assumes of the messages sent only what these give.   *)
THEOREM ConstructedIsFaithful ==
    ASSUME NEW v \in Versions, NEW s \in U16, NEW t \in U16
    PROVE  /\ Faithful(default_message)
           /\ Faithful(alive_check_request(v))
           /\ Faithful(alive_check_response(v, s))
           /\ \A data \in Seq(Byte) : Faithful(diagnostic_message(v, s, t, data))
           /\ \A c \in {DiagnosticAckCode(b) : b \in Byte}, data \in Seq(Byte) :
                  Faithful(diagnostic_message_ack(v, s, t, c, data))
           /\ \A c \in {ActivationTypeCode(b) : b \in Byte},
                 manufacturer \in Option(Bytes(4)) :
                  Faithful(routing_activation_request(v, s, c, manufacturer))
           /\ \A c \in {RoutingActivationResponseCode(b) : b \in Byte},
                 reserved \in Bytes(4), oem \in Option(Bytes(4)) :
                  Faithful(routing_activation_response(v, s, t, c, reserved, oem))
           /\ \A response \in VehicleIdentificationResponses :
                  Faithful(vehicle_identification_response(v, response))
<1>1. Faithful(alive_check_request(v))
  <2> DEFINE p == [kind |-> "AliveCheckRequest"]
  <2>1. p \in Payloads
    BY SMT DEF Payloads, BodilessKinds
  <2>2. "AliveCheckRequest" \in TypesOf(p.kind)
    BY DEF TypesOf
  <2>3. <<"AliveCheckRequest", 0>> \in {PayloadType(k) : k \in U16}
    BY TypeNamed, Zenon
  <2> HIDE DEF p
  <2>4. Faithful([header |-> HeaderNew(v, <<"AliveCheckRequest", 0>>, 0),
                  payload |-> p])
    BY <2>1, <2>2, <2>3, Stamped, Zenon
  <2> QED
    BY <2>4, Zenon DEF alive_check_request, p
<1>2. Faithful(alive_check_response(v, s))
  <2> DEFINE p == [kind |-> "AliveCheckResponse", source_address |-> s]
  <2>1. p \in AliveCheckResponses
    BY SMT DEF AliveCheckResponses
  <2>2. p \in Payloads
    BY <2>1, Zenon DEF Payloads
  <2>3. "AliveCheckResponse" \in TypesOf(p.kind)
    BY DEF TypesOf
  <2>4. <<"AliveCheckResponse", 0>> \in {PayloadType(k) : k \in U16}
    BY TypeNamed, Zenon
  <2>5. 2 \in Nat
    OBVIOUS
  <2> HIDE DEF p
  <2>6. Faithful([header |-> HeaderNew(v, <<"AliveCheckResponse", 0>>, 2),
                  payload |-> p])
    BY <2>2, <2>3, <2>4, <2>5, Stamped, Zenon
  <2> QED
    BY <2>6, Zenon DEF alive_check_response, p
<1>3. ASSUME NEW data \in Seq(Byte)
      PROVE  Faithful(diagnostic_message(v, s, t, data))
  <2> DEFINE p == [kind |-> "DiagnosticMessage", source_address |-> s,
                   target_address |-> t, user_data |-> data]
  <2>1. p \in DiagnosticMessages
    BY SMT DEF DiagnosticMessages
  <2>2. p \in Payloads
    BY <2>1, Zenon DEF Payloads
  <2>3. "DiagnosticMessage" \in TypesOf(p.kind)
    BY DEF TypesOf
  <2>4. <<"DiagnosticMessage", 0>> \in {PayloadType(k) : k \in U16}
    BY TypeNamed, Zenon
  <2> HIDE DEF p
  <2>5. Faithful(WithLength(v, "DiagnosticMessage", p))
    BY <2>2, <2>3, <2>4, StampedWithLength, Zenon
  <2> QED
    BY <2>5, Zenon DEF diagnostic_message, p
<1>4. ASSUME NEW c \in {DiagnosticAckCode(b) : b \in Byte},
             NEW data \in Seq(Byte)
      PROVE  Faithful(diagnostic_message_ack(v, s, t, c, data))
  <2> DEFINE p == [kind |-> "DiagnosticMessageAck", source_address |-> s,
                   target_address |-> t, ack_code |-> c,
                   previous_message_data |-> data]
  <2>1. p \in DiagnosticMessageAcks
    BY SMT DEF DiagnosticMessageAcks
  <2>2. p \in Payloads
    BY <2>1, Zenon DEF Payloads
  <2>3. "DiagnosticMessagePositiveAcknowledge" \in TypesOf(p.kind)
    BY DEF TypesOf
  <2>4. <<"DiagnosticMessagePositiveAcknowledge", 0>> \in {PayloadType(k) : k \in U16}
    BY TypeNamed, Zenon
  <2> HIDE DEF p
  <2>5. Faithful(WithLength(v, "DiagnosticMessagePositiveAcknowledge", p))
    BY <2>2, <2>3, <2>4, StampedWithLength, Zenon
  <2> QED
    BY <2>5, Zenon DEF diagnostic_message_ack, p
<1>5. ASSUME NEW c \in {ActivationTypeCode(b) : b \in Byte},
             NEW manufacturer \in Option(Bytes(4))
      PROVE  Faithful(routing_activation_request(v, s, c, manufacturer))
  <2> DEFINE p == [kind |-> "RoutingActivationRequest", source_address |-> s,
                   activation_type |-> c, reserved |-> <<0, 0, 0, 0>>,
                   reserved_vehicle_manufacturer |-> manufacturer]
  <2>1. p \in RoutingActivationRequests
    <3>1. <<0, 0, 0, 0>> \in Bytes(4)
      BY SMT DEF Bytes, Byte
    <3> DEFINE reserved == <<0, 0, 0, 0>>
    <3> HIDE DEF reserved
    <3>2. [kind |-> "RoutingActivationRequest", source_address |-> s,
           activation_type |-> c, reserved |-> reserved,
           reserved_vehicle_manufacturer |-> manufacturer]
          \in RoutingActivationRequests
      BY <3>1, SMT DEF RoutingActivationRequests, reserved
    <3> QED
      BY <3>2, Zenon DEF reserved
  <2>2. p \in Payloads
    BY <2>1, Zenon DEF Payloads
  <2>3. "RoutingActivationRequest" \in TypesOf(p.kind)
    BY DEF TypesOf
  <2>4. <<"RoutingActivationRequest", 0>> \in {PayloadType(k) : k \in U16}
    BY TypeNamed, Zenon
  <2> HIDE DEF p
  <2>5. Faithful(WithLength(v, "RoutingActivationRequest", p))
    BY <2>2, <2>3, <2>4, StampedWithLength, Zenon
  <2> QED
    BY <2>5, Zenon DEF routing_activation_request, p
<1>6. ASSUME NEW c \in {RoutingActivationResponseCode(b) : b \in Byte},
             NEW reserved \in Bytes(4), NEW oem \in Option(Bytes(4))
      PROVE  Faithful(routing_activation_response(v, s, t, c, reserved, oem))
  <2> DEFINE p == [kind |-> "RoutingActivationResponse",
                   logical_address_tester |-> s,
                   logical_address_of_doip_entity |-> t,
                   routing_activation_response_code |-> c,
                   reserved_oem |-> reserved, oem_specific |-> oem]
  <2>1. p \in RoutingActivationResponses
    BY SMT DEF RoutingActivationResponses
  <2>2. p \in Payloads
    BY <2>1, Zenon DEF Payloads
  <2>3. "RoutingActivationResponse" \in TypesOf(p.kind)
    BY DEF TypesOf
  <2>4. <<"RoutingActivationResponse", 0>> \in {PayloadType(k) : k \in U16}
    BY TypeNamed, Zenon
  <2> HIDE DEF p
  <2>5. Faithful(WithLength(v, "RoutingActivationResponse", p))
    BY <2>2, <2>3, <2>4, StampedWithLength, Zenon
  <2> QED
    BY <2>5, Zenon DEF routing_activation_response, p
<1>7. ASSUME NEW response \in VehicleIdentificationResponses
      PROVE  Faithful(vehicle_identification_response(v, response))
  <2>1. response \in Payloads
    BY Zenon DEF Payloads
  <2>2. "VehicleAnnouncement" \in TypesOf(response.kind)
    BY DEF TypesOf, VehicleIdentificationResponses
  <2>3. <<"VehicleAnnouncement", 0>> \in {PayloadType(k) : k \in U16}
    BY TypeNamed, Zenon
  <2> QED
    BY <2>1, <2>2, <2>3, StampedWithLength, Zenon
       DEF vehicle_identification_response
<1>8. Faithful(default_message)
  <2>1. 0 \in U16
    <3>1. 0 \in Nat /\ 0 < U16Size
      BY SMT DEF U16Size
    <3> QED
      BY <3>1, InU16, Zenon
  <2>2. \A a \in U16, data \in Seq(Byte) :
            /\ [kind |-> "DiagnosticMessage", source_address |-> a,
                target_address |-> a, user_data |-> data] \in DiagnosticMessages
            /\ [kind |-> "DiagnosticMessage", source_address |-> a,
                target_address |-> a, user_data |-> data].kind =
                   "DiagnosticMessage"
    BY SMT DEF DiagnosticMessages
  <2>3. <<>> \in Seq(Byte)
    OBVIOUS
  <2> DEFINE p == [kind |-> "DiagnosticMessage", source_address |-> 0,
                   target_address |-> 0, user_data |-> <<>>]
  <2>4. p \in DiagnosticMessages /\ p.kind = "DiagnosticMessage"
    BY <2>1, <2>2, <2>3, Zenon
  <2> HIDE DEF p
  <2>5. p \in Payloads
    BY <2>4, Zenon DEF Payloads
  <2>6. "DiagnosticMessage" \in TypesOf(p.kind)
    BY <2>4 DEF TypesOf
  <2>7. <<"DiagnosticMessage", 0>> \in {PayloadType(k) : k \in U16}
    BY TypeNamed, Zenon
  <2>8. <<"V2012", 0>> \in Versions
    <3>1. 2 \in Byte /\ ProtocolVersion(2) = <<"V2012", 0>>
      BY DEF Byte, ProtocolVersion, VersionFrom, code, Carrying
    <3> QED
      BY <3>1, SMT DEF Versions
  <2> DEFINE m == [header |-> HeaderNew(<<"V2012", 0>>,
                                        <<"DiagnosticMessage", 0>>, 0),
                   payload |-> p]
  <2>9. Faithful(m)
    BY <2>5, <2>6, <2>7, <2>8, Stamped, Zenon
  <2>10. m = default_message
    BY Zenon DEF default_message, p
  <2> HIDE DEF m
  <2> QED
    BY <2>9, <2>10, Zenon
<1> QED
  BY <1>1, <1>2, <1>3, <1>4, <1>5, <1>6, <1>7, <1>8, Zenon

=============================================================================
