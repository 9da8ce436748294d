-------------------------- MODULE WirePayloadProofs -------------------------
(***************************************************************************)
(* Facts about the codes and the bodies of the wire format, for every      *)
(* value and length: a body that is encoded decodes to what it was, and a  *)
(* buffer that decodes to a body encodes to its own bytes again.           *)
(***************************************************************************)
EXTENDS Wire, SequenceTheorems, TLAPS

----------------------------------------------------------------------------
(* Bytes and words.                                                        *)

(* What it is to be a byte, and a u16, without the interval.               *)
LEMMA InByte ==
    ASSUME NEW n
    PROVE  n \in Byte <=> n \in Nat /\ n <= 255
  BY SMT DEF Byte

(* The same for a u16.                                                     *)
LEMMA InU16 ==
    ASSUME NEW n
    PROVE  n \in U16 <=> n \in Nat /\ n < U16Size
<1>1. U16Size - 1 \in Nat /\ U16Size \in Nat
  BY SMT DEF U16Size
<1>2. n \in U16 <=> n \in Nat /\ n <= U16Size - 1
  BY <1>1, SMT DEF U16
<1> QED
  BY <1>1, <1>2, SMT

(* write_u16_be: the two bytes of a word, which make the same word again.  *)
LEMMA WordWritten ==
    ASSUME NEW n \in U16
    PROVE  /\ be16(n) = <<n \div 256, n % 256>>
           /\ n \div 256 \in Byte /\ n % 256 \in Byte
           /\ 256 * (n \div 256) + (n % 256) = n
<1>1. n \in Nat /\ n < 65536
  BY InU16, SMT DEF U16Size
<1>2. /\ n \div 256 \in Nat /\ n % 256 \in Nat
      /\ n \div 256 <= 255 /\ n % 256 <= 255
      /\ 256 * (n \div 256) + (n % 256) = n
  BY <1>1, SMT
<1> QED
  BY <1>2, InByte, Zenon DEF be16

(* read_u16_be: two bytes make a word, which has the same bytes again.     *)
LEMMA WordRead ==
    ASSUME NEW a \in Byte, NEW b \in Byte
    PROVE  /\ 256 * a + b \in U16
           /\ (256 * a + b) \div 256 = a
           /\ (256 * a + b) % 256 = b
<1>1. 256 * a + b \in Nat /\ 256 * a + b < U16Size
  BY SMT DEF Byte, U16Size
<1>2. (256 * a + b) \div 256 = a /\ (256 * a + b) % 256 = b
  BY SMT DEF Byte
<1> QED
  BY <1>1, <1>2, InU16, SMT

----------------------------------------------------------------------------
(* Buffers.                                                                *)

(* What is written one behind the other, index by index.                   *)
LEMMA Cat ==
    ASSUME NEW s \in Seq(Byte), NEW t \in Seq(Byte)
    PROVE  /\ s \o t \in Seq(Byte)
           /\ Len(s \o t) = Len(s) + Len(t)
           /\ \A k \in 1..Len(s) : (s \o t)[k] = s[k]
           /\ \A k \in 1..Len(t) : (s \o t)[Len(s) + k] = t[k]
  OBVIOUS

(* A part of a buffer, index by index.                                     *)
LEMMA Part ==
    ASSUME NEW s \in Seq(Byte), NEW i \in Nat \ {0}, NEW j \in Nat, j <= Len(s)
    PROVE  /\ SubSeq(s, i, j) \in Seq(Byte)
           /\ Len(SubSeq(s, i, j)) = IF i <= j THEN j - i + 1 ELSE 0
           /\ \A k \in 1..Len(SubSeq(s, i, j)) : SubSeq(s, i, j)[k] = s[i + k - 1]
  OBVIOUS

(* Two buffers are equal when they agree at every index.                   *)
LEMMA Same ==
    ASSUME NEW s \in Seq(Byte), NEW t \in Seq(Byte), Len(s) = Len(t),
           \A k \in 1..Len(s) : s[k] = t[k]
    PROVE  s = t
  OBVIOUS

(* An array of bytes is a buffer of its length, and the other way round.   *)
LEMMA ArrayIsBuffer ==
    ASSUME NEW n \in Nat, NEW a \in Bytes(n)
    PROVE  a \in Seq(Byte) /\ Len(a) = n
  BY DEF Bytes

(* A buffer is the array of its bytes.                                     *)
LEMMA BufferIsArray ==
    ASSUME NEW a \in Seq(Byte)
    PROVE  a \in Bytes(Len(a))
  BY DEF Bytes

----------------------------------------------------------------------------
(* The codes: every byte decodes to a code that encodes to that byte, so   *)
(* that a code that a byte decodes to comes back from its byte.            *)

(* A code encodes to the number it was read from when the name it was      *)
(* given has that number in the table, or carries it.                      *)
LEMMA Coded ==
    ASSUME NEW table, NEW name, NEW number,
           name \in DOMAIN table => table[name] = number,
           name \notin DOMAIN table => name \in Carrying
    PROVE  byte_of(table, code(name, number)) = number
<1>1. /\ code(name, number)[1] = name
      /\ code(name, number)[2] = IF name \in Carrying THEN number ELSE 0
  BY DEF code
<1> QED
  BY <1>1, Zenon DEF byte_of

(* NackCode: u8::from after NackCode::from.                                *)
LEMMA NackCodeKept ==
    /\ \A b \in Byte : byte_of(NackCodeInto, NackCode(b)) = b
    /\ \A c \in {NackCode(b) : b \in Byte} :
           /\ byte_of(NackCodeInto, c) \in Byte
           /\ NackCode(byte_of(NackCodeInto, c)) = c
<1>1. ASSUME NEW b \in Byte
      PROVE  byte_of(NackCodeInto, NackCode(b)) = b
  <2> DEFINE name == NackCodeFrom(b)
  <2>1. name \in DOMAIN NackCodeInto => NackCodeInto[name] = b
    BY DEF NackCodeFrom, NackCodeInto
  <2>2. name \notin DOMAIN NackCodeInto => name \in Carrying
    BY DEF NackCodeFrom, NackCodeInto, Carrying
  <2> HIDE DEF name
  <2>3. byte_of(NackCodeInto, code(name, b)) = b
    BY <2>1, <2>2, Coded, Zenon
  <2> QED
    BY <2>3, Zenon DEF NackCode, name
<1> QED
  BY <1>1, Zenon

(* DiagnosticPowerModeCode.                                                *)
LEMMA PowerModeKept ==
    /\ \A b \in Byte : byte_of(PowerModeInto, DiagnosticPowerModeCode(b)) = b
    /\ \A c \in {DiagnosticPowerModeCode(b) : b \in Byte} :
           /\ byte_of(PowerModeInto, c) \in Byte
           /\ DiagnosticPowerModeCode(byte_of(PowerModeInto, c)) = c
<1>1. ASSUME NEW b \in Byte
      PROVE  byte_of(PowerModeInto, DiagnosticPowerModeCode(b)) = b
  <2> DEFINE name == PowerModeFrom(b)
  <2>1. name \in DOMAIN PowerModeInto => PowerModeInto[name] = b
    BY DEF PowerModeFrom, PowerModeInto
  <2>2. name \notin DOMAIN PowerModeInto => name \in Carrying
    BY DEF PowerModeFrom, PowerModeInto, Carrying
  <2> HIDE DEF name
  <2>3. byte_of(PowerModeInto, code(name, b)) = b
    BY <2>1, <2>2, Coded, Zenon
  <2> QED
    BY <2>3, Zenon DEF DiagnosticPowerModeCode, name
<1> QED
  BY <1>1, Zenon

(* EntityStatusNodeType.                                                   *)
LEMMA NodeTypeKept ==
    /\ \A b \in Byte : byte_of(NodeTypeInto, EntityStatusNodeType(b)) = b
    /\ \A c \in {EntityStatusNodeType(b) : b \in Byte} :
           /\ byte_of(NodeTypeInto, c) \in Byte
           /\ EntityStatusNodeType(byte_of(NodeTypeInto, c)) = c
<1>1. ASSUME NEW b \in Byte
      PROVE  byte_of(NodeTypeInto, EntityStatusNodeType(b)) = b
  <2> DEFINE name == NodeTypeFrom(b)
  <2>1. name \in DOMAIN NodeTypeInto => NodeTypeInto[name] = b
    BY DEF NodeTypeFrom, NodeTypeInto
  <2>2. name \notin DOMAIN NodeTypeInto => name \in Carrying
    BY DEF NodeTypeFrom, NodeTypeInto, Carrying
  <2> HIDE DEF name
  <2>3. byte_of(NodeTypeInto, code(name, b)) = b
    BY <2>1, <2>2, Coded, Zenon
  <2> QED
    BY <2>3, Zenon DEF EntityStatusNodeType, name
<1> QED
  BY <1>1, Zenon

(* DiagnosticAckCode.                                                      *)
LEMMA AckCodeKept ==
    /\ \A b \in Byte : byte_of(AckCodeInto, DiagnosticAckCode(b)) = b
    /\ \A c \in {DiagnosticAckCode(b) : b \in Byte} :
           /\ byte_of(AckCodeInto, c) \in Byte
           /\ DiagnosticAckCode(byte_of(AckCodeInto, c)) = c
<1>1. ASSUME NEW b \in Byte
      PROVE  byte_of(AckCodeInto, DiagnosticAckCode(b)) = b
  <2> DEFINE name == AckCodeFrom(b)
  <2>1. name \in DOMAIN AckCodeInto => AckCodeInto[name] = b
    BY DEF AckCodeFrom, AckCodeInto
  <2>2. name \notin DOMAIN AckCodeInto => name \in Carrying
    BY DEF AckCodeFrom, AckCodeInto, Carrying
  <2> HIDE DEF name
  <2>3. byte_of(AckCodeInto, code(name, b)) = b
    BY <2>1, <2>2, Coded, Zenon
  <2> QED
    BY <2>3, Zenon DEF DiagnosticAckCode, name
<1> QED
  BY <1>1, Zenon

(* ActivationTypeCode.                                                     *)
LEMMA ActivationTypeKept ==
    /\ \A b \in Byte : byte_of(ActivationTypeInto, ActivationTypeCode(b)) = b
    /\ \A c \in {ActivationTypeCode(b) : b \in Byte} :
           /\ byte_of(ActivationTypeInto, c) \in Byte
           /\ ActivationTypeCode(byte_of(ActivationTypeInto, c)) = c
<1>1. ASSUME NEW b \in Byte
      PROVE  byte_of(ActivationTypeInto, ActivationTypeCode(b)) = b
  <2> DEFINE name == ActivationTypeFrom(b)
  <2>1. name \in DOMAIN ActivationTypeInto => ActivationTypeInto[name] = b
    BY DEF ActivationTypeFrom, ActivationTypeInto
  <2>2. name \notin DOMAIN ActivationTypeInto => name \in Carrying
    BY DEF ActivationTypeFrom, ActivationTypeInto, Carrying
  <2> HIDE DEF name
  <2>3. byte_of(ActivationTypeInto, code(name, b)) = b
    BY <2>1, <2>2, Coded, Zenon
  <2> QED
    BY <2>3, Zenon DEF ActivationTypeCode, name
<1> QED
  BY <1>1, Zenon

(* RoutingActivationResponseCode.                                          *)
LEMMA ResponseCodeKept ==
    /\ \A b \in Byte : byte_of(ResponseCodeInto, RoutingActivationResponseCode(b)) = b
    /\ \A c \in {RoutingActivationResponseCode(b) : b \in Byte} :
           /\ byte_of(ResponseCodeInto, c) \in Byte
           /\ RoutingActivationResponseCode(byte_of(ResponseCodeInto, c)) = c
<1>1. ASSUME NEW b \in Byte
      PROVE  byte_of(ResponseCodeInto, RoutingActivationResponseCode(b)) = b
  <2> DEFINE name == ResponseCodeFrom(b)
  <2>1. name \in DOMAIN ResponseCodeInto => ResponseCodeInto[name] = b
    BY DEF ResponseCodeFrom, ResponseCodeInto
  <2>2. name \notin DOMAIN ResponseCodeInto => name \in Carrying
    BY DEF ResponseCodeFrom, ResponseCodeInto, Carrying
  <2> HIDE DEF name
  <2>3. byte_of(ResponseCodeInto, code(name, b)) = b
    BY <2>1, <2>2, Coded, Zenon
  <2> QED
    BY <2>3, Zenon
  DEF RoutingActivationResponseCode, name
<1> QED
  BY <1>1, Zenon

(* FurtherActionRequired.                                                  *)
LEMMA FurtherActionKept ==
    /\ \A b \in Byte : byte_of(FurtherActionInto, FurtherActionRequired(b)) = b
    /\ \A c \in {FurtherActionRequired(b) : b \in Byte} :
           /\ byte_of(FurtherActionInto, c) \in Byte
           /\ FurtherActionRequired(byte_of(FurtherActionInto, c)) = c
<1>1. ASSUME NEW b \in Byte
      PROVE  byte_of(FurtherActionInto, FurtherActionRequired(b)) = b
  <2> DEFINE name == FurtherActionFrom(b)
  <2>1. name \in DOMAIN FurtherActionInto => FurtherActionInto[name] = b
    BY DEF FurtherActionFrom, FurtherActionInto
  <2>2. name \notin DOMAIN FurtherActionInto => name \in Carrying
    BY DEF FurtherActionFrom, FurtherActionInto, Carrying
  <2> HIDE DEF name
  <2>3. byte_of(FurtherActionInto, code(name, b)) = b
    BY <2>1, <2>2, Coded, Zenon
  <2> QED
    BY <2>3, Zenon DEF FurtherActionRequired, name
<1> QED
  BY <1>1, Zenon

(* VinGidSyncStatus.                                                       *)
LEMMA SyncStatusKept ==
    /\ \A b \in Byte : byte_of(SyncStatusInto, VinGidSyncStatus(b)) = b
    /\ \A c \in {VinGidSyncStatus(b) : b \in Byte} :
           /\ byte_of(SyncStatusInto, c) \in Byte
           /\ VinGidSyncStatus(byte_of(SyncStatusInto, c)) = c
<1>1. ASSUME NEW b \in Byte
      PROVE  byte_of(SyncStatusInto, VinGidSyncStatus(b)) = b
  <2> DEFINE name == SyncStatusFrom(b)
  <2>1. name \in DOMAIN SyncStatusInto => SyncStatusInto[name] = b
    BY DEF SyncStatusFrom, SyncStatusInto
  <2>2. name \notin DOMAIN SyncStatusInto => name \in Carrying
    BY DEF SyncStatusFrom, SyncStatusInto, Carrying
  <2> HIDE DEF name
  <2>3. byte_of(SyncStatusInto, code(name, b)) = b
    BY <2>1, <2>2, Coded, Zenon
  <2> QED
    BY <2>3, Zenon DEF VinGidSyncStatus, name
<1> QED
  BY <1>1, Zenon

(* ProtocolVersion, the first byte of a header.                            *)
LEMMA VersionKept ==
    /\ \A b \in Byte : byte_of(VersionInto, ProtocolVersion(b)) = b
    /\ \A c \in {ProtocolVersion(b) : b \in Byte} :
           /\ byte_of(VersionInto, c) \in Byte
           /\ ProtocolVersion(byte_of(VersionInto, c)) = c
<1>1. ASSUME NEW b \in Byte
      PROVE  byte_of(VersionInto, ProtocolVersion(b)) = b
  <2> DEFINE name == VersionFrom(b)
  <2>1. name \in DOMAIN VersionInto => VersionInto[name] = b
    BY DEF VersionFrom, VersionInto
  <2>2. name \notin DOMAIN VersionInto => name \in Carrying
    BY DEF VersionFrom, VersionInto, Carrying
  <2> HIDE DEF name
  <2>3. byte_of(VersionInto, code(name, b)) = b
    BY <2>1, <2>2, Coded, Zenon
  <2> QED
    BY <2>3, Zenon DEF ProtocolVersion, name
<1> QED
  BY <1>1, Zenon

(* PayloadType, a u16.                                                     *)
LEMMA PayloadTypeKept ==
    /\ \A b \in U16 : byte_of(PayloadTypeInto, PayloadType(b)) = b
    /\ \A c \in {PayloadType(b) : b \in U16} :
           /\ byte_of(PayloadTypeInto, c) \in U16
           /\ PayloadType(byte_of(PayloadTypeInto, c)) = c
<1>1. ASSUME NEW b \in U16
      PROVE  byte_of(PayloadTypeInto, PayloadType(b)) = b
  <2> DEFINE name == PayloadTypeFrom(b)
  <2>1. name \in DOMAIN PayloadTypeInto => PayloadTypeInto[name] = b
    <3>1. b \in {0, 1, 2, 3, 4, 5, 6, 7, 8}
          => PayloadTypeInto[name] = b
      BY SMT DEF PayloadTypeFrom, PayloadTypeInto
    <3>2. b \in {16385, 16386, 16387, 16388}
          => PayloadTypeInto[name] = b
      BY SMT DEF PayloadTypeFrom, PayloadTypeInto
    <3>3. b \in {32769, 32770, 32771}
          => PayloadTypeInto[name] = b
      BY SMT DEF PayloadTypeFrom, PayloadTypeInto
    <3>4. b \notin 0..8 /\ b \notin 16385..16388 /\ b \notin 32769..32771
          => name \notin DOMAIN PayloadTypeInto
      BY SMT DEF PayloadTypeFrom, PayloadTypeInto
    <3> HIDE DEF name
    <3>5. \/ b \in {0, 1, 2, 3, 4, 5, 6, 7, 8}
          \/ b \in {16385, 16386, 16387, 16388}
          \/ b \in {32769, 32770, 32771}
          \/ b \notin 0..8 /\ b \notin 16385..16388 /\ b \notin 32769..32771
      BY SMT DEF U16
    <3> QED
      BY <3>1, <3>2, <3>3, <3>4, <3>5, SMT
  <2>2. name \notin DOMAIN PayloadTypeInto => name \in Carrying
    BY SMTT(30) DEF PayloadTypeFrom, PayloadTypeInto, Carrying
  <2> HIDE DEF name
  <2>3. byte_of(PayloadTypeInto, code(name, b)) = b
    BY <2>1, <2>2, Coded, Zenon
  <2>4. PayloadType(b) = code(name, b)
    BY DEF PayloadType, name
  <2> QED
    BY <2>3, <2>4, SMT
<1> QED
  BY <1>1, Zenon

(* ProtocolVersion::inverse is the complement of the version's byte.       *)
LEMMA VersionInverted ==
    ASSUME NEW b \in Byte
    PROVE  inverse(ProtocolVersion(b)) = 255 - b
<1> DEFINE name == VersionFrom(b)
<1>1. /\ ProtocolVersion(b)[1] = name
      /\ ProtocolVersion(b)[2] = IF name \in Carrying THEN b ELSE 0
  BY DEF code, ProtocolVersion
<1>2. name # "ReservedFuture" => VersionInverses[name] = 255 - b
  BY DEF VersionFrom, VersionInverses, Byte
<1> QED
  BY <1>1, <1>2, Zenon DEF inverse, Carrying

(* The bytes at the front stay where they are when more are written.       *)
LEMMA Kept ==
    ASSUME NEW s \in Seq(Byte), NEW t \in Seq(Byte), NEW i \in Nat \ {0},
           NEW j \in Nat, j <= Len(s)
    PROVE  SubSeq(s \o t, i, j) = SubSeq(s, i, j)
<1> DEFINE e == s \o t
           a == SubSeq(e, i, j)
           b == SubSeq(s, i, j)
<1>1. /\ e \in Seq(Byte) /\ Len(e) = Len(s) + Len(t)
      /\ \A k \in 1..Len(s) : e[k] = s[k]
  BY Cat
<1>2. Len(s) \in Nat /\ Len(t) \in Nat /\ j <= Len(s) + Len(t)
  OBVIOUS
<1> HIDE DEF e
<1>3. /\ a \in Seq(Byte) /\ Len(a) = IF i <= j THEN j - i + 1 ELSE 0
      /\ \A k \in 1..Len(a) : a[k] = e[i + k - 1]
  BY <1>1, <1>2, Part
<1>4. /\ b \in Seq(Byte) /\ Len(b) = IF i <= j THEN j - i + 1 ELSE 0
      /\ \A k \in 1..Len(b) : b[k] = s[i + k - 1]
  BY Part
<1> HIDE DEF a, b
<1>5. ASSUME NEW k \in 1..Len(a)
      PROVE  a[k] = b[k]
  <2>1. i + k - 1 \in 1..Len(s) /\ k \in 1..Len(b)
    BY <1>2, <1>3, <1>4
  <2> QED
    BY <1>1, <1>3, <1>4, <2>1, Zenon
<1>6. a = b
  BY <1>3, <1>4, <1>5, Same
<1> QED
  BY <1>6 DEF a, b, e

(* What was written last is at the end.                                    *)
LEMMA Rear ==
    ASSUME NEW s \in Seq(Byte), NEW t \in Seq(Byte)
    PROVE  SubSeq(s \o t, Len(s) + 1, Len(s) + Len(t)) = t
<1> DEFINE e == s \o t
           a == SubSeq(e, Len(s) + 1, Len(s) + Len(t))
<1>1. /\ e \in Seq(Byte) /\ Len(e) = Len(s) + Len(t)
      /\ \A k \in 1..Len(t) : e[Len(s) + k] = t[k]
  BY Cat
<1>2. Len(s) \in Nat /\ Len(t) \in Nat
  OBVIOUS
<1> HIDE DEF e
<1>3. /\ a \in Seq(Byte) /\ Len(a) = Len(t)
      /\ \A k \in 1..Len(a) : a[k] = e[Len(s) + k]
  BY <1>1, <1>2, Part
<1> HIDE DEF a
<1>4. a = t
  BY <1>1, <1>3, Same
<1> QED
  BY <1>4 DEF a, e

(* Two parts of a buffer that follow each other are one part.              *)
LEMMA Grown ==
    ASSUME NEW buf \in Seq(Byte), NEW i \in Nat, NEW j \in Nat,
           i <= j, j <= Len(buf)
    PROVE  SubSeq(buf, 1, i) \o SubSeq(buf, i + 1, j) = SubSeq(buf, 1, j)
<1> DEFINE s == SubSeq(buf, 1, i)
           t == SubSeq(buf, i + 1, j)
           e == s \o t
           f == SubSeq(buf, 1, j)
<1>1. Len(buf) \in Nat /\ i + 1 \in Nat \ {0} /\ 1 \in Nat \ {0} /\ i <= Len(buf)
  OBVIOUS
<1>2. /\ s \in Seq(Byte) /\ Len(s) = i
      /\ \A k \in 1..Len(s) : s[k] = buf[k]
  BY <1>1, Part
<1>3. /\ t \in Seq(Byte) /\ Len(t) = j - i
      /\ \A k \in 1..Len(t) : t[k] = buf[i + k]
  BY <1>1, Part
<1>4. /\ f \in Seq(Byte) /\ Len(f) = j
      /\ \A k \in 1..Len(f) : f[k] = buf[k]
  BY <1>1, Part
<1> HIDE DEF s, t, f
<1>5. /\ e \in Seq(Byte) /\ Len(e) = j
      /\ \A k \in 1..i : e[k] = s[k]
      /\ \A k \in 1..(j - i) : e[i + k] = t[k]
  <2>1. /\ e \in Seq(Byte) /\ Len(e) = Len(s) + Len(t)
        /\ \A k \in 1..Len(s) : e[k] = s[k]
        /\ \A k \in 1..Len(t) : e[Len(s) + k] = t[k]
    BY <1>2, <1>3, Cat, Zenon
  <2> HIDE DEF e
  <2> QED
    BY <1>2, <1>3, <2>1
<1> HIDE DEF e
<1>6. ASSUME NEW k \in 1..Len(e)
      PROVE  e[k] = f[k]
  <2>1. CASE k <= i
    BY <2>1, <1>2, <1>4, <1>5
  <2>2. CASE ~(k <= i)
    <3>1. k - i \in 1..(j - i) /\ i + (k - i) = k
      BY <2>2, <1>5
    <3>2. e[k] = t[k - i] /\ t[k - i] = buf[k]
      BY <1>3, <1>5, <3>1
    <3> QED
      BY <1>4, <1>5, <3>2
  <2> QED
    BY <2>1, <2>2
<1>7. e = f
  BY <1>4, <1>5, <1>6, Same
<1> QED
  BY <1>7 DEF e, f, s, t

(* One byte, and two, as a part of the buffer.                             *)
LEMMA OneByte ==
    ASSUME NEW buf \in Seq(Byte), NEW i \in 1..Len(buf)
    PROVE  buf[i] \in Byte /\ <<buf[i]>> = SubSeq(buf, i, i)
<1> DEFINE p == SubSeq(buf, i, i)
<1>1. i \in Nat \ {0} /\ i <= Len(buf) /\ Len(buf) \in Nat /\ buf[i] \in Byte
  OBVIOUS
<1>2. p \in Seq(Byte) /\ Len(p) = 1 /\ p[1] = buf[i]
  BY <1>1, Part
<1> HIDE DEF p
<1>3. <<buf[i]>> = p
  BY <1>1, <1>2
<1> QED
  BY <1>1, <1>3 DEF p

(* Two bytes of a buffer, and the buffer that they are.                    *)
LEMMA TwoBytes ==
    ASSUME NEW buf \in Seq(Byte), NEW i \in 1..(Len(buf) - 1)
    PROVE  /\ buf[i] \in Byte /\ buf[i + 1] \in Byte
           /\ <<buf[i], buf[i + 1]>> = SubSeq(buf, i, i + 1)
<1> DEFINE p == SubSeq(buf, i, i + 1)
<1>1. i \in Nat \ {0} /\ i + 1 \in Nat /\ i + 1 <= Len(buf) /\ Len(buf) \in Nat
  OBVIOUS
<1>2. buf[i] \in Byte /\ buf[i + 1] \in Byte
  BY <1>1
<1>3. p \in Seq(Byte) /\ Len(p) = 2 /\ p[1] = buf[i] /\ p[2] = buf[i + 1]
  BY <1>1, Part
<1> HIDE DEF p
<1>4. <<buf[i], buf[i + 1]>> = p
  BY <1>2, <1>3
<1> QED
  BY <1>2, <1>4 DEF p

(* Parts that are written one behind the other: each is found where the    *)
(* lengths of those before it put it.                                      *)
ThreeParts(a, b, c) ==
    LET e == a \o b \o c
        i == Len(a)
        j == i + Len(b)
    IN  /\ e \in Seq(Byte) /\ Len(e) = j + Len(c)
        /\ SubSeq(e, 1, i) = a
        /\ SubSeq(e, i + 1, j) = b
        /\ SubSeq(e, j + 1, j + Len(c)) = c

(* The same of a body written in four parts.                               *)
FourParts(a, b, c, d) ==
    LET e == a \o b \o c \o d
        i == Len(a)
        j == i + Len(b)
        k == j + Len(c)
    IN  /\ e \in Seq(Byte) /\ Len(e) = k + Len(d)
        /\ SubSeq(e, 1, i) = a
        /\ SubSeq(e, i + 1, j) = b
        /\ SubSeq(e, j + 1, k) = c
        /\ SubSeq(e, k + 1, k + Len(d)) = d

(* The same of a body written in five parts.                               *)
FiveParts(a, b, c, d, f) ==
    LET e == a \o b \o c \o d \o f
        i == Len(a)
        j == i + Len(b)
        k == j + Len(c)
        l == k + Len(d)
    IN  /\ e \in Seq(Byte) /\ Len(e) = l + Len(f)
        /\ SubSeq(e, 1, i) = a
        /\ SubSeq(e, i + 1, j) = b
        /\ SubSeq(e, j + 1, k) = c
        /\ SubSeq(e, k + 1, l) = d
        /\ SubSeq(e, l + 1, l + Len(f)) = f

(* The same of a body written in six parts.                                *)
SixParts(a, b, c, d, f, g) ==
    LET e == a \o b \o c \o d \o f \o g
        i == Len(a)
        j == i + Len(b)
        k == j + Len(c)
        l == k + Len(d)
        m == l + Len(f)
    IN  /\ e \in Seq(Byte) /\ Len(e) = m + Len(g)
        /\ SubSeq(e, 1, i) = a
        /\ SubSeq(e, i + 1, j) = b
        /\ SubSeq(e, j + 1, k) = c
        /\ SubSeq(e, k + 1, l) = d
        /\ SubSeq(e, l + 1, m) = f
        /\ SubSeq(e, m + 1, m + Len(g)) = g

(* Three parts.                                                           *)
LEMMA ThreePartsWritten ==
    ASSUME NEW a \in Seq(Byte), NEW b \in Seq(Byte), NEW c \in Seq(Byte)
    PROVE  ThreeParts(a, b, c)
<1> DEFINE e == a \o b \o c
           i == Len(a)
           j == i + Len(b)
<1>1. e \in Seq(Byte) /\ Len(e) = j + Len(c)
  BY SMT
<1>2. SubSeq(e, 1, i) = a
  BY SMT
<1>3. SubSeq(e, i + 1, j) = b
  BY SMT
<1>4. SubSeq(e, j + 1, j + Len(c)) = c
  BY SMT
<1> QED
  BY <1>1, <1>2, <1>3, <1>4, Zenon DEF ThreeParts

(* Four parts.                                                            *)
LEMMA FourPartsWritten ==
    ASSUME NEW a \in Seq(Byte), NEW b \in Seq(Byte), NEW c \in Seq(Byte),
           NEW d \in Seq(Byte)
    PROVE  FourParts(a, b, c, d)
<1> DEFINE e == a \o b \o c \o d
           i == Len(a)
           j == i + Len(b)
           k == j + Len(c)
<1>1. e \in Seq(Byte) /\ Len(e) = k + Len(d)
  BY SMT
<1>2. SubSeq(e, 1, i) = a
  BY SMT
<1>3. SubSeq(e, i + 1, j) = b
  BY SMT
<1>4. SubSeq(e, j + 1, k) = c
  BY SMT
<1>5. SubSeq(e, k + 1, k + Len(d)) = d
  BY SMT
<1> QED
  BY <1>1, <1>2, <1>3, <1>4, <1>5, Zenon DEF FourParts

(* Five parts.                                                            *)
LEMMA FivePartsWritten ==
    ASSUME NEW a \in Seq(Byte), NEW b \in Seq(Byte), NEW c \in Seq(Byte),
           NEW d \in Seq(Byte), NEW f \in Seq(Byte)
    PROVE  FiveParts(a, b, c, d, f)
<1> DEFINE e == a \o b \o c \o d \o f
           i == Len(a)
           j == i + Len(b)
           k == j + Len(c)
           l == k + Len(d)
<1>1. e \in Seq(Byte) /\ Len(e) = l + Len(f)
  BY SMT
<1>2. SubSeq(e, 1, i) = a
  BY SMT
<1>3. SubSeq(e, i + 1, j) = b
  BY SMT
<1>4. SubSeq(e, j + 1, k) = c
  BY SMT
<1>5. SubSeq(e, k + 1, l) = d
  BY SMT
<1>6. SubSeq(e, l + 1, l + Len(f)) = f
  BY SMT
<1> QED
  BY <1>1, <1>2, <1>3, <1>4, <1>5, <1>6, Zenon DEF FiveParts

(* Six parts.                                                             *)
LEMMA SixPartsWritten ==
    ASSUME NEW a \in Seq(Byte), NEW b \in Seq(Byte), NEW c \in Seq(Byte),
           NEW d \in Seq(Byte), NEW f \in Seq(Byte), NEW g \in Seq(Byte)
    PROVE  SixParts(a, b, c, d, f, g)
<1> DEFINE e == a \o b \o c \o d \o f \o g
           i == Len(a)
           j == i + Len(b)
           k == j + Len(c)
           l == k + Len(d)
           m == l + Len(f)
<1>1. e \in Seq(Byte) /\ Len(e) = m + Len(g)
  BY SMT
<1>2. SubSeq(e, 1, i) = a
  BY SMT
<1>3. SubSeq(e, i + 1, j) = b
  BY SMT
<1>4. SubSeq(e, j + 1, k) = c
  BY SMT
<1>5. SubSeq(e, k + 1, l) = d
  BY SMT
<1>6. SubSeq(e, l + 1, m) = f
  BY SMT
<1>7. SubSeq(e, m + 1, m + Len(g)) = g
  BY SMT
<1> QED
  BY <1>1, <1>2, <1>3, <1>4, <1>5, <1>6, <1>7, Zenon DEF SixParts

(* An optional array is a buffer too, of its length or empty.               *)
LEMMA OptionIsBuffer ==
    ASSUME NEW n \in Nat, NEW a \in Option(Bytes(n))
    PROVE  a \in Seq(Byte) /\ (a = <<>> \/ Len(a) = n)
<1>1. CASE a = <<>>
  BY <1>1
<1>2. CASE a \in Bytes(n)
  BY <1>2, ArrayIsBuffer, Zenon
<1> QED
  BY <1>1, <1>2, Zenon DEF Option

(* A byte, and a word, read where it was written.                          *)
LEMMA ByteAt ==
    ASSUME NEW buf \in Seq(Byte), NEW i \in 1..Len(buf), NEW b,
           SubSeq(buf, i, i) = <<b>>
    PROVE  buf[i] = b
<1>1. <<buf[i]>> = SubSeq(buf, i, i)
  BY OneByte, Zenon
<1>2. <<buf[i]>> = <<b>>
  BY <1>1, Zenon
<1>3. <<buf[i]>>[1] = <<b>>[1]
  BY <1>2, Zenon
<1> QED
  BY <1>3, SMT

(* read_u16_be gives back the word whose bytes lie there.                  *)
LEMMA WordAt ==
    ASSUME NEW buf \in Seq(Byte), NEW i \in 1..(Len(buf) - 1), NEW n \in U16,
           SubSeq(buf, i, i + 1) = be16(n)
    PROVE  u16(buf, i) = n
<1> DEFINE a == n \div 256
           b == n % 256
<1>1. be16(n) = <<a, b>> /\ 256 * a + b = n
  BY WordWritten, SMT
<1>2. <<buf[i], buf[i + 1]>> = SubSeq(buf, i, i + 1)
  BY TwoBytes, Zenon
<1> HIDE DEF a, b
<1>3. <<buf[i], buf[i + 1]>> = <<a, b>>
  BY <1>1, <1>2, Zenon
<1>4. <<buf[i], buf[i + 1]>>[1] = <<a, b>>[1] /\ <<buf[i], buf[i + 1]>>[2] = <<a, b>>[2]
  BY <1>3, Zenon
<1>5. buf[i] = a /\ buf[i + 1] = b
  BY <1>4, SMT
<1> QED
  BY <1>1, <1>5, Zenon DEF u16

(* The bytes of a word are a buffer of two.                                *)
LEMMA WordIsBuffer ==
    ASSUME NEW n \in U16
    PROVE  be16(n) \in Seq(Byte) /\ Len(be16(n)) = 2
<1> DEFINE a == n \div 256
           b == n % 256
<1>1. be16(n) = <<a, b>> /\ a \in Byte /\ b \in Byte
  BY WordWritten, SMT
<1> HIDE DEF a, b
<1> QED
  BY <1>1, SMT

(* A word as part of the buffer it was read from.                          *)
LEMMA WordBack ==
    ASSUME NEW buf \in Seq(Byte), NEW i \in 1..(Len(buf) - 1)
    PROVE  u16(buf, i) \in U16 /\ be16(u16(buf, i)) = SubSeq(buf, i, i + 1)
<1> DEFINE a == buf[i]
           b == buf[i + 1]
<1>1. a \in Byte /\ b \in Byte /\ <<a, b>> = SubSeq(buf, i, i + 1)
  BY TwoBytes, Zenon
<1>2. u16(buf, i) = 256 * a + b
  BY Zenon DEF u16
<1> HIDE DEF a, b
<1>3. /\ 256 * a + b \in U16
      /\ (256 * a + b) \div 256 = a /\ (256 * a + b) % 256 = b
  BY <1>1, WordRead, SMT
<1> QED
  BY <1>1, <1>2, <1>3, Zenon DEF be16

(* EntityStatusResponse::encode, then decode: max_open_sockets and the     *)
(* optional max_data_size come back.                                       *)
LEMMA EntityStatusResponseWritten ==
    ASSUME NEW p \in EntityStatusResponses
    PROVE  /\ EntityStatusResponseEncode(p) \in Seq(Byte)
           /\ Len(EntityStatusResponseEncode(p)) = 7
           /\ EntityStatusResponseDecode(EntityStatusResponseEncode(p)) = Ok(p)
<1> DEFINE node == p.node_type
           most == p.max_concurrent_tcp_sockets
           open == p.open_tcp_sockets
           high == p.max_data_size[1]
           low == p.max_data_size[2]
           node_byte == byte_of(NodeTypeInto, node)
           a == <<node_byte>>
           b == <<most>>
           c == <<open>>
           d == be16(high)
           f == be16(low)
           e == a \o b \o c \o d \o f
<1>1. p = [kind |-> "EntityStatusResponse", node_type |-> node,
           max_concurrent_tcp_sockets |-> most, open_tcp_sockets |-> open,
           max_data_size |-> <<high, low>>]
  BY DEF EntityStatusResponses
<1>2. /\ node \in {EntityStatusNodeType(n) : n \in Byte} /\ most \in Byte
      /\ open \in Byte /\ high \in U16 /\ low \in U16
  BY DEF EntityStatusResponses
<1>3. EntityStatusResponseEncode(p) = e
  BY Zenon DEF EntityStatusResponseEncode
<1> HIDE DEF node, most, open, high, low
<1>4. node_byte \in Byte /\ EntityStatusNodeType(node_byte) = node
  BY <1>2, NodeTypeKept, Zenon
<1> HIDE DEF node_byte
<1>5. d \in Seq(Byte) /\ Len(d) = 2 /\ f \in Seq(Byte) /\ Len(f) = 2
  BY <1>2, WordIsBuffer, Zenon
<1>6. /\ a \in Seq(Byte) /\ Len(a) = 1 /\ b \in Seq(Byte) /\ Len(b) = 1
      /\ c \in Seq(Byte) /\ Len(c) = 1
  BY <1>2, <1>4, SMT
<1>7. /\ a \in Seq(Byte) /\ b \in Seq(Byte) /\ c \in Seq(Byte)
      /\ d \in Seq(Byte) /\ f \in Seq(Byte)
  BY <1>5, <1>6, Zenon
<1>8. Len(a) = 1 /\ Len(b) = 1 /\ Len(c) = 1 /\ Len(d) = 2 /\ Len(f) = 2
  BY <1>7, <1>5, <1>6, SMT
<1>9. /\ a = <<node_byte>> /\ b = <<most>> /\ c = <<open>> /\ d = be16(high)
      /\ f = be16(low)
  OBVIOUS
<1> HIDE DEF a, b, c, d, f
<1>10. FiveParts(a, b, c, d, f)
  BY <1>7, FivePartsWritten, Zenon
<1>11. /\ e \in Seq(Byte)
       /\ Len(e) = Len(a) + Len(b) + Len(c) + Len(d) + Len(f)
       /\ SubSeq(e, 1, Len(a)) = a
       /\ SubSeq(e, Len(a) + 1, Len(a) + Len(b)) = b
       /\ SubSeq(e, Len(a) + Len(b) + 1, Len(a) + Len(b) + Len(c)) = c
       /\ SubSeq(e, Len(a) + Len(b) + Len(c) + 1,
                 Len(a) + Len(b) + Len(c) + Len(d)) = d
       /\ SubSeq(e, Len(a) + Len(b) + Len(c) + Len(d) + 1,
                 Len(a) + Len(b) + Len(c) + Len(d) + Len(f)) = f
  BY <1>10, Zenon DEF FiveParts
<1> HIDE DEF e
<1>12. /\ e \in Seq(Byte) /\ Len(e) = 7 /\ ~(Len(e) < 7)
       /\ SubSeq(e, 1, 1) = a /\ SubSeq(e, 2, 2) = b /\ SubSeq(e, 3, 3) = c
       /\ SubSeq(e, 4, 4 + 1) = d /\ SubSeq(e, 6, 6 + 1) = f
  BY <1>8, <1>11, SMT
<1>13. /\ 1 \in 1..Len(e) /\ 2 \in 1..Len(e) /\ 3 \in 1..Len(e)
       /\ 4 \in 1..(Len(e) - 1) /\ 6 \in 1..(Len(e) - 1)
  BY <1>8, <1>12, SMT
<1>14. u16(e, 4) = high /\ u16(e, 6) = low
  BY <1>2, <1>9, <1>12, <1>13, WordAt, Zenon
<1>15. e[1] = node_byte /\ e[2] = most /\ e[3] = open
  BY <1>9, <1>12, <1>13, ByteAt, Zenon
<1>16. EntityStatusResponseDecode(e) = Ok(p)
  BY <1>1, <1>4, <1>12, <1>14, <1>15, Zenon DEF EntityStatusResponseDecode, Body
<1> QED
  BY <1>3, <1>12, <1>16, Zenon

(* DiagnosticMessage::encode, then decode: both addresses and the user     *)
(* data come back.                                                         *)
LEMMA DiagnosticMessageWritten ==
    ASSUME NEW p \in DiagnosticMessages
    PROVE  /\ DiagnosticMessageEncode(p) \in Seq(Byte)
           /\ Len(DiagnosticMessageEncode(p)) = 4 + Len(p.user_data)
           /\ DiagnosticMessageDecode(DiagnosticMessageEncode(p)) = Ok(p)
<1> DEFINE source == p.source_address
           target == p.target_address
           data == p.user_data
           a == be16(source)
           b == be16(target)
           e == a \o b \o data
<1>1. p = [kind |-> "DiagnosticMessage", source_address |-> source,
           target_address |-> target, user_data |-> data]
  BY DEF DiagnosticMessages
<1>2. source \in U16 /\ target \in U16 /\ data \in Seq(Byte)
  BY DEF DiagnosticMessages
<1>3. DiagnosticMessageEncode(p) = e
  BY Zenon DEF DiagnosticMessageEncode
<1> HIDE DEF source, target, data
<1>4. a \in Seq(Byte) /\ Len(a) = 2 /\ b \in Seq(Byte) /\ Len(b) = 2
  BY <1>2, WordIsBuffer, Zenon
<1>5. a \in Seq(Byte) /\ b \in Seq(Byte) /\ data \in Seq(Byte)
  BY <1>2, <1>4, Zenon
<1>6. Len(a) = 2 /\ Len(b) = 2 /\ Len(data) \in Nat
  BY <1>5, <1>4, SMT
<1>7. a = be16(source) /\ b = be16(target)
  OBVIOUS
<1> HIDE DEF a, b
<1>8. ThreeParts(a, b, data)
  BY <1>5, ThreePartsWritten, Zenon
<1>9. /\ e \in Seq(Byte) /\ Len(e) = Len(a) + Len(b) + Len(data)
      /\ SubSeq(e, 1, Len(a)) = a
      /\ SubSeq(e, Len(a) + 1, Len(a) + Len(b)) = b
      /\ SubSeq(e, Len(a) + Len(b) + 1, Len(a) + Len(b) + Len(data)) = data
  BY <1>8, Zenon DEF ThreeParts
<1> HIDE DEF e
<1>10. /\ e \in Seq(Byte) /\ Len(e) = 4 + Len(data) /\ ~(Len(e) < 4)
       /\ SubSeq(e, 1, 1 + 1) = a /\ SubSeq(e, 3, 3 + 1) = b
       /\ SubSeq(e, 5, Len(e)) = data
  BY <1>6, <1>9, SMT
<1>11. 1 \in 1..(Len(e) - 1) /\ 3 \in 1..(Len(e) - 1)
  BY <1>6, <1>10, SMT
<1>12. u16(e, 1) = source /\ u16(e, 3) = target
  BY <1>2, <1>7, <1>10, <1>11, WordAt, Zenon
<1>13. DiagnosticMessageDecode(e) = Ok(p)
  BY <1>1, <1>10, <1>12, Zenon DEF DiagnosticMessageDecode, Body
<1> QED
  BY <1>3, <1>10, <1>13, Zenon DEF data

(* DiagnosticMessageAck::encode, then decode: the addresses, the code and  *)
(* the previous message data come back.                                    *)
LEMMA DiagnosticMessageAckWritten ==
    ASSUME NEW p \in DiagnosticMessageAcks
    PROVE  /\ DiagnosticMessageAckEncode(p) \in Seq(Byte)
           /\ Len(DiagnosticMessageAckEncode(p)) = 5 + Len(p.previous_message_data)
           /\ DiagnosticMessageAckDecode(DiagnosticMessageAckEncode(p)) = Ok(p)
<1> DEFINE source == p.source_address
           target == p.target_address
           ack == p.ack_code
           data == p.previous_message_data
           ack_byte == byte_of(AckCodeInto, ack)
           a == be16(source)
           b == be16(target)
           c == <<ack_byte>>
           e == a \o b \o c \o data
<1>1. p = [kind |-> "DiagnosticMessageAck", source_address |-> source,
           target_address |-> target, ack_code |-> ack,
           previous_message_data |-> data]
  BY DEF DiagnosticMessageAcks
<1>2. /\ source \in U16 /\ target \in U16
      /\ ack \in {DiagnosticAckCode(n) : n \in Byte} /\ data \in Seq(Byte)
  BY DEF DiagnosticMessageAcks
<1>3. DiagnosticMessageAckEncode(p) = e
  BY Zenon DEF DiagnosticMessageAckEncode
<1> HIDE DEF source, target, ack, data
<1>4. ack_byte \in Byte /\ DiagnosticAckCode(ack_byte) = ack
  BY <1>2, AckCodeKept, Zenon
<1> HIDE DEF ack_byte
<1>5. a \in Seq(Byte) /\ Len(a) = 2 /\ b \in Seq(Byte) /\ Len(b) = 2
  BY <1>2, WordIsBuffer, Zenon
<1>6. c \in Seq(Byte) /\ Len(c) = 1
  BY <1>2, <1>4, SMT
<1>7. /\ a \in Seq(Byte) /\ b \in Seq(Byte) /\ c \in Seq(Byte)
      /\ data \in Seq(Byte)
  BY <1>2, <1>5, <1>6, Zenon
<1>8. Len(a) = 2 /\ Len(b) = 2 /\ Len(c) = 1 /\ Len(data) \in Nat
  BY <1>7, <1>5, <1>6, SMT
<1>9. a = be16(source) /\ b = be16(target) /\ c = <<ack_byte>>
  OBVIOUS
<1> HIDE DEF a, b, c
<1>10. FourParts(a, b, c, data)
  BY <1>7, FourPartsWritten, Zenon
<1>11. /\ e \in Seq(Byte) /\ Len(e) = Len(a) + Len(b) + Len(c) + Len(data)
       /\ SubSeq(e, 1, Len(a)) = a
       /\ SubSeq(e, Len(a) + 1, Len(a) + Len(b)) = b
       /\ SubSeq(e, Len(a) + Len(b) + 1, Len(a) + Len(b) + Len(c)) = c
       /\ SubSeq(e, Len(a) + Len(b) + Len(c) + 1,
                 Len(a) + Len(b) + Len(c) + Len(data)) = data
  BY <1>10, Zenon DEF FourParts
<1> HIDE DEF e
<1>12. /\ e \in Seq(Byte) /\ Len(e) = 5 + Len(data) /\ ~(Len(e) < 5)
       /\ SubSeq(e, 1, 1 + 1) = a /\ SubSeq(e, 3, 3 + 1) = b
       /\ SubSeq(e, 5, 5) = c /\ SubSeq(e, 6, Len(e)) = data
  BY <1>8, <1>11, SMT
<1>13. 1 \in 1..(Len(e) - 1) /\ 3 \in 1..(Len(e) - 1) /\ 5 \in 1..Len(e)
  BY <1>8, <1>12, SMT
<1>14. u16(e, 1) = source /\ u16(e, 3) = target
  BY <1>2, <1>9, <1>12, <1>13, WordAt, Zenon
<1>15. e[5] = ack_byte
  BY <1>9, <1>12, <1>13, ByteAt, Zenon
<1>16. DiagnosticMessageAckDecode(e) = Ok(p)
  BY <1>1, <1>4, <1>12, <1>14, <1>15, Zenon DEF DiagnosticMessageAckDecode, Body
<1> QED
  BY <1>3, <1>12, <1>16, Zenon DEF data

(* RoutingActivationRequest::encode, then decode: the activation type and  *)
(* the optional manufacturer bytes come back.                              *)
LEMMA RoutingActivationRequestWritten ==
    ASSUME NEW p \in RoutingActivationRequests
    PROVE  /\ RoutingActivationRequestEncode(p) \in Seq(Byte)
           /\ Len(RoutingActivationRequestEncode(p)) =
                  7 + Len(p.reserved_vehicle_manufacturer)
           /\ RoutingActivationRequestDecode(RoutingActivationRequestEncode(p)) =
                  Ok(p)
<1> DEFINE source == p.source_address
           activation == p.activation_type
           reserved == p.reserved
           maker == p.reserved_vehicle_manufacturer
           activation_byte == byte_of(ActivationTypeInto, activation)
           a == be16(source)
           b == <<activation_byte>>
           e == a \o b \o reserved \o maker
<1>1. p = [kind |-> "RoutingActivationRequest", source_address |-> source,
           activation_type |-> activation, reserved |-> reserved,
           reserved_vehicle_manufacturer |-> maker]
  BY DEF RoutingActivationRequests
<1>2. /\ source \in U16 /\ activation \in {ActivationTypeCode(n) : n \in Byte}
      /\ reserved \in Bytes(4) /\ maker \in Option(Bytes(4))
  BY DEF RoutingActivationRequests
<1>3. RoutingActivationRequestEncode(p) = e
  BY Zenon DEF RoutingActivationRequestEncode
<1> HIDE DEF source, activation, reserved, maker
<1>4. activation_byte \in Byte /\ ActivationTypeCode(activation_byte) = activation
  BY <1>2, ActivationTypeKept, Zenon
<1> HIDE DEF activation_byte
<1>5. 4 \in Nat
  OBVIOUS
<1>6. reserved \in Seq(Byte) /\ Len(reserved) = 4
  BY <1>2, <1>5, ArrayIsBuffer, Zenon
<1>7. maker \in Seq(Byte) /\ (maker = <<>> \/ Len(maker) = 4)
  BY <1>2, <1>5, OptionIsBuffer, Zenon
<1>8. a \in Seq(Byte) /\ Len(a) = 2
  BY <1>2, WordIsBuffer, Zenon
<1>9. b \in Seq(Byte) /\ Len(b) = 1
  BY <1>2, <1>4, SMT
<1>10. /\ a \in Seq(Byte) /\ b \in Seq(Byte) /\ reserved \in Seq(Byte)
       /\ maker \in Seq(Byte)
  BY <1>8, <1>9, <1>6, <1>7, Zenon
<1>11. /\ Len(a) = 2 /\ Len(b) = 1 /\ Len(reserved) = 4 /\ Len(maker) \in Nat
       /\ (maker = <<>> => Len(maker) = 0)
  BY <1>10, <1>8, <1>9, <1>6, <1>7, SMT
<1>12. a = be16(source) /\ b = <<activation_byte>>
  OBVIOUS
<1> HIDE DEF a, b
<1>13. FourParts(a, b, reserved, maker)
  BY <1>10, FourPartsWritten, Zenon
<1>14. /\ e \in Seq(Byte)
       /\ Len(e) = Len(a) + Len(b) + Len(reserved) + Len(maker)
       /\ SubSeq(e, 1, Len(a)) = a
       /\ SubSeq(e, Len(a) + 1, Len(a) + Len(b)) = b
       /\ SubSeq(e, Len(a) + Len(b) + 1,
                 Len(a) + Len(b) + Len(reserved)) = reserved
       /\ SubSeq(e, Len(a) + Len(b) + Len(reserved) + 1,
                 Len(a) + Len(b) + Len(reserved) + Len(maker)) = maker
  BY <1>13, Zenon DEF FourParts
<1> HIDE DEF e
<1>15. /\ e \in Seq(Byte) /\ Len(e) = 7 + Len(maker) /\ ~(Len(e) < 7)
       /\ SubSeq(e, 1, 1 + 1) = a /\ SubSeq(e, 3, 3) = b
       /\ SubSeq(e, 4, 4 + 4 - 1) = reserved /\ SubSeq(e, 8, Len(e)) = maker
  BY <1>11, <1>14, SMT
<1>16. 1 \in 1..(Len(e) - 1) /\ 3 \in 1..Len(e)
  BY <1>11, <1>15, SMT
<1>17. u16(e, 1) = source
  BY <1>2, <1>12, <1>15, <1>16, WordAt, Zenon
<1>18. e[3] = activation_byte
  BY <1>12, <1>15, <1>16, ByteAt, Zenon
<1>19. optional_array(e, 8, 4) = maker
  <2>1. CASE maker = <<>>
    <3>1. Len(e) < 8 + 4 - 1
      BY <1>11, <1>15, <2>1, SMT
    <3> QED
      BY <2>1, <3>1, Zenon DEF optional_array
  <2>2. CASE Len(maker) = 4
    <3>1. ~(Len(e) < 8 + 4 - 1) /\ SubSeq(e, 8, 8 + 4 - 1) = maker
      BY <1>15, <2>2, SMT
    <3> QED
      BY <3>1, Zenon DEF optional_array, array
  <2> QED
    BY <1>7, <2>1, <2>2, Zenon
<1>20. RoutingActivationRequestDecode(e) = Ok(p)
  BY <1>1, <1>4, <1>15, <1>17, <1>18, <1>19, Zenon
  DEF RoutingActivationRequestDecode, Body, array
<1> QED
  BY <1>3, <1>15, <1>20, Zenon DEF maker

(* RoutingActivationResponse::encode, then decode: both addresses, the     *)
(* code and the optional OEM bytes come back.                              *)
LEMMA RoutingActivationResponseWritten ==
    ASSUME NEW p \in RoutingActivationResponses
    PROVE  /\ RoutingActivationResponseEncode(p) \in Seq(Byte)
           /\ Len(RoutingActivationResponseEncode(p)) = 9 + Len(p.oem_specific)
           /\ RoutingActivationResponseDecode(RoutingActivationResponseEncode(p)) =
                  Ok(p)
<1> DEFINE tester == p.logical_address_tester
           entity == p.logical_address_of_doip_entity
           response == p.routing_activation_response_code
           reserved == p.reserved_oem
           oem == p.oem_specific
           response_byte == byte_of(ResponseCodeInto, response)
           a == be16(tester)
           b == be16(entity)
           c == <<response_byte>>
           e == a \o b \o c \o reserved \o oem
<1>1. p = [kind |-> "RoutingActivationResponse",
           logical_address_tester |-> tester,
           logical_address_of_doip_entity |-> entity,
           routing_activation_response_code |-> response,
           reserved_oem |-> reserved, oem_specific |-> oem]
  BY DEF RoutingActivationResponses
<1>2. /\ tester \in U16 /\ entity \in U16
      /\ response \in {RoutingActivationResponseCode(n) : n \in Byte}
      /\ reserved \in Bytes(4) /\ oem \in Option(Bytes(4))
  BY DEF RoutingActivationResponses
<1>3. RoutingActivationResponseEncode(p) = e
  BY Zenon DEF RoutingActivationResponseEncode
<1> HIDE DEF tester, entity, response, reserved, oem
<1>4. response_byte \in Byte /\ RoutingActivationResponseCode(response_byte) = response
  BY <1>2, ResponseCodeKept, Zenon
<1> HIDE DEF response_byte
<1>5. 4 \in Nat
  OBVIOUS
<1>6. reserved \in Seq(Byte) /\ Len(reserved) = 4
  BY <1>2, <1>5, ArrayIsBuffer, Zenon
<1>7. oem \in Seq(Byte) /\ (oem = <<>> \/ Len(oem) = 4)
  BY <1>2, <1>5, OptionIsBuffer, Zenon
<1>8. a \in Seq(Byte) /\ Len(a) = 2 /\ b \in Seq(Byte) /\ Len(b) = 2
  BY <1>2, WordIsBuffer, Zenon
<1>9. c \in Seq(Byte) /\ Len(c) = 1
  BY <1>2, <1>4, SMT
<1>10. /\ a \in Seq(Byte) /\ b \in Seq(Byte) /\ c \in Seq(Byte)
       /\ reserved \in Seq(Byte) /\ oem \in Seq(Byte)
  BY <1>8, <1>9, <1>6, <1>7, Zenon
<1>11. /\ Len(a) = 2 /\ Len(b) = 2 /\ Len(c) = 1 /\ Len(reserved) = 4
       /\ Len(oem) \in Nat /\ (oem = <<>> => Len(oem) = 0)
  BY <1>10, <1>8, <1>9, <1>6, <1>7, SMT
<1>12. a = be16(tester) /\ b = be16(entity) /\ c = <<response_byte>>
  OBVIOUS
<1> HIDE DEF a, b, c
<1>13. FiveParts(a, b, c, reserved, oem)
  BY <1>10, FivePartsWritten, Zenon
<1>14. /\ e \in Seq(Byte)
       /\ Len(e) = Len(a) + Len(b) + Len(c) + Len(reserved) + Len(oem)
       /\ SubSeq(e, 1, Len(a)) = a
       /\ SubSeq(e, Len(a) + 1, Len(a) + Len(b)) = b
       /\ SubSeq(e, Len(a) + Len(b) + 1, Len(a) + Len(b) + Len(c)) = c
       /\ SubSeq(e, Len(a) + Len(b) + Len(c) + 1,
                 Len(a) + Len(b) + Len(c) + Len(reserved)) = reserved
       /\ SubSeq(e, Len(a) + Len(b) + Len(c) + Len(reserved) + 1,
                 Len(a) + Len(b) + Len(c) + Len(reserved) + Len(oem)) = oem
  BY <1>13, Zenon DEF FiveParts
<1> HIDE DEF e
<1>15. /\ e \in Seq(Byte) /\ Len(e) = 9 + Len(oem) /\ ~(Len(e) < 9)
       /\ SubSeq(e, 1, 1 + 1) = a /\ SubSeq(e, 3, 3 + 1) = b
       /\ SubSeq(e, 5, 5) = c /\ SubSeq(e, 6, 6 + 4 - 1) = reserved
       /\ SubSeq(e, 10, Len(e)) = oem
  BY <1>11, <1>14, SMT
<1>16. 1 \in 1..(Len(e) - 1) /\ 3 \in 1..(Len(e) - 1) /\ 5 \in 1..Len(e)
  BY <1>11, <1>15, SMT
<1>17. u16(e, 1) = tester /\ u16(e, 3) = entity
  BY <1>2, <1>12, <1>15, <1>16, WordAt, Zenon
<1>18. e[5] = response_byte
  BY <1>12, <1>15, <1>16, ByteAt, Zenon
<1>19. optional_array(e, 10, 4) = oem
  <2>1. CASE oem = <<>>
    <3>1. Len(e) < 10 + 4 - 1
      BY <1>11, <1>15, <2>1, SMT
    <3> QED
      BY <2>1, <3>1, Zenon DEF optional_array
  <2>2. CASE Len(oem) = 4
    <3>1. ~(Len(e) < 10 + 4 - 1) /\ SubSeq(e, 10, 10 + 4 - 1) = oem
      BY <1>15, <2>2, SMT
    <3> QED
      BY <3>1, Zenon DEF optional_array, array
  <2> QED
    BY <1>7, <2>1, <2>2, Zenon
<1>20. RoutingActivationResponseDecode(e) = Ok(p)
  BY <1>1, <1>4, <1>15, <1>17, <1>18, <1>19, Zenon
  DEF RoutingActivationResponseDecode, Body, array
<1> QED
  BY <1>3, <1>15, <1>20, Zenon DEF oem

(* An array, and an optional one, as part of the buffer it was read from.  *)
LEMMA ArrayBack ==
    ASSUME NEW buf \in Seq(Byte), NEW i \in Nat \ {0}, NEW n \in Nat,
           i + n - 1 <= Len(buf)
    PROVE  array(buf, i, n) \in Bytes(n)
<1> DEFINE j == i + n - 1
           a == SubSeq(buf, i, j)
<1>1. j \in Nat /\ j <= Len(buf) /\ n = IF i <= j THEN j - i + 1 ELSE 0
  BY SMT
<1>2. a \in Seq(Byte) /\ Len(a) = n
  BY <1>1, Part, SMT
<1> HIDE DEF a
<1>3. a \in Bytes(n)
  BY <1>2, BufferIsArray, Zenon
<1> QED
  BY <1>3, Zenon DEF array, a, j

(* A part of n bytes behind the first i, or of none if they are not there. *)
OptionalPart(buf, i, n) ==
    LET a == optional_array(buf, i + 1, n)
        size == IF Len(buf) < i + n THEN i ELSE i + n
    IN  /\ a \in Option(Bytes(n))
        /\ size \in Nat /\ i <= size /\ size <= Len(buf)
        /\ a = SubSeq(buf, i + 1, size)

(* It is there, or it is absent and the body ends before it.               *)
LEMMA OptionBack ==
    ASSUME NEW buf \in Seq(Byte), NEW i \in Nat, i <= Len(buf),
           NEW n \in Nat \ {0}
    PROVE  OptionalPart(buf, i, n)
<1> DEFINE a == optional_array(buf, i + 1, n)
           size == IF Len(buf) < i + n THEN i ELSE i + n
<1>1. /\ Len(buf) \in Nat /\ i + 1 \in Nat \ {0} /\ n \in Nat
      /\ i + 1 + n - 1 = i + n
  OBVIOUS
<1>2. size \in Nat /\ i <= size /\ size <= Len(buf)
  BY <1>1, SMT
<1>3. CASE Len(buf) < i + n
  <2>1. a = <<>> /\ size = i
    BY <1>1, <1>3, Zenon DEF optional_array
  <2>2. SubSeq(buf, i + 1, i) = <<>>
    BY SMT
  <2> QED
    BY <1>2, <2>1, <2>2, Zenon DEF Option, OptionalPart
<1>4. CASE ~(Len(buf) < i + n)
  <2>1. i + 1 + n - 1 <= Len(buf)
    BY <1>1, <1>4, SMT
  <2>2. array(buf, i + 1, n) \in Bytes(n)
    BY <1>1, <2>1, ArrayBack, Zenon
  <2>3. a = array(buf, i + 1, n) /\ array(buf, i + 1, n) = SubSeq(buf, i + 1, size)
    BY <1>1, <1>4, Zenon DEF optional_array, array
  <2> QED
    BY <1>2, <2>2, <2>3, Zenon DEF Option, OptionalPart
<1> QED
  BY <1>3, <1>4, Zenon

(* EntityStatusResponse::decode of any buffer that is long enough, then    *)
(* encode: the bytes that were read come back.                             *)
LEMMA EntityStatusResponseRead ==
    ASSUME NEW buf \in Seq(Byte), Len(buf) >= 7
    PROVE  \E p \in EntityStatusResponses :
               /\ EntityStatusResponseDecode(buf) = Ok(p)
               /\ EntityStatusResponseEncode(p) =
                      SubSeq(buf, 1, 7)
<1> DEFINE node == EntityStatusNodeType(buf[1])
           most == buf[2]
           open == buf[3]
           high == u16(buf, 4)
           low == u16(buf, 6)
           p == [kind |-> "EntityStatusResponse", node_type |-> node,
                 max_concurrent_tcp_sockets |-> most,
                 open_tcp_sockets |-> open, max_data_size |-> <<high, low>>]
<1>1. /\ Len(buf) \in Nat /\ ~(Len(buf) < 7) /\ 1 \in 1..Len(buf)
      /\ 2 \in 1..Len(buf) /\ 3 \in 1..Len(buf) /\ 4 \in 1..(Len(buf) - 1)
      /\ 6 \in 1..(Len(buf) - 1)
  BY SMT
<1>2. EntityStatusResponseDecode(buf) = Ok(p)
  BY <1>1, Zenon DEF EntityStatusResponseDecode, Body
<1>3. /\ node \in {EntityStatusNodeType(n) : n \in Byte}
      /\ <<byte_of(NodeTypeInto, node)>> = SubSeq(buf, 1, 1)
  <2>1. buf[1] \in Byte /\ <<buf[1]>> = SubSeq(buf, 1, 1)
    BY <1>1, OneByte, Zenon
  <2> QED
    BY <2>1, NodeTypeKept, Zenon
<1>4. most \in Byte /\ <<most>> = SubSeq(buf, 2, 2)
  BY <1>1, OneByte, Zenon
<1>5. open \in Byte /\ <<open>> = SubSeq(buf, 3, 3)
  BY <1>1, OneByte, Zenon
<1>6. high \in U16 /\ be16(high) = SubSeq(buf, 4, 4 + 1)
  BY <1>1, WordBack, Zenon
<1>7. low \in U16 /\ be16(low) = SubSeq(buf, 6, 6 + 1)
  BY <1>1, WordBack, Zenon
<1> HIDE DEF node, most, open, high, low
<1>8. SubSeq(buf, 1, 1) \o SubSeq(buf, 1 + 1, 2) = SubSeq(buf, 1, 2)
  BY <1>1, Grown, SMT
<1>9. SubSeq(buf, 1, 2) \o SubSeq(buf, 2 + 1, 3) = SubSeq(buf, 1, 3)
  BY <1>1, Grown, SMT
<1>10. SubSeq(buf, 1, 3) \o SubSeq(buf, 3 + 1, 5) = SubSeq(buf, 1, 5)
  BY <1>1, Grown, SMT
<1>11. SubSeq(buf, 1, 5) \o SubSeq(buf, 5 + 1, 7) = SubSeq(buf, 1, 7)
  BY <1>1, Grown, SMT
<1>12. <<byte_of(NodeTypeInto, node)>> \o <<most>>
          \o <<open>> \o be16(high) \o be16(low)
          = SubSeq(buf, 1, 7)
  BY <1>3, <1>4, <1>5, <1>6, <1>7, <1>8, <1>9, <1>10, <1>11, SMT
<1>13. p \in EntityStatusResponses
  BY <1>3, <1>4, <1>5, <1>6, <1>7 DEF EntityStatusResponses
<1>14. /\ p.node_type = node /\ p.max_concurrent_tcp_sockets = most
       /\ p.open_tcp_sockets = open /\ p.max_data_size[1] = high
       /\ p.max_data_size[2] = low
  OBVIOUS
<1> HIDE DEF p
<1>15. EntityStatusResponseEncode(p) = SubSeq(buf, 1, 7)
  BY <1>12, <1>14, Zenon DEF EntityStatusResponseEncode
<1> QED
  BY <1>2, <1>13, <1>15, Zenon

(* DiagnosticMessage::decode of any buffer that is long enough, then       *)
(* encode: the bytes that were read come back.                             *)
LEMMA DiagnosticMessageRead ==
    ASSUME NEW buf \in Seq(Byte), Len(buf) >= 4
    PROVE  \E p \in DiagnosticMessages :
               /\ DiagnosticMessageDecode(buf) = Ok(p)
               /\ DiagnosticMessageEncode(p) =
                      SubSeq(buf, 1, Len(buf))
<1> DEFINE source == u16(buf, 1)
           target == u16(buf, 3)
           data == SubSeq(buf, 5, Len(buf))
           p == [kind |-> "DiagnosticMessage", source_address |-> source,
                 target_address |-> target, user_data |-> data]
<1>1. /\ Len(buf) \in Nat /\ ~(Len(buf) < 4) /\ 1 \in 1..(Len(buf) - 1)
      /\ 3 \in 1..(Len(buf) - 1)
  BY SMT
<1>2. DiagnosticMessageDecode(buf) = Ok(p)
  BY <1>1, Zenon DEF DiagnosticMessageDecode, Body
<1>3. source \in U16 /\ be16(source) = SubSeq(buf, 1, 1 + 1)
  BY <1>1, WordBack, Zenon
<1>4. target \in U16 /\ be16(target) = SubSeq(buf, 3, 3 + 1)
  BY <1>1, WordBack, Zenon
<1>5. data \in Seq(Byte)
  BY <1>1, Part, SMT
<1> HIDE DEF source, target
<1>6. SubSeq(buf, 1, 2) \o SubSeq(buf, 2 + 1, 4) = SubSeq(buf, 1, 4)
  BY <1>1, Grown, SMT
<1>7. SubSeq(buf, 1, 4) \o SubSeq(buf, 4 + 1, Len(buf)) = SubSeq(buf, 1, Len(buf))
  <2>1. 4 \in Nat /\ 4 <= Len(buf) /\ Len(buf) <= Len(buf)
    BY <1>1, SMT
  <2> QED
    BY <1>1, <2>1, Grown, Zenon
<1>8. be16(source) \o be16(target) \o data
          = SubSeq(buf, 1, Len(buf))
  BY <1>3, <1>4, <1>6, <1>7, SMT
<1> HIDE DEF data
<1>9. p \in DiagnosticMessages
  BY <1>3, <1>4, <1>5 DEF DiagnosticMessages
<1>10. /\ p.source_address = source /\ p.target_address = target
       /\ p.user_data = data
  OBVIOUS
<1> HIDE DEF p
<1>11. DiagnosticMessageEncode(p) = SubSeq(buf, 1, Len(buf))
  BY <1>8, <1>10, Zenon DEF DiagnosticMessageEncode
<1> QED
  BY <1>2, <1>9, <1>11, Zenon

(* DiagnosticMessageAck::decode of any buffer that is long enough, then    *)
(* encode: the bytes that were read come back.                             *)
LEMMA DiagnosticMessageAckRead ==
    ASSUME NEW buf \in Seq(Byte), Len(buf) >= 5
    PROVE  \E p \in DiagnosticMessageAcks :
               /\ DiagnosticMessageAckDecode(buf) = Ok(p)
               /\ DiagnosticMessageAckEncode(p) =
                      SubSeq(buf, 1, Len(buf))
<1> DEFINE source == u16(buf, 1)
           target == u16(buf, 3)
           ack == DiagnosticAckCode(buf[5])
           data == SubSeq(buf, 6, Len(buf))
           p == [kind |-> "DiagnosticMessageAck", source_address |-> source,
                 target_address |-> target, ack_code |-> ack,
                 previous_message_data |-> data]
<1>1. /\ Len(buf) \in Nat /\ ~(Len(buf) < 5) /\ 1 \in 1..(Len(buf) - 1)
      /\ 3 \in 1..(Len(buf) - 1) /\ 5 \in 1..Len(buf)
  BY SMT
<1>2. DiagnosticMessageAckDecode(buf) = Ok(p)
  BY <1>1, Zenon DEF DiagnosticMessageAckDecode, Body
<1>3. source \in U16 /\ be16(source) = SubSeq(buf, 1, 1 + 1)
  BY <1>1, WordBack, Zenon
<1>4. target \in U16 /\ be16(target) = SubSeq(buf, 3, 3 + 1)
  BY <1>1, WordBack, Zenon
<1>5. /\ ack \in {DiagnosticAckCode(n) : n \in Byte}
      /\ <<byte_of(AckCodeInto, ack)>> = SubSeq(buf, 5, 5)
  <2>1. buf[5] \in Byte /\ <<buf[5]>> = SubSeq(buf, 5, 5)
    BY <1>1, OneByte, Zenon
  <2> QED
    BY <2>1, AckCodeKept, Zenon
<1>6. data \in Seq(Byte)
  BY <1>1, Part, SMT
<1> HIDE DEF source, target, ack
<1>7. SubSeq(buf, 1, 2) \o SubSeq(buf, 2 + 1, 4) = SubSeq(buf, 1, 4)
  BY <1>1, Grown, SMT
<1>8. SubSeq(buf, 1, 4) \o SubSeq(buf, 4 + 1, 5) = SubSeq(buf, 1, 5)
  BY <1>1, Grown, SMT
<1>9. SubSeq(buf, 1, 5) \o SubSeq(buf, 5 + 1, Len(buf)) = SubSeq(buf, 1, Len(buf))
  <2>1. 5 \in Nat /\ 5 <= Len(buf) /\ Len(buf) <= Len(buf)
    BY <1>1, SMT
  <2> QED
    BY <1>1, <2>1, Grown, Zenon
<1>10. be16(source) \o be16(target) \o <<byte_of(AckCodeInto, ack)>> \o data
          = SubSeq(buf, 1, Len(buf))
  BY <1>3, <1>4, <1>5, <1>7, <1>8, <1>9, SMT
<1> HIDE DEF data
<1>11. p \in DiagnosticMessageAcks
  BY <1>3, <1>4, <1>5, <1>6 DEF DiagnosticMessageAcks
<1>12. /\ p.source_address = source /\ p.target_address = target
       /\ p.ack_code = ack /\ p.previous_message_data = data
  OBVIOUS
<1> HIDE DEF p
<1>13. DiagnosticMessageAckEncode(p) = SubSeq(buf, 1, Len(buf))
  BY <1>10, <1>12, Zenon DEF DiagnosticMessageAckEncode
<1> QED
  BY <1>2, <1>11, <1>13, Zenon

(* RoutingActivationRequest::decode of any buffer that is long enough,     *)
(* then encode: the bytes that were read come back.                        *)
LEMMA RoutingActivationRequestRead ==
    ASSUME NEW buf \in Seq(Byte), Len(buf) >= 7
    PROVE  \E p \in RoutingActivationRequests :
               /\ RoutingActivationRequestDecode(buf) = Ok(p)
               /\ RoutingActivationRequestEncode(p) =
                      SubSeq(buf, 1, IF Len(buf) < 11 THEN 7 ELSE 11)
<1> DEFINE source == u16(buf, 1)
           activation == ActivationTypeCode(buf[3])
           reserved == array(buf, 4, 4)
           maker == optional_array(buf, 8, 4)
           p == [kind |-> "RoutingActivationRequest",
                 source_address |-> source, activation_type |-> activation,
                 reserved |-> reserved,
                 reserved_vehicle_manufacturer |-> maker]
           size == IF Len(buf) < 11 THEN 7 ELSE 11
<1>1. /\ Len(buf) \in Nat /\ ~(Len(buf) < 7) /\ 1 \in 1..(Len(buf) - 1)
      /\ 3 \in 1..Len(buf)
  BY SMT
<1>2. RoutingActivationRequestDecode(buf) = Ok(p)
  BY <1>1, Zenon
  DEF RoutingActivationRequestDecode, Body
<1>3. source \in U16 /\ be16(source) = SubSeq(buf, 1, 1 + 1)
  BY <1>1, WordBack, Zenon
<1>4. /\ activation \in {ActivationTypeCode(n) : n \in Byte}
      /\ <<byte_of(ActivationTypeInto, activation)>> = SubSeq(buf, 3, 3)
  <2>1. buf[3] \in Byte /\ <<buf[3]>> = SubSeq(buf, 3, 3)
    BY <1>1, OneByte, Zenon
  <2> QED
    BY <2>1, ActivationTypeKept, Zenon
<1>5. reserved \in Bytes(4) /\ reserved = SubSeq(buf, 4, 7)
  <2>1. 4 \in Nat \ {0} /\ 4 \in Nat /\ 4 + 4 - 1 <= Len(buf)
    BY <1>1, SMT
  <2>2. reserved \in Bytes(4)
    BY <2>1, ArrayBack, Zenon
  <2>3. reserved = SubSeq(buf, 4, 7)
    BY SMT DEF array
  <2> QED
    BY <2>2, <2>3, Zenon
<1>6. /\ size \in Nat /\ 7 <= size /\ size <= Len(buf)
      /\ maker \in Option(Bytes(4)) /\ maker = SubSeq(buf, 7 + 1, size)
  <2>1. 7 \in Nat /\ 4 \in Nat \ {0} /\ 7 <= Len(buf)
    BY <1>1, SMT
  <2>2. OptionalPart(buf, 7, 4)
    BY <2>1, OptionBack, Zenon
  <2> QED
    BY <2>2, SMT DEF OptionalPart
<1> HIDE DEF source, activation, reserved, maker, size
<1>7. SubSeq(buf, 1, 2) \o SubSeq(buf, 2 + 1, 3) = SubSeq(buf, 1, 3)
  BY <1>1, Grown, SMT
<1>8. SubSeq(buf, 1, 3) \o SubSeq(buf, 3 + 1, 7) = SubSeq(buf, 1, 7)
  BY <1>1, Grown, SMT
<1>9. SubSeq(buf, 1, 7) \o SubSeq(buf, 7 + 1, size) = SubSeq(buf, 1, size)
  BY <1>1, <1>6, Grown, SMT
<1>10. be16(source) \o <<byte_of(ActivationTypeInto, activation)>> \o reserved \o maker
          = SubSeq(buf, 1, size)
  BY <1>3, <1>4, <1>5, <1>6, <1>7, <1>8, <1>9, SMT
<1>11. p \in RoutingActivationRequests
  BY <1>3, <1>4, <1>5, <1>6 DEF RoutingActivationRequests
<1>12. /\ p.source_address = source /\ p.activation_type = activation
       /\ p.reserved = reserved /\ p.reserved_vehicle_manufacturer = maker
  OBVIOUS
<1> HIDE DEF p
<1>13. RoutingActivationRequestEncode(p) = SubSeq(buf, 1, size)
  BY <1>10, <1>12, Zenon
  DEF RoutingActivationRequestEncode
<1> QED
  BY <1>2, <1>11, <1>13, Zenon DEF size

(* RoutingActivationResponse::decode of any buffer that is long enough,    *)
(* then encode: the bytes that were read come back.                        *)
LEMMA RoutingActivationResponseRead ==
    ASSUME NEW buf \in Seq(Byte), Len(buf) >= 9
    PROVE  \E p \in RoutingActivationResponses :
               /\ RoutingActivationResponseDecode(buf) = Ok(p)
               /\ RoutingActivationResponseEncode(p) =
                      SubSeq(buf, 1, IF Len(buf) < 13 THEN 9 ELSE 13)
<1> DEFINE tester == u16(buf, 1)
           entity == u16(buf, 3)
           response == RoutingActivationResponseCode(buf[5])
           reserved == array(buf, 6, 4)
           oem == optional_array(buf, 10, 4)
           p == [kind |-> "RoutingActivationResponse",
                 logical_address_tester |-> tester,
                 logical_address_of_doip_entity |-> entity,
                 routing_activation_response_code |-> response,
                 reserved_oem |-> reserved, oem_specific |-> oem]
           size == IF Len(buf) < 13 THEN 9 ELSE 13
<1>1. /\ Len(buf) \in Nat /\ ~(Len(buf) < 9) /\ 1 \in 1..(Len(buf) - 1)
      /\ 3 \in 1..(Len(buf) - 1) /\ 5 \in 1..Len(buf)
  BY SMT
<1>2. RoutingActivationResponseDecode(buf) = Ok(p)
  BY <1>1, Zenon
  DEF RoutingActivationResponseDecode, Body
<1>3. tester \in U16 /\ be16(tester) = SubSeq(buf, 1, 1 + 1)
  BY <1>1, WordBack, Zenon
<1>4. entity \in U16 /\ be16(entity) = SubSeq(buf, 3, 3 + 1)
  BY <1>1, WordBack, Zenon
<1>5. /\ response \in {RoutingActivationResponseCode(n) : n \in Byte}
      /\ <<byte_of(ResponseCodeInto, response)>> = SubSeq(buf, 5, 5)
  <2>1. buf[5] \in Byte /\ <<buf[5]>> = SubSeq(buf, 5, 5)
    BY <1>1, OneByte, Zenon
  <2> QED
    BY <2>1, ResponseCodeKept, Zenon
<1>6. reserved \in Bytes(4) /\ reserved = SubSeq(buf, 6, 9)
  <2>1. 6 \in Nat \ {0} /\ 4 \in Nat /\ 6 + 4 - 1 <= Len(buf)
    BY <1>1, SMT
  <2>2. reserved \in Bytes(4)
    BY <2>1, ArrayBack, Zenon
  <2>3. reserved = SubSeq(buf, 6, 9)
    BY SMT DEF array
  <2> QED
    BY <2>2, <2>3, Zenon
<1>7. /\ size \in Nat /\ 9 <= size /\ size <= Len(buf)
      /\ oem \in Option(Bytes(4)) /\ oem = SubSeq(buf, 9 + 1, size)
  <2>1. 9 \in Nat /\ 4 \in Nat \ {0} /\ 9 <= Len(buf)
    BY <1>1, SMT
  <2>2. OptionalPart(buf, 9, 4)
    BY <2>1, OptionBack, Zenon
  <2> QED
    BY <2>2, SMT DEF OptionalPart
<1> HIDE DEF tester, entity, response, reserved, oem, size
<1>8. SubSeq(buf, 1, 2) \o SubSeq(buf, 2 + 1, 4) = SubSeq(buf, 1, 4)
  BY <1>1, Grown, SMT
<1>9. SubSeq(buf, 1, 4) \o SubSeq(buf, 4 + 1, 5) = SubSeq(buf, 1, 5)
  BY <1>1, Grown, SMT
<1>10. SubSeq(buf, 1, 5) \o SubSeq(buf, 5 + 1, 9) = SubSeq(buf, 1, 9)
  BY <1>1, Grown, SMT
<1>11. SubSeq(buf, 1, 9) \o SubSeq(buf, 9 + 1, size) = SubSeq(buf, 1, size)
  BY <1>1, <1>7, Grown, SMT
<1>12. be16(tester) \o be16(entity)
          \o <<byte_of(ResponseCodeInto, response)>> \o reserved \o oem
          = SubSeq(buf, 1, size)
  BY <1>3, <1>4, <1>5, <1>6, <1>7, <1>8, <1>9, <1>10, <1>11, SMT
<1>13. p \in RoutingActivationResponses
  BY <1>3, <1>4, <1>5, <1>6, <1>7 DEF RoutingActivationResponses
<1>14. /\ p.logical_address_tester = tester
       /\ p.logical_address_of_doip_entity = entity
       /\ p.routing_activation_response_code = response
       /\ p.reserved_oem = reserved /\ p.oem_specific = oem
  OBVIOUS
<1> HIDE DEF p
<1>15. RoutingActivationResponseEncode(p) = SubSeq(buf, 1, size)
  BY <1>12, <1>14, Zenon
  DEF RoutingActivationResponseEncode
<1> QED
  BY <1>2, <1>13, <1>15, Zenon DEF size

(* DoIPNack.                                                               *)
LEMMA DoIPNackWritten ==
    ASSUME NEW p \in DoIPNacks
    PROVE  /\ DoIPNackEncode(p) \in Seq(Byte)
           /\ Len(DoIPNackEncode(p)) = 1
           /\ DoIPNackDecode(DoIPNackEncode(p)) = Ok(p)
<1> DEFINE b == byte_of(NackCodeInto, p.nack_code)
           e == DoIPNackEncode(p)
<1>1. /\ p = [kind |-> "DoIPNack", nack_code |-> p.nack_code]
      /\ p.nack_code \in {NackCode(c) : c \in Byte}
  BY DEF DoIPNacks
<1>2. b \in Byte /\ NackCode(b) = p.nack_code
  BY <1>1, NackCodeKept, Zenon
<1>3. e = <<b>>
  BY Zenon DEF DoIPNackEncode
<1> HIDE DEF b, e
<1>4. e \in Seq(Byte) /\ Len(e) = 1 /\ e[1] = b
  BY <1>2, <1>3
<1>5. ~(Len(e) < 1)
  BY <1>4
<1>6. DoIPNackDecode(e) = Ok(p)
  BY <1>1, <1>2, <1>4, <1>5, Zenon DEF DoIPNackDecode, Body
<1> QED
  BY <1>4, <1>6 DEF e

(* DoIPNack::decode of any buffer that is long enough, then encode: the    *)
(* bytes that were read come back.                                         *)
LEMMA DoIPNackRead ==
    ASSUME NEW buf \in Seq(Byte), Len(buf) >= 1
    PROVE  \E p \in DoIPNacks : /\ DoIPNackDecode(buf) = Ok(p)
                                /\ DoIPNackEncode(p) = SubSeq(buf, 1, 1)
<1> DEFINE p == [kind |-> "DoIPNack", nack_code |-> NackCode(buf[1])]
<1>1. 1 \in 1..Len(buf) /\ ~(Len(buf) < 1)
  OBVIOUS
<1>2. buf[1] \in Byte /\ <<buf[1]>> = SubSeq(buf, 1, 1)
  BY <1>1, OneByte
<1>3. p \in DoIPNacks
  BY <1>2 DEF DoIPNacks
<1>4. DoIPNackDecode(buf) = Ok(p)
  BY <1>1, Zenon DEF DoIPNackDecode, Body
<1>5. p.nack_code = NackCode(buf[1])
  OBVIOUS
<1> HIDE DEF p
<1>6. DoIPNackEncode(p) = SubSeq(buf, 1, 1)
  BY <1>2, <1>5, NackCodeKept, Zenon DEF DoIPNackEncode
<1> QED
  BY <1>3, <1>4, <1>6

(* PowerModeInfoResponse::encode, then decode: the power mode comes back.  *)
LEMMA PowerModeInfoResponseWritten ==
    ASSUME NEW p \in PowerModeInfoResponses
    PROVE  /\ PowerModeInfoResponseEncode(p) \in Seq(Byte)
           /\ Len(PowerModeInfoResponseEncode(p)) = 1
           /\ PowerModeInfoResponseDecode(PowerModeInfoResponseEncode(p)) = Ok(p)
<1> DEFINE b == byte_of(PowerModeInto, p.power_mode)
           e == PowerModeInfoResponseEncode(p)
<1>1. /\ p = [kind |-> "PowerModeInfoResponse", power_mode |-> p.power_mode]
      /\ p.power_mode \in {DiagnosticPowerModeCode(c) : c \in Byte}
  BY DEF PowerModeInfoResponses
<1>2. b \in Byte /\ DiagnosticPowerModeCode(b) = p.power_mode
  BY <1>1, PowerModeKept, Zenon
<1>3. e = <<b>>
  BY Zenon DEF PowerModeInfoResponseEncode
<1> HIDE DEF b, e
<1>4. e \in Seq(Byte) /\ Len(e) = 1 /\ e[1] = b /\ ~(Len(e) < 1)
  BY <1>2, <1>3, SMT
<1>5. PowerModeInfoResponseDecode(e) = Ok(p)
  BY <1>1, <1>2, <1>4, Zenon DEF PowerModeInfoResponseDecode, Body
<1> QED
  BY <1>4, <1>5, Zenon DEF e

(* PowerModeInfoResponse::decode of any buffer that is long enough, then   *)
(* encode: the bytes that were read come back.                             *)
LEMMA PowerModeInfoResponseRead ==
    ASSUME NEW buf \in Seq(Byte), Len(buf) >= 1
    PROVE  \E p \in PowerModeInfoResponses :
               /\ PowerModeInfoResponseDecode(buf) = Ok(p)
               /\ PowerModeInfoResponseEncode(p) = SubSeq(buf, 1, 1)
<1> DEFINE mode == DiagnosticPowerModeCode(buf[1])
           p == [kind |-> "PowerModeInfoResponse", power_mode |-> mode]
<1>1. 1 \in 1..Len(buf) /\ ~(Len(buf) < 1)
  BY SMT
<1>2. buf[1] \in Byte /\ <<buf[1]>> = SubSeq(buf, 1, 1)
  BY <1>1, OneByte, Zenon
<1>3. /\ mode \in {DiagnosticPowerModeCode(n) : n \in Byte}
      /\ byte_of(PowerModeInto, mode) = buf[1]
  BY <1>2, PowerModeKept, Zenon
<1>4. PowerModeInfoResponseDecode(buf) = Ok(p)
  BY <1>1, Zenon DEF PowerModeInfoResponseDecode, Body
<1> HIDE DEF mode
<1>5. p \in PowerModeInfoResponses
  BY <1>3 DEF PowerModeInfoResponses
<1>6. p.power_mode = mode
  OBVIOUS
<1> HIDE DEF p
<1>7. PowerModeInfoResponseEncode(p) = SubSeq(buf, 1, 1)
  BY <1>2, <1>3, <1>6, Zenon DEF PowerModeInfoResponseEncode
<1> QED
  BY <1>4, <1>5, <1>7, Zenon

(* AliveCheckResponse::encode, then decode: the source address comes back. *)
LEMMA AliveCheckResponseWritten ==
    ASSUME NEW p \in AliveCheckResponses
    PROVE  /\ AliveCheckResponseEncode(p) \in Seq(Byte)
           /\ Len(AliveCheckResponseEncode(p)) = 2
           /\ AliveCheckResponseDecode(AliveCheckResponseEncode(p)) = Ok(p)
<1> DEFINE source == p.source_address
           e == be16(source)
<1>1. p = [kind |-> "AliveCheckResponse", source_address |-> source]
  BY DEF AliveCheckResponses
<1>2. source \in U16
  BY DEF AliveCheckResponses
<1>3. AliveCheckResponseEncode(p) = e
  BY Zenon DEF AliveCheckResponseEncode
<1> HIDE DEF source
<1>4. e \in Seq(Byte) /\ Len(e) = 2 /\ e = be16(source)
  BY <1>2, WordIsBuffer, Zenon
<1> HIDE DEF e
<1>5. SubSeq(e, 1, 1 + 1) = e /\ 1 \in 1..(Len(e) - 1) /\ ~(Len(e) < 2)
  BY <1>4, SMT
<1>6. u16(e, 1) = source
  BY <1>2, <1>4, <1>5, WordAt, Zenon
<1>7. AliveCheckResponseDecode(e) = Ok(p)
  BY <1>1, <1>5, <1>6, Zenon DEF AliveCheckResponseDecode, Body
<1> QED
  BY <1>3, <1>4, <1>7, Zenon

(* AliveCheckResponse::decode of any buffer that is long enough, then      *)
(* encode: the bytes that were read come back.                             *)
LEMMA AliveCheckResponseRead ==
    ASSUME NEW buf \in Seq(Byte), Len(buf) >= 2
    PROVE  \E p \in AliveCheckResponses :
               /\ AliveCheckResponseDecode(buf) = Ok(p)
               /\ AliveCheckResponseEncode(p) = SubSeq(buf, 1, 2)
<1> DEFINE source == u16(buf, 1)
           p == [kind |-> "AliveCheckResponse", source_address |-> source]
<1>1. 1 \in 1..(Len(buf) - 1) /\ ~(Len(buf) < 2) /\ 1 + 1 = 2
  BY SMT
<1>2. source \in U16 /\ be16(source) = SubSeq(buf, 1, 2)
  BY <1>1, WordBack, Zenon
<1>3. AliveCheckResponseDecode(buf) = Ok(p)
  BY <1>1, Zenon DEF AliveCheckResponseDecode, Body
<1> HIDE DEF source
<1>4. p \in AliveCheckResponses
  BY <1>2 DEF AliveCheckResponses
<1>5. p.source_address = source
  OBVIOUS
<1> HIDE DEF p
<1>6. AliveCheckResponseEncode(p) = SubSeq(buf, 1, 2)
  BY <1>2, <1>5, Zenon DEF AliveCheckResponseEncode
<1> QED
  BY <1>3, <1>4, <1>6, Zenon

(* Six equal bytes are an array of six.                                     *)
LEMMA SixBytes ==
    /\ six(0) \in Bytes(6)
    /\ six(0) # <<>>
    /\ \A a \in Bytes(6) : a # <<>>
  BY SMT DEF six, Bytes, Byte

(* VehicleIdentificationResponse, which is read as what its type calls for. *)
LEMMA VehicleIdentificationResponseWritten ==
    ASSUME NEW p \in VehicleIdentificationResponses, NEW kind
    PROVE  /\ VehicleIdentificationResponseEncode(p) \in Seq(Byte)
           /\ Len(VehicleIdentificationResponseEncode(p)) = 33
           /\ VehicleIdentificationResponseDecode(
                  VehicleIdentificationResponseEncode(p), kind)
              = Ok([p EXCEPT !.kind = kind])
<1> DEFINE vin == p.vin
           address == p.logical_address
           eid == p.entity_id
           gid == p.group_id
           action == p.further_action
           sync == p.vin_gid_sync_status
           action_byte == byte_of(FurtherActionInto, action)
           sync_byte == byte_of(SyncStatusInto, sync)
           b == be16(address)
           d == IF gid = <<>> THEN six(0) ELSE gid
           f == <<action_byte>>
           g == <<sync_byte>>
           e == vin \o b \o eid \o d \o f \o g
<1>1. [p EXCEPT !.kind = kind] =
          [kind |-> kind, vin |-> vin, logical_address |-> address,
           entity_id |-> eid, group_id |-> gid, further_action |-> action,
           vin_gid_sync_status |-> sync]
  BY DEF VehicleIdentificationResponses
<1>2. /\ vin \in Bytes(17) /\ address \in U16 /\ eid \in Bytes(6)
      /\ gid \in Option(Bytes(6) \ {six(0), six(255)})
      /\ action \in {FurtherActionRequired(n) : n \in Byte}
      /\ sync \in {VinGidSyncStatus(n) : n \in Byte}
  BY DEF VehicleIdentificationResponses
<1>3. VehicleIdentificationResponseEncode(p) = e
  BY Zenon DEF VehicleIdentificationResponseEncode
<1> HIDE DEF vin, address, eid, gid, action, sync
<1>4. action_byte \in Byte /\ FurtherActionRequired(action_byte) = action
  BY <1>2, FurtherActionKept, Zenon
<1>5. sync_byte \in Byte /\ VinGidSyncStatus(sync_byte) = sync
  BY <1>2, SyncStatusKept, Zenon
<1> HIDE DEF action_byte, sync_byte
<1>6. /\ d \in Bytes(6)
      /\ gid = IF d \in {six(0), six(255)} THEN <<>> ELSE d
  BY <1>2, SixBytes, Zenon DEF Option
<1>7. 17 \in Nat /\ 6 \in Nat
  OBVIOUS
<1>8. vin \in Seq(Byte) /\ Len(vin) = 17
  BY <1>2, <1>7, ArrayIsBuffer, Zenon
<1>9. eid \in Seq(Byte) /\ Len(eid) = 6
  BY <1>2, <1>7, ArrayIsBuffer, Zenon
<1>10. b \in Seq(Byte) /\ Len(b) = 2
  BY <1>2, WordIsBuffer, Zenon
<1>11. f \in Seq(Byte) /\ Len(f) = 1 /\ g \in Seq(Byte) /\ Len(g) = 1
  BY <1>4, <1>5, SMT
<1>12. b = be16(address) /\ f = <<action_byte>> /\ g = <<sync_byte>>
  OBVIOUS
<1> HIDE DEF b, d, f, g
<1>13. d \in Seq(Byte) /\ Len(d) = 6
  BY <1>6, <1>7, ArrayIsBuffer, Zenon
<1>14. /\ vin \in Seq(Byte) /\ b \in Seq(Byte) /\ eid \in Seq(Byte)
       /\ d \in Seq(Byte) /\ f \in Seq(Byte) /\ g \in Seq(Byte)
  BY <1>8, <1>9, <1>10, <1>11, <1>13, Zenon
<1>15. SixParts(vin, b, eid, d, f, g)
  BY <1>14, SixPartsWritten, Zenon
<1>16. LET i == Len(vin)
           j == i + Len(b)
           k == j + Len(eid)
           l == k + Len(d)
           m == l + Len(f)
       IN  /\ e \in Seq(Byte) /\ Len(e) = m + Len(g)
           /\ SubSeq(e, 1, i) = vin
           /\ SubSeq(e, i + 1, j) = b
           /\ SubSeq(e, j + 1, k) = eid
           /\ SubSeq(e, k + 1, l) = d
           /\ SubSeq(e, l + 1, m) = f
           /\ SubSeq(e, m + 1, m + Len(g)) = g
  BY <1>15, Zenon DEF SixParts
<1> HIDE DEF e
<1>17. /\ e \in Seq(Byte) /\ Len(e) = 33 /\ ~(Len(e) < 33)
       /\ SubSeq(e, 1, 1 + 17 - 1) = vin /\ SubSeq(e, 18, 18 + 1) = b
       /\ SubSeq(e, 20, 20 + 6 - 1) = eid /\ SubSeq(e, 26, 26 + 6 - 1) = d
       /\ SubSeq(e, 32, 32) = f /\ SubSeq(e, 33, 33) = g
  BY <1>8, <1>9, <1>10, <1>11, <1>13, <1>16, SMT
<1>18. 18 \in 1..(Len(e) - 1) /\ 32 \in 1..Len(e) /\ 33 \in 1..Len(e)
  BY <1>17, SMT
<1>19. u16(e, 18) = address
  BY <1>2, <1>12, <1>17, <1>18, WordAt, Zenon
<1>20. e[32] = action_byte /\ e[33] = sync_byte
  BY <1>12, <1>17, <1>18, ByteAt, ZenonT(40)
<1>21. VehicleIdentificationResponseDecode(e, kind) =
           Ok([p EXCEPT !.kind = kind])
  BY <1>1, <1>4, <1>5, <1>6, <1>17, <1>19, <1>20, Zenon
     DEF VehicleIdentificationResponseDecode, Body, array
<1> QED
  BY <1>3, <1>17, <1>21, Zenon

(* Read back, the six 0xFF that say that there is no group id are zeros.   *)
LEMMA VehicleIdentificationResponseRead ==
    ASSUME NEW buf \in Seq(Byte), Len(buf) >= 33,
           NEW kind \in {"VehicleIdentificationResponse", "VehicleAnnouncement"}
    PROVE  \E p \in VehicleIdentificationResponses :
               /\ p.kind = kind
               /\ VehicleIdentificationResponseDecode(buf, kind) = Ok(p)
               /\ VehicleIdentificationResponseEncode(p) =
                      SubSeq(buf, 1, 25)
                      \o (IF array(buf, 26, 6) = six(255) THEN six(0)
                          ELSE array(buf, 26, 6))
                      \o SubSeq(buf, 32, 32) \o SubSeq(buf, 33, 33)
<1> DEFINE vin == array(buf, 1, 17)
           address == u16(buf, 18)
           eid == array(buf, 20, 6)
           group == array(buf, 26, 6)
           gid == IF group \in {six(0), six(255)} THEN <<>> ELSE group
           action == FurtherActionRequired(buf[32])
           sync == VinGidSyncStatus(buf[33])
           p == [kind |-> kind, vin |-> vin, logical_address |-> address,
                 entity_id |-> eid, group_id |-> gid, further_action |-> action,
                 vin_gid_sync_status |-> sync]
<1>1. /\ Len(buf) \in Nat /\ ~(Len(buf) < 33) /\ 18 \in 1..(Len(buf) - 1)
      /\ 32 \in 1..Len(buf) /\ 33 \in 1..Len(buf)
  BY SMT
<1>2. VehicleIdentificationResponseDecode(buf, kind) = Ok(p)
  BY <1>1, Zenon DEF VehicleIdentificationResponseDecode, Body
<1>3. vin \in Bytes(17) /\ vin = SubSeq(buf, 1, 17)
  <2>1. 1 \in Nat \ {0} /\ 17 \in Nat /\ 1 + 17 - 1 <= Len(buf)
    BY <1>1, SMT
  <2>2. vin \in Bytes(17)
    BY <2>1, ArrayBack, Zenon
  <2>3. vin = SubSeq(buf, 1, 17)
    BY SMT DEF array
  <2> QED
    BY <2>2, <2>3, Zenon
<1>4. address \in U16 /\ be16(address) = SubSeq(buf, 18, 18 + 1)
  BY <1>1, WordBack, Zenon
<1>5. eid \in Bytes(6) /\ eid = SubSeq(buf, 20, 25)
  <2>1. 20 \in Nat \ {0} /\ 6 \in Nat /\ 20 + 6 - 1 <= Len(buf)
    BY <1>1, SMT
  <2>2. eid \in Bytes(6)
    BY <2>1, ArrayBack, Zenon
  <2>3. eid = SubSeq(buf, 20, 25)
    BY SMT DEF array
  <2> QED
    BY <2>2, <2>3, Zenon
<1>6. group \in Bytes(6)
  <2>1. 26 \in Nat \ {0} /\ 6 \in Nat /\ 26 + 6 - 1 <= Len(buf)
    BY <1>1, SMT
  <2> QED
    BY <2>1, ArrayBack, Zenon
<1>7. /\ action \in {FurtherActionRequired(n) : n \in Byte}
      /\ <<byte_of(FurtherActionInto, action)>> = SubSeq(buf, 32, 32)
  <2>1. buf[32] \in Byte /\ <<buf[32]>> = SubSeq(buf, 32, 32)
    BY <1>1, OneByte, Zenon
  <2> QED
    BY <2>1, FurtherActionKept, Zenon
<1>8. /\ sync \in {VinGidSyncStatus(n) : n \in Byte}
      /\ <<byte_of(SyncStatusInto, sync)>> = SubSeq(buf, 33, 33)
  <2>1. buf[33] \in Byte /\ <<buf[33]>> = SubSeq(buf, 33, 33)
    BY <1>1, OneByte, Zenon
  <2> QED
    BY <2>1, SyncStatusKept, Zenon
<1> HIDE DEF vin, address, eid, group, action, sync
<1>9. /\ gid \in Option(Bytes(6) \ {six(0), six(255)})
      /\ (IF gid = <<>> THEN six(0) ELSE gid) =
             IF group = six(255) THEN six(0) ELSE group
  BY <1>6, SixBytes, ZenonT(40) DEF Option
<1> HIDE DEF gid
<1>10. SubSeq(buf, 1, 17) \o SubSeq(buf, 17 + 1, 19) = SubSeq(buf, 1, 19)
  BY <1>1, Grown, SMT
<1>11. SubSeq(buf, 1, 19) \o SubSeq(buf, 19 + 1, 25) = SubSeq(buf, 1, 25)
  BY <1>1, Grown, SMT
<1>12. vin \o be16(address) \o eid = SubSeq(buf, 1, 25)
  BY <1>3, <1>4, <1>5, <1>10, <1>11, SMT
<1>13. p \in VehicleIdentificationResponses
  BY <1>3, <1>4, <1>5, <1>7, <1>8, <1>9, ZenonT(40) DEF VehicleIdentificationResponses
<1>14. /\ p.kind = kind /\ p.vin = vin /\ p.logical_address = address
       /\ p.entity_id = eid /\ p.group_id = gid /\ p.further_action = action
       /\ p.vin_gid_sync_status = sync
  OBVIOUS
<1> HIDE DEF p
<1>15. VehicleIdentificationResponseEncode(p) =
           SubSeq(buf, 1, 25)
           \o (IF group = six(255) THEN six(0) ELSE group)
           \o SubSeq(buf, 32, 32) \o SubSeq(buf, 33, 33)
  BY <1>7, <1>8, <1>9, <1>12, <1>14, Zenon DEF VehicleIdentificationResponseEncode
<1> QED
  BY <1>2, <1>13, <1>14, <1>15, Zenon DEF group

(* The payload as it arrives.                                              *)
Arrived(p) == IF p.kind = "VehicleIdentificationResponse"
              THEN [p EXCEPT !.kind = "VehicleAnnouncement"] ELSE p

(* A vehicle announcement with zeros where six 0xFF say the same.          *)
Spelled(buf) ==
    SubSeq(buf, 1, 25)
    \o (IF array(buf, 26, 6) = six(255) THEN six(0) ELSE array(buf, 26, 6))
    \o SubSeq(buf, 32, 32) \o SubSeq(buf, 33, 33)

(* Payload::encode writes encoded_size bytes, and Payload::decode, for a   *)
(* type that has this body, reads the payload from them.                   *)
LEMMA PayloadWritten ==
    ASSUME NEW p \in Payloads, NEW type, type[1] \in TypesOf(p.kind)
    PROVE  /\ PayloadEncode(p) \in Seq(Byte)
           /\ Len(PayloadEncode(p)) = PayloadEncodedSize(p)
           /\ PayloadDecode(PayloadEncode(p), type) = Ok(Arrived(p))
<1>1. CASE p \in [kind : BodilessKinds]
  <2>1. p = [kind |-> p.kind] /\ p.kind \in BodilessKinds
    BY <1>1
  <2>2. /\ PayloadEncode(p) = <<>> /\ PayloadEncodedSize(p) = 0
        /\ <<>> \in Seq(Byte) /\ Len(<<>>) = 0
    BY <2>1 DEF PayloadEncode, PayloadEncodedSize, BodilessKinds
  <2>3. \A buf : PayloadDecode(buf, type) = Ok([kind |-> p.kind])
    BY <2>1 DEF PayloadDecode, TypesOf, BodilessKinds
  <2>4. Arrived(p) = p
    BY <2>1 DEF Arrived, BodilessKinds
  <2> QED
    BY <2>1, <2>2, <2>3, <2>4, Zenon
<1>2. CASE p \in DoIPNacks
  <2>1. p.kind = "DoIPNack"
    BY <1>2 DEF DoIPNacks
  <2>2. type[1] = "NegativeAcknowledge"
    BY <2>1 DEF TypesOf
  <2>3. PayloadEncode(p) = DoIPNackEncode(p)
    BY <2>1 DEF PayloadEncode, BodilessKinds
  <2>4. PayloadEncodedSize(p) = 1
    BY <2>1 DEF PayloadEncodedSize, BodilessKinds
  <2>5. \A buf : PayloadDecode(buf, type) = DoIPNackDecode(buf)
    BY <2>2 DEF PayloadDecode
  <2>6. Arrived(p) = p
    BY <2>1 DEF Arrived
  <2> QED
    BY <1>2, <2>3, <2>4, <2>5, <2>6, DoIPNackWritten, Zenon
<1>3. CASE p \in PowerModeInfoResponses
  <2>1. p.kind = "PowerModeInfoResponse"
    BY <1>3 DEF PowerModeInfoResponses
  <2>2. type[1] = "DiagnosticPowerModeInfoResponse"
    BY <2>1 DEF TypesOf
  <2>3. PayloadEncode(p) = PowerModeInfoResponseEncode(p)
    BY <2>1 DEF PayloadEncode, BodilessKinds
  <2>4. PayloadEncodedSize(p) = 1
    BY <2>1 DEF PayloadEncodedSize, BodilessKinds
  <2>5. \A buf : PayloadDecode(buf, type) = PowerModeInfoResponseDecode(buf)
    BY <2>2 DEF PayloadDecode
  <2>6. Arrived(p) = p
    BY <2>1 DEF Arrived
  <2> QED
    BY <1>3, <2>3, <2>4, <2>5, <2>6, PowerModeInfoResponseWritten, Zenon
<1>4. CASE p \in AliveCheckResponses
  <2>1. p.kind = "AliveCheckResponse"
    BY <1>4 DEF AliveCheckResponses
  <2>2. type[1] = "AliveCheckResponse"
    BY <2>1 DEF TypesOf
  <2>3. PayloadEncode(p) = AliveCheckResponseEncode(p)
    BY <2>1 DEF PayloadEncode, BodilessKinds
  <2>4. PayloadEncodedSize(p) = 2
    BY <2>1 DEF PayloadEncodedSize, BodilessKinds
  <2>5. \A buf : PayloadDecode(buf, type) = AliveCheckResponseDecode(buf)
    BY <2>2 DEF PayloadDecode
  <2>6. Arrived(p) = p
    BY <2>1 DEF Arrived
  <2> QED
    BY <1>4, <2>3, <2>4, <2>5, <2>6, AliveCheckResponseWritten, Zenon
<1>5. CASE p \in EntityStatusResponses
  <2>1. p.kind = "EntityStatusResponse"
    BY <1>5 DEF EntityStatusResponses
  <2>2. type[1] = "DoIPEntityStatusResponse"
    BY <2>1 DEF TypesOf
  <2>3. PayloadEncode(p) = EntityStatusResponseEncode(p)
    BY <2>1 DEF PayloadEncode, BodilessKinds
  <2>4. PayloadEncodedSize(p) = 7
    BY <2>1 DEF PayloadEncodedSize, BodilessKinds
  <2>5. \A buf : PayloadDecode(buf, type) = EntityStatusResponseDecode(buf)
    BY <2>2 DEF PayloadDecode
  <2>6. Arrived(p) = p
    BY <2>1 DEF Arrived
  <2> QED
    BY <1>5, <2>3, <2>4, <2>5, <2>6, EntityStatusResponseWritten, Zenon
<1>6. CASE p \in DiagnosticMessages
  <2>1. p.kind = "DiagnosticMessage"
    BY <1>6 DEF DiagnosticMessages
  <2>2. type[1] = "DiagnosticMessage"
    BY <2>1 DEF TypesOf
  <2>3. PayloadEncode(p) = DiagnosticMessageEncode(p)
    BY <2>1 DEF PayloadEncode, BodilessKinds
  <2>4. PayloadEncodedSize(p) = 4 + Len(p.user_data)
    BY <2>1 DEF PayloadEncodedSize, BodilessKinds
  <2>5. \A buf : PayloadDecode(buf, type) = DiagnosticMessageDecode(buf)
    BY <2>2 DEF PayloadDecode
  <2>6. Arrived(p) = p
    BY <2>1 DEF Arrived
  <2> QED
    BY <1>6, <2>3, <2>4, <2>5, <2>6, DiagnosticMessageWritten, Zenon
<1>7. CASE p \in DiagnosticMessageAcks
  <2>1. p.kind = "DiagnosticMessageAck"
    BY <1>7 DEF DiagnosticMessageAcks
  <2>2. type[1] = "DiagnosticMessagePositiveAcknowledge"
    BY <2>1 DEF TypesOf
  <2>3. PayloadEncode(p) = DiagnosticMessageAckEncode(p)
    BY <2>1 DEF PayloadEncode, BodilessKinds
  <2>4. PayloadEncodedSize(p) = 5 + Len(p.previous_message_data)
    BY <2>1 DEF PayloadEncodedSize, BodilessKinds
  <2>5. \A buf : PayloadDecode(buf, type) = DiagnosticMessageAckDecode(buf)
    BY <2>2 DEF PayloadDecode
  <2>6. Arrived(p) = p
    BY <2>1 DEF Arrived
  <2> QED
    BY <1>7, <2>3, <2>4, <2>5, <2>6, DiagnosticMessageAckWritten, Zenon
<1>8. CASE p \in RoutingActivationRequests
  <2>1. p.kind = "RoutingActivationRequest"
    BY <1>8 DEF RoutingActivationRequests
  <2>2. type[1] = "RoutingActivationRequest"
    BY <2>1 DEF TypesOf
  <2>3. PayloadEncode(p) = RoutingActivationRequestEncode(p)
    BY <2>1 DEF PayloadEncode, BodilessKinds
  <2>4. PayloadEncodedSize(p) =
                  7 + Len(p.reserved_vehicle_manufacturer)
    <3> DEFINE option == p.reserved_vehicle_manufacturer
               size == PayloadEncodedSize(p)
    <3>1. size = IF option = <<>> THEN 7 ELSE 11
      BY <2>1 DEF PayloadEncodedSize, BodilessKinds
    <3>2. 4 \in Nat /\ option \in Option(Bytes(4))
      BY <1>8 DEF RoutingActivationRequests
    <3>3. option = <<>> \/ Len(option) = 4
      BY <3>2, OptionIsBuffer, Zenon
    <3> HIDE DEF option, size
    <3>4. size = 7 + Len(option)
      <4>1. CASE option = <<>>
        BY <3>1, <4>1, SMT
      <4>2. CASE option # <<>>
        <5>1. size = 11 /\ Len(option) = 4
          BY <3>1, <3>3, <4>2, Zenon
        <5> QED
          BY <5>1, SMT
      <4> QED
        BY <4>1, <4>2, Zenon
    <3> QED
      BY <3>4, Zenon DEF option, size
  <2>5. \A buf : PayloadDecode(buf, type) = RoutingActivationRequestDecode(buf)
    BY <2>2 DEF PayloadDecode
  <2>6. Arrived(p) = p
    BY <2>1 DEF Arrived
  <2> QED
    BY <1>8, <2>3, <2>4, <2>5, <2>6, RoutingActivationRequestWritten, Zenon
<1>9. CASE p \in RoutingActivationResponses
  <2>1. p.kind = "RoutingActivationResponse"
    BY <1>9 DEF RoutingActivationResponses
  <2>2. type[1] = "RoutingActivationResponse"
    BY <2>1 DEF TypesOf
  <2>3. PayloadEncode(p) = RoutingActivationResponseEncode(p)
    BY <2>1 DEF PayloadEncode, BodilessKinds
  <2>4. PayloadEncodedSize(p) = 9 + Len(p.oem_specific)
    <3> DEFINE option == p.oem_specific
               size == PayloadEncodedSize(p)
    <3>1. size = IF option = <<>> THEN 9 ELSE 9 + 4
      BY <2>1 DEF PayloadEncodedSize, BodilessKinds
    <3>2. 4 \in Nat /\ option \in Option(Bytes(4))
      BY <1>9 DEF RoutingActivationResponses
    <3>3. option = <<>> \/ Len(option) = 4
      BY <3>2, OptionIsBuffer, Zenon
    <3> HIDE DEF option, size
    <3>4. size = 9 + Len(option)
      <4>1. CASE option = <<>>
        BY <3>1, <4>1, SMT
      <4>2. CASE option # <<>>
        <5>1. size = 9 + 4 /\ Len(option) = 4
          BY <3>1, <3>3, <4>2, Zenon
        <5> QED
          BY <5>1, SMT
      <4> QED
        BY <4>1, <4>2, Zenon
    <3> QED
      BY <3>4, Zenon DEF option, size
  <2>5. \A buf : PayloadDecode(buf, type) = RoutingActivationResponseDecode(buf)
    BY <2>2 DEF PayloadDecode
  <2>6. Arrived(p) = p
    BY <2>1 DEF Arrived
  <2> QED
    BY <1>9, <2>3, <2>4, <2>5, <2>6, RoutingActivationResponseWritten, Zenon
<1>10. CASE p \in VehicleIdentificationResponses
  <2>1. p.kind \in {"VehicleIdentificationResponse", "VehicleAnnouncement"}
    BY <1>10 DEF VehicleIdentificationResponses
  <2>2. type[1] = "VehicleAnnouncement"
    BY <2>1 DEF TypesOf
  <2>3. PayloadEncode(p) = VehicleIdentificationResponseEncode(p)
    BY <2>1 DEF PayloadEncode, BodilessKinds
  <2>4. PayloadEncodedSize(p) = 33
    BY <2>1 DEF PayloadEncodedSize, BodilessKinds
  <2>5. \A buf : PayloadDecode(buf, type) =
                     VehicleIdentificationResponseDecode(buf, "VehicleAnnouncement")
    BY <2>2 DEF PayloadDecode
  <2>6. Arrived(p) = [p EXCEPT !.kind = "VehicleAnnouncement"]
    BY <1>10, <2>1 DEF Arrived, VehicleIdentificationResponses
  <2> QED
    BY <1>10, <2>3, <2>4, <2>5, <2>6, VehicleIdentificationResponseWritten, Zenon
<1> QED
  BY <1>1, <1>2, <1>3, <1>4, <1>5, <1>6, <1>7, <1>8, <1>9, <1>10, Zenon DEF Payloads

(* What Payload::decode accepts is a payload of its type, and encoding it  *)
(* gives back the front of what it was read from; of a vehicle             *)
(* announcement, with its group id spelled the one way.                    *)
LEMMA PayloadRead ==
    ASSUME NEW buf \in Seq(Byte), NEW type, PayloadDecode(buf, type).is = "Ok"
    PROVE  \E p \in Payloads :
               /\ PayloadDecode(buf, type) = Ok(p)
               /\ type[1] \in TypesOf(p.kind)
               /\ p.kind # "VehicleIdentificationResponse"
               /\ \/ /\ p.kind # "VehicleAnnouncement"
                     /\ \E n \in 0..Len(buf) : PayloadEncode(p) = SubSeq(buf, 1, n)
                  \/ /\ p.kind = "VehicleAnnouncement"
                     /\ Len(buf) >= 33
                     /\ PayloadEncode(p) = Spelled(buf)
<1>1. Len(buf) \in Nat /\ Err("Incomplete").is # "Ok"
  BY DEF Err
<1>2. CASE type[1] = "NegativeAcknowledge"
  <2>1. PayloadDecode(buf, type) = DoIPNackDecode(buf)
    BY <1>2 DEF PayloadDecode
  <2>2. ~(Len(buf) < 1)
    BY <1>1, <2>1, Zenon DEF DoIPNackDecode, Body
  <2>3. Len(buf) >= 1
    BY <1>1, <2>2, SMT
  <2>4. PICK p \in DoIPNacks :
          /\ DoIPNackDecode(buf) = Ok(p)
          /\ DoIPNackEncode(p) =
                 SubSeq(buf, 1, 1)
    BY <2>3, DoIPNackRead, Zenon
  <2>5. p.kind = "DoIPNack" /\ p \in Payloads
    BY DEF DoIPNacks, Payloads
  <2>6. PayloadEncode(p) = DoIPNackEncode(p)
    BY <2>5 DEF PayloadEncode, BodilessKinds
  <2>7. type[1] \in TypesOf(p.kind)
    BY <1>2, <2>5 DEF TypesOf
  <2>8. 1 \in 0..Len(buf)
    BY <1>1, <2>3, SMT
  <2> QED
    BY <2>1, <2>4, <2>5, <2>6, <2>7, <2>8, Zenon
<1>3. CASE type[1] = "DiagnosticPowerModeInfoResponse"
  <2>1. PayloadDecode(buf, type) = PowerModeInfoResponseDecode(buf)
    BY <1>3 DEF PayloadDecode
  <2>2. ~(Len(buf) < 1)
    BY <1>1, <2>1, Zenon DEF PowerModeInfoResponseDecode, Body
  <2>3. Len(buf) >= 1
    BY <1>1, <2>2, SMT
  <2>4. PICK p \in PowerModeInfoResponses :
          /\ PowerModeInfoResponseDecode(buf) = Ok(p)
          /\ PowerModeInfoResponseEncode(p) =
                 SubSeq(buf, 1, 1)
    BY <2>3, PowerModeInfoResponseRead, Zenon
  <2>5. p.kind = "PowerModeInfoResponse" /\ p \in Payloads
    BY DEF PowerModeInfoResponses, Payloads
  <2>6. PayloadEncode(p) = PowerModeInfoResponseEncode(p)
    BY <2>5 DEF PayloadEncode, BodilessKinds
  <2>7. type[1] \in TypesOf(p.kind)
    BY <1>3, <2>5 DEF TypesOf
  <2>8. 1 \in 0..Len(buf)
    BY <1>1, <2>3, SMT
  <2> QED
    BY <2>1, <2>4, <2>5, <2>6, <2>7, <2>8, Zenon
<1>4. CASE type[1] = "AliveCheckResponse"
  <2>1. PayloadDecode(buf, type) = AliveCheckResponseDecode(buf)
    BY <1>4 DEF PayloadDecode
  <2>2. ~(Len(buf) < 2)
    BY <1>1, <2>1, Zenon DEF AliveCheckResponseDecode, Body
  <2>3. Len(buf) >= 2
    BY <1>1, <2>2, SMT
  <2>4. PICK p \in AliveCheckResponses :
          /\ AliveCheckResponseDecode(buf) = Ok(p)
          /\ AliveCheckResponseEncode(p) =
                 SubSeq(buf, 1, 2)
    BY <2>3, AliveCheckResponseRead, Zenon
  <2>5. p.kind = "AliveCheckResponse" /\ p \in Payloads
    BY DEF AliveCheckResponses, Payloads
  <2>6. PayloadEncode(p) = AliveCheckResponseEncode(p)
    BY <2>5 DEF PayloadEncode, BodilessKinds
  <2>7. type[1] \in TypesOf(p.kind)
    BY <1>4, <2>5 DEF TypesOf
  <2>8. 2 \in 0..Len(buf)
    BY <1>1, <2>3, SMT
  <2> QED
    BY <2>1, <2>4, <2>5, <2>6, <2>7, <2>8, Zenon
<1>5. CASE type[1] = "DoIPEntityStatusResponse"
  <2>1. PayloadDecode(buf, type) = EntityStatusResponseDecode(buf)
    BY <1>5 DEF PayloadDecode
  <2>2. ~(Len(buf) < 7)
    BY <1>1, <2>1, Zenon DEF EntityStatusResponseDecode, Body
  <2>3. Len(buf) >= 7
    BY <1>1, <2>2, SMT
  <2>4. PICK p \in EntityStatusResponses :
          /\ EntityStatusResponseDecode(buf) = Ok(p)
          /\ EntityStatusResponseEncode(p) =
                 SubSeq(buf, 1, 7)
    BY <2>3, EntityStatusResponseRead, Zenon
  <2>5. p.kind = "EntityStatusResponse" /\ p \in Payloads
    BY DEF EntityStatusResponses, Payloads
  <2>6. PayloadEncode(p) = EntityStatusResponseEncode(p)
    BY <2>5 DEF PayloadEncode, BodilessKinds
  <2>7. type[1] \in TypesOf(p.kind)
    BY <1>5, <2>5 DEF TypesOf
  <2>8. 7 \in 0..Len(buf)
    BY <1>1, <2>3, SMT
  <2> QED
    BY <2>1, <2>4, <2>5, <2>6, <2>7, <2>8, Zenon
<1>6. CASE type[1] = "DiagnosticMessage"
  <2>1. PayloadDecode(buf, type) = DiagnosticMessageDecode(buf)
    BY <1>6 DEF PayloadDecode
  <2>2. ~(Len(buf) < 4)
    BY <1>1, <2>1, Zenon DEF DiagnosticMessageDecode, Body
  <2>3. Len(buf) >= 4
    BY <1>1, <2>2, SMT
  <2>4. PICK p \in DiagnosticMessages :
          /\ DiagnosticMessageDecode(buf) = Ok(p)
          /\ DiagnosticMessageEncode(p) =
                 SubSeq(buf, 1, Len(buf))
    BY <2>3, DiagnosticMessageRead, Zenon
  <2>5. p.kind = "DiagnosticMessage" /\ p \in Payloads
    BY DEF DiagnosticMessages, Payloads
  <2>6. PayloadEncode(p) = DiagnosticMessageEncode(p)
    BY <2>5 DEF PayloadEncode, BodilessKinds
  <2>7. type[1] \in TypesOf(p.kind)
    BY <1>6, <2>5 DEF TypesOf
  <2>8. Len(buf) \in 0..Len(buf)
    BY <1>1, <2>3, SMT
  <2> QED
    BY <2>1, <2>4, <2>5, <2>6, <2>7, <2>8, Zenon
<1>7. CASE type[1] = "DiagnosticMessagePositiveAcknowledge"
  <2>1. PayloadDecode(buf, type) = DiagnosticMessageAckDecode(buf)
    BY <1>7 DEF PayloadDecode
  <2>2. ~(Len(buf) < 5)
    BY <1>1, <2>1, Zenon DEF DiagnosticMessageAckDecode, Body
  <2>3. Len(buf) >= 5
    BY <1>1, <2>2, SMT
  <2>4. PICK p \in DiagnosticMessageAcks :
          /\ DiagnosticMessageAckDecode(buf) = Ok(p)
          /\ DiagnosticMessageAckEncode(p) =
                 SubSeq(buf, 1, Len(buf))
    BY <2>3, DiagnosticMessageAckRead, Zenon
  <2>5. p.kind = "DiagnosticMessageAck" /\ p \in Payloads
    BY DEF DiagnosticMessageAcks, Payloads
  <2>6. PayloadEncode(p) = DiagnosticMessageAckEncode(p)
    BY <2>5 DEF PayloadEncode, BodilessKinds
  <2>7. type[1] \in TypesOf(p.kind)
    BY <1>7, <2>5 DEF TypesOf
  <2>8. Len(buf) \in 0..Len(buf)
    BY <1>1, <2>3, SMT
  <2> QED
    BY <2>1, <2>4, <2>5, <2>6, <2>7, <2>8, Zenon
<1>8. CASE type[1] = "RoutingActivationRequest"
  <2>1. PayloadDecode(buf, type) = RoutingActivationRequestDecode(buf)
    BY <1>8 DEF PayloadDecode
  <2>2. ~(Len(buf) < 7)
    BY <1>1, <2>1, Zenon
  DEF RoutingActivationRequestDecode, Body
  <2>3. Len(buf) >= 7
    BY <1>1, <2>2, SMT
  <2>4. PICK p \in RoutingActivationRequests :
          /\ RoutingActivationRequestDecode(buf) = Ok(p)
          /\ RoutingActivationRequestEncode(p) =
                 SubSeq(buf, 1, IF Len(buf) < 11 THEN 7 ELSE 11)
    BY <2>3, RoutingActivationRequestRead, Zenon
  <2>5. p.kind = "RoutingActivationRequest" /\ p \in Payloads
    BY DEF RoutingActivationRequests, Payloads
  <2>6. PayloadEncode(p) = RoutingActivationRequestEncode(p)
    BY <2>5 DEF PayloadEncode, BodilessKinds
  <2>7. type[1] \in TypesOf(p.kind)
    BY <1>8, <2>5 DEF TypesOf
  <2>8. (IF Len(buf) < 11 THEN 7 ELSE 11) \in 0..Len(buf)
    BY <1>1, <2>3, SMT
  <2> QED
    BY <2>1, <2>4, <2>5, <2>6, <2>7, <2>8, Zenon
<1>9. CASE type[1] = "RoutingActivationResponse"
  <2>1. PayloadDecode(buf, type) = RoutingActivationResponseDecode(buf)
    BY <1>9 DEF PayloadDecode
  <2>2. ~(Len(buf) < 9)
    BY <1>1, <2>1, Zenon
  DEF RoutingActivationResponseDecode, Body
  <2>3. Len(buf) >= 9
    BY <1>1, <2>2, SMT
  <2>4. PICK p \in RoutingActivationResponses :
          /\ RoutingActivationResponseDecode(buf) = Ok(p)
          /\ RoutingActivationResponseEncode(p) =
                 SubSeq(buf, 1, IF Len(buf) < 13 THEN 9 ELSE 13)
    BY <2>3, RoutingActivationResponseRead, Zenon
  <2>5. p.kind = "RoutingActivationResponse" /\ p \in Payloads
    BY DEF RoutingActivationResponses, Payloads
  <2>6. PayloadEncode(p) = RoutingActivationResponseEncode(p)
    BY <2>5 DEF PayloadEncode, BodilessKinds
  <2>7. type[1] \in TypesOf(p.kind)
    BY <1>9, <2>5 DEF TypesOf
  <2>8. (IF Len(buf) < 13 THEN 9 ELSE 13) \in 0..Len(buf)
    BY <1>1, <2>3, SMT
  <2> QED
    BY <2>1, <2>4, <2>5, <2>6, <2>7, <2>8, Zenon
<1>10. CASE type[1] = "VehicleAnnouncement"
  <2> DEFINE kind == "VehicleAnnouncement"
  <2>1. PayloadDecode(buf, type) = VehicleIdentificationResponseDecode(buf, kind)
    BY <1>10 DEF PayloadDecode
  <2>2. ~(Len(buf) < 33)
    BY <1>1, <2>1, Zenon DEF VehicleIdentificationResponseDecode, Body
  <2>3. /\ Len(buf) >= 33
        /\ kind \in {"VehicleIdentificationResponse", "VehicleAnnouncement"}
    BY <1>1, <2>2, SMT
  <2>4. PICK p \in VehicleIdentificationResponses :
            /\ p.kind = kind
            /\ VehicleIdentificationResponseDecode(buf, kind) = Ok(p)
            /\ VehicleIdentificationResponseEncode(p) = Spelled(buf)
    BY <2>3, VehicleIdentificationResponseRead, Zenon DEF Spelled
  <2>5. p \in Payloads
    BY Zenon DEF Payloads
  <2>6. PayloadEncode(p) = VehicleIdentificationResponseEncode(p)
    BY <2>4 DEF PayloadEncode, BodilessKinds
  <2>7. type[1] \in TypesOf(p.kind)
    BY <1>10, <2>4 DEF TypesOf
  <2>8. p.kind = "VehicleAnnouncement" /\ p.kind # "VehicleIdentificationResponse"
    BY <2>4
  <2> QED
    BY <2>1, <2>3, <2>4, <2>5, <2>6, <2>7, <2>8, Zenon
<1>11. ASSUME NEW kind \in BodilessKinds, type[1] \in TypesOf(kind)
      PROVE  \E p \in Payloads :
               /\ PayloadDecode(buf, type) = Ok(p)
               /\ type[1] \in TypesOf(p.kind)
               /\ p.kind # "VehicleIdentificationResponse"
               /\ p.kind # "VehicleAnnouncement"
               /\ \E n \in 0..Len(buf) : PayloadEncode(p) = SubSeq(buf, 1, n)
  <2> DEFINE p == [kind |-> kind]
  <2>1. PayloadDecode(buf, type) = Ok(p)
    BY <1>11 DEF PayloadDecode, TypesOf, BodilessKinds
  <2>2. p \in Payloads /\ p.kind = kind
    BY DEF Payloads
  <2>3. /\ p.kind # "VehicleIdentificationResponse"
        /\ p.kind # "VehicleAnnouncement"
    BY <2>2 DEF BodilessKinds
  <2>4. PayloadEncode(p) = <<>>
    BY <2>2 DEF PayloadEncode, BodilessKinds
  <2>5. SubSeq(buf, 1, 0) = <<>> /\ 0 \in 0..Len(buf)
    BY <1>1, SMT
  <2> QED
    BY <1>11, <2>1, <2>2, <2>3, <2>4, <2>5, Zenon
<1>12. CASE \E kind \in BodilessKinds : type[1] \in TypesOf(kind)
  BY <1>11, <1>12, Zenon
<1>13. \/ \E kind \in BodilessKinds : type[1] \in TypesOf(kind)
       \/ type[1] = "NegativeAcknowledge"
       \/ type[1] = "DiagnosticPowerModeInfoResponse"
       \/ type[1] = "AliveCheckResponse"
       \/ type[1] = "DoIPEntityStatusResponse"
       \/ type[1] = "DiagnosticMessage"
       \/ type[1] = "DiagnosticMessagePositiveAcknowledge"
       \/ type[1] = "RoutingActivationRequest"
       \/ type[1] = "RoutingActivationResponse"
       \/ type[1] = "VehicleAnnouncement"
  <2>1. PayloadDecode(buf, type) # Err("UnsupportedPayloadType")
    BY DEF Err
  <2>2. \A name \in {"VehicleIdentificationRequest",
                      "VehicleIdentificationRequestWithEID",
                      "VehicleIdentificationRequestWithVIN"} :
            name \in TypesOf("VehicleIdentificationRequest")
    BY DEF TypesOf
  <2>3. /\ "AliveCheckRequest" \in TypesOf("AliveCheckRequest")
        /\ "DoIPEntityStatusRequest" \in TypesOf("EntityStatusRequest")
        /\ "DiagnosticMessageNegativeAcknowledge" \in
               TypesOf("DiagnosticMessageNack")
    BY DEF TypesOf
  <2>4. \/ type[1] \in {"VehicleIdentificationRequest",
                        "VehicleIdentificationRequestWithEID",
                        "VehicleIdentificationRequestWithVIN"}
        \/ type[1] \in {"AliveCheckRequest", "DoIPEntityStatusRequest",
                        "DiagnosticMessageNegativeAcknowledge"}
        \/ type[1] = "NegativeAcknowledge"
        \/ type[1] = "DiagnosticPowerModeInfoResponse"
        \/ type[1] = "AliveCheckResponse"
        \/ type[1] = "DoIPEntityStatusResponse"
        \/ type[1] = "DiagnosticMessage"
        \/ type[1] = "DiagnosticMessagePositiveAcknowledge"
        \/ type[1] = "RoutingActivationRequest"
        \/ type[1] = "RoutingActivationResponse"
        \/ type[1] = "VehicleAnnouncement"
    BY <2>1 DEF PayloadDecode
  <2> QED
    BY <2>2, <2>3, <2>4 DEF BodilessKinds
<1> QED
  BY <1>2, <1>3, <1>4, <1>5, <1>6, <1>7, <1>8, <1>9, <1>10, <1>12, <1>13, Zenon

=============================================================================
