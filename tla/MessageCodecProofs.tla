------------------------- MODULE MessageCodecProofs -------------------------
(***************************************************************************)
(* MessageCodec under FramedRead gives its reader what the stream of       *)
(* frames owes it, for messages and frames of every content and length,    *)
(* any number of them, and however the bytes are cut into reads.           *)
(*                                                                         *)
(* The invariant is a ruler laid along the bytes that are written and not  *)
(* yet taken, those in the buffer followed by those on the wire: they      *)
(* begin where a frame begins, and between two marks of ends lies a frame  *)
(* that earns what is owed for it, or, at the very end of a connection     *)
(* that is closed, the piece of one.                                       *)
(***************************************************************************)
EXTENDS MessageCodec, WireProofs

(* What can be owed, and what the stream can yield.                        *)
Owed ==
    {frame.owed : frame \in ForeignFrames}
    \cup {[verdict |-> "Deliver", message |-> Received(m)] : m \in Messages}
    \cup {[verdict |-> "Cut"]}

Items ==
    {Ok(owed.message) : owed \in {o \in Owed : o.verdict = "Deliver"}}
    \cup {Err(error) : error \in {"VersionInverseIncorrect", "Incomplete",
                                  "ConnectionReset", "BytesRemaining"}}

(* EndOf, for any marks.                                                   *)
Mark(marks, n) == IF n = 0 THEN 0 ELSE marks[n]

(* The bytes of frame i where those of frame k are at the front.           *)
Slice(marks, buf, k, i) ==
    SubSeq(buf, Mark(marks, i - 1) - Mark(marks, k) + 1,
           Mark(marks, i) - Mark(marks, k))

(* Bytes of which try_frame waits for more, however many of them it sees.  *)
Piece(bytes) ==
    \A n \in 0..Len(bytes) : try_frame(SubSeq(bytes, 1, n)) = Err("None")

Due(bytes, owed, last) ==
    \/ Earns(bytes, owed)
    \/ last /\ owed = [verdict |-> "Cut"] /\ Piece(bytes)

(* The ruler: marks lie along buf from the k-th on.                        *)
Ruler(owed, marks, over, buf, k) ==
    /\ owed \in Seq(Owed)
    /\ marks \in Seq(Nat)
    /\ Len(marks) = Len(owed)
    /\ \A i, j \in 0..Len(marks) : i < j => Mark(marks, i) < Mark(marks, j)
    /\ buf \in Seq(Byte)
    /\ k \in 0..Len(marks)
    /\ Mark(marks, k) + Len(buf) = Mark(marks, Len(marks))
    /\ \A i \in (k + 1)..Len(marks) :
           Due(Slice(marks, buf, k, i), owed[i], over /\ i = Len(marks))

Measured ==
    /\ TypeOK
    /\ items \in Seq(Items)
    /\ \E k \in 0..Len(ends) : Ruler(sent, ends, closed, src \o wire, k)
    /\ eof = TRUE => closed = TRUE /\ wire = <<>>
    /\ reader \in {"Read", "Decode"} =>
           \A i \in 1..Len(items) : items[i].is = "Ok"

----------------------------------------------------------------------------
(* The ruler.                                                              *)

(* The bytes from a to b are the same when the first l are gone.           *)
Shift(buf, l, a, b) ==
    SubSeq(SubSeq(buf, l + 1, Len(buf)), a - l + 1, b - l) =
        SubSeq(buf, a + 1, b)

(* What moves on with the front of a buffer.                               *)
LEMMA Shifted ==
    ASSUME NEW buf \in Seq(Byte), NEW l \in Nat, NEW a \in Nat, NEW b \in Nat,
           l <= a, a <= b, b <= Len(buf)
    PROVE  Shift(buf, l, a, b)
<1> DEFINE rest == SubSeq(buf, l + 1, Len(buf))
           s == SubSeq(rest, a - l + 1, b - l)
           t == SubSeq(buf, a + 1, b)
<1>1. Len(buf) \in Nat /\ l + 1 \in Nat \ {0} /\ a - l + 1 \in Nat \ {0}
      /\ b - l \in Nat /\ a + 1 \in Nat \ {0}
  BY SMT
<1>2. /\ rest \in Seq(Byte) /\ Len(rest) = Len(buf) - l
      /\ \A k \in 1..Len(rest) : rest[k] = buf[l + k]
  BY <1>1, Part, SMT
<1> HIDE DEF rest
<1>3. /\ s \in Seq(Byte) /\ Len(s) = b - a
      /\ \A k \in 1..Len(s) : s[k] = rest[a - l + k]
  BY <1>1, <1>2, Part, SMT
<1>4. /\ t \in Seq(Byte) /\ Len(t) = b - a
      /\ \A k \in 1..Len(t) : t[k] = buf[a + k]
  BY <1>1, Part, SMT
<1> HIDE DEF s, t
<1>5. ASSUME NEW k \in 1..Len(s)
      PROVE  s[k] = t[k]
  <2>1. /\ k \in 1..Len(t) /\ a - l + k \in 1..Len(rest)
        /\ l + (a - l + k) = a + k
    BY <1>1, <1>2, <1>3, <1>4, SMT
  <2> QED
    BY <1>2, <1>3, <1>4, <2>1, Zenon
<1>6. Len(s) = Len(t)
  BY <1>3, <1>4, Zenon
<1>7. s = t
  BY <1>3, <1>4, <1>5, <1>6, Same, Zenon
<1> QED
  BY <1>7, Zenon DEF Shift, s, t, rest

(* A read moves bytes from the wire to the buffer, and changes none.       *)
LEMMA Regrouped ==
    ASSUME NEW a \in Seq(Byte), NEW b \in Seq(Byte), NEW n \in 1..Len(b)
    PROVE  /\ a \o SubSeq(b, 1, n) \in Seq(Byte)
           /\ SubSeq(b, n + 1, Len(b)) \in Seq(Byte)
           /\ (a \o SubSeq(b, 1, n)) \o SubSeq(b, n + 1, Len(b)) = a \o b
<1> DEFINE s == SubSeq(b, 1, n)
           t == SubSeq(b, n + 1, Len(b))
<1>1. /\ Len(b) \in Nat /\ n \in Nat /\ n <= Len(b) /\ 1 \in Nat \ {0}
      /\ n + 1 \in Nat \ {0} /\ Len(b) <= Len(b)
  BY SMT
<1>2. s \in Seq(Byte) /\ t \in Seq(Byte)
  BY <1>1, Part, Zenon
<1>3. s \o t = b
  <2>1. s \o t = SubSeq(b, 1, Len(b))
    BY <1>1, Grown, Zenon
  <2>2. SubSeq(b, 1, Len(b)) = b
    BY SMT
  <2> QED
    BY <2>1, <2>2, Zenon
<1> HIDE DEF s, t
<1>4. a \o s \in Seq(Byte)
  BY <1>2, Cat, Zenon
<1>5. a \o (s \o t) = a \o s \o t
  BY <1>2, SMT
<1> QED
  BY <1>2, <1>3, <1>4, <1>5, Zenon DEF s, t

(* The marks are numbers, in order, and the bytes of frame i lie between   *)
(* two of them in the buffer.                                              *)
LEMMA SliceLies ==
    ASSUME NEW owed, NEW marks, NEW over, NEW buf, NEW k,
           Ruler(owed, marks, over, buf, k), NEW i \in (k + 1)..Len(marks)
    PROVE  LET a == Mark(marks, i - 1) - Mark(marks, k)
               b == Mark(marks, i) - Mark(marks, k)
           IN  /\ i \in 1..Len(marks) /\ k \in Nat
               /\ Mark(marks, k) \in Nat /\ Mark(marks, i) \in Nat
               /\ a \in Nat /\ b \in Nat /\ a < b /\ b <= Len(buf)
<1> DEFINE n == Len(marks)
<1>1. marks \in Seq(Nat) /\ buf \in Seq(Byte) /\ k \in 0..n
  BY Zenon DEF Ruler
<1>2. n \in Nat /\ Len(buf) \in Nat
  BY <1>1, LenProperties, Zenon
<1>3. ASSUME NEW j \in 0..n
      PROVE  Mark(marks, j) \in Nat
  <2>1. CASE j = 0
    BY <2>1, SMT DEF Mark
  <2>2. CASE j # 0
    <3>1. j \in 1..Len(marks)
      BY <1>2, <2>2, SMT
    <3>2. marks[j] \in Nat
      BY <1>1, <3>1, ElementOfSeq, Zenon
    <3> QED
      BY <2>2, <3>2, Zenon DEF Mark
  <2> QED
    BY <2>1, <2>2, Zenon
<1>4. /\ i - 1 \in 0..n /\ i \in 0..n /\ n \in 0..n /\ i - 1 < i
      /\ (k = i - 1 \/ k < i - 1) /\ (i = n \/ i < n) /\ i \in 1..n /\ k \in Nat
  BY <1>1, <1>2, SMT
<1>5. \A x, y \in 0..n : x < y => Mark(marks, x) < Mark(marks, y)
  BY Zenon DEF Ruler
<1>6. Mark(marks, k) + Len(buf) = Mark(marks, n)
  BY Zenon DEF Ruler
<1> DEFINE c == Mark(marks, k)
           a == Mark(marks, i - 1)
           b == Mark(marks, i)
           z == Mark(marks, n)
<1>7. /\ c \in Nat /\ a \in Nat /\ b \in Nat /\ z \in Nat
      /\ a < b /\ (c = a \/ c < a) /\ (b = z \/ b < z) /\ c + Len(buf) = z
  BY <1>1, <1>3, <1>4, <1>5, <1>6, Zenon
<1> HIDE DEF a, b, c, z, n
<1>8. a - c \in Nat /\ b - c \in Nat /\ a - c < b - c /\ b - c <= Len(buf)
  BY <1>2, <1>7, SMT
<1> QED
  BY <1>4, <1>7, <1>8, Zenon DEF a, b, c, z, n

(* A sequence with one more element, index by index.                       *)
LEMMA Appended ==
    ASSUME NEW S, NEW s \in Seq(S), NEW x \in S
    PROVE  /\ Append(s, x) \in Seq(S)
           /\ Len(Append(s, x)) = Len(s) + 1
           /\ \A i \in 1..Len(s) : Append(s, x)[i] = s[i]
           /\ Append(s, x)[Len(s) + 1] = x
  OBVIOUS

(* The marks of a ruler are numbers.                                       *)
LEMMA MarksAre ==
    ASSUME NEW owed, NEW marks, NEW over, NEW buf, NEW k,
           Ruler(owed, marks, over, buf, k)
    PROVE  /\ Len(marks) \in Nat /\ Len(buf) \in Nat /\ k \in 0..Len(marks)
           /\ \A j \in 0..Len(marks) : Mark(marks, j) \in Nat
           /\ \A i, j \in 0..Len(marks) : i < j => Mark(marks, i) < Mark(marks, j)
           /\ Mark(marks, k) + Len(buf) = Mark(marks, Len(marks))
<1> DEFINE n == Len(marks)
<1>1. marks \in Seq(Nat) /\ buf \in Seq(Byte)
  BY Zenon DEF Ruler
<1>2. n \in Nat /\ Len(buf) \in Nat
  BY <1>1, LenProperties, Zenon
<1>3. ASSUME NEW j \in 0..n
      PROVE  Mark(marks, j) \in Nat
  <2>1. CASE j = 0
    BY <2>1, SMT DEF Mark
  <2>2. CASE j # 0
    <3>1. j \in 1..Len(marks)
      BY <1>2, <2>2, SMT
    <3>2. marks[j] \in Nat
      BY <1>1, <3>1, ElementOfSeq, Zenon
    <3> QED
      BY <2>2, <3>2, Zenon DEF Mark
  <2> QED
    BY <2>1, <2>2, Zenon
<1> QED
  BY <1>2, <1>3, Zenon DEF Ruler

(* A frame that is written lies behind all others, up to a new mark.       *)
LEMMA RulerWritten ==
    ASSUME NEW owed, NEW marks, NEW buf, NEW k,
           Ruler(owed, marks, FALSE, buf, k),
           NEW o \in Owed, NEW bytes \in Seq(Byte), Len(bytes) > 0,
           NEW over \in BOOLEAN, Due(bytes, o, over)
    PROVE  Ruler(Append(owed, o),
                 Append(marks, Mark(marks, Len(marks)) + Len(bytes)),
                 over, buf \o bytes, k)
<1> DEFINE n == Len(marks)
           c == Mark(marks, k)
           z == Mark(marks, n)
           owed2 == Append(owed, o)
           marks2 == Append(marks, z + Len(bytes))
           buf2 == buf \o bytes
<1>1. /\ owed \in Seq(Owed) /\ marks \in Seq(Nat) /\ n = Len(owed)
      /\ buf \in Seq(Byte)
      /\ \A i \in (k + 1)..n :
             Due(Slice(marks, buf, k, i), owed[i], FALSE /\ i = n)
  BY Zenon DEF Ruler
<1>2. /\ n \in Nat /\ Len(buf) \in Nat /\ k \in 0..n
      /\ \A j \in 0..n : Mark(marks, j) \in Nat
      /\ \A i, j \in 0..n : i < j => Mark(marks, i) < Mark(marks, j)
      /\ c + Len(buf) = z
  BY MarksAre, Zenon
<1>3. n \in 0..n /\ Len(bytes) \in Nat
  BY <1>2, SMT
<1>4. c \in Nat /\ z \in Nat
  BY <1>2, <1>3, Zenon
<1> HIDE DEF c, z
<1>5. z + Len(bytes) \in Nat /\ z < z + Len(bytes)
  BY <1>3, <1>4, SMT
<1>6. /\ owed2 \in Seq(Owed) /\ Len(owed2) = Len(owed) + 1
      /\ \A i \in 1..Len(owed) : owed2[i] = owed[i]
      /\ owed2[Len(owed) + 1] = o
  <2>1. owed \in Seq(Owed)
    BY <1>1, Zenon
  <2> QED
    BY <2>1, Appended
<1>7. /\ marks2 \in Seq(Nat) /\ Len(marks2) = n + 1
      /\ \A i \in 1..n : marks2[i] = marks[i]
      /\ marks2[n + 1] = z + Len(bytes)
  <2>1. marks \in Seq(Nat) /\ z + Len(bytes) \in Nat
    BY <1>1, <1>5, Zenon
  <2> QED
    BY <2>1, Appended
<1>8. buf2 \in Seq(Byte) /\ Len(buf2) = Len(buf) + Len(bytes)
  BY <1>1, Cat, Zenon
<1> HIDE DEF owed2, marks2, buf2, n
<1>9. ASSUME NEW j \in 0..n
      PROVE  Mark(marks2, j) = Mark(marks, j)
  <2>1. CASE j = 0
    BY <2>1, Zenon DEF Mark
  <2>2. CASE j # 0
    <3>1. j \in 1..n
      BY <1>2, <2>2, SMT
    <3> QED
      BY <1>7, <2>2, <3>1, Zenon DEF Mark
  <2> QED
    BY <2>1, <2>2, Zenon
<1>10. Mark(marks2, n + 1) = z + Len(bytes)
  <2>1. n + 1 # 0
    BY <1>2, SMT
  <2> QED
    BY <1>7, <2>1, Zenon DEF Mark
<1>11. Mark(marks2, k) = c /\ Mark(marks2, n) = z
  BY <1>2, <1>3, <1>9, Zenon DEF c, z
<1>12. ASSUME NEW i \in 0..(n + 1), NEW j \in 0..(n + 1), i < j
       PROVE  Mark(marks2, i) < Mark(marks2, j)
  <2>1. i \in 0..n
    BY <1>2, <1>12, SMT
  <2>2. CASE j \in 0..n
    BY <1>2, <1>9, <1>12, <2>1, <2>2, Zenon
  <2>3. CASE j \notin 0..n
    <3>1. j = n + 1 /\ (i = n \/ i < n)
      BY <1>2, <2>1, <2>3, SMT
    <3> DEFINE a == Mark(marks, i)
    <3>2. a \in Nat /\ (a = z \/ a < z)
      BY <1>2, <1>3, <2>1, <3>1, Zenon DEF z
    <3> HIDE DEF a
    <3>3. a < z + Len(bytes)
      BY <1>4, <1>5, <3>2, SMT
    <3> QED
      BY <1>9, <1>10, <2>1, <3>1, <3>3, Zenon DEF a
  <2> QED
    BY <2>2, <2>3, Zenon
<1>13. k \in 0..(n + 1) /\ c + Len(buf2) = z + Len(bytes)
  BY <1>2, <1>3, <1>4, <1>8, SMT
<1>14. ASSUME NEW i \in (k + 1)..(n + 1)
       PROVE  Due(Slice(marks2, buf2, k, i), owed2[i], over /\ i = n + 1)
  <2>1. CASE i \in (k + 1)..n
    <3>1. i - 1 \in 0..n /\ i \in 0..n /\ i \in 1..n /\ i # n + 1
      BY <1>2, <2>1, SMT
    <3> DEFINE a == Mark(marks, i - 1) - c
               b == Mark(marks, i) - c
    <3>2. a \in Nat /\ b \in Nat /\ a < b /\ b <= Len(buf)
      BY <2>1, SliceLies, Zenon DEF c, n
    <3>3. /\ Slice(marks2, buf2, k, i) = SubSeq(buf2, a + 1, b)
          /\ Slice(marks, buf, k, i) = SubSeq(buf, a + 1, b)
      BY <1>9, <1>11, <3>1, Zenon DEF Slice, c
    <3> HIDE DEF a, b
    <3>4. a + 1 \in Nat \ {0}
      BY <3>2, SMT
    <3>5. SubSeq(buf2, a + 1, b) = SubSeq(buf, a + 1, b)
      BY <1>1, <3>2, <3>4, Kept, Zenon DEF buf2
    <3>6. Due(Slice(marks, buf, k, i), owed[i], FALSE /\ i = n)
      BY <1>1, <2>1, Zenon
    <3>7. Earns(Slice(marks2, buf2, k, i), owed2[i])
      BY <1>1, <1>6, <3>1, <3>3, <3>5, <3>6, Zenon DEF Due
    <3> QED
      BY <3>7, Zenon DEF Due
  <2>2. CASE i \notin (k + 1)..n
    <3>1. i = n + 1
      BY <1>2, <2>2, SMT
    <3>2. Slice(marks2, buf2, k, n + 1) =
              SubSeq(buf2, z - c + 1, (z + Len(bytes)) - c)
      <4>1. (n + 1) - 1 = n
        BY <1>2, SMT
      <4> QED
        BY <1>10, <1>11, <4>1, Zenon DEF Slice
    <3>3. z - c = Len(buf) /\ (z + Len(bytes)) - c = Len(buf) + Len(bytes)
      BY <1>2, <1>3, <1>4, SMT
    <3>4. SubSeq(buf2, Len(buf) + 1, Len(buf) + Len(bytes)) = bytes
      BY <1>1, Rear, Zenon DEF buf2
    <3>5. Slice(marks2, buf2, k, i) = bytes /\ owed2[i] = o
      BY <1>1, <1>6, <3>1, <3>2, <3>3, <3>4, Zenon
    <3> QED
      BY <3>1, <3>5, Zenon DEF Due
  <2> QED
    BY <2>1, <2>2, Zenon
<1>15. Ruler(owed2, marks2, over, buf2, k)
  BY <1>1, <1>6, <1>7, <1>8, <1>10, <1>11, <1>12, <1>13, <1>14, Zenon DEF Ruler
<1> QED
  BY <1>15, Zenon DEF owed2, marks2, buf2, z, n

(* The writer may go between two frames.                                   *)
LEMMA RulerClosed ==
    ASSUME NEW owed, NEW marks, NEW buf, NEW k,
           Ruler(owed, marks, FALSE, buf, k)
    PROVE  Ruler(owed, marks, TRUE, buf, k)
<1>1. ASSUME NEW i \in (k + 1)..Len(marks)
      PROVE  Due(Slice(marks, buf, k, i), owed[i], TRUE /\ i = Len(marks))
  <2>1. Due(Slice(marks, buf, k, i), owed[i], FALSE /\ i = Len(marks))
    BY Zenon DEF Ruler
  <2> QED
    BY <2>1, Zenon DEF Due
<1> QED
  BY <1>1, Zenon DEF Ruler

(* A frame that earns something is one that try_frame has a verdict on     *)
(* once it sees all of it, and not before.                                 *)
LEMMA EarnsAtTheEnd ==
    ASSUME NEW bytes \in Seq(Byte), NEW owed, Earns(bytes, owed)
    PROVE  /\ try_frame(bytes).is # "None"
           /\ Len(bytes) > 0
           /\ \A n \in Nat : n < Len(bytes) =>
                  try_frame(SubSeq(bytes, 1, n)) = Err("None")
<1> DEFINE frame == try_frame(bytes)
<1>1. \/ frame.is = "VersionInverseIncorrect" /\ Len(bytes) = HeaderSize
      \/ frame.is = "Ok" /\ frame.value.consumed = Len(bytes)
  BY Zenon DEF Earns
<1>2. frame.is # "None"
  <2> HIDE DEF frame
  <2> QED
    BY <1>1
<1>3. Len(bytes) > 0
  <2>1. CASE Len(bytes) < HeaderSize
    <3>1. frame = Err("None")
      BY <2>1, Zenon DEF try_frame
    <3>2. Err("None").is = "None"
      BY DEF Err
    <3> QED
      BY <1>2, <3>1, <3>2, Zenon
  <2>2. CASE ~(Len(bytes) < HeaderSize)
    BY <2>2, SMT DEF HeaderSize
  <2> QED
    BY <2>1, <2>2, Zenon
<1>4. \A n \in Nat : n < Len(bytes) =>
          try_frame(SubSeq(bytes, 1, n)) = Err("None")
  BY <1>1, FrameIsWhole, Zenon
<1> QED
  BY <1>2, <1>3, <1>4, Zenon

(* The front of a buffer, the buffer or not all of the frame in it.        *)
LEMMA Fronts ==
    ASSUME NEW s \in Seq(Byte), NEW t \in Seq(Byte), NEW l \in Nat,
           l <= Len(s \o t)
    PROVE  /\ l <= Len(s) => /\ SubSeq(s \o t, 1, l) = SubSeq(s, 1, l)
                             /\ SubSeq(s, 1, l) \o SubSeq(s, l + 1, Len(s)) = s
           /\ Len(s) <= l => SubSeq(SubSeq(s \o t, 1, l), 1, Len(s)) = s
<1> DEFINE buf == s \o t
           front == SubSeq(buf, 1, l)
           again == SubSeq(front, 1, Len(s))
<1>1. Len(s) \in Nat /\ 1 \in Nat \ {0} /\ Len(s) <= Len(s)
  BY SMT
<1>2. ASSUME l <= Len(s)
      PROVE  /\ SubSeq(buf, 1, l) = SubSeq(s, 1, l)
             /\ SubSeq(s, 1, l) \o SubSeq(s, l + 1, Len(s)) = s
  <2>1. SubSeq(buf, 1, l) = SubSeq(s, 1, l)
    BY <1>1, <1>2, Kept, Zenon
  <2>2. SubSeq(s, 1, l) \o SubSeq(s, l + 1, Len(s)) = SubSeq(s, 1, Len(s))
    BY <1>1, <1>2, Grown, Zenon
  <2>3. SubSeq(s, 1, Len(s)) = s
    BY SMT
  <2> QED
    BY <2>1, <2>2, <2>3, Zenon
<1>3. ASSUME Len(s) <= l
      PROVE  again = s
  <2>1. /\ buf \in Seq(Byte) /\ Len(buf) = Len(s) + Len(t)
        /\ \A k \in 1..Len(s) : buf[k] = s[k]
    BY Cat, Zenon
  <2>2. Len(buf) \in Nat /\ l <= Len(buf)
    BY <2>1, LenProperties, Zenon
  <2> HIDE DEF buf
  <2>3. /\ front \in Seq(Byte) /\ Len(front) = l
        /\ \A k \in 1..l : front[k] = buf[k]
    BY <1>1, <2>1, <2>2, Part, SMT
  <2> HIDE DEF front
  <2>4. /\ again \in Seq(Byte) /\ Len(again) = Len(s)
        /\ \A k \in 1..Len(s) : again[k] = front[k]
    BY <1>1, <1>3, <2>3, Part, SMT
  <2> HIDE DEF again
  <2>5. ASSUME NEW k \in 1..Len(again)
        PROVE  again[k] = s[k]
    <3>1. k \in 1..Len(s) /\ k \in 1..l
      BY <1>1, <1>3, <2>4, SMT
    <3> QED
      BY <2>1, <2>3, <2>4, <3>1, Zenon
  <2> QED
    BY <2>4, <2>5, Same, Zenon
<1> QED
  BY <1>2, <1>3, Zenon

(* Where the bytes begin with a frame, and that there is one.              *)
LEMMA FirstSlice ==
    ASSUME NEW owed, NEW marks, NEW over, NEW buf, NEW k,
           Ruler(owed, marks, over, buf, k), k # Len(marks)
    PROVE  LET l == Mark(marks, k + 1) - Mark(marks, k)
           IN  /\ k + 1 \in 1..Len(marks) /\ k < Len(owed)
               /\ l \in Nat /\ l > 0 /\ l <= Len(buf)
               /\ Due(SubSeq(buf, 1, l), owed[k + 1], over /\ k + 1 = Len(marks))
               /\ k + 1 = Len(marks) => l = Len(buf)
<1> DEFINE c == Mark(marks, k)
           b == Mark(marks, k + 1)
           n == Len(marks)
<1>1. n \in Nat /\ Len(buf) \in Nat /\ k \in 0..n
      /\ c + Len(buf) = Mark(marks, n)
  BY MarksAre, Zenon
<1>2. k + 1 \in (k + 1)..n /\ (k + 1) - 1 = k /\ k + 1 \in 1..n
  BY <1>1, SMT
<1>3. k < Len(owed)
  <2>1. n = Len(owed)
    BY Zenon DEF Ruler
  <2>2. k < n
    BY <1>1, SMT
  <2> QED
    BY <2>1, <2>2, Zenon
<1>4. /\ Mark(marks, (k + 1) - 1) - c \in Nat /\ b - c \in Nat
      /\ Mark(marks, (k + 1) - 1) - c < b - c /\ b - c <= Len(buf)
      /\ c \in Nat /\ b \in Nat
  BY <1>2, SliceLies, Zenon
<1>5. Due(Slice(marks, buf, k, k + 1), owed[k + 1], over /\ k + 1 = n)
  BY <1>2, Zenon DEF Ruler
<1>6. Slice(marks, buf, k, k + 1) = SubSeq(buf, c - c + 1, b - c)
  BY <1>2, Zenon DEF Slice
<1> HIDE DEF c, b
<1>7. c - c + 1 = 1 /\ c - c = 0
  BY <1>4, SMT
<1>8. b - c > 0
  <2>1. c - c < b - c
    BY <1>2, <1>4, Zenon DEF c
  <2> QED
    BY <1>4, <2>1, SMT
<1>9. k + 1 = n => b - c = Len(buf)
  <2>1. ASSUME k + 1 = n
        PROVE  c + Len(buf) = b
    BY <1>1, <2>1, Zenon DEF b
  <2> QED
    BY <1>1, <1>4, <2>1, SMT
<1>10. Due(SubSeq(buf, 1, b - c), owed[k + 1], over /\ k + 1 = n)
  BY <1>5, <1>6, <1>7, Zenon
<1> QED
  BY <1>2, <1>3, <1>4, <1>8, <1>9, <1>10, Zenon DEF b, c

(* All of the next frame is at the front of s, and try_frame sees no more. *)
AtFront(owed, marks, s, k) ==
    LET l == Mark(marks, k + 1) - Mark(marks, k)
    IN  /\ k # Len(marks) /\ k < Len(owed)
        /\ l \in Nat /\ l <= Len(s)
        /\ SubSeq(s, 1, l) \in Seq(Byte) /\ Len(SubSeq(s, 1, l)) = l
        /\ Earns(SubSeq(s, 1, l), owed[k + 1])
        /\ try_frame(s) = try_frame(SubSeq(s, 1, l))

(* When try_frame has a verdict on the buffer, all of the front frame is   *)
(* in it, that frame earned the verdict, and it is the next that is owed.  *)
LEMMA RulerFront ==
    ASSUME NEW owed, NEW marks, NEW over, NEW s \in Seq(Byte),
           NEW t \in Seq(Byte), NEW k, Ruler(owed, marks, over, s \o t, k),
           try_frame(s).is # "None"
    PROVE  AtFront(owed, marks, s, k)
<1> DEFINE buf == s \o t
           l == Mark(marks, k + 1) - Mark(marks, k)
           front == SubSeq(buf, 1, l)
<1>1. Err("None").is = "None" /\ Len(s) \in Nat /\ 1 \in Nat \ {0}
  BY DEF Err
<1>2. buf \in Seq(Byte) /\ Len(buf) = Len(s) + Len(t)
  BY Cat, Zenon
<1>3. k # Len(marks)
  <2> SUFFICES ASSUME k = Len(marks) PROVE FALSE
    OBVIOUS
  <2> DEFINE c == Mark(marks, k)
  <2>1. c + Len(buf) = c /\ c \in Nat
    BY MarksAre, Zenon
  <2> HIDE DEF c
  <2>2. Len(s) < HeaderSize
    BY <1>2, <2>1, SMT DEF HeaderSize
  <2>3. try_frame(s) = Err("None")
    BY <2>2, Zenon DEF try_frame
  <2> QED
    BY <1>1, <2>3, Zenon
<1>4. /\ k < Len(owed) /\ l \in Nat /\ l > 0 /\ l <= Len(buf)
      /\ Due(front, owed[k + 1], over /\ k + 1 = Len(marks))
      /\ k + 1 = Len(marks) => l = Len(buf)
  <2>1. Ruler(owed, marks, over, buf, k)
    BY Zenon
  <2> HIDE DEF buf
  <2>2. /\ k < Len(owed) /\ l \in Nat /\ l > 0 /\ l <= Len(buf)
        /\ Due(front, owed[k + 1], over /\ k + 1 = Len(marks))
    BY <1>3, <2>1, FirstSlice, Zenon
  <2>3. k + 1 = Len(marks) => l = Len(buf)
    BY <1>3, <2>1, FirstSlice, SMT
  <2> QED
    BY <2>2, <2>3, Zenon
<1> HIDE DEF l
<1>5. /\ l <= Len(s) => /\ front = SubSeq(s, 1, l)
                        /\ SubSeq(s, 1, l) \o SubSeq(s, l + 1, Len(s)) = s
      /\ Len(s) <= l => SubSeq(front, 1, Len(s)) = s
  BY <1>4, Fronts, Zenon
<1>6. Len(buf) \in Nat
  BY <1>2, LenProperties, Zenon
<1>7. front \in Seq(Byte) /\ Len(front) = l
  <2> HIDE DEF buf
  <2> QED
    BY <1>1, <1>2, <1>4, <1>6, Part, SMT
<1> HIDE DEF buf, front
<1>8. ~(Piece(front) /\ Len(s) <= l)
  <2> SUFFICES ASSUME Piece(front), Len(s) <= l PROVE FALSE
    BY Zenon
  <2>1. Len(s) \in 0..Len(front)
    BY <1>1, <1>4, <1>7, SMT
  <2>2. try_frame(s) = Err("None")
    BY <1>5, <2>1, Zenon DEF Piece
  <2> QED
    BY <1>1, <2>2, Zenon
<1>9. ~(Earns(front, owed[k + 1]) /\ Len(s) < l)
  <2> SUFFICES ASSUME Earns(front, owed[k + 1]), Len(s) < l PROVE FALSE
    BY Zenon
  <2>1. Len(s) <= l /\ Len(s) < Len(front)
    BY <1>1, <1>4, <1>7, SMT
  <2>2. try_frame(SubSeq(front, 1, Len(s))) = Err("None")
    BY <1>1, <1>7, <2>1, EarnsAtTheEnd, Zenon
  <2> QED
    BY <1>1, <1>5, <2>1, <2>2, Zenon
<1>10. l <= Len(s)
  <2> SUFFICES ASSUME ~(l <= Len(s)) PROVE FALSE
    OBVIOUS
  <2>1. Len(s) < l /\ Len(s) <= l
    BY <1>1, <1>4, SMT
  <2> QED
    BY <1>4, <1>8, <1>9, <2>1, Zenon DEF Due
<1>11. Earns(front, owed[k + 1])
  <2> SUFFICES ASSUME ~Earns(front, owed[k + 1]) PROVE FALSE
    OBVIOUS
  <2>1. Piece(front) /\ k + 1 = Len(marks)
    BY <1>4, Zenon DEF Due
  <2>2. l = Len(buf)
    BY <1>4, <2>1, Zenon
  <2>3. Len(s) <= l
    BY <1>1, <1>2, <2>2, SMT
  <2> QED
    BY <1>8, <2>1, <2>3, Zenon
<1>12. front = SubSeq(s, 1, l) /\ SubSeq(s, 1, l) \o SubSeq(s, l + 1, Len(s)) = s
  BY <1>5, <1>10, Zenon
<1> DEFINE rest == SubSeq(s, l + 1, Len(s))
<1>13. rest \in Seq(Byte)
  <2>1. l + 1 \in Nat \ {0} /\ Len(s) <= Len(s)
    BY <1>1, <1>4, SMT
  <2> QED
    BY <1>1, <2>1, Part, Zenon
<1> HIDE DEF rest
<1>14. front \o rest = s
  BY <1>12, Zenon DEF rest
<1>15. try_frame(front).is # "None"
  BY <1>7, <1>11, EarnsAtTheEnd, Zenon
<1>16. try_frame(front \o rest) = try_frame(front)
  BY <1>7, <1>13, <1>15, FrameIsLocal, Zenon
<1> QED
  BY <1>3, <1>4, <1>7, <1>10, <1>11, <1>12, <1>14, <1>16, Zenon
  DEF AtFront, l

(* When try_frame has no verdict on all that was written and not taken,    *)
(* that is nothing, or the piece of a frame.                               *)
LEMMA RulerEnd ==
    ASSUME NEW owed, NEW marks, NEW over, NEW s \in Seq(Byte), NEW k,
           Ruler(owed, marks, over, s, k), try_frame(s).is = "None"
    PROVE  \/ s = <<>> /\ k = Len(marks)
           \/ /\ s # <<>> /\ k # Len(marks) /\ k < Len(owed)
              /\ owed[k + 1] = [verdict |-> "Cut"]
<1>1. Len(s) \in Nat /\ s \o <<>> = s /\ <<>> \in Seq(Byte) /\ Len(<<>>) = 0
  BY SMT
<1>2. CASE k = Len(marks)
  <2> DEFINE c == Mark(marks, k)
  <2>1. c + Len(s) = c /\ c \in Nat
    BY <1>2, MarksAre, Zenon
  <2> HIDE DEF c
  <2>2. Len(s) = 0
    BY <1>1, <2>1, SMT
  <2>3. s = <<>>
    BY <2>2, SMT
  <2> QED
    BY <1>2, <2>3, Zenon
<1>3. CASE k # Len(marks)
  <2> DEFINE l == Mark(marks, k + 1) - Mark(marks, k)
             front == SubSeq(s, 1, l)
             rest == SubSeq(s, l + 1, Len(s))
  <2>1. /\ k < Len(owed) /\ l \in Nat /\ l > 0 /\ l <= Len(s)
        /\ Due(front, owed[k + 1], over /\ k + 1 = Len(marks))
    BY <1>3, FirstSlice, Zenon
  <2> HIDE DEF l
  <2>2. s # <<>>
    BY <1>1, <2>1, SMT
  <2>3. front \o rest = s
    <3>1. l <= Len(s \o <<>>)
      BY <1>1, <2>1, Zenon
    <3> QED
      BY <1>1, <2>1, <3>1, Fronts, Zenon
  <2>4. front \in Seq(Byte) /\ rest \in Seq(Byte)
    <3>1. l + 1 \in Nat \ {0} /\ Len(s) <= Len(s) /\ 1 \in Nat \ {0}
      BY <1>1, <2>1, SMT
    <3> QED
      BY <1>1, <2>1, <3>1, Part, Zenon
  <2> HIDE DEF front, rest
  <2>5. ~Earns(front, owed[k + 1])
    <3> SUFFICES ASSUME Earns(front, owed[k + 1]) PROVE FALSE
      OBVIOUS
    <3>1. try_frame(front).is # "None"
      BY <2>4, EarnsAtTheEnd, Zenon
    <3>2. try_frame(front \o rest) = try_frame(front)
      BY <2>4, <3>1, FrameIsLocal, Zenon
    <3> QED
      BY <2>3, <3>1, <3>2, Zenon
  <2> QED
    BY <1>3, <2>1, <2>2, <2>5, Zenon DEF Due
<1> QED
  BY <1>2, <1>3, Zenon

(* split_to takes from the buffer what it takes from all the bytes.        *)
LEMMA SplitOff ==
    ASSUME NEW s \in Seq(Byte), NEW t \in Seq(Byte), NEW l \in Nat, l <= Len(s)
    PROVE  /\ SubSeq(s, l + 1, Len(s)) \in Seq(Byte)
           /\ Len(SubSeq(s, l + 1, Len(s))) = Len(s) - l
           /\ SubSeq(s, l + 1, Len(s)) \o t =
                  SubSeq(s \o t, l + 1, Len(s \o t))
<1> DEFINE buf == s \o t
           rest == SubSeq(s, l + 1, Len(s))
           a == rest \o t
           b == SubSeq(buf, l + 1, Len(buf))
<1>1. Len(s) \in Nat /\ Len(t) \in Nat /\ l + 1 \in Nat \ {0} /\ Len(s) <= Len(s)
  BY SMT
<1>2. /\ rest \in Seq(Byte) /\ Len(rest) = Len(s) - l
      /\ \A k \in 1..Len(rest) : rest[k] = s[l + k]
  BY <1>1, Part, SMT
<1>3. /\ buf \in Seq(Byte) /\ Len(buf) = Len(s) + Len(t)
      /\ \A k \in 1..Len(s) : buf[k] = s[k]
      /\ \A k \in 1..Len(t) : buf[Len(s) + k] = t[k]
  BY Cat, Zenon
<1> HIDE DEF rest, buf
<1>4. /\ a \in Seq(Byte) /\ Len(a) = Len(rest) + Len(t)
      /\ \A k \in 1..Len(rest) : a[k] = rest[k]
      /\ \A k \in 1..Len(t) : a[Len(rest) + k] = t[k]
  <2>1. rest \in Seq(Byte)
    BY <1>2, Zenon
  <2> QED
    BY <2>1, Cat, Zenon
<1>5. /\ b \in Seq(Byte) /\ Len(b) = Len(buf) - l
      /\ \A k \in 1..Len(b) : b[k] = buf[l + k]
  <2>1. Len(buf) \in Nat /\ Len(buf) <= Len(buf) /\ l <= Len(buf)
    BY <1>1, <1>3, SMT
  <2> QED
    BY <1>1, <1>3, <2>1, Part, SMT
<1> HIDE DEF a, b
<1>6. Len(a) = Len(b)
  BY <1>1, <1>2, <1>3, <1>4, <1>5, SMT
<1>7. ASSUME NEW k \in 1..Len(a)
      PROVE  a[k] = b[k]
  <2>1. CASE k <= Len(rest)
    <3>1. k \in 1..Len(rest) /\ l + k \in 1..Len(s) /\ k \in 1..Len(b)
      BY <1>1, <1>2, <1>4, <1>6, <2>1, SMT
    <3> QED
      BY <1>2, <1>3, <1>4, <1>5, <3>1, Zenon
  <2>2. CASE ~(k <= Len(rest))
    <3> DEFINE j == k - Len(rest)
    <3>1. /\ j \in 1..Len(t) /\ k = Len(rest) + j /\ l + k = Len(s) + j
          /\ k \in 1..Len(b)
      BY <1>1, <1>2, <1>4, <1>6, <2>2, SMT
    <3> HIDE DEF j
    <3>2. a[k] = t[j]
      BY <1>4, <3>1, Zenon
    <3>3. b[k] = buf[l + k]
      BY <1>5, <3>1, Zenon
    <3>4. buf[l + k] = t[j]
      BY <1>3, <3>1, Zenon
    <3> QED
      BY <3>2, <3>3, <3>4, Zenon
  <2> QED
    BY <2>1, <2>2, Zenon
<1>8. a = b
  BY <1>4, <1>5, <1>6, <1>7, Same, Zenon
<1> QED
  BY <1>2, <1>8, Zenon DEF a, b, rest, buf

(* Where two marks lie from the mark d, and from the mark c before it.     *)
LEMMA Between ==
    ASSUME NEW c \in Nat, NEW d \in Nat, NEW x \in Nat, NEW y \in Nat,
           d = x \/ d < x, x - c < y - c
    PROVE  /\ x - d + 1 = (x - c) - (d - c) + 1 /\ y - d = (y - c) - (d - c)
           /\ d - c <= x - c /\ x - c <= y - c
  BY SMT

(* With its front frame taken, the bytes begin at the next mark.           *)
LEMMA RulerTaken ==
    ASSUME NEW owed, NEW marks, NEW over, NEW s \in Seq(Byte),
           NEW t \in Seq(Byte), NEW k, Ruler(owed, marks, over, s \o t, k),
           k # Len(marks),
           Mark(marks, k + 1) - Mark(marks, k) \in Nat,
           Mark(marks, k + 1) - Mark(marks, k) <= Len(s)
    PROVE  LET l == Mark(marks, k + 1) - Mark(marks, k)
           IN  Ruler(owed, marks, over, SubSeq(s, l + 1, Len(s)) \o t, k + 1)
<1> DEFINE n == Len(marks)
           l == Mark(marks, k + 1) - Mark(marks, k)
           buf == s \o t
           buf2 == SubSeq(s, l + 1, Len(s)) \o t
           c == Mark(marks, k)
           d == Mark(marks, k + 1)
           z == Mark(marks, n)
<1>1. /\ owed \in Seq(Owed) /\ marks \in Seq(Nat) /\ n = Len(owed)
      /\ buf \in Seq(Byte)
      /\ \A i \in (k + 1)..n :
             Due(Slice(marks, buf, k, i), owed[i], over /\ i = n)
  BY Zenon DEF Ruler
<1>2. /\ n \in Nat /\ Len(buf) \in Nat /\ k \in 0..n
      /\ \A j \in 0..n : Mark(marks, j) \in Nat
      /\ \A i, j \in 0..n : i < j => Mark(marks, i) < Mark(marks, j)
      /\ c + Len(buf) = z
  BY MarksAre, Zenon
<1>3. k + 1 \in 0..n /\ n \in 0..n /\ k \in 0..n
  BY <1>2, SMT
<1>4. c \in Nat /\ d \in Nat /\ z \in Nat
  BY <1>2, <1>3, Zenon
<1>5. l = d - c /\ l \in Nat /\ l <= Len(s)
  BY Zenon
<1> HIDE DEF l
<1>6. buf2 = SubSeq(buf, l + 1, Len(buf)) /\ buf2 \in Seq(Byte)
  <2> DEFINE rest == SubSeq(s, l + 1, Len(s))
  <2>1. rest \in Seq(Byte) /\ rest \o t = SubSeq(buf, l + 1, Len(buf))
    BY <1>5, SplitOff, Zenon
  <2>2. rest \in Seq(Byte)
    BY <2>1, Zenon
  <2> HIDE DEF rest
  <2>3. rest \o t \in Seq(Byte)
    BY <2>2, Cat, Zenon
  <2> QED
    BY <2>1, <2>3, Zenon DEF rest
<1>7. Len(buf2) = Len(buf) - l
  <2> DEFINE rest == SubSeq(s, l + 1, Len(s))
  <2>1. rest \in Seq(Byte)
    BY <1>5, SplitOff, Zenon
  <2>2. Len(rest) = Len(s) - l
    BY <1>5, SplitOff, Zenon
  <2> HIDE DEF rest
  <2>3. Len(rest \o t) = Len(rest) + Len(t)
    BY <2>1, Cat, Zenon
  <2>4. Len(buf) = Len(s) + Len(t)
    BY Cat, Zenon
  <2>5. Len(buf2) = Len(rest) + Len(t)
    BY <2>3, Zenon DEF rest
  <2>6. Len(s) \in Nat /\ Len(t) \in Nat
    BY SMT
  <2> HIDE DEF buf, buf2
  <2> QED
    BY <1>5, <2>2, <2>4, <2>5, <2>6, SMT
<1> HIDE DEF buf2, buf, c, d, z
<1>8. d + Len(buf2) = z
  BY <1>2, <1>4, <1>5, <1>7, SMT
<1>9. ASSUME NEW i \in (k + 1 + 1)..n
      PROVE  Due(Slice(marks, buf2, k + 1, i), owed[i], over /\ i = n)
  <2>1. /\ i \in (k + 1)..n /\ i - 1 \in 0..n
        /\ (k + 1 = i - 1 \/ k + 1 < i - 1)
    BY <1>2, SMT
  <2> DEFINE x == Mark(marks, i - 1)
             y == Mark(marks, i)
             a == x - c
             b == y - c
  <2>2. a \in Nat /\ b \in Nat /\ a < b /\ b <= Len(buf) /\ y \in Nat
    BY <2>1, SliceLies, Zenon DEF buf, c
  <2>3. x \in Nat /\ (d = x \/ d < x)
    BY <1>2, <1>3, <2>1, Zenon DEF d
  <2>4. Slice(marks, buf2, k + 1, i) = SubSeq(buf2, x - d + 1, y - d)
    BY Zenon DEF Slice, d
  <2>5. Slice(marks, buf, k, i) = SubSeq(buf, a + 1, b)
    BY Zenon DEF Slice, c
  <2> HIDE DEF x, y
  <2>6. /\ x - d + 1 = a - l + 1 /\ y - d = b - l /\ l <= a /\ a <= b
    <3>1. /\ x - d + 1 = (x - c) - (d - c) + 1 /\ y - d = (y - c) - (d - c)
          /\ d - c <= x - c /\ x - c <= y - c
      BY <1>4, <2>2, <2>3, Between, Zenon
    <3>2. d - c = l
      BY <1>5, Zenon
    <3> QED
      BY <3>1, <3>2, Zenon
  <2> HIDE DEF a, b
  <2>7. SubSeq(buf2, a - l + 1, b - l) = SubSeq(buf, a + 1, b)
    <3>1. /\ buf \in Seq(Byte) /\ a \in Nat /\ b \in Nat
          /\ l \in Nat /\ l <= a /\ a <= b /\ b <= Len(buf)
      BY <1>1, <1>5, <2>2, <2>6, Zenon
    <3>2. Shift(buf, l, a, b)
      BY <3>1, Shifted, Zenon
    <3> QED
      BY <1>6, <3>2, Zenon DEF Shift
  <2>8. Slice(marks, buf2, k + 1, i) = Slice(marks, buf, k, i)
    BY <2>4, <2>5, <2>6, <2>7, Zenon
  <2> QED
    BY <1>1, <2>1, <2>8, Zenon
<1>10. /\ buf2 \in Seq(Byte)
       /\ Mark(marks, k + 1) + Len(buf2) = Mark(marks, Len(marks))
  BY <1>6, <1>8, Zenon DEF d, z
<1>11. \A i, j \in 0..n : i < j => Mark(marks, i) < Mark(marks, j)
  BY <1>2, Zenon
<1>12. Ruler(owed, marks, over, buf2, k + 1)
  BY <1>1, <1>3, <1>9, <1>10, <1>11, Zenon DEF Ruler
<1> QED
  BY <1>12, Zenon DEF buf2, l

(* The marks up to a position.                                             *)
Passed(marks, p) == CHOOSE j \in 0..Len(marks) :
                        \A n \in 1..Len(marks) : marks[n] <= p <=> n <= j

(* As many marks lie behind the reader as frames are taken.                *)
LEMMA RulerCounted ==
    ASSUME NEW owed, NEW marks, NEW over, NEW buf, NEW k,
           Ruler(owed, marks, over, buf, k)
    PROVE  Passed(marks, Mark(marks, Len(marks)) - Len(buf)) = k
<1> DEFINE n == Len(marks)
           p == Mark(marks, n) - Len(buf)
           c == Mark(marks, k)
           z == Mark(marks, n)
<1>1. /\ n \in Nat /\ Len(buf) \in Nat /\ k \in 0..n
      /\ \A j \in 0..n : Mark(marks, j) \in Nat
      /\ \A i, j \in 0..n : i < j => Mark(marks, i) < Mark(marks, j)
      /\ c + Len(buf) = z
  BY MarksAre, Zenon
<1>2. c \in Nat /\ z \in Nat
  <2>1. n \in 0..n
    BY <1>1, SMT
  <2> QED
    BY <1>1, <2>1, Zenon
<1>3. p = c
  <2>1. p = z - Len(buf)
    BY Zenon
  <2> HIDE DEF c, z, p
  <2> QED
    BY <1>1, <1>2, <2>1, SMT
<1> HIDE DEF p
<1>4. ASSUME NEW i \in 1..n
      PROVE  marks[i] <= p <=> i <= k
  <2> DEFINE m == Mark(marks, i)
  <2>1. i \in 0..n /\ i # 0 /\ (i < k \/ i = k \/ k < i)
    BY <1>1, SMT
  <2>2. marks[i] = m
    BY <2>1, Zenon DEF Mark
  <2>3. /\ m \in Nat /\ (i < k => m < c) /\ (i = k => m = c) /\ (k < i => c < m)
    BY <1>1, <2>1, Zenon
  <2> HIDE DEF m, c
  <2>4. m <= c <=> i <= k
    BY <1>1, <1>2, <2>1, <2>3, SMT
  <2> QED
    BY <1>3, <2>2, <2>4, Zenon
<1> DEFINE Splits(j) == \A i \in 1..n : marks[i] <= p <=> i <= j
<1>5. k \in 0..n /\ Splits(k)
  BY <1>1, <1>4, Zenon
<1>6. ASSUME NEW j \in 0..n, Splits(j)
      PROVE  j = k
  <2>1. \A i \in 1..n : i <= j <=> i <= k
    BY <1>4, <1>6, Zenon
  <2>2. n \in Nat /\ k \in 0..n
    BY <1>1, Zenon
  <2> HIDE DEF n, Splits
  <2>3. /\ j \in 1..n \/ j = 0
        /\ k \in 1..n \/ k = 0
        /\ j <= j /\ k <= k
    BY <2>2, SMT
  <2>4. (j \in 1..n => j <= k) /\ (k \in 1..n => k <= j)
    BY <2>1, <2>3, Zenon
  <2> QED
    BY <2>2, <2>3, <2>4, SMT
<1>7. Passed(marks, p) = k
  <2>1. Passed(marks, p) = CHOOSE j \in 0..n : Splits(j)
    BY Zenon DEF Passed
  <2> HIDE DEF n, p, c, z, Splits
  <2> QED
    BY <1>5, <1>6, <2>1, Zenon
<1> QED
  BY <1>7, Zenon DEF p

----------------------------------------------------------------------------
(* The steps.                                                              *)

(* Every item is a message or one of the errors.                           *)
LEMMA ItemsAre ==
    ASSUME NEW given \in Seq(Items)
    PROVE  \A i \in 1..Len(given) :
               given[i].is \in {"Ok", "VersionInverseIncorrect", "Incomplete",
                                "ConnectionReset", "BytesRemaining"}
<1>1. \A v : Ok(v).is = "Ok"
  BY DEF Ok
<1>2. \A e : Err(e).is = e
  BY DEF Err
<1>3. \A item \in Items :
          item.is \in {"Ok", "VersionInverseIncorrect", "Incomplete",
                       "ConnectionReset", "BytesRemaining"}
  BY <1>1, <1>2, Zenon DEF Items
<1>4. \A i \in 1..Len(given) : given[i] \in Items
  BY ElementOfSeq, Zenon
<1> QED
  BY <1>3, <1>4, Zenon

(* The count of the marks that the reader has passed.                      *)
LEMMA TakenAs ==
    ASSUME NEW owed, NEW marks, NEW over, NEW s \in Seq(Byte),
           NEW t \in Seq(Byte), NEW k, Ruler(owed, marks, over, s \o t, k)
    PROVE  Passed(marks, Mark(marks, Len(marks)) - Len(t) - Len(s)) = k
<1> DEFINE buf == s \o t
           z == Mark(marks, Len(marks))
           p == z - Len(t) - Len(s)
<1>1. Len(buf) = Len(s) + Len(t)
  BY Cat, Zenon
<1>2. Len(s) \in Nat /\ Len(t) \in Nat
  BY SMT
<1>3. z \in Nat
  <2>1. Len(marks) \in Nat
    BY MarksAre, Zenon
  <2>2. Len(marks) \in 0..Len(marks)
    BY <2>1, SMT
  <2> QED
    BY <2>2, MarksAre, Zenon
<1> HIDE DEF buf, z
<1>4. p = z - Len(buf)
  BY <1>1, <1>2, <1>3, SMT
<1> HIDE DEF p
<1>5. Ruler(owed, marks, over, buf, k)
  BY Zenon DEF buf
<1>6. Passed(marks, Mark(marks, Len(marks)) - Len(buf)) = k
  BY <1>5, RulerCounted, Zenon
<1>7. Passed(marks, p) = k
  BY <1>4, <1>6, Zenon DEF z
<1> QED
  BY <1>7, Zenon DEF p, z

(* The ruler of a state, and what it counts.                               *)
LEMMA Now ==
    ASSUME Measured
    PROVE  \E k : /\ Ruler(sent, ends, closed, src \o wire, k)
                  /\ Taken = k
<1>1. PICK k \in 0..Len(ends) : Ruler(sent, ends, closed, src \o wire, k)
  BY Zenon DEF Measured
<1>2. src \in Seq(Byte) /\ wire \in Seq(Byte)
  BY Zenon DEF Measured, TypeOK
<1>3. Taken = k
  <2> DEFINE p == Mark(ends, Len(ends)) - Len(wire) - Len(src)
  <2>1. Taken = Passed(ends, p)
    BY Zenon DEF Taken, Passed, Position, EndOf, Mark
  <2>2. Passed(ends, p) = k
    BY <1>1, <1>2, TakenAs, Zenon
  <2> QED
    BY <2>1, <2>2, Zenon
<1> QED
  BY <1>1, <1>3, Zenon

(* The same for the next state.                                            *)
LEMMA Afterwards ==
    ASSUME closed' \in BOOLEAN, wire' \in Seq(Byte), src' \in Seq(Byte),
           reader' \in {"Read", "Decode", "Errored", "Done"},
           eof' \in BOOLEAN, items' \in Seq(Items),
           NEW k, Ruler(sent', ends', closed', src' \o wire', k),
           eof' = TRUE => closed' = TRUE /\ wire' = <<>>,
           reader' \in {"Read", "Decode"} =>
               \A i \in 1..Len(items') : items'[i].is = "Ok"
    PROVE  Measured' /\ Taken' = k
<1>1. k \in 0..Len(ends')
  BY Zenon DEF Ruler
<1>2. Taken' = k
  <2> DEFINE p == Mark(ends', Len(ends')) - Len(wire') - Len(src')
  <2>1. Taken' = Passed(ends', p)
    BY Zenon DEF Taken, Passed, Position, EndOf, Mark
  <2>2. Passed(ends', p) = k
    BY TakenAs, Zenon
  <2> QED
    BY <2>1, <2>2, Zenon
<1>3. TypeOK'
  BY ItemsAre, Zenon DEF TypeOK
<1> QED
  BY <1>1, <1>2, <1>3, Zenon DEF Measured

(* At first nothing is written, and nothing is owed.                       *)
LEMMA MeasuredFirst == Init => Measured /\ Stream!Init
<1> SUFFICES ASSUME Init PROVE Measured /\ Stream!Init
  OBVIOUS
<1>1. /\ sent = <<>> /\ ends = <<>> /\ closed = FALSE /\ wire = <<>>
      /\ src = <<>> /\ reader = "Read" /\ eof = FALSE /\ items = <<>>
  BY Zenon DEF Init
<1>2. /\ <<>> \in Seq(Byte) /\ <<>> \in Seq(Nat) /\ <<>> \in Seq(Owed)
      /\ <<>> \in Seq(Items) /\ Len(<<>>) = 0 /\ <<>> \o <<>> = <<>>
      /\ 0 \in 0..0 /\ 0 + 0 = 0
  OBVIOUS
<1>3. Mark(<<>>, 0) = 0
  BY Zenon DEF Mark
<1>4. /\ \A i, j \in 0..0 : ~(i < j)
      /\ \A i : i \notin (0 + 1)..0 /\ i \notin 1..0
  BY SMT
<1>5. Ruler(<<>>, <<>>, FALSE, <<>>, 0)
  BY <1>2, <1>3, <1>4, Zenon DEF Ruler
<1>6. Ruler(sent, ends, closed, src \o wire, 0)
  BY <1>1, <1>2, <1>5, Zenon
<1>7. Measured
  BY <1>1, <1>2, <1>4, <1>6, Zenon DEF Measured, TypeOK
<1>8. Taken = 0
  <2>1. Ruler(sent, ends, closed, src \o wire, 0)
        /\ src \in Seq(Byte) /\ wire \in Seq(Byte)
    BY <1>1, <1>2, <1>6, Zenon
  <2> DEFINE p == Mark(ends, Len(ends)) - Len(wire) - Len(src)
  <2>2. Taken = Passed(ends, p)
    BY Zenon DEF Taken, Passed, Position, EndOf, Mark
  <2>3. Passed(ends, p) = 0
    BY <2>1, TakenAs, Zenon
  <2> QED
    BY <2>2, <2>3, Zenon
<1> QED
  BY <1>1, <1>7, <1>8, Zenon DEF Stream!Init

(* What a step may assume of the state before it.                          *)
LEMMA Before ==
    ASSUME Measured
    PROVE  /\ closed \in BOOLEAN /\ wire \in Seq(Byte) /\ src \in Seq(Byte)
           /\ reader \in {"Read", "Decode", "Errored", "Done"}
           /\ eof \in BOOLEAN /\ items \in Seq(Items)
           /\ eof = TRUE => closed = TRUE /\ wire = <<>>
           /\ reader \in {"Read", "Decode"} =>
                  \A i \in 1..Len(items) : items[i].is = "Ok"
  BY Zenon DEF Measured, TypeOK

(* A frame, or the piece of one, goes out.                                 *)
LEMMA Written ==
    ASSUME Measured, ~closed, NEW o \in Owed, NEW bytes \in Seq(Byte),
           Len(bytes) > 0, Put(o, bytes), closed' \in BOOLEAN,
           Due(bytes, o, closed'), ReaderWaits
    PROVE  Measured' /\ Stream!Write
<1>1. /\ closed = FALSE /\ wire \in Seq(Byte) /\ src \in Seq(Byte)
      /\ reader \in {"Read", "Decode", "Errored", "Done"}
      /\ eof = FALSE /\ items \in Seq(Items)
      /\ reader \in {"Read", "Decode"} =>
             \A i \in 1..Len(items) : items[i].is = "Ok"
  BY Before, Zenon
<1>2. /\ sent' = Append(sent, o)
      /\ ends' = Append(ends, EndOf(Len(ends)) + Len(bytes))
      /\ wire' = wire \o bytes
  BY Zenon DEF Put
<1>3. src' = src /\ reader' = reader /\ eof' = eof /\ items' = items
  BY Zenon DEF ReaderWaits
<1>4. PICK k : Ruler(sent, ends, closed, src \o wire, k) /\ Taken = k
  BY Now, Zenon
<1>5. Ruler(sent, ends, FALSE, src \o wire, k)
  BY <1>1, <1>4, Zenon
<1>6. Ruler(Append(sent, o), Append(ends, Mark(ends, Len(ends)) + Len(bytes)),
            closed', (src \o wire) \o bytes, k)
  BY <1>5, RulerWritten, Zenon
<1>7. src \o (wire \o bytes) = src \o wire \o bytes /\ wire \o bytes \in Seq(Byte)
  BY <1>1, Joined, Zenon
<1>8. EndOf(Len(ends)) = Mark(ends, Len(ends))
  BY Zenon DEF EndOf, Mark
<1>9. Ruler(sent', ends', closed', src' \o wire', k)
  BY <1>2, <1>3, <1>6, <1>7, <1>8, Zenon
<1>10. /\ wire' \in Seq(Byte) /\ src' \in Seq(Byte)
       /\ reader' \in {"Read", "Decode", "Errored", "Done"}
       /\ eof' \in BOOLEAN /\ items' \in Seq(Items)
       /\ eof' = TRUE => closed' = TRUE /\ wire' = <<>>
       /\ reader' \in {"Read", "Decode"} =>
              \A i \in 1..Len(items') : items'[i].is = "Ok"
  BY <1>1, <1>2, <1>3, <1>7, Zenon
<1>11. Measured' /\ Taken' = k
  BY <1>9, <1>10, Afterwards, Zenon
<1>12. Len(sent') = Len(sent) + 1 /\ SubSeq(sent', 1, Len(sent)) = sent
  <2>1. sent \in Seq(Owed)
    BY <1>5, Zenon DEF Ruler
  <2> QED
    BY <1>2, <2>1, SMT
<1> QED
  BY <1>3, <1>4, <1>11, <1>12, Zenon DEF Stream!Write

(* The writer goes, and no byte of another frame.                          *)
LEMMA Left ==
    ASSUME Measured, ~closed, closed' = TRUE, UNCHANGED <<sent, ends, wire>>,
           ReaderWaits
    PROVE  Measured' /\ UNCHANGED Stream!vars
<1>1. /\ closed = FALSE /\ wire \in Seq(Byte) /\ src \in Seq(Byte)
      /\ reader \in {"Read", "Decode", "Errored", "Done"}
      /\ eof = FALSE /\ items \in Seq(Items)
      /\ reader \in {"Read", "Decode"} =>
             \A i \in 1..Len(items) : items[i].is = "Ok"
  BY Before, Zenon
<1>2. /\ sent' = sent /\ ends' = ends /\ wire' = wire
      /\ src' = src /\ reader' = reader /\ eof' = eof /\ items' = items
  BY Zenon DEF ReaderWaits
<1>3. PICK k : Ruler(sent, ends, closed, src \o wire, k) /\ Taken = k
  BY Now, Zenon
<1>4. Ruler(sent, ends, TRUE, src \o wire, k)
  BY <1>1, <1>3, RulerClosed, Zenon
<1>5. /\ closed' \in BOOLEAN /\ wire' \in Seq(Byte) /\ src' \in Seq(Byte)
      /\ reader' \in {"Read", "Decode", "Errored", "Done"}
      /\ eof' \in BOOLEAN /\ items' \in Seq(Items)
      /\ eof' = TRUE => closed' = TRUE /\ wire' = <<>>
      /\ reader' \in {"Read", "Decode"} =>
             \A i \in 1..Len(items') : items'[i].is = "Ok"
      /\ Ruler(sent', ends', closed', src' \o wire', k)
  BY <1>1, <1>2, <1>4, Zenon
<1>6. Measured' /\ Taken' = k
  BY <1>5, Afterwards, Zenon
<1> QED
  BY <1>2, <1>3, <1>6, Zenon DEF Stream!vars

(* What Encoder::encode writes earns the message it was given.             *)
LEMMA SendEarns ==
    ASSUME NEW m \in Messages, MessageEncode(m).is = "Ok"
    PROVE  LET bytes == MessageEncode(m).value
               o == [verdict |-> "Deliver", message |-> Received(m)]
           IN  bytes \in Seq(Byte) /\ Earns(bytes, o) /\ o \in Owed
<1> DEFINE bytes == MessageEncode(m).value
           body == PayloadEncode(m.payload)
           h == Received(m).header
           p == Received(m).payload
           o == [verdict |-> "Deliver", message |-> Received(m)]
           frame == try_frame(bytes)
           payload == PayloadDecode(frame.value.payload,
                                    frame.value.header.payload_type)
<1>1. Faithful(m)
  BY CodecAssumption, Zenon
<1>2. /\ bytes \in Seq(Byte)
      /\ frame = Ok([header |-> h, consumed |-> Len(bytes), payload |-> body])
      /\ PayloadDecode(body, h.payload_type) = Ok(p)
  BY <1>1, MessageWritten, Zenon
<1>3. Received(m) = [header |-> h, payload |-> p]
  BY DEF Received
<1>4. /\ frame.is = "Ok" /\ frame.value.header = h
      /\ frame.value.consumed = Len(bytes) /\ frame.value.payload = body
  <2> HIDE DEF frame, h, body, bytes
  <2> QED
    BY <1>2 DEF Ok
<1>5. payload = Ok(p)
  BY <1>2, <1>4, Zenon
<1>6. payload.is = "Ok" /\ payload.value = p
  <2> HIDE DEF payload, p
  <2> QED
    BY <1>5 DEF Ok
<1>7. o = [verdict |-> "Deliver",
           message |-> [header |-> frame.value.header, payload |-> payload.value]]
  BY <1>3, <1>4, <1>6, Zenon
<1>8. Earns(bytes, o)
  BY <1>4, <1>6, <1>7, Zenon DEF Earns
<1>9. o \in Owed
  BY Zenon DEF Owed
<1> QED
  BY <1>2, <1>8, <1>9, Zenon

(* The part of a frame that a writer got out earns nothing yet.            *)
LEMMA CutIsPiece ==
    ASSUME NEW bytes \in Seq(Byte), NEW o, Earns(bytes, o),
           NEW n \in Nat, n < Len(bytes)
    PROVE  SubSeq(bytes, 1, n) \in Seq(Byte) /\ Len(SubSeq(bytes, 1, n)) = n
           /\ Piece(SubSeq(bytes, 1, n))
<1> DEFINE s == SubSeq(bytes, 1, n)
<1>1. /\ Len(bytes) \in Nat /\ n <= Len(bytes) /\ 1 \in Nat \ {0}
      /\ Len(bytes) <= Len(bytes)
  BY SMT
<1>2. s \in Seq(Byte) /\ Len(s) = n
  BY <1>1, Part, SMT
<1>3. ASSUME NEW j \in 0..Len(s)
      PROVE  try_frame(SubSeq(s, 1, j)) = Err("None")
  <2>1. j \in Nat /\ j <= n /\ j < Len(bytes)
    BY <1>1, <1>2, SMT
  <2>2. SubSeq(s, 1, j) = SubSeq(bytes, 1, j)
    <3> HIDE DEF s
    <3>1. s \o SubSeq(bytes, n + 1, Len(bytes)) = SubSeq(bytes, 1, Len(bytes))
      BY <1>1, Grown, Zenon DEF s
    <3>2. SubSeq(bytes, 1, Len(bytes)) = bytes
      BY SMT
    <3>3. SubSeq(bytes, n + 1, Len(bytes)) \in Seq(Byte) /\ j <= Len(s)
      <4>1. n + 1 \in Nat \ {0}
        BY <1>1, SMT
      <4> QED
        BY <1>1, <1>2, <2>1, <4>1, Part, Zenon
    <3>4. SubSeq(s \o SubSeq(bytes, n + 1, Len(bytes)), 1, j) = SubSeq(s, 1, j)
      <4>1. s \in Seq(Byte)
        BY <1>2, Zenon
      <4> QED
        BY <1>1, <2>1, <3>3, <4>1, Kept, Zenon
    <3> QED
      BY <3>1, <3>2, <3>4, Zenon
  <2>3. try_frame(SubSeq(bytes, 1, j)) = Err("None")
    BY <2>1, EarnsAtTheEnd, Zenon
  <2> QED
    BY <2>2, <2>3, Zenon
<1> QED
  BY <1>2, <1>3, Zenon DEF Piece

(* Every step of the writer.                                               *)
LEMMA WriteSteps ==
    ASSUME Measured, Write
    PROVE  Measured' /\ (Stream!Write \/ UNCHANGED Stream!vars)
<1>1. ASSUME NEW m \in Messages, Send(m)
      PROVE  Measured' /\ (Stream!Write \/ UNCHANGED Stream!vars)
  <2> DEFINE encoded == MessageEncode(m)
             o == [verdict |-> "Deliver", message |-> Received(m)]
  <2>1. ~closed /\ ReaderWaits
    BY <1>1, Zenon DEF Send
  <2>2. CASE encoded.is = "Ok"
    <3>1. /\ encoded.value \in Seq(Byte) /\ Earns(encoded.value, o)
          /\ o \in Owed
      BY <2>2, SendEarns, Zenon
    <3>2. Put(o, encoded.value) /\ closed' = closed
      BY <1>1, <2>2, Zenon DEF Send
    <3>3. closed' \in BOOLEAN
      BY <3>2, Before, Zenon
    <3> HIDE DEF encoded, o
    <3>4. Len(encoded.value) > 0
      BY <3>1, EarnsAtTheEnd, Zenon
    <3>5. Due(encoded.value, o, closed')
      BY <3>1, Zenon DEF Due
    <3> QED
      BY <2>1, <3>1, <3>2, <3>3, <3>4, <3>5, Written, Zenon
  <2>3. CASE encoded.is # "Ok"
    <3>1. closed' = TRUE /\ UNCHANGED <<sent, ends, wire>>
      BY <1>1, <2>3, Zenon DEF Send
    <3> QED
      BY <2>1, <3>1, Left, Zenon
  <2> QED
    BY <2>2, <2>3, Zenon
<1>2. ASSUME NEW frame \in ForeignFrames, SendForeign(frame)
      PROVE  Measured' /\ Stream!Write
  <2>1. ~closed /\ ReaderWaits /\ Put(frame.owed, frame.bytes) /\ closed' = closed
    BY <1>2, Zenon DEF SendForeign
  <2>2. frame.bytes \in Seq(Byte) /\ Earns(frame.bytes, frame.owed)
    BY CodecAssumption, Zenon
  <2>3. frame.owed \in Owed
    BY Zenon DEF Owed
  <2>4. closed' \in BOOLEAN
    BY <2>1, Before, Zenon
  <2>5. Len(frame.bytes) > 0
    BY <2>2, EarnsAtTheEnd, Zenon
  <2>6. Due(frame.bytes, frame.owed, closed')
    BY <2>2, Zenon DEF Due
  <2> QED
    BY <2>1, <2>2, <2>3, <2>4, <2>5, <2>6, Written, Zenon
<1>3. ASSUME NEW frame \in ForeignFrames, NEW n \in 1..(Len(frame.bytes) - 1),
             CloseInside(frame, n)
      PROVE  Measured' /\ Stream!Write
  <2> DEFINE bytes == SubSeq(frame.bytes, 1, n)
             o == [verdict |-> "Cut"]
  <2>1. /\ ~closed /\ ReaderWaits /\ Put(o, bytes) /\ closed' = TRUE
    BY <1>3, Zenon DEF CloseInside
  <2>2. frame.bytes \in Seq(Byte) /\ Earns(frame.bytes, frame.owed)
    BY CodecAssumption, Zenon
  <2>3. n \in Nat /\ n < Len(frame.bytes) /\ n > 0
    BY <2>2, SMT
  <2>4. bytes \in Seq(Byte) /\ Len(bytes) = n /\ Piece(bytes)
    BY <2>2, <2>3, CutIsPiece, Zenon
  <2>5. o \in Owed
    BY Zenon DEF Owed
  <2>6. Len(bytes) > 0 /\ closed' \in BOOLEAN /\ Due(bytes, o, closed')
    BY <2>1, <2>3, <2>4, Zenon DEF Due
  <2> HIDE DEF bytes, o
  <2> QED
    BY <2>1, <2>4, <2>5, <2>6, Written, Zenon
<1>4. ASSUME Close
      PROVE  Measured' /\ UNCHANGED Stream!vars
  <2>1. ~closed /\ ReaderWaits /\ closed' = TRUE /\ UNCHANGED <<sent, ends, wire>>
    BY <1>4, Zenon DEF Close
  <2> QED
    BY <2>1, Left, Zenon
<1> QED
  BY <1>1, <1>2, <1>3, <1>4, Zenon DEF Write

(* Bytes come in, or the reader looks at them and waits.                   *)
LEMMA Looked ==
    ASSUME Measured, reader \in {"Read", "Decode"}, WriterWaits,
           reader' \in {"Read", "Decode"}, items' = items,
           src' \in Seq(Byte), wire' \in Seq(Byte), src' \o wire' = src \o wire,
           eof' \in BOOLEAN, eof' = TRUE => closed = TRUE /\ wire' = <<>>
    PROVE  Measured' /\ UNCHANGED Stream!vars
<1>1. /\ closed \in BOOLEAN /\ items \in Seq(Items)
      /\ \A i \in 1..Len(items) : items[i].is = "Ok"
  BY Before, Zenon
<1>2. sent' = sent /\ ends' = ends /\ closed' = closed
  BY Zenon DEF WriterWaits
<1>3. PICK k : Ruler(sent, ends, closed, src \o wire, k) /\ Taken = k
  BY Now, Zenon
<1>4. /\ closed' \in BOOLEAN /\ items' \in Seq(Items)
      /\ reader' \in {"Read", "Decode", "Errored", "Done"}
      /\ eof' = TRUE => closed' = TRUE /\ wire' = <<>>
      /\ reader' \in {"Read", "Decode"} =>
             \A i \in 1..Len(items') : items'[i].is = "Ok"
      /\ Ruler(sent', ends', closed', src' \o wire', k)
  BY <1>1, <1>2, <1>3, Zenon
<1>5. Measured' /\ Taken' = k
  BY <1>4, Afterwards, Zenon
<1> QED
  BY <1>2, <1>3, <1>5, Zenon DEF Stream!vars

(* An error is the last item, and leaves the bytes as they are.            *)
LEMMA Failed ==
    ASSUME Measured, reader \in {"Read", "Decode"}, WriterWaits,
           reader' \in {"Errored", "Done"}, UNCHANGED <<wire, src, eof>>,
           NEW error \in {"VersionInverseIncorrect", "Incomplete",
                          "ConnectionReset", "BytesRemaining"},
           items' = Append(items, Err(error))
    PROVE  Measured' /\ Stream!Fail(error)
<1>1. /\ closed \in BOOLEAN /\ wire \in Seq(Byte) /\ src \in Seq(Byte)
      /\ eof \in BOOLEAN /\ items \in Seq(Items)
      /\ eof = TRUE => closed = TRUE /\ wire = <<>>
  BY Before, Zenon
<1>2. /\ sent' = sent /\ ends' = ends /\ closed' = closed
      /\ wire' = wire /\ src' = src /\ eof' = eof
  BY Zenon DEF WriterWaits
<1>3. PICK k : Ruler(sent, ends, closed, src \o wire, k) /\ Taken = k
  BY Now, Zenon
<1>4. Err(error) \in Items
  BY Zenon DEF Items
<1>5. /\ items' \in Seq(Items) /\ Len(items') = Len(items) + 1
      /\ items'[Len(items) + 1] = Err(error)
  <2> DEFINE x == Err(error)
  <2>1. x \in Items /\ items' = Append(items, x)
    BY <1>4, Zenon
  <2> HIDE DEF x
  <2>2. /\ items' \in Seq(Items) /\ Len(items') = Len(items) + 1
        /\ items'[Len(items) + 1] = x
    BY <1>1, <2>1, SMT
  <2> QED
    BY <2>2, Zenon DEF x
<1>6. reader' \notin {"Read", "Decode"}
  BY SMT
<1>7. /\ closed' \in BOOLEAN /\ wire' \in Seq(Byte) /\ src' \in Seq(Byte)
      /\ eof' \in BOOLEAN /\ (eof' = TRUE => closed' = TRUE /\ wire' = <<>>)
      /\ Ruler(sent', ends', closed', src' \o wire', k)
  <2>1. closed' \in BOOLEAN /\ wire' \in Seq(Byte) /\ src' \in Seq(Byte)
    BY <1>1, <1>2, Zenon
  <2>2. eof' \in BOOLEAN
    BY <1>1, <1>2, Zenon
  <2>3. eof' = TRUE => closed' = TRUE /\ wire' = <<>>
    BY <1>1, <1>2, Zenon
  <2>4. Ruler(sent', ends', closed', src' \o wire', k)
    BY <1>2, <1>3, Zenon
  <2> QED
    BY <2>1, <2>2, <2>3, <2>4, Zenon
<1>8. /\ reader' \in {"Read", "Decode", "Errored", "Done"}
      /\ items' \in Seq(Items)
      /\ reader' \in {"Read", "Decode"} =>
             \A i \in 1..Len(items') : items'[i].is = "Ok"
  <2>1. reader' \in {"Read", "Decode", "Errored", "Done"}
    BY SMT
  <2> QED
    BY <1>5, <1>6, <2>1, Zenon
<1>9. Measured' /\ Taken' = k
  BY <1>7, <1>8, Afterwards, Zenon
<1>10. items' # <<>> /\ items'[Len(items')].is # "Ok"
  <2>1. Err(error).is = error /\ error # "Ok"
    BY DEF Err
  <2>2. Len(items') # 0
    BY <1>1, <1>5, SMT
  <2>3. Len(<<>>) = 0
    OBVIOUS
  <2> QED
    BY <1>5, <2>1, <2>2, <2>3, Zenon
<1>11. items' = Append(items, [is |-> error, value |-> [kind |-> "None"]])
  BY Zenon DEF Err
<1> QED
  BY <1>2, <1>3, <1>6, <1>9, <1>10, <1>11, Zenon DEF Stream!Fail

(* Every read.                                                             *)
LEMMA ReadSteps ==
    ASSUME Measured, Read \/ ReadFails
    PROVE  Measured' /\ (Stream!Reset \/ UNCHANGED Stream!vars)
<1>1. /\ closed \in BOOLEAN /\ wire \in Seq(Byte) /\ src \in Seq(Byte)
      /\ eof \in BOOLEAN /\ (eof = TRUE => closed = TRUE /\ wire = <<>>)
  BY Before, Zenon
<1>2. ASSUME NEW n, ReadChunk(n)
      PROVE  Measured' /\ UNCHANGED Stream!vars
  <2>1. /\ reader = "Read" /\ n \in 1..Len(wire)
        /\ src' = src \o SubSeq(wire, 1, n)
        /\ wire' = SubSeq(wire, n + 1, Len(wire))
        /\ reader' = "Decode" /\ eof' = eof /\ items' = items /\ WriterWaits
    BY <1>2, Zenon DEF ReadChunk
  <2>2. /\ src' \in Seq(Byte) /\ wire' \in Seq(Byte)
        /\ src' \o wire' = src \o wire
    BY <1>1, <2>1, Regrouped, Zenon
  <2>3. wire # <<>>
    BY <2>1, SMT
  <2>4. eof' \in BOOLEAN /\ (eof' = TRUE => closed = TRUE /\ wire' = <<>>)
    BY <1>1, <2>1, <2>3, Zenon
  <2> QED
    BY <2>1, <2>2, <2>4, Looked, Zenon
<1>3. ASSUME ReadEof
      PROVE  Measured' /\ UNCHANGED Stream!vars
  <2>1. /\ reader = "Read" /\ closed /\ wire = <<>> /\ eof' = TRUE
        /\ reader' = "Decode" /\ wire' = wire /\ src' = src /\ items' = items
        /\ WriterWaits
    BY <1>3, Zenon DEF ReadEof
  <2> QED
    BY <1>1, <2>1, Looked, Zenon
<1>4. ASSUME ReadFails
      PROVE  Measured' /\ Stream!Reset
  <2>1. /\ reader = "Read" /\ items' = Append(items, Err("ConnectionReset"))
        /\ reader' = "Done" /\ UNCHANGED <<wire, src, eof>> /\ WriterWaits
    BY <1>4, Zenon DEF ReadFails
  <2>2. Measured' /\ Stream!Fail("ConnectionReset")
    BY <2>1, Failed, Zenon
  <2> QED
    BY <2>1, <2>2, Zenon DEF Stream!Reset
<1> QED
  BY <1>2, <1>3, <1>4, Zenon DEF Read

(* When try_frame has a verdict on the buffer, the next that is owed is    *)
(* what decode makes of it, and split_to leaves src where the frame behind *)
(* it begins.                                                              *)
LEMMA NextOwed ==
    ASSUME Measured, try_frame(src).is # "None"
    PROVE  LET frame == try_frame(src)
               payload == PayloadDecode(frame.value.payload,
                                        frame.value.header.payload_type)
           IN  \E k :
                   /\ Ruler(sent, ends, closed, src \o wire, k) /\ Taken = k
                   /\ k < Len(sent) /\ sent[k + 1] \in Owed
                   /\ \/ /\ frame.is = "VersionInverseIncorrect"
                         /\ sent[k + 1] = [verdict |-> "VersionInverseIncorrect"]
                      \/ /\ frame.is = "Ok"
                         /\ split_to(frame.value.consumed) \in Seq(Byte)
                         /\ Ruler(sent, ends, closed,
                                  split_to(frame.value.consumed) \o wire, k + 1)
                         /\ \/ /\ payload.is = "Ok"
                               /\ sent[k + 1] =
                                      [verdict |-> "Deliver",
                                       message |-> [header |-> frame.value.header,
                                                    payload |-> payload.value]]
                            \/ /\ payload.is = "Incomplete"
                               /\ sent[k + 1] = [verdict |-> "Incomplete"]
                            \/ /\ payload.is = "UnsupportedPayloadType"
                               /\ sent[k + 1] = [verdict |-> "Skip"]
<1>1. wire \in Seq(Byte) /\ src \in Seq(Byte)
  BY Before, Zenon
<1>2. PICK k : Ruler(sent, ends, closed, src \o wire, k) /\ Taken = k
  BY Now, Zenon
<1> DEFINE l == Mark(ends, k + 1) - Mark(ends, k)
           front == SubSeq(src, 1, l)
           rest == SubSeq(src, l + 1, Len(src))
<1>3. /\ k # Len(ends) /\ k < Len(sent)
      /\ l \in Nat /\ l <= Len(src)
      /\ front \in Seq(Byte) /\ Len(front) = l
      /\ Earns(front, sent[k + 1])
      /\ try_frame(src) = try_frame(front)
  <2>1. Ruler(sent, ends, closed, src \o wire, k)
    BY <1>2, Zenon
  <2>2. AtFront(sent, ends, src, k)
    BY <1>1, <2>1, RulerFront, Zenon
  <2> QED
    BY <2>2, Zenon DEF AtFront
<1>4. Ruler(sent, ends, closed, rest \o wire, k + 1)
  BY <1>1, <1>2, <1>3, RulerTaken, Zenon
<1>5. rest \in Seq(Byte)
  BY <1>1, <1>3, SplitOff, Zenon
<1>6. rest = split_to(Len(front))
  BY <1>3, Zenon DEF split_to
<1>7. sent[k + 1] \in Owed
  <2>1. sent \in Seq(Owed) /\ k \in 0..Len(ends) /\ Len(ends) = Len(sent)
    BY <1>2, Zenon DEF Ruler
  <2>2. k + 1 \in 1..Len(sent)
    BY <1>3, <2>1, SMT
  <2> QED
    BY <2>1, <2>2, ElementOfSeq, Zenon
<1> HIDE DEF l, front, rest
<1> QED
  BY <1>2, <1>3, <1>4, <1>5, <1>6, <1>7, Zenon DEF Earns

(* A frame is taken whole, with or without an item for it.                 *)
LEMMA MovedOn ==
    ASSUME Measured, reader = "Decode", WriterWaits, UNCHANGED <<wire, reader, eof>>,
           NEW k, Ruler(sent, ends, closed, src' \o wire, k + 1),
           src' \in Seq(Byte), items' \in Seq(Items),
           \A i \in 1..Len(items') : items'[i].is = "Ok"
    PROVE  Measured' /\ Taken' = k + 1
<1>1. /\ closed \in BOOLEAN /\ wire \in Seq(Byte) /\ eof \in BOOLEAN
      /\ eof = TRUE => closed = TRUE /\ wire = <<>>
  BY Before, Zenon
<1>2. /\ sent' = sent /\ ends' = ends /\ closed' = closed
      /\ wire' = wire /\ reader' = reader /\ eof' = eof
  BY Zenon DEF WriterWaits
<1>3. /\ closed' \in BOOLEAN /\ wire' \in Seq(Byte)
      /\ reader' \in {"Read", "Decode", "Errored", "Done"}
  BY <1>1, <1>2, Zenon
<1>4. eof' \in BOOLEAN /\ (eof' = TRUE => closed' = TRUE /\ wire' = <<>>)
  BY <1>1, <1>2, Zenon
<1>5. Ruler(sent', ends', closed', src' \o wire', k + 1)
  BY <1>2, Zenon
<1> QED
  BY <1>3, <1>4, <1>5, Afterwards, Zenon

(* decode hands over the message of the front frame.                       *)
LEMMA MessageSteps ==
    ASSUME Measured, reader = "Decode", try_frame(src).is = "Ok",
           NEW payload,
           payload = PayloadDecode(try_frame(src).value.payload,
                                   try_frame(src).value.header.payload_type),
           payload.is = "Ok", DecodeMessage(try_frame(src).value, payload.value)
    PROVE  Measured' /\ Stream!Deliver
<1> DEFINE frame == try_frame(src)
           m == [header |-> frame.value.header, payload |-> payload.value]
<1>1. /\ src' = split_to(frame.value.consumed)
      /\ items' = Append(items, Ok(m))
      /\ UNCHANGED <<wire, reader, eof>> /\ WriterWaits
  BY Zenon DEF DecodeMessage
<1>2. frame.is # "None" /\ frame.is # "VersionInverseIncorrect"
  <2>1. frame.is = "Ok"
    BY Zenon
  <2> HIDE DEF frame
  <2> QED
    BY <2>1
<1>3. payload.is # "Incomplete" /\ payload.is # "UnsupportedPayloadType"
  OBVIOUS
<1>4. PICK k : /\ Taken = k /\ k < Len(sent) /\ sent[k + 1] \in Owed
               /\ split_to(frame.value.consumed) \in Seq(Byte)
               /\ Ruler(sent, ends, closed,
                        split_to(frame.value.consumed) \o wire, k + 1)
               /\ sent[k + 1] = [verdict |-> "Deliver", message |-> m]
  BY <1>2, <1>3, NextOwed, Zenon
<1>5. sent[k + 1].verdict = "Deliver" /\ sent[k + 1].message = m
  <2> HIDE DEF m
  <2> QED
    BY <1>4
<1> HIDE DEF frame, m
<1>6. Ok(m) \in Items /\ Ok(m).is = "Ok"
  <2>1. Ok(m).is = "Ok"
    BY DEF Ok
  <2> QED
    BY <1>4, <1>5, <2>1, Zenon DEF Items
<1>7. items \in Seq(Items) /\ \A i \in 1..Len(items) : items[i].is = "Ok"
  BY Before, Zenon
<1>8. items' \in Seq(Items) /\ \A i \in 1..Len(items') : items'[i].is = "Ok"
  <2>1. /\ items' \in Seq(Items) /\ Len(items') = Len(items) + 1
        /\ \A i \in 1..Len(items) : items'[i] = items[i]
        /\ items'[Len(items) + 1] = Ok(m)
    <3> DEFINE x == Ok(m)
    <3>1. x \in Items /\ items' = Append(items, x)
      BY <1>1, <1>6, Zenon
    <3> HIDE DEF x
    <3>2. /\ items' \in Seq(Items) /\ Len(items') = Len(items) + 1
          /\ \A i \in 1..Len(items) : items'[i] = items[i]
          /\ items'[Len(items) + 1] = x
      BY <1>7, <3>1, SMT
    <3> QED
      BY <3>2, Zenon DEF x
  <2>2. ASSUME NEW i \in 1..Len(items')
        PROVE  i \in 1..Len(items) \/ i = Len(items) + 1
    BY <1>7, <2>1, SMT
  <2> QED
    BY <1>6, <1>7, <2>1, <2>2, Zenon
<1>9. Measured' /\ Taken' = k + 1
  <2>1. src' \in Seq(Byte) /\ Ruler(sent, ends, closed, src' \o wire, k + 1)
    BY <1>1, <1>4, Zenon
  <2> QED
    BY <1>1, <1>8, <2>1, MovedOn, Zenon
<1>10. sent' = sent /\ reader' = "Decode"
  BY <1>1, Zenon DEF WriterWaits
<1>11. items' = Append(items, [is |-> "Ok", value |-> sent[Taken + 1].message])
  BY <1>1, <1>4, <1>5, Zenon DEF Ok
<1>12. Stream!Due("Deliver")
  BY <1>4, <1>5, Zenon DEF Stream!Due
<1> QED
  BY <1>4, <1>9, <1>10, <1>11, <1>12, Zenon DEF Stream!Deliver

(* decode drops a frame of a type it has no body for, and that frame only. *)
LEMMA SkipSteps ==
    ASSUME Measured, reader = "Decode", try_frame(src).is = "Ok",
           NEW payload,
           payload = PayloadDecode(try_frame(src).value.payload,
                                   try_frame(src).value.header.payload_type),
           payload.is # "Ok", ~is_framing_fatal(payload.is),
           DecodeSkips(try_frame(src).value)
    PROVE  Measured' /\ Stream!Skip
<1> DEFINE frame == try_frame(src)
<1>1. /\ src' = split_to(frame.value.consumed) /\ items' = items
      /\ UNCHANGED <<wire, reader, eof>> /\ WriterWaits
  BY Zenon DEF DecodeSkips
<1>2. frame.is # "None" /\ frame.is # "VersionInverseIncorrect"
  <2>1. frame.is = "Ok"
    BY Zenon
  <2> HIDE DEF frame
  <2> QED
    BY <2>1
<1>3. payload.is # "Incomplete" /\ payload.is # "Ok"
  BY DEF is_framing_fatal
<1>4. PICK k : /\ Taken = k /\ k < Len(sent)
               /\ split_to(frame.value.consumed) \in Seq(Byte)
               /\ Ruler(sent, ends, closed,
                        split_to(frame.value.consumed) \o wire, k + 1)
               /\ sent[k + 1] = [verdict |-> "Skip"]
  BY <1>2, <1>3, NextOwed, Zenon
<1>5. sent[k + 1].verdict = "Skip"
  BY <1>4
<1> HIDE DEF frame
<1>6. items' \in Seq(Items) /\ \A i \in 1..Len(items') : items'[i].is = "Ok"
  BY <1>1, Before, Zenon
<1>7. Measured' /\ Taken' = k + 1
  <2>1. src' \in Seq(Byte) /\ Ruler(sent, ends, closed, src' \o wire, k + 1)
    BY <1>1, <1>4, Zenon
  <2> QED
    BY <1>1, <1>6, <2>1, MovedOn, Zenon
<1>8. sent' = sent /\ reader' = "Decode"
  BY <1>1, Zenon DEF WriterWaits
<1>9. Stream!Due("Skip")
  BY <1>4, <1>5, Zenon DEF Stream!Due
<1> QED
  BY <1>1, <1>4, <1>7, <1>8, <1>9, Zenon DEF Stream!Skip

(* decode ends the stream at a frame that broke the framing.               *)
LEMMA BadFrameSteps ==
    ASSUME Measured, reader = "Decode",
           NEW error \in {"VersionInverseIncorrect", "Incomplete"},
           NEW k, Taken = k, k < Len(sent), sent[k + 1] = [verdict |-> error],
           DecodeFails(error)
    PROVE  Measured' /\ Stream!BadFrame
<1>1. /\ items' = Append(items, Err(error)) /\ reader' = "Errored"
      /\ UNCHANGED <<wire, src, eof>> /\ WriterWaits
  BY Zenon DEF DecodeFails
<1>2. Measured' /\ Stream!Fail(error)
  BY <1>1, Failed, Zenon
<1>3. sent[k + 1].verdict = error
  OBVIOUS
<1>4. Stream!Due(error)
  BY <1>3, Zenon DEF Stream!Due
<1> QED
  BY <1>2, <1>4, Zenon DEF Stream!BadFrame

(* decode_eof: a clean end if nothing is left, and an error if the writer  *)
(* went inside a frame.                                                    *)
LEMMA EofSteps ==
    ASSUME Measured, reader = "Decode", try_frame(src).is = "None", DecodeEof
    PROVE  Measured' /\ (Stream!Finish \/ Stream!CutOff)
<1>1. /\ closed \in BOOLEAN /\ wire \in Seq(Byte) /\ src \in Seq(Byte)
      /\ eof \in BOOLEAN /\ items \in Seq(Items)
      /\ (eof = TRUE => closed = TRUE /\ wire = <<>>)
      /\ \A i \in 1..Len(items) : items[i].is = "Ok"
  BY Before, Zenon
<1>2. /\ eof = TRUE /\ reader' = "Done" /\ WriterWaits
      /\ UNCHANGED <<wire, src, eof>>
      /\ items' = IF src = <<>> THEN items
                  ELSE Append(items, Err("BytesRemaining"))
  BY <1>1, Zenon DEF DecodeEof
<1>3. PICK k : Ruler(sent, ends, closed, src \o wire, k) /\ Taken = k
  BY Now, Zenon
<1>4. src \o <<>> = src
  BY <1>1
<1>5. Ruler(sent, ends, closed, src, k)
  BY <1>1, <1>2, <1>3, <1>4, Zenon
<1>6. \/ src = <<>> /\ k = Len(ends)
      \/ /\ src # <<>> /\ k < Len(sent) /\ sent[k + 1] = [verdict |-> "Cut"]
  BY <1>1, <1>5, RulerEnd, Zenon
<1>7. CASE src = <<>> /\ k = Len(ends)
  <2>1. /\ sent' = sent /\ ends' = ends /\ closed' = closed
        /\ wire' = wire /\ src' = src /\ eof' = eof /\ items' = items
    BY <1>2, <1>7, Zenon DEF WriterWaits
  <2>2. /\ closed' \in BOOLEAN /\ wire' \in Seq(Byte) /\ src' \in Seq(Byte)
        /\ eof' \in BOOLEAN /\ items' \in Seq(Items)
        /\ reader' \in {"Read", "Decode", "Errored", "Done"}
    BY <1>1, <1>2, <2>1, Zenon
  <2>3. eof' = TRUE => closed' = TRUE /\ wire' = <<>>
    BY <1>1, <2>1, Zenon
  <2>4. Ruler(sent', ends', closed', src' \o wire', k)
    BY <1>3, <2>1, Zenon
  <2>5. \A i \in 1..Len(items') : items'[i].is = "Ok"
    BY <1>1, <2>1, Zenon
  <2>6. Measured' /\ Taken' = k
    BY <2>2, <2>3, <2>4, <2>5, Afterwards, Zenon
  <2>7. k = Len(sent)
    BY <1>5, <1>7, Zenon DEF Ruler
  <2>8. items' = <<>> \/ items'[Len(items')].is = "Ok"
    <3>1. items = <<>> \/ Len(items) \in 1..Len(items)
      BY <1>1, SMT
    <3> QED
      BY <1>1, <2>1, <3>1, Zenon
  <2>9. reader' \notin {"Read", "Decode"}
    BY <1>2
  <2> QED
    BY <1>3, <2>1, <2>6, <2>7, <2>8, <2>9, Zenon DEF Stream!Finish
<1>8. CASE src # <<>> /\ k < Len(sent) /\ sent[k + 1] = [verdict |-> "Cut"]
  <2>1. items' = Append(items, Err("BytesRemaining"))
    BY <1>2, <1>8, Zenon
  <2>2. Measured' /\ Stream!Fail("BytesRemaining")
    BY <1>2, <2>1, Failed, Zenon
  <2>3. sent[k + 1].verdict = "Cut"
    BY <1>8
  <2>4. Stream!Due("Cut")
    BY <1>3, <1>8, <2>3, Zenon DEF Stream!Due
  <2> QED
    BY <2>2, <2>4, Zenon DEF Stream!CutOff
<1> QED
  BY <1>6, <1>7, <1>8, Zenon

(* The poll behind an error, and a step of nothing.                        *)
LEMMA Ended ==
    ASSUME Measured, UNCHANGED <<sent, ends, closed, wire, src, eof, items>>,
           \/ reader = "Errored" /\ reader' = "Done"
           \/ reader' = reader
    PROVE  Measured' /\ UNCHANGED Stream!vars
<1>1. /\ closed \in BOOLEAN /\ wire \in Seq(Byte) /\ src \in Seq(Byte)
      /\ reader \in {"Read", "Decode", "Errored", "Done"}
      /\ eof \in BOOLEAN /\ items \in Seq(Items)
      /\ (eof = TRUE => closed = TRUE /\ wire = <<>>)
      /\ (reader \in {"Read", "Decode"} =>
              \A i \in 1..Len(items) : items[i].is = "Ok")
  BY Before, Zenon
<1>2. /\ sent' = sent /\ ends' = ends /\ closed' = closed
      /\ wire' = wire /\ src' = src /\ eof' = eof /\ items' = items
  BY Zenon
<1>3. PICK k : Ruler(sent, ends, closed, src \o wire, k) /\ Taken = k
  BY Now, Zenon
<1>4. reader' \in {"Read", "Decode"} <=> reader \in {"Read", "Decode"}
  BY SMT
<1>5. reader' \in {"Read", "Decode", "Errored", "Done"}
  BY <1>1, SMT
<1>6. /\ closed' \in BOOLEAN /\ wire' \in Seq(Byte) /\ src' \in Seq(Byte)
      /\ eof' \in BOOLEAN /\ items' \in Seq(Items)
  BY <1>1, <1>2, Zenon
<1>7. eof' = TRUE => closed' = TRUE /\ wire' = <<>>
  BY <1>1, <1>2, Zenon
<1>8. reader' \in {"Read", "Decode"} =>
          \A i \in 1..Len(items') : items'[i].is = "Ok"
  BY <1>1, <1>2, <1>4, Zenon
<1>9. Ruler(sent', ends', closed', src' \o wire', k)
  BY <1>2, <1>3, Zenon
<1>10. Measured' /\ Taken' = k
  BY <1>5, <1>6, <1>7, <1>8, <1>9, Afterwards, Zenon
<1> QED
  BY <1>2, <1>3, <1>4, <1>10, Zenon DEF Stream!vars

(* Every turn of decode.                                                   *)
LEMMA DecodeSteps ==
    ASSUME Measured, Decode
    PROVE  Measured' /\ (Stream!Next \/ UNCHANGED Stream!vars)
<1> DEFINE frame == try_frame(src)
           payload == PayloadDecode(frame.value.payload,
                                    frame.value.header.payload_type)
<1>1. ASSUME PollAfterError
      PROVE  Measured' /\ UNCHANGED Stream!vars
  <2>1. /\ reader = "Errored" /\ reader' = "Done"
        /\ UNCHANGED <<sent, ends, closed, wire, src, eof, items>>
    BY <1>1, Zenon DEF PollAfterError, WriterWaits
  <2> QED
    BY <2>1, Ended, Zenon
<1>2. ASSUME DecodeTurn
      PROVE  Measured' /\ (Stream!Next \/ UNCHANGED Stream!vars)
  <2>1. /\ reader = "Decode"
        /\ \/ frame.is = "None" /\ (DecodeWaits \/ DecodeEof)
           \/ frame.is = "Ok" /\ DecodeFrame(frame.value)
           \/ frame.is \notin {"None", "Ok"} /\ DecodeFails(frame.is)
    BY <1>2, Zenon DEF DecodeTurn
  <2>2. CASE frame.is = "None" /\ DecodeWaits
    <3>1. /\ reader' = "Read" /\ items' = items /\ wire' = wire /\ src' = src
          /\ ~eof /\ eof' = eof /\ WriterWaits
      BY <2>2, Zenon DEF DecodeWaits
    <3>2. /\ src' \in Seq(Byte) /\ wire' \in Seq(Byte)
          /\ src' \o wire' = src \o wire /\ eof = FALSE
      BY <3>1, Before, Zenon
    <3>3. eof' \in BOOLEAN /\ (eof' = TRUE => closed = TRUE /\ wire' = <<>>)
      BY <3>1, <3>2, Zenon
    <3> QED
      BY <2>1, <3>1, <3>2, <3>3, Looked, Zenon
  <2>3. CASE frame.is = "None" /\ DecodeEof
    BY <2>1, <2>3, EofSteps, Zenon DEF Stream!Next
  <2>4. CASE frame.is = "Ok" /\ DecodeFrame(frame.value)
    <3>1. \/ payload.is = "Ok" /\ DecodeMessage(frame.value, payload.value)
          \/ is_framing_fatal(payload.is) /\ DecodeFails(payload.is)
          \/ /\ payload.is # "Ok" /\ ~is_framing_fatal(payload.is)
             /\ DecodeSkips(frame.value)
      BY <2>4, Zenon DEF DecodeFrame
    <3>2. CASE payload.is = "Ok" /\ DecodeMessage(frame.value, payload.value)
      BY <2>1, <2>4, <3>2, MessageSteps, Zenon DEF Stream!Next
    <3>3. CASE is_framing_fatal(payload.is) /\ DecodeFails(payload.is)
      <4>1. frame.is # "None" /\ frame.is # "VersionInverseIncorrect"
        <5> HIDE DEF frame
        <5> QED
          BY <2>4
      <4>2. payload.is # "Ok" /\ payload.is # "UnsupportedPayloadType"
        <5> HIDE DEF payload
        <5> QED
          BY <3>3 DEF is_framing_fatal
      <4>3. PICK k : /\ Taken = k /\ k < Len(sent) /\ payload.is = "Incomplete"
                     /\ sent[k + 1] = [verdict |-> "Incomplete"]
        BY <4>1, <4>2, NextOwed, Zenon
      <4>4. DecodeFails("Incomplete")
        BY <3>3, <4>3, Zenon
      <4> QED
        BY <2>1, <4>3, <4>4, BadFrameSteps, Zenon DEF Stream!Next
    <3>4. CASE /\ payload.is # "Ok" /\ ~is_framing_fatal(payload.is)
               /\ DecodeSkips(frame.value)
      BY <2>1, <2>4, <3>4, SkipSteps, Zenon DEF Stream!Next
    <3> QED
      BY <3>1, <3>2, <3>3, <3>4, Zenon
  <2>5. CASE frame.is \notin {"None", "Ok"} /\ DecodeFails(frame.is)
    <3>1. frame.is # "None" /\ frame.is # "Ok"
      BY <2>5, Zenon
    <3>2. PICK k : /\ Taken = k /\ k < Len(sent)
                   /\ frame.is = "VersionInverseIncorrect"
                   /\ sent[k + 1] = [verdict |-> "VersionInverseIncorrect"]
      BY <3>1, NextOwed, Zenon
    <3>3. DecodeFails("VersionInverseIncorrect")
      BY <2>5, <3>2, Zenon
    <3> QED
      BY <2>1, <3>2, <3>3, BadFrameSteps, Zenon DEF Stream!Next
  <2> QED
    BY <2>1, <2>2, <2>3, <2>4, <2>5, Zenon
<1> QED
  BY <1>1, <1>2, Zenon DEF Decode

(* Every step keeps the ruler in place, and is a step of the stream of     *)
(* frames or none.                                                         *)
LEMMA Steps ==
    ASSUME Measured, [Next]_vars
    PROVE  Measured' /\ (Stream!Next \/ UNCHANGED Stream!vars)
<1>1. CASE Write
  BY <1>1, WriteSteps, Zenon DEF Stream!Next
<1>2. CASE Read \/ ReadFails
  BY <1>2, ReadSteps, Zenon DEF Stream!Next
<1>3. CASE Decode
  BY <1>3, DecodeSteps, Zenon
<1>4. CASE UNCHANGED vars
  <2>1. /\ UNCHANGED <<sent, ends, closed, wire, src, eof, items>>
        /\ reader' = reader
    BY <1>4, Zenon DEF vars
  <2> QED
    BY <2>1, Ended, Zenon
<1> QED
  BY <1>1, <1>2, <1>3, <1>4, Zenon DEF Next

----------------------------------------------------------------------------
(* The ruler lies along the bytes in every state of a connection: however  *)
(* FramedRead's reads cut them, src begins where a frame begins, and what  *)
(* is written and not yet taken is what sent says it is.                   *)
THEOREM RulerHolds == Spec => []Measured
<1>1. Init => Measured
  BY MeasuredFirst, Zenon
<1>2. Measured /\ [Next]_vars => Measured'
  BY Steps, Zenon
<1> QED
  BY <1>1, <1>2, PTL DEF Spec

(* FramedRead's buffer and the socket hold bytes, and the stream yields    *)
(* messages and the errors that end it, never an UnsupportedPayloadType.   *)
THEOREM CodecTyped == Spec => []TypeOK
<1>1. Measured => TypeOK
  BY Zenon DEF Measured
<1> QED
  BY <1>1, RulerHolds, PTL

(* MessageCodec under FramedRead implements the stream of frames: each     *)
(* step of the bytes is a step of MessageStream or none, whatever the      *)
(* messages, the frames of other peers and the sizes of the reads are.     *)
THEOREM StreamIsImplemented == Spec => StreamImplemented
<1>1. Init => Stream!Init
  BY MeasuredFirst, Zenon
<1>2. Measured /\ [Next]_vars => [Stream!Next]_(Stream!vars)
  BY Steps, Zenon
<1> QED
  BY <1>1, <1>2, RulerHolds, PTL DEF Spec, StreamImplemented, Stream!Spec

=============================================================================
