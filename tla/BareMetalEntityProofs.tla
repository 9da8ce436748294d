----------------------- MODULE BareMetalEntityProofs ------------------------
(***************************************************************************)
(* Proofs about BareMetalEntity, for every capacity of the buffer, every   *)
(* set of addresses and any number and size of frames and chunks.          *)
(***************************************************************************)
EXTENDS BareMetalEntity, SequenceTheorems, TLAPS

(* The frames lie in the stream one behind the other.                      *)
Contiguous ==
    \A i \in 1..Len(stream) :
        stream[i].from = IF i = 1 THEN 0
                         ELSE stream[i - 1].from + Size(stream[i - 1])

(* On a connection that is up the next frame starts in what was written    *)
(* and not after what was delivered, also while nobody is serving it.      *)
Delivered ==
    conn = "Open" => /\ next <= Len(stream) + 1
                     /\ StartOf(next) <= fed /\ fed <= Written

(* No session outlives its connection, and the loop runs on one that is up *)
(* and served.                                                             *)
Sessions ==
    /\ conn = "None" => rx_len = 0 /\ active_tester = 0
    /\ at = "Loop" => Running

(* The buffer and what holds it in place.                                  *)
Window == TypeOK /\ Contiguous /\ Delivered /\ Sessions /\ BufferIsWindow

----------------------------------------------------------------------------
(* The stream and the window.                                              *)

(* The end of the stream is a number.                                      *)
LEMMA WrittenTyped == TypeOK => Written \in Nat
<1> SUFFICES ASSUME TypeOK PROVE Written \in Nat
    OBVIOUS
<1>1. CASE stream = <<>>
  BY <1>1 DEF Written
<1>2. CASE stream # <<>>
  <2>1. Len(stream) \in 1..Len(stream)
    BY <1>2 DEF TypeOK
  <2>2. stream[Len(stream)] \in Frame
    BY <2>1 DEF TypeOK
  <2> QED BY <1>2, <2>2, EntityAssumption DEF Written, Size, Frame
<1> QED BY <1>1, <1>2

(* A frame of the stream.                                                  *)
LEMMA FrameTyped ==
    ASSUME TypeOK, NEW i \in 1..Len(stream)
    PROVE  /\ stream[i].kind \in FrameKinds /\ stream[i].ok \in BOOLEAN
           /\ stream[i].source \in Addresses \cup {0}
           /\ stream[i].len \in Nat /\ stream[i].from \in Nat
           /\ Size(stream[i]) \in Nat /\ Size(stream[i]) > 0
           /\ Size(stream[i]) = HeaderSize + stream[i].len
<1>1. stream[i] \in Frame
  BY DEF TypeOK
<1> QED BY <1>1, EntityAssumption DEF Frame, Size

(* The start of a frame, or of what is not written yet, is a number.       *)
LEMMA StartTyped ==
    ASSUME TypeOK, NEW i \in Nat \ {0} PROVE StartOf(i) \in Nat
  BY WrittenTyped, FrameTyped DEF StartOf, TypeOK

(* One frame ends where the next one starts.                               *)
LEMMA NextStart ==
    ASSUME TypeOK, Contiguous, NEW i \in 1..Len(stream)
    PROVE  StartOf(i + 1) = StartOf(i) + Size(stream[i])
<1>1. Len(stream) \in Nat
  BY DEF TypeOK
<1>2. StartOf(i) = stream[i].from
  BY <1>1 DEF StartOf
<1>3. CASE i < Len(stream)
  <2>1. i + 1 \in 1..Len(stream) /\ i + 1 # 1 /\ (i + 1) - 1 = i
    BY <1>1, <1>3
  <2> QED BY <1>2, <2>1 DEF StartOf, Contiguous
<1>4. CASE i = Len(stream)
  <2>1. stream # <<>> /\ ~(i + 1 <= Len(stream))
    BY <1>1, <1>4
  <2> QED BY <1>2, <1>4, <2>1 DEF StartOf, Written
<1> QED BY <1>1, <1>3, <1>4

(* Bytes that were delivered and are not answered belong to a frame that   *)
(* was written.                                                            *)
LEMMA FirstWritten ==
    ASSUME Window, conn = "Open", StartOf(next) < fed \/ fed < Written
    PROVE  next \in 1..Len(stream)
<1>1. Len(stream) \in Nat /\ next \in Nat \ {0} /\ next <= Len(stream) + 1
  BY DEF Window, TypeOK, Delivered
<1>2. ASSUME next = Len(stream) + 1 PROVE FALSE
  <2>1. StartOf(next) = Written
    BY <1>1, <1>2 DEF StartOf
  <2> QED BY <2>1, WrittenTyped DEF Window, Delivered, TypeOK
<1> QED BY <1>1, <1>2

(* In the loop, a header in the buffer is that of a frame of the stream.   *)
LEMMA HeaderWritten ==
    ASSUME Window, Running, HasHeader
    PROVE  next \in 1..Len(stream) /\ First.len \in Nat /\ First.kind \in FrameKinds
<1>1. next \in Nat \ {0} /\ rx_len \in Nat /\ rx_len > 0
  BY EntityAssumption DEF Window, TypeOK, HasHeader
<1>2. StartOf(next) \in Nat /\ fed = StartOf(next) + rx_len
  BY <1>1, StartTyped DEF Window, BufferIsWindow
<1>3. next \in 1..Len(stream)
  BY <1>1, <1>2, FirstWritten DEF Running
<1> QED BY <1>3, FrameTyped DEF Window, First

(* What a reply adds.                                                      *)
LEMMA RepliesGrow ==
    ASSUME NEW s \in Seq(Reply), NEW kinds \in Seq(ReplyKinds), NEW n \in Nat
    PROVE  LET added == [i \in 1..Len(kinds) |-> [is |-> kinds[i], to |-> n]]
           IN  /\ added \in Seq(Reply) /\ s \o added \in Seq(Reply)
               /\ Len(s) \in Nat /\ Len(s \o added) = Len(s) + Len(kinds)
               /\ \A i \in 1..Len(s) : (s \o added)[i] = s[i]
               /\ \A i \in 1..Len(kinds) :
                      (s \o added)[Len(s) + i] = [is |-> kinds[i], to |-> n]
<1> DEFINE added == [i \in 1..Len(kinds) |-> [is |-> kinds[i], to |-> n]]
<1>1. Len(kinds) \in Nat /\ \A i \in 1..Len(kinds) : kinds[i] \in ReplyKinds
  OBVIOUS
<1>2. \A i \in 1..Len(kinds) : [is |-> kinds[i], to |-> n] \in Reply
  BY <1>1 DEF Reply
<1>3. added \in Seq(Reply) /\ Len(added) = Len(kinds)
  BY <1>1, <1>2
<1>4. \A i \in 1..Len(kinds) : added[i] = [is |-> kinds[i], to |-> n]
  OBVIOUS
<1> HIDE DEF added
<1>5. /\ s \o added \in Seq(Reply) /\ Len(s) \in Nat
      /\ Len(s \o added) = Len(s) + Len(kinds)
      /\ \A i \in 1..Len(s) : (s \o added)[i] = s[i]
      /\ \A i \in 1..Len(kinds) : (s \o added)[Len(s) + i] = added[i]
  <2> DEFINE m == s \o added
  <2>1. Len(s) \in Nat
    OBVIOUS
  <2>2. /\ m \in Seq(Reply) /\ Len(m) = Len(s) + Len(added)
        /\ \A i \in 1..(Len(s) + Len(added)) :
               m[i] = IF i <= Len(s) THEN s[i] ELSE added[i - Len(s)]
    BY <1>3, ConcatProperties, Zenon
  <2> HIDE DEF m
  <2>3. ASSUME NEW i \in 1..Len(s)
        PROVE  m[i] = s[i]
    <3>1. i \in 1..(Len(s) + Len(added)) /\ i <= Len(s)
      BY <1>1, <1>3, <2>1
    <3> QED BY <2>2, <3>1, Zenon
  <2>4. ASSUME NEW i \in 1..Len(kinds)
        PROVE  m[Len(s) + i] = added[i]
    <3>1. /\ Len(s) + i \in 1..(Len(s) + Len(added)) /\ ~(Len(s) + i <= Len(s))
          /\ (Len(s) + i) - Len(s) = i
      BY <1>1, <1>3, <2>1
    <3>2. m[Len(s) + i] = added[(Len(s) + i) - Len(s)]
      BY <2>2, <3>1
    <3> QED BY <3>1, <3>2
  <2> QED BY <1>3, <2>1, <2>2, <2>3, <2>4, Zenon DEF m
<1> QED BY <1>3, <1>4, <1>5 DEF added

----------------------------------------------------------------------------
(* The window is kept.                                                     *)

(* Nothing is written, delivered or buffered at the start.                 *)
LEMMA WindowInit == Init => Window
<1> SUFFICES ASSUME Init PROVE Window
    OBVIOUS
<1>1. TypeOK
  <2>1. serving \in BOOLEAN
    BY Zenon DEF Init
  <2>2. /\ stream \in Seq(Frame) /\ Len(stream) <= MaxFrames
        /\ replies \in Seq(Reply) /\ rx_len \in 0..RxCap
        /\ fed \in Nat /\ next \in Nat \ {0}
    BY EntityAssumption DEF Init
  <2> QED BY <2>1, <2>2 DEF Init, TypeOK
<1>2. Contiguous /\ Delivered /\ Sessions /\ BufferIsWindow
  BY DEF Init, Contiguous, Delivered, Sessions, BufferIsWindow, Running
<1> QED BY <1>1, <1>2 DEF Window

(* A reply is one of the kinds and answers a frame.                        *)
LEMMA ReplyTyped ==
    ASSUME TypeOK, NEW kinds \in Seq(ReplyKinds), Replying(kinds)
    PROVE  replies' \in Seq(Reply)
  BY RepliesGrow DEF Replying, TypeOK

(* What a verdict that closes the connection leaves alone.                 *)
LEMMA WindowCloses ==
    ASSUME Window, replies' \in Seq(Reply), Closing
    PROVE  Window'
<1>1. TypeOK' /\ Contiguous'
  BY DEF Window, Closing, TypeOK, Contiguous, Size
<1> QED BY <1>1 DEF Window, Closing, Delivered, Sessions, BufferIsWindow, Running

(* Taking the first frame out of the buffer moves the window behind it.    *)
LEMMA WindowMoves ==
    ASSUME Window, at = "Loop", HasFrame, Consumed, replies' \in Seq(Reply),
           active_tester' \in Clients \cup {0}
    PROVE  Window'
<1>1. Running /\ next \in 1..Len(stream) /\ First.len \in Nat
  BY HeaderWritten DEF Window, Sessions, HasFrame, SoundHeader
<1>2. /\ Len(stream) \in Nat /\ StartOf(next) \in Nat /\ fed = StartOf(next) + rx_len
      /\ rx_len \in 0..RxCap /\ fed <= Written
  BY <1>1, StartTyped DEF Window, TypeOK, BufferIsWindow, Delivered, Running
<1>3. Size(First) = HeaderSize + First.len /\ rx_len >= Size(First)
  BY <1>1, <1>2, EntityAssumption DEF HasFrame, SoundHeader, HasHeader, Size
<1>4. StartOf(next + 1) = StartOf(next) + Size(First)
  BY <1>1, NextStart DEF Window, First
<1>5. StartOf(next)' = StartOf(next + 1) /\ Written' = Written
  BY DEF Consumed, StartOf, Written, Size
<1>6. /\ rx_len' \in 0..RxCap /\ next' \in Nat \ {0} /\ next' <= Len(stream) + 1
      /\ fed = StartOf(next)' + rx_len' /\ StartOf(next)' <= fed
  <2>1. rx_len' = rx_len - Size(First) /\ next' = next + 1
    BY Zenon DEF Consumed
  <2>2. Size(First) \in Nat /\ RxCap \in Nat
    BY <1>1, <1>3, EntityAssumption
  <2>3. rx_len' \in 0..RxCap
    BY <1>2, <1>3, <2>1, <2>2
  <2>4. next' \in Nat \ {0} /\ next' <= Len(stream) + 1
    BY <1>1, <1>2, <2>1
  <2>5. StartOf(next)' = StartOf(next) + Size(First)
    BY <1>4, <1>5, Zenon
  <2>6. fed = StartOf(next)' + rx_len' /\ StartOf(next)' <= fed
    <3> DEFINE new == StartOf(next)'
               old == StartOf(next)
               size == Size(First)
    <3>1. /\ old \in Nat /\ size \in Nat /\ rx_len \in Nat /\ rx_len >= size
          /\ new = old + size /\ fed = old + rx_len /\ rx_len' = rx_len - size
      BY <1>2, <1>3, <2>1, <2>2, <2>5
    <3> HIDE DEF new, old, size
    <3>2. fed = new + rx_len' /\ new <= fed
      BY <3>1
    <3> QED BY <3>2, Zenon DEF new
  <2> QED BY <2>3, <2>4, <2>6, Zenon
<1>7. TypeOK' /\ Contiguous'
  BY <1>6 DEF Window, Consumed, TypeOK, Contiguous, Size
<1>8. Sessions'
  BY <1>1 DEF Sessions, Running, Consumed
<1>9. Delivered' /\ BufferIsWindow'
  BY <1>2, <1>5, <1>6 DEF Delivered, BufferIsWindow, Consumed
<1> QED BY <1>7, <1>8, <1>9 DEF Window

(* A frame is written behind the others.                                   *)
LEMMA StreamGrows ==
    ASSUME Window, NEW kind \in FrameKinds, NEW source \in Addresses \cup {0},
           NEW ok \in BOOLEAN, NEW len \in Nat, TesterWrites(kind, source, ok, len)
    PROVE  /\ stream' \in Seq(Frame) /\ Len(stream') = Len(stream) + 1
           /\ Len(stream) \in Nat /\ Len(stream') <= MaxFrames
           /\ \A i \in 1..Len(stream) : stream'[i] = stream[i]
           /\ stream'[Len(stream) + 1].from = Written
           /\ Written' \in Nat /\ Written' > Written
           /\ \A i \in 1..(Len(stream) + 1) : StartOf(i)' = StartOf(i)
<1> DEFINE frame == [kind |-> kind, source |-> source, ok |-> ok,
                     len |-> len, from |-> Written]
<1>1. Written \in Nat /\ frame \in Frame
  BY WrittenTyped DEF Window, Frame
<1>2. stream' = Append(stream, frame) /\ stream \in Seq(Frame) /\ Len(stream) < MaxFrames
  BY DEF TesterWrites, Window, TypeOK
<1> HIDE DEF frame
<1>3. /\ stream' \in Seq(Frame) /\ Len(stream') = Len(stream) + 1
      /\ Len(stream) \in Nat /\ Len(stream') <= MaxFrames
      /\ \A i \in 1..Len(stream) : stream'[i] = stream[i]
      /\ stream'[Len(stream) + 1] = frame
  BY <1>1, <1>2, EntityAssumption
<1>4. frame.from = Written /\ Size(frame) \in Nat /\ Size(frame) > 0
  BY <1>1, EntityAssumption DEF frame, Size
<1>5. Written' = Written + Size(frame)
  <2>1. stream' # <<>>
    BY <1>3
  <2> QED BY <2>1, <1>3, <1>4 DEF Written, Size
<1>6. ASSUME NEW i \in 1..(Len(stream) + 1) PROVE StartOf(i)' = StartOf(i)
  <2>1. CASE i <= Len(stream)
    BY <2>1, <1>3 DEF StartOf
  <2>2. CASE i = Len(stream) + 1
    BY <2>2, <1>3, <1>4 DEF StartOf
  <2> QED BY <2>1, <2>2, <1>3
<1>7. Written' \in Nat /\ Written' > Written
  BY <1>1, <1>4, <1>5
<1> QED BY <1>3, <1>4, <1>6, <1>7, Zenon

(* It stays out of the window.                                             *)
LEMMA WindowUnderWrite ==
    ASSUME Window, NEW kind \in FrameKinds, NEW source \in Addresses \cup {0},
           NEW ok \in BOOLEAN, NEW len \in Nat, TesterWrites(kind, source, ok, len)
    PROVE  Window'
<1>1. /\ stream' \in Seq(Frame) /\ Len(stream') = Len(stream) + 1
      /\ Len(stream) \in Nat /\ Len(stream') <= MaxFrames
      /\ \A i \in 1..Len(stream) : stream'[i] = stream[i]
      /\ stream'[Len(stream) + 1].from = Written
      /\ Written' \in Nat /\ Written' > Written
      /\ \A i \in 1..(Len(stream) + 1) : StartOf(i)' = StartOf(i)
  BY StreamGrows, Zenon
<1>2. UNCHANGED <<serving, active_tester, rx_len, at, conn, fed, next, replies>>
  BY DEF TesterWrites
<1>3. TypeOK'
  BY <1>1, <1>2 DEF Window, TypeOK
<1>4. Contiguous'
  <2>1. SUFFICES ASSUME NEW i \in 1..Len(stream')
                 PROVE  stream'[i].from = IF i = 1 THEN 0
                           ELSE stream'[i - 1].from + Size(stream'[i - 1])
    BY DEF Contiguous, Size
  <2>2. CASE i \in 1..Len(stream)
    <3>1. i # 1 => i - 1 \in 1..Len(stream)
      BY <1>1, <2>2
    <3> QED BY <1>1, <2>2, <3>1 DEF Window, Contiguous
  <2>3. CASE i = Len(stream) + 1 /\ i = 1
    <3>1. stream = <<>>
      BY <1>1, <2>3 DEF Window, TypeOK
    <3> QED BY <1>1, <2>3, <3>1 DEF Written
  <2>4. CASE i = Len(stream) + 1 /\ i # 1
    <3>1. stream # <<>> /\ i - 1 = Len(stream) /\ i - 1 \in 1..Len(stream)
      BY <1>1, <2>4
    <3> QED BY <1>1, <2>4, <3>1 DEF Written
  <2> QED BY <1>1, <2>2, <2>3, <2>4
<1>5. conn = "Open" /\ next \in 1..(Len(stream) + 1)
  BY <1>1 DEF TesterWrites, Window, TypeOK, Delivered
<1>6. StartOf(next)' = StartOf(next)
  BY <1>1, <1>2, <1>5 DEF StartOf
<1>7. Delivered' /\ BufferIsWindow' /\ Sessions'
  <2>1. Written \in Nat /\ fed \in Nat
    BY WrittenTyped DEF Window, TypeOK
  <2> QED BY <1>1, <1>2, <1>5, <1>6, <2>1 DEF Window, Delivered, BufferIsWindow, Sessions, Running
<1> QED BY <1>3, <1>4, <1>7 DEF Window

(* The steps around the connection.                                        *)
LEMMA WindowSession ==
    ASSUME Window, InitEntity \/ DeinitEntity \/ Accept \/ OnTcpDisconnect
    PROVE  Window'
<1>1. CASE InitEntity \/ DeinitEntity
  <2>1. /\ at = "Idle" /\ active_tester' = 0 /\ rx_len' = 0 /\ serving' \in BOOLEAN
        /\ UNCHANGED <<at, conn, stream, fed, next, replies>>
        /\ conn = "None" \/ ~serving'
    BY <1>1, Zenon DEF InitEntity, DeinitEntity, ResetSession
  <2>2. TypeOK' /\ Contiguous'
    BY <2>1, EntityAssumption DEF Window, TypeOK, Contiguous, Size
  <2>3. StartOf(next)' = StartOf(next) /\ Written' = Written
    BY <2>1 DEF StartOf, Written, Size
  <2>4. Delivered' /\ Sessions' /\ BufferIsWindow'
    BY <2>1, <2>3 DEF Window, Delivered, Sessions, BufferIsWindow, Running
  <2> QED BY <2>2, <2>4 DEF Window
<1>2. CASE Accept
  <2>1. /\ stream' = <<>> /\ fed' = 0 /\ next' = 1 /\ replies' = <<>> /\ conn' = "Open"
        /\ UNCHANGED <<serving, active_tester, rx_len, at>>
        /\ conn = "None"
    BY <1>2 DEF Accept
  <2>2. at = "Idle" /\ rx_len = 0
    BY <2>1 DEF Window, Sessions, Running, TypeOK
  <2>3. TypeOK'
    BY <2>1, EntityAssumption DEF Window, TypeOK
  <2>4. Contiguous' /\ Sessions'
    BY <2>1, <2>2 DEF Contiguous, Sessions
  <2>5. Len(stream') = 0 /\ StartOf(next)' = 0 /\ Written' = 0
    BY <2>1 DEF StartOf, Written
  <2>6. Delivered' /\ BufferIsWindow'
    BY <2>1, <2>2, <2>5 DEF Delivered, BufferIsWindow
  <2> QED BY <2>3, <2>4, <2>6 DEF Window
<1>3. CASE OnTcpDisconnect
  <2>1. /\ at = "Idle" /\ active_tester' = 0 /\ rx_len' = 0 /\ conn' = "None"
        /\ UNCHANGED <<serving, at, stream, fed, next, replies>>
    BY <1>3 DEF OnTcpDisconnect, ResetSession
  <2>2. TypeOK' /\ Contiguous'
    BY <2>1, EntityAssumption DEF Window, TypeOK, Contiguous, Size
  <2>3. Delivered' /\ Sessions' /\ BufferIsWindow'
    BY <2>1 DEF Delivered, Sessions, BufferIsWindow, Running
  <2> QED BY <2>2, <2>3 DEF Window
<1> QED BY <1>1, <1>2, <1>3

(* A chunk is stored behind what the buffer holds.                         *)
LEMMA WindowStored ==
    ASSUME Window, NEW n \in Nat, TcpRxStored(n)
    PROVE  Window'
<1>1. /\ at = "Idle" /\ conn = "Open" /\ serving /\ n > 0 /\ fed + n <= Written
      /\ rx_len + n <= RxCap /\ rx_len' = rx_len + n /\ fed' = fed + n /\ at' = "Loop"
      /\ UNCHANGED <<serving, active_tester, conn, stream, next, replies>>
  BY DEF TcpRxStored, Chunk
<1>2. TypeOK' /\ Contiguous'
  BY <1>1, EntityAssumption DEF Window, TypeOK, Contiguous, Size
<1>3. StartOf(next)' = StartOf(next) /\ Written' = Written
  BY <1>1 DEF StartOf, Written, Size
<1>4. StartOf(next) \in Nat /\ Written \in Nat /\ fed \in Nat /\ rx_len \in Nat
  BY StartTyped, WrittenTyped DEF Window, TypeOK
<1>5. Delivered' /\ Sessions' /\ BufferIsWindow'
  BY <1>1, <1>3, <1>4 DEF Window, Delivered, Sessions, BufferIsWindow, Running
<1> QED BY <1>2, <1>5 DEF Window

(* The two refusals of a chunk, and those of the loop.                     *)
Refusal ==
    \/ \E n \in 1..(RxCap + 1) : TcpRxUninitialised(n) \/ TcpRxOverflow(n)
    \/ FrameTooLarge \/ HeaderRejected \/ ActivationDenied \/ DiagnosticFromStranger

(* A verdict that closes: at most one reply, to the first frame.           *)
LEMMA Refused ==
    ASSUME TypeOK, Refusal
    PROVE  /\ Closing
           /\ \/ replies' = replies
              \/ \E kind \in ReplyKinds \ {"Granted", "PositiveAck", "Response"} :
                     Replying(<<kind>>)
  BY DEF Refusal, TcpRxUninitialised, TcpRxOverflow, FrameTooLarge, HeaderRejected,
     ActivationDenied, DiagnosticFromStranger, ReplyKinds

Service ==
    ActivationGranted \/ DiagnosticToStranger \/ DiagnosticServed \/ FrameUnserved

(* The verdicts that keep the connection.                                  *)
LEMMA Served ==
    ASSUME Window, Service
    PROVE  /\ at = "Loop" /\ HasFrame /\ Consumed
           /\ active_tester' \in Clients \cup {0}
           /\ \E kinds \in Seq(ReplyKinds) : Replying(kinds)
<1>1. CASE ActivationGranted
  <2>1. <<"Granted">> \in Seq(ReplyKinds)
    BY DEF ReplyKinds
  <2> QED BY <1>1, <2>1, Zenon DEF ActivationGranted, Framed, Grantable
<1>2. CASE DiagnosticToStranger
  <2>1. <<"NegativeAck">> \in Seq(ReplyKinds)
    BY DEF ReplyKinds
  <2> QED BY <1>2, <2>1, Zenon DEF DiagnosticToStranger, Framed, Window, TypeOK
<1>3. CASE DiagnosticServed
  <2>1. <<"PositiveAck">> \in Seq(ReplyKinds) /\ <<"PositiveAck", "Response">> \in Seq(ReplyKinds)
    BY DEF ReplyKinds
  <2> QED BY <1>3, <2>1, Zenon DEF DiagnosticServed, Framed, Window, TypeOK
<1>4. CASE FrameUnserved
  <2>1. <<"UnknownPayloadType">> \in Seq(ReplyKinds)
    BY DEF ReplyKinds
  <2> QED BY <1>4, <2>1, Zenon DEF FrameUnserved, Framed, Window, TypeOK
<1> QED BY <1>1, <1>2, <1>3, <1>4 DEF Service

(* Every step is of one of these sorts.                                    *)
LEMMA Sorted ==
    ASSUME [Next]_vars
    PROVE  \/ InitEntity \/ DeinitEntity \/ Accept \/ OnTcpDisconnect
           \/ \E kind \in FrameKinds, source \in Addresses \cup {0}, ok \in BOOLEAN,
                 len \in Nat : TesterWrites(kind, source, ok, len)
           \/ \E n \in Nat : TcpRxStored(n)
           \/ Refusal \/ Service \/ FrameIncomplete \/ UNCHANGED vars
<1>1. \A kind \in FrameKinds : Lengths[kind] \subseteq Nat
  BY EntityAssumption
<1>2. 1..(RxCap + 1) \subseteq Nat
  BY EntityAssumption
<1> QED BY <1>1, <1>2 DEF Next, TcpLoop, Refusal, Service

(* The window is kept by every step.                                       *)
LEMMA WindowStep == Window /\ [Next]_vars => Window'
<1> SUFFICES ASSUME Window, [Next]_vars PROVE Window'
    OBVIOUS
<1>1. CASE InitEntity \/ DeinitEntity \/ Accept \/ OnTcpDisconnect
  BY <1>1, WindowSession
<1>2. CASE \E kind \in FrameKinds, source \in Addresses \cup {0}, ok \in BOOLEAN,
              len \in Nat : TesterWrites(kind, source, ok, len)
  BY <1>2, WindowUnderWrite
<1>3. CASE \E n \in Nat : TcpRxStored(n)
  BY <1>3, WindowStored
<1>4. CASE Refusal
  <2>1. Closing /\ replies' \in Seq(Reply)
    <3>1. \A kind \in ReplyKinds : <<kind>> \in Seq(ReplyKinds)
      OBVIOUS
    <3> QED BY <1>4, <3>1, Refused, ReplyTyped, Zenon DEF Window, TypeOK
  <2> QED BY <2>1, WindowCloses
<1>5. CASE Service
  BY <1>5, Served, ReplyTyped, WindowMoves DEF Window
<1>6. CASE FrameIncomplete \/ UNCHANGED vars
  <2>1. /\ UNCHANGED <<serving, active_tester, rx_len, conn, stream, fed, next, replies>>
        /\ at' \in {at, "Idle"}
    BY <1>6 DEF FrameIncomplete, vars
  <2>2. TypeOK' /\ Contiguous'
    BY <2>1 DEF Window, TypeOK, Contiguous, Size
  <2>3. StartOf(next)' = StartOf(next) /\ Written' = Written
    BY <2>1 DEF StartOf, Written, Size
  <2>4. Delivered' /\ Sessions' /\ BufferIsWindow'
    BY <2>1, <2>3 DEF Window, Delivered, Sessions, BufferIsWindow, Running
  <2> QED BY <2>2, <2>4 DEF Window
<1> QED BY <1>1, <1>2, <1>3, <1>4, <1>5, <1>6, Sorted

(* The window holds in every state the entity reaches.                     *)
LEMMA WindowInvariant == Spec => []Window
  BY WindowInit, WindowStep, PTL DEF Spec

----------------------------------------------------------------------------
(* What is left in the buffer.                                             *)

(* When on_tcp_rx has returned, the buffer holds no frame to answer: the   *)
(* loop is left with an incomplete one only, and what the tester writes    *)
(* behind it does not change the first frame.                              *)
LEMMA NoFrameWaitsStep == Window /\ NoFrameWaits /\ [Next]_vars => NoFrameWaits'
<1> SUFFICES ASSUME Window, NoFrameWaits, [Next]_vars,
                    Running', at' = "Idle", HasHeader'
             PROVE  (SoundHeader /\ ~TooLarge /\ ~HasFrame)'
    BY DEF NoFrameWaits
<1>1. CASE InitEntity \/ DeinitEntity \/ OnTcpDisconnect \/ Refusal
  <2>1. CASE Refusal
    BY <2>1, Refused DEF Window, Closing, Running
  <2>2. CASE InitEntity \/ DeinitEntity \/ OnTcpDisconnect
    BY <2>2 DEF InitEntity, DeinitEntity, OnTcpDisconnect, Running
  <2> QED BY <1>1, <2>1, <2>2
<1>2. CASE Accept
  <2>1. rx_len' = 0
    BY <1>2 DEF Accept, Window, Sessions
  <2> QED BY <2>1, EntityAssumption DEF HasHeader
<1>3. CASE \E kind \in FrameKinds, source \in Addresses \cup {0}, ok \in BOOLEAN,
              len \in Nat : TesterWrites(kind, source, ok, len)
  <2>1. /\ UNCHANGED <<serving, active_tester, rx_len, at, conn, fed, next, replies>>
        /\ \A i \in 1..Len(stream) : stream'[i] = stream[i]
    BY <1>3, StreamGrows DEF TesterWrites
  <2>2. Running /\ at = "Idle" /\ HasHeader
    BY <2>1 DEF Running, HasHeader
  <2>3. First' = First
    BY <2>1, <2>2, HeaderWritten DEF First
  <2>4. SoundHeader /\ ~TooLarge /\ ~HasFrame
    BY <2>2 DEF NoFrameWaits
  <2> QED BY <2>1, <2>3, <2>4 DEF SoundHeader, TooLarge, HasFrame, HasHeader
<1>4. CASE (\E n \in Nat : TcpRxStored(n)) \/ Service
  <2>1. at' = "Loop"
    BY <1>4, Served DEF TcpRxStored, Consumed
  <2> QED BY <2>1
<1>5. CASE FrameIncomplete
  BY <1>5 DEF FrameIncomplete, HasHeader, SoundHeader, TooLarge, HasFrame, First
<1>6. CASE UNCHANGED vars
  BY <1>6 DEF vars, NoFrameWaits, Running, HasHeader, SoundHeader, TooLarge, HasFrame, First
<1> QED BY <1>1, <1>2, <1>3, <1>4, <1>5, <1>6, Sorted

----------------------------------------------------------------------------
(* The replies of a connection, as functions of the sequence s of replies  *)
(* and the stream st they answer.                                          *)

Ordered(s, i) ==
    LET previous == IF i = 1 THEN 0 ELSE s[i - 1].to
    IN  IF s[i].is = "Response"
        THEN i > 1 /\ s[i - 1] = [is |-> "PositiveAck", to |-> s[i].to]
        ELSE s[i].to = previous + 1

SourceOf(s, st, i) == st[s[i].to].source

Backed(s, st, i) ==
    s[i].is = "PositiveAck" =>
        \E j \in 1..(i - 1) : /\ s[j].is = "Granted"
                              /\ SourceOf(s, st, j) = SourceOf(s, st, i)

Agreed(s, st, i, j) ==
    s[i].is = "Granted" /\ s[j].is = "Granted" =>
        SourceOf(s, st, i) = SourceOf(s, st, j)

History(s, st) ==
    /\ \A i \in 1..Len(s) : /\ s[i].to \in 1..Len(st)
                            /\ Ordered(s, i) /\ Backed(s, st, i)
    /\ \A i, j \in 1..Len(s) : Agreed(s, st, i, j)

LastTo(s) == IF s = <<>> THEN 0 ELSE s[Len(s)].to

(* What the entity knows while it serves: the next frame is the one behind *)
(* the last answered, and the registered tester is the one that was        *)
(* granted routing on this connection.                                     *)
Present(s, st, n, tester) ==
    /\ n = LastTo(s) + 1
    /\ \A i \in 1..Len(s) : s[i].is = "Granted" =>
                                tester # 0 /\ SourceOf(s, st, i) = tester
    /\ tester # 0 => \E i \in 1..Len(s) : s[i].is = "Granted"

Chronicle ==
    /\ History(replies, stream)
    /\ Running => Present(replies, stream, next, active_tester)

(* One more reply.                                                         *)
LEMMA OneMore ==
    ASSUME NEW s \in Seq(Reply), NEW r \in Reply
    PROVE  LET m == Append(s, r)
           IN  /\ m \in Seq(Reply) /\ Len(m) = Len(s) + 1 /\ Len(s) \in Nat
               /\ m[Len(s) + 1] = r /\ \A i \in 1..Len(s) : m[i] = s[i]
               /\ m # <<>> /\ LastTo(m) = r.to
<1> DEFINE m == Append(s, r)
<1>1. /\ m \in Seq(Reply) /\ Len(m) = Len(s) + 1 /\ Len(s) \in Nat
      /\ m[Len(s) + 1] = r /\ \A i \in 1..Len(s) : m[i] = s[i]
  OBVIOUS
<1> HIDE DEF m
<1>2. m # <<>> /\ LastTo(m) = r.to
  BY <1>1 DEF LastTo
<1> QED BY <1>1, <1>2 DEF m

(* The history goes on if the new reply is in its place.                   *)
LEMMA HistoryGrows ==
    ASSUME NEW s \in Seq(Reply), NEW st \in Seq(Frame), NEW r \in Reply,
           History(s, st), r.to \in 1..Len(st),
           Ordered(Append(s, r), Len(s) + 1), Backed(Append(s, r), st, Len(s) + 1),
           r.is = "Granted" => \A i \in 1..Len(s) : s[i].is = "Granted" =>
                                   SourceOf(s, st, i) = st[r.to].source
    PROVE  History(Append(s, r), st)
<1> DEFINE m == Append(s, r)
<1>1. /\ Len(m) = Len(s) + 1 /\ Len(s) \in Nat
      /\ m[Len(s) + 1] = r /\ \A i \in 1..Len(s) : m[i] = s[i]
  BY OneMore
<1>2. Ordered(m, Len(s) + 1) /\ Backed(m, st, Len(s) + 1)
  OBVIOUS
<1> HIDE DEF m
<1>3. ASSUME NEW i \in 1..Len(s)
      PROVE  m[i].to \in 1..Len(st) /\ Ordered(m, i) /\ Backed(m, st, i)
  <2>1. s[i].to \in 1..Len(st) /\ Ordered(s, i) /\ Backed(s, st, i)
    BY DEF History
  <2>2. Ordered(m, i)
    <3>1. m[i] = s[i] /\ (i # 1 => m[i - 1] = s[i - 1])
      BY <1>1
    <3> QED BY <2>1, <3>1 DEF Ordered
  <2>3. Backed(m, st, i)
    <3>1. \A j \in 1..(i - 1) : m[j] = s[j]
      BY <1>1
    <3>2. m[i] = s[i]
      BY <1>1
    <3> QED BY <2>1, <3>1, <3>2, Zenon DEF Backed, SourceOf
  <2> QED BY <1>1, <2>1, <2>2, <2>3
<1>4. ASSUME NEW i \in 1..Len(m) PROVE i \in 1..Len(s) \/ i = Len(s) + 1
  BY <1>1
<1>5. ASSUME NEW i \in 1..Len(m), NEW j \in 1..Len(m) PROVE Agreed(m, st, i, j)
  <2>1. ASSUME NEW k \in 1..Len(s), m[k].is = "Granted", r.is = "Granted"
        PROVE  SourceOf(m, st, k) = st[r.to].source
    BY <1>1, <2>1 DEF SourceOf
  <2>2. CASE i \in 1..Len(s) /\ j \in 1..Len(s)
    BY <1>1, <2>2, Zenon DEF History, Agreed, SourceOf
  <2>3. CASE i \in 1..Len(s) /\ j = Len(s) + 1
    BY <1>1, <2>1, <2>3 DEF Agreed, SourceOf
  <2>4. CASE i = Len(s) + 1 /\ j \in 1..Len(s)
    BY <1>1, <2>1, <2>4 DEF Agreed, SourceOf
  <2>5. CASE i = Len(s) + 1 /\ j = Len(s) + 1
    BY <2>5 DEF Agreed
  <2> QED BY <1>4, <2>2, <2>3, <2>4, <2>5
<1>6. \A i \in 1..Len(m) : /\ m[i].to \in 1..Len(st)
                           /\ Ordered(m, i) /\ Backed(m, st, i)
  BY <1>1, <1>2, <1>3, <1>4
<1>7. History(m, st)
  BY <1>5, <1>6, Zenon DEF History
<1> QED BY <1>7, Zenon DEF m

(* A frame that is written later changes nothing.                          *)
LEMMA HistoryUnderWrite ==
    ASSUME NEW s \in Seq(Reply), NEW st \in Seq(Frame), NEW frame \in Frame,
           History(s, st)
    PROVE  /\ History(s, Append(st, frame))
           /\ \A i \in 1..Len(s) : SourceOf(s, Append(st, frame), i) = SourceOf(s, st, i)
<1> DEFINE more == Append(st, frame)
<1>1. /\ Len(more) = Len(st) + 1 /\ Len(st) \in Nat /\ Len(s) \in Nat
      /\ \A i \in 1..Len(st) : more[i] = st[i]
  OBVIOUS
<1> HIDE DEF more
<1>2. \A i \in 1..Len(s) : s[i].to \in 1..Len(st)
  BY DEF History
<1>3. \A i \in 1..Len(s) : SourceOf(s, more, i) = SourceOf(s, st, i)
  BY <1>1, <1>2 DEF SourceOf
<1>4. \A i \in 1..Len(s) : s[i].to \in 1..Len(more) /\ Ordered(s, i)
  BY <1>1, <1>2 DEF History
<1>5. ASSUME NEW i \in 1..Len(s) PROVE Backed(s, more, i)
  <2>1. Backed(s, st, i) /\ \A j \in 1..(i - 1) : j \in 1..Len(s)
    BY <1>1 DEF History
  <2> QED BY <1>3, <2>1 DEF Backed
<1>6. \A i, j \in 1..Len(s) : Agreed(s, more, i, j)
  BY <1>3 DEF History, Agreed
<1>7. History(s, more)
  BY <1>4, <1>5, <1>6, Zenon DEF History
<1> QED BY <1>3, <1>7, Zenon DEF more

(* What Replying does to the replies.                                      *)
LEMMA ReplyingGrows ==
    ASSUME TypeOK, NEW kinds \in Seq(ReplyKinds), Replying(kinds)
    PROVE  /\ replies' \in Seq(Reply) /\ Len(replies) \in Nat
           /\ Len(replies') = Len(replies) + Len(kinds)
           /\ \A i \in 1..Len(replies) : replies'[i] = replies[i]
           /\ \A i \in 1..Len(kinds) :
                  replies'[Len(replies) + i] = [is |-> kinds[i], to |-> next]
<1> DEFINE added == [i \in 1..Len(kinds) |-> [is |-> kinds[i], to |-> next]]
<1>1. replies' = replies \o added /\ replies \in Seq(Reply) /\ next \in Nat
  BY DEF Replying, TypeOK
<1>2. /\ replies \o added \in Seq(Reply)
      /\ Len(replies) \in Nat /\ Len(replies \o added) = Len(replies) + Len(kinds)
      /\ \A i \in 1..Len(replies) : (replies \o added)[i] = replies[i]
      /\ \A i \in 1..Len(kinds) :
             (replies \o added)[Len(replies) + i] = [is |-> kinds[i], to |-> next]
  BY <1>1, RepliesGrow
<1> HIDE DEF added
<1> QED BY <1>1, <1>2

(* Replying with one message.                                              *)
LEMMA OneReply ==
    ASSUME TypeOK, NEW kind \in ReplyKinds, Replying(<<kind>>)
    PROVE  /\ [is |-> kind, to |-> next] \in Reply
           /\ replies' = Append(replies, [is |-> kind, to |-> next])
<1> DEFINE r == [is |-> kind, to |-> next]
           m == Append(replies, r)
<1>1. r \in Reply
  BY DEF Reply, TypeOK
<1>2. m \in Seq(Reply) /\ Len(m) = Len(replies) + 1 /\ m[Len(replies) + 1] = r
      /\ \A i \in 1..Len(replies) : m[i] = replies[i]
  BY <1>1 DEF TypeOK
<1>3. /\ replies' \in Seq(Reply) /\ Len(replies') = Len(replies) + 1 /\ Len(replies) \in Nat
      /\ replies'[Len(replies) + 1] = r
      /\ \A i \in 1..Len(replies) : replies'[i] = replies[i]
  <2> DEFINE kinds == <<kind>>
  <2>1. kinds \in Seq(ReplyKinds) /\ Len(kinds) = 1 /\ kinds[1] = kind
    OBVIOUS
  <2>2. Replying(kinds)
    OBVIOUS
  <2> HIDE DEF kinds
  <2>3. /\ replies' \in Seq(Reply) /\ Len(replies') = Len(replies) + 1
        /\ Len(replies) \in Nat /\ \A i \in 1..Len(replies) : replies'[i] = replies[i]
    BY <2>1, <2>2, ReplyingGrows
  <2>4. replies'[Len(replies) + 1] = [is |-> kinds[1], to |-> next]
    <3>1. \A i \in 1..Len(kinds) :
              replies'[Len(replies) + i] = [is |-> kinds[i], to |-> next]
      BY <2>1, <2>2, ReplyingGrows
    <3>2. 1 \in 1..Len(kinds)
      BY <2>1
    <3> QED BY <3>1, <3>2
  <2> QED BY <2>1, <2>3, <2>4
<1> HIDE DEF m
<1>4. \A i \in 1..Len(m) : m[i] = replies'[i]
  BY <1>2, <1>3
<1>5. m = replies'
  BY <1>2, <1>3, <1>4
<1> QED BY <1>1, <1>5 DEF m

(* Replying with two messages.                                             *)
LEMMA TwoReplies ==
    ASSUME TypeOK, NEW kind \in ReplyKinds, NEW second \in ReplyKinds,
           Replying(<<kind, second>>)
    PROVE  /\ [is |-> kind, to |-> next] \in Reply /\ [is |-> second, to |-> next] \in Reply
           /\ replies' = Append(Append(replies, [is |-> kind, to |-> next]),
                                [is |-> second, to |-> next])
<1> DEFINE r == [is |-> kind, to |-> next]
           q == [is |-> second, to |-> next]
           l == Append(replies, r)
           m == Append(l, q)
<1>1. r \in Reply /\ q \in Reply
  BY DEF Reply, TypeOK
<1>2. l \in Seq(Reply) /\ Len(l) = Len(replies) + 1 /\ l[Len(replies) + 1] = r
      /\ Len(replies) \in Nat /\ \A i \in 1..Len(replies) : l[i] = replies[i]
  BY <1>1 DEF TypeOK
<1> HIDE DEF l
<1>3. m \in Seq(Reply) /\ Len(m) = Len(l) + 1 /\ m[Len(l) + 1] = q
      /\ \A i \in 1..Len(l) : m[i] = l[i]
  BY <1>1, <1>2
<1> HIDE DEF m
<1>4. /\ replies' \in Seq(Reply) /\ Len(replies') = Len(replies) + 2
      /\ replies'[Len(replies) + 1] = r /\ replies'[Len(replies) + 2] = q
      /\ \A i \in 1..Len(replies) : replies'[i] = replies[i]
  <2> DEFINE kinds == <<kind, second>>
  <2>1. kinds \in Seq(ReplyKinds) /\ Len(kinds) = 2 /\ kinds[1] = kind /\ kinds[2] = second
    OBVIOUS
  <2>2. Replying(kinds)
    OBVIOUS
  <2> HIDE DEF kinds
  <2>3. /\ replies' \in Seq(Reply) /\ Len(replies') = Len(replies) + 2
        /\ \A i \in 1..Len(replies) : replies'[i] = replies[i]
    BY <2>1, <2>2, ReplyingGrows, Zenon
  <2>4. /\ replies'[Len(replies) + 1] = [is |-> kinds[1], to |-> next]
        /\ replies'[Len(replies) + 2] = [is |-> kinds[2], to |-> next]
    BY <2>1, <2>2, ReplyingGrows
  <2> QED BY <2>1, <2>3, <2>4
<1>5. Len(m) = Len(replies') /\ \A i \in 1..Len(m) : m[i] = replies'[i]
  <2> HIDE DEF r, q
  <2>1. Len(m) = Len(replies') /\ Len(m) = Len(replies) + 2
    BY <1>2, <1>3, <1>4
  <2>2. ASSUME NEW i \in 1..Len(m) PROVE m[i] = replies'[i]
    <3>1. CASE i \in 1..Len(replies)
      BY <1>2, <1>3, <1>4, <3>1
    <3>2. CASE i = Len(replies) + 1
      BY <1>2, <1>3, <1>4, <3>2
    <3>3. CASE i = Len(replies) + 2
      BY <1>2, <1>3, <1>4, <3>3
    <3> QED BY <1>2, <2>1, <3>1, <3>2, <3>3
  <2> QED BY <2>1, <2>2
<1>6. m = replies'
  BY <1>3, <1>4, <1>5
<1> QED BY <1>1, <1>6 DEF m, l

(* A verdict is in order if it is for the frame behind the last answered.  *)
LEMMA VerdictOrdered ==
    ASSUME NEW s \in Seq(Reply), NEW r \in Reply, r.is # "Response",
           r.to = LastTo(s) + 1
    PROVE  Ordered(Append(s, r), Len(s) + 1)
<1> DEFINE m == Append(s, r)
<1>1. /\ Len(s) \in Nat /\ m[Len(s) + 1] = r /\ \A i \in 1..Len(s) : m[i] = s[i]
  BY OneMore
<1>2. Len(s) = 0 <=> s = <<>>
  OBVIOUS
<1> SUFFICES Ordered(m, Len(s) + 1)
    OBVIOUS
<1> HIDE DEF m
<1>3. CASE s = <<>>
  BY <1>1, <1>2, <1>3 DEF Ordered, LastTo
<1>4. CASE s # <<>>
  <2>1. Len(s) \in 1..Len(s) /\ Len(s) + 1 # 1 /\ (Len(s) + 1) - 1 = Len(s)
    BY <1>1, <1>2, <1>4
  <2> QED BY <1>1, <1>4, <2>1 DEF Ordered, LastTo
<1> QED BY <1>3, <1>4

(* Nothing is recorded at the start.                                       *)
LEMMA ChronicleInit == Init => Chronicle
  BY DEF Init, Chronicle, History, Running

(* A step that neither replies nor begins to serve.                        *)
LEMMA ChronicleUntouched ==
    ASSUME Chronicle, UNCHANGED <<replies, stream>>,
           Running' => Running /\ UNCHANGED <<next, active_tester>>
    PROVE  Chronicle'
  BY DEF Chronicle

(* A frame is written.                                                     *)
LEMMA ChronicleUnderWrite ==
    ASSUME Window, Chronicle, NEW kind \in FrameKinds, NEW source \in Addresses \cup {0},
           NEW ok \in BOOLEAN, NEW len \in Nat, TesterWrites(kind, source, ok, len)
    PROVE  Chronicle'
<1> DEFINE frame == [kind |-> kind, source |-> source, ok |-> ok,
                     len |-> len, from |-> Written]
<1>1. frame \in Frame /\ stream \in Seq(Frame) /\ replies \in Seq(Reply)
  BY WrittenTyped DEF Window, Frame, TypeOK
<1>2. stream' = Append(stream, frame)
      /\ UNCHANGED <<serving, active_tester, conn, next, replies>>
  BY DEF TesterWrites
<1> HIDE DEF frame
<1>3. /\ History(replies, stream')
      /\ \A i \in 1..Len(replies) : SourceOf(replies, stream', i) = SourceOf(replies, stream, i)
  BY <1>1, <1>2, HistoryUnderWrite DEF Chronicle
<1>4. ASSUME Running PROVE Present(replies, stream', next, active_tester)
  BY <1>3, <1>4 DEF Chronicle, Present
<1> QED BY <1>2, <1>3, <1>4 DEF Chronicle, Running

(* A chunk that reaches the entity, or a header in the buffer, belongs to  *)
(* a frame that was written.                                               *)
LEMMA RefusedFrame ==
    ASSUME Window, Refusal, replies' # replies
    PROVE  Running /\ next \in 1..Len(stream)
<1>1. CASE \E n \in 1..(RxCap + 1) : TcpRxUninitialised(n) \/ TcpRxOverflow(n)
  <2>1. PICK n \in 1..(RxCap + 1) : Chunk(n) /\ serving
    BY <1>1 DEF TcpRxUninitialised, TcpRxOverflow
  <2>2. conn = "Open" /\ fed < Written
    BY <2>1, WrittenTyped DEF Chunk, Window, TypeOK
  <2> QED BY <2>1, <2>2, FirstWritten DEF Running
<1>2. CASE FrameTooLarge \/ HeaderRejected \/ ActivationDenied \/ DiagnosticFromStranger
  <2>1. at = "Loop" /\ HasHeader
    BY <1>2 DEF FrameTooLarge, HeaderRejected, ActivationDenied, DiagnosticFromStranger,
       Framed, TooLarge, HasFrame, SoundHeader
  <2> QED BY <2>1, HeaderWritten DEF Window, Sessions
<1> QED BY <1>1, <1>2 DEF Refusal

(* A verdict that closes the connection.                                   *)
LEMMA ChronicleRefused ==
    ASSUME Window, Chronicle, Refusal
    PROVE  Chronicle'
<1>1. stream' = stream /\ ~Running'
  BY Refused DEF Window, Closing, Running
<1>2. CASE replies' = replies
  BY <1>1, <1>2, ChronicleUntouched
<1>3. CASE replies' # replies
  <2>1. Running /\ next \in 1..Len(stream)
    BY <1>3, RefusedFrame
  <2>2. PICK kind \in ReplyKinds \ {"Granted", "PositiveAck", "Response"} : Replying(<<kind>>)
    BY <1>3, Refused DEF Window
  <2> DEFINE r == [is |-> kind, to |-> next]
  <2>3. r \in Reply /\ replies' = Append(replies, r)
    BY <2>2, OneReply DEF Window
  <2>4. replies \in Seq(Reply) /\ stream \in Seq(Frame)
    BY DEF Window, TypeOK
  <2>5. Ordered(Append(replies, r), Len(replies) + 1)
    BY <2>1, <2>2, <2>3, <2>4, VerdictOrdered DEF Chronicle, Present
  <2>6. Backed(Append(replies, r), stream, Len(replies) + 1)
    BY <2>2, <2>3, <2>4, OneMore DEF Backed
  <2>7. History(Append(replies, r), stream)
    BY <2>1, <2>2, <2>3, <2>4, <2>5, <2>6, HistoryGrows DEF Chronicle
  <2> QED BY <1>1, <2>3, <2>7 DEF Chronicle
<1> QED BY <1>2, <1>3

(* What the entity knows after one more reply, to a tester that may be the *)
(* one registered with it.                                                 *)
LEMMA PresentGrows ==
    ASSUME NEW s \in Seq(Reply), NEW st, NEW n, NEW tester, NEW r \in Reply, NEW now,
           Present(s, st, n, tester),
           IF r.is = "Granted"
           THEN now # 0 /\ st[r.to].source = now /\ tester \in {0, now}
           ELSE now = tester
    PROVE  Present(Append(s, r), st, r.to + 1, now)
<1> DEFINE m == Append(s, r)
<1>1. /\ Len(m) = Len(s) + 1 /\ Len(s) \in Nat /\ LastTo(m) = r.to
      /\ m[Len(s) + 1] = r /\ \A i \in 1..Len(s) : m[i] = s[i]
  BY OneMore
<1> SUFFICES Present(m, st, r.to + 1, now)
    OBVIOUS
<1> HIDE DEF m
<1>2. ASSUME NEW i \in 1..Len(m), m[i].is = "Granted"
      PROVE  now # 0 /\ SourceOf(m, st, i) = now
  <2>1. CASE i \in 1..Len(s)
    <3>1. tester # 0 /\ SourceOf(s, st, i) = tester
      BY <1>1, <1>2, <2>1 DEF Present
    <3>2. SourceOf(m, st, i) = SourceOf(s, st, i)
      BY <1>1, <2>1 DEF SourceOf
    <3> QED BY <3>1, <3>2
  <2>2. CASE i = Len(s) + 1
    BY <1>1, <1>2, <2>2 DEF SourceOf
  <2> QED BY <1>1, <2>1, <2>2
<1>3. ASSUME now # 0 PROVE \E i \in 1..Len(m) : m[i].is = "Granted"
  <2>1. CASE r.is = "Granted"
    BY <1>1, <2>1
  <2>2. CASE r.is # "Granted"
    BY <1>1, <1>3, <2>2 DEF Present
  <2> QED BY <2>1, <2>2
<1> QED BY <1>1, <1>2, <1>3 DEF Present

(* The history after a verdict to the next frame.                          *)
LEMMA HistoryAnswered ==
    ASSUME NEW s \in Seq(Reply), NEW st \in Seq(Frame), NEW n \in 1..Len(st), NEW tester,
           NEW r \in Reply, r.is # "Response", r.to = n,
           History(s, st), Present(s, st, n, tester),
           r.is = "PositiveAck" => tester # 0 /\ st[n].source = tester,
           r.is = "Granted" => tester \in {0, st[n].source}
    PROVE  History(Append(s, r), st) /\ LastTo(Append(s, r)) = n
<1> DEFINE m == Append(s, r)
<1>1. Ordered(m, Len(s) + 1)
  BY VerdictOrdered DEF Present
<1>2. /\ Len(s) \in Nat /\ m[Len(s) + 1] = r /\ LastTo(m) = n
      /\ \A i \in 1..Len(s) : m[i] = s[i]
  BY OneMore
<1>3. Backed(m, st, Len(s) + 1)
  <2> HIDE DEF m
  <2>1. SUFFICES ASSUME r.is = "PositiveAck"
                 PROVE  \E j \in 1..Len(s) : /\ m[j].is = "Granted"
                                             /\ SourceOf(m, st, j) = st[n].source
    BY <1>2 DEF Backed, SourceOf
  <2>2. PICK j \in 1..Len(s) : s[j].is = "Granted"
    BY <2>1 DEF Present
  <2>3. SourceOf(s, st, j) = tester
    BY <2>2 DEF Present
  <2> QED BY <1>2, <2>1, <2>2, <2>3 DEF SourceOf
<1>4. r.is = "Granted" => \A i \in 1..Len(s) : s[i].is = "Granted" =>
                              SourceOf(s, st, i) = st[r.to].source
  BY DEF Present
<1>5. History(m, st)
  BY <1>1, <1>3, <1>4, HistoryGrows
<1> QED BY <1>2, <1>5

(* A verdict that keeps the connection: to the next frame, in order.       *)
LEMMA ChronicleServed ==
    ASSUME Window, Chronicle, Service
    PROVE  Chronicle'
<1>1. /\ Running /\ next \in 1..Len(stream) /\ next \in Nat
      /\ next' = next + 1 /\ stream' = stream
  BY Served, HeaderWritten DEF Window, Sessions, HasFrame, SoundHeader, Consumed
<1>2. /\ TypeOK /\ replies \in Seq(Reply) /\ stream \in Seq(Frame)
      /\ History(replies, stream) /\ Present(replies, stream, next, active_tester)
  BY <1>1 DEF Window, TypeOK, Chronicle
<1>3. ASSUME NEW kind \in ReplyKinds \ {"Response"}, Replying(<<kind>>),
             kind = "PositiveAck" =>
                 active_tester # 0 /\ stream[next].source = active_tester,
             kind = "Granted" => active_tester \in {0, stream[next].source}
      PROVE  History(replies', stream) /\ LastTo(replies') = next
  <2> DEFINE r == [is |-> kind, to |-> next]
  <2>1. r \in Reply /\ replies' = Append(replies, r)
    BY <1>2, <1>3, OneReply
  <2>2. r.is = kind /\ r.to = next
    OBVIOUS
  <2> HIDE DEF r
  <2> QED BY <1>1, <1>2, <1>3, <2>1, <2>2, HistoryAnswered
<1>4. ASSUME NEW kind \in ReplyKinds \ {"Response", "Granted"}, Replying(<<kind>>),
             active_tester' = active_tester,
             kind = "PositiveAck" =>
                 active_tester # 0 /\ stream[next].source = active_tester
      PROVE  Chronicle'
  <2> DEFINE r == [is |-> kind, to |-> next]
  <2>1. History(replies', stream) /\ LastTo(replies') = next
    BY <1>3, <1>4
  <2>2. r \in Reply /\ replies' = Append(replies, r)
    BY <1>2, <1>4, OneReply, Zenon
  <2>3. Present(Append(replies, r), stream, r.to + 1, active_tester)
    BY <1>2, <2>2, PresentGrows, Zenon
  <2> QED BY <1>1, <1>4, <2>1, <2>2, <2>3 DEF Chronicle
<1>5. CASE DiagnosticToStranger \/ FrameUnserved
  BY <1>4, <1>5 DEF DiagnosticToStranger, FrameUnserved, ReplyKinds
<1>6. CASE ActivationGranted
  <2> DEFINE r == [is |-> "Granted", to |-> next]
  <2>1. /\ Replying(<<"Granted">>) /\ active_tester' = stream[next].source
        /\ active_tester \in {0, stream[next].source} /\ stream[next].source # 0
    BY <1>6, EntityAssumption DEF ActivationGranted, Grantable, First
  <2>2. History(replies', stream) /\ LastTo(replies') = next
    BY <1>3, <2>1 DEF ReplyKinds
  <2>3. r \in Reply /\ replies' = Append(replies, r)
    BY <1>2, <2>1, OneReply DEF ReplyKinds
  <2>4. Present(Append(replies, r), stream, r.to + 1, active_tester')
    BY <1>2, <2>1, <2>3, PresentGrows, Zenon
  <2> QED BY <1>1, <2>2, <2>3, <2>4 DEF Chronicle
<1>7. CASE DiagnosticServed /\ Replying(<<"PositiveAck">>)
  BY <1>4, <1>7 DEF DiagnosticServed, SourceRegistered, First, ReplyKinds
<1>8. CASE DiagnosticServed /\ Replying(<<"PositiveAck", "Response">>)
  <2> DEFINE r == [is |-> "PositiveAck", to |-> next]
             q == [is |-> "Response", to |-> next]
             l == Append(replies, r)
             m == Append(l, q)
  <2>1. active_tester # 0 /\ stream[next].source = active_tester
        /\ active_tester' = active_tester
    BY <1>8 DEF DiagnosticServed, SourceRegistered, First
  <2>2. r \in Reply /\ q \in Reply /\ replies' = m
    BY <1>2, <1>8, TwoReplies, Zenon DEF ReplyKinds
  <2>3. History(l, stream) /\ LastTo(l) = next
    BY <1>1, <1>2, <2>1, <2>2, HistoryAnswered, Zenon
  <2>4. /\ l \in Seq(Reply) /\ Len(l) = Len(replies) + 1 /\ l[Len(l)] = r
        /\ Len(replies) \in Nat
    BY <1>2, <2>2, OneMore
  <2>5. Present(l, stream, next + 1, active_tester)
    BY <1>2, <2>2, PresentGrows, Zenon
  <2> HIDE DEF l
  <2>6. /\ m[Len(l) + 1] = q /\ m[Len(l)] = r /\ LastTo(m) = next
    BY <2>2, <2>4, OneMore
  <2>7. Ordered(m, Len(l) + 1) /\ Backed(m, stream, Len(l) + 1)
    BY <2>4, <2>6 DEF Ordered, Backed
  <2>8. History(m, stream)
    BY <1>1, <1>2, <2>2, <2>3, <2>4, <2>7, HistoryGrows
  <2>9. Present(m, stream, next + 1, active_tester)
    BY <2>2, <2>4, <2>5, PresentGrows, Zenon
  <2> QED BY <1>1, <2>1, <2>2, <2>8, <2>9 DEF Chronicle
<1> QED BY <1>5, <1>6, <1>7, <1>8 DEF Service, DiagnosticServed

(* The replies and the tester registered are kept together by every step.  *)
LEMMA ChronicleStep == Window /\ Chronicle /\ [Next]_vars => Chronicle'
<1> SUFFICES ASSUME Window, Chronicle, [Next]_vars PROVE Chronicle'
    OBVIOUS
<1>1. CASE InitEntity \/ DeinitEntity \/ OnTcpDisconnect
  BY <1>1, ChronicleUntouched DEF InitEntity, DeinitEntity, OnTcpDisconnect, Running
<1>2. CASE Accept
  <2>1. replies' = <<>> /\ next' = 1 /\ active_tester' = 0
    BY <1>2 DEF Accept, Window, Sessions
  <2>2. History(replies', stream')
    BY <2>1 DEF History
  <2>3. Present(replies', stream', next', active_tester')
    BY <2>1 DEF Present, LastTo
  <2> QED BY <2>2, <2>3 DEF Chronicle
<1>3. CASE \E kind \in FrameKinds, source \in Addresses \cup {0}, ok \in BOOLEAN,
              len \in Nat : TesterWrites(kind, source, ok, len)
  BY <1>3, ChronicleUnderWrite
<1>4. CASE (\E n \in Nat : TcpRxStored(n)) \/ FrameIncomplete \/ UNCHANGED vars
  BY <1>4, ChronicleUntouched DEF TcpRxStored, FrameIncomplete, vars, Running
<1>5. CASE Refusal
  BY <1>5, ChronicleRefused
<1>6. CASE Service
  BY <1>6, ChronicleServed
<1> QED BY <1>1, <1>2, <1>3, <1>4, <1>5, <1>6, Sorted

IInv == Window /\ NoFrameWaits /\ Chronicle

(* The whole invariant holds in every state the entity reaches.            *)
LEMMA EntityInvariant == Spec => []IInv
<1>1. Init => IInv
  BY WindowInit, ChronicleInit DEF IInv, NoFrameWaits, Init, Running
<1>2. IInv /\ [Next]_vars => IInv'
  BY WindowStep, NoFrameWaitsStep, ChronicleStep DEF IInv
<1> QED BY <1>1, <1>2, PTL DEF Spec

----------------------------------------------------------------------------
(* The theorems.                                                           *)

(* Every variable keeps its type; the reassembly buffer never holds more   *)
(* than TCP_RX_CAP.                                                        *)
THEOREM EntityTypeCorrect == Spec => []TypeOK
<1>1. IInv => TypeOK
  BY DEF IInv, Window
<1> QED BY <1>1, EntityInvariant, PTL

(* The reassembly buffer is the part of the stream between the last frame  *)
(* answered and the last byte delivered, for any chunks.                   *)
THEOREM ReassemblyIsExact == Spec => []BufferIsWindow
<1>1. IInv => BufferIsWindow
  BY DEF IInv, Window
<1> QED BY <1>1, EntityInvariant, PTL

(* on_tcp_rx returns KeepOpen only when nothing in the buffer can be       *)
(* answered.                                                               *)
THEOREM NothingWaits == Spec => []NoFrameWaits
<1>1. IInv => NoFrameWaits
  BY DEF IInv
<1> QED BY <1>1, EntityInvariant, PTL

(* Every frame gets one verdict, in order, and a response stands directly  *)
(* behind its acknowledgement.                                             *)
THEOREM OneVerdictPerFrame == Spec => []AnsweredInOrder
<1>1. IInv => AnsweredInOrder
  <2> SUFFICES ASSUME IInv PROVE AnsweredInOrder
      OBVIOUS
  <2>1. \A i \in 1..Len(replies) : Ordered(replies, i)
    BY DEF IInv, Chronicle, History
  <2>2. Running => next = LastTo(replies) + 1
    BY DEF IInv, Chronicle, Present
  <2>3. \A i \in 1..Len(replies) :
          LET previous == IF i = 1 THEN 0 ELSE replies[i - 1].to
          IN  IF replies[i].is = "Response"
              THEN i > 1 /\ replies[i - 1] = [is |-> "PositiveAck",
                                              to |-> replies[i].to]
              ELSE replies[i].to = previous + 1
    BY <2>1 DEF Ordered
  <2>4. Running => next = IF replies = <<>> THEN 1 ELSE replies[Len(replies)].to + 1
    BY <2>2 DEF LastTo
  <2> QED BY <2>3, <2>4 DEF AnsweredInOrder
<1> QED BY <1>1, EntityInvariant, PTL

(* Only a tester that was granted routing on the same connection is        *)
(* served.                                                                 *)
THEOREM ActivationComesFirst == Spec => []ServedAfterActivation
<1>1. IInv => ServedAfterActivation
  BY DEF IInv, Chronicle, History, Backed, SourceOf, ServedAfterActivation
<1> QED BY <1>1, EntityInvariant, PTL

(* All grants of a connection are for one source address.                  *)
THEOREM OneTester == Spec => []OneTesterPerConnection
<1>1. IInv => OneTesterPerConnection
  BY DEF IInv, Chronicle, History, Agreed, SourceOf, OneTesterPerConnection
<1> QED BY <1>1, EntityInvariant, PTL

(* The entity status counts no socket that is gone.                        *)
THEOREM StatusIsSound == Spec => []StatusNeverOvercounts
<1>1. IInv => StatusNeverOvercounts
  BY DEF IInv, Window, Sessions, StatusNeverOvercounts, entity_status
<1> QED BY <1>1, EntityInvariant, PTL

----------------------------------------------------------------------------
(* The entity implements the frame-at-a-time session.                      *)

(* Replies and a close are a closing verdict of the session.               *)
LEMMA GivenClose ==
    ASSUME NEW kinds, Replying(kinds), Closing
    PROVE  Session!Given(Session!Close(kinds, active_tester))
  BY DEF Replying, Closing, Session!Given, Session!Close

(* Replies to a consumed frame are a verdict that keeps the session.       *)
LEMMA GivenKeep ==
    ASSUME NEW kinds, Replying(kinds), Consumed
    PROVE  Session!Given(Session!Keep(kinds, active_tester'))
  BY DEF Replying, Consumed, Session!Given, Session!Keep

(* A chunk for an entity that is not initialised gets no reply.            *)
LEMMA NoReply ==
    ASSUME TypeOK, replies' = replies
    PROVE  Replying(<<>>)
<1> DEFINE kinds == <<>>
           added == [i \in 1..Len(kinds) |-> [is |-> kinds[i], to |-> next]]
<1>1. kinds \in Seq(ReplyKinds) /\ Len(kinds) = 0 /\ next \in Nat
      /\ replies \in Seq(Reply)
  BY DEF TypeOK
<1> HIDE DEF kinds
<1>2. /\ replies \o added \in Seq(Reply) /\ Len(replies) \in Nat
      /\ Len(replies \o added) = Len(replies) + Len(kinds)
      /\ \A i \in 1..Len(replies) : (replies \o added)[i] = replies[i]
  BY <1>1, RepliesGrow
<1> HIDE DEF added
<1>3. Len(replies \o added) = Len(replies)
  BY <1>1, <1>2
<1>4. replies \o added = replies
  BY <1>1, <1>2, <1>3
<1> QED BY <1>4 DEF added, kinds, Replying

(* The frame a verdict is for is there to be answered.                     *)
LEMMA FrameIsThere ==
    ASSUME Window, Refusal \/ Service
    PROVE  Session!Unanswered
<1>1. CASE \E n \in 1..(RxCap + 1) : TcpRxUninitialised(n) \/ TcpRxOverflow(n)
  <2>1. PICK n \in 1..(RxCap + 1) : Chunk(n)
    BY <1>1 DEF TcpRxUninitialised, TcpRxOverflow
  <2>2. conn = "Open" /\ fed < Written
    BY <2>1, WrittenTyped, EntityAssumption DEF Chunk, Window, TypeOK
  <2> QED BY <2>2, FirstWritten DEF Session!Unanswered
<1>2. CASE \/ FrameTooLarge \/ HeaderRejected \/ ActivationDenied
           \/ DiagnosticFromStranger \/ Service
  <2>1. at = "Loop" /\ HasHeader
    BY <1>2, Served DEF FrameTooLarge, HeaderRejected, ActivationDenied,
       DiagnosticFromStranger, Framed, TooLarge, HasFrame, SoundHeader
  <2> QED BY <2>1, HeaderWritten DEF Window, Sessions, Running, Session!Unanswered
<1> QED BY <1>1, <1>2 DEF Refusal

(* The verdicts of the loop are those of the session.                      *)
LEMMA LoopVerdict ==
    ASSUME Window, at = "Loop", Session!Unanswered,
           NEW verdict \in Session!Verdicts(First, active_tester), Session!Given(verdict)
    PROVE  Session!Next
  BY DEF Window, Sessions, Running, First, Session!Answer, Session!Next

(* The frames the loop refuses.                                            *)
LEMMA RefusalIsVerdict ==
    ASSUME Window, FrameTooLarge \/ HeaderRejected \/ ActivationDenied \/ DiagnosticFromStranger
    PROVE  Session!Next
<1>1. /\ Session!Unanswered /\ at = "Loop" /\ HasHeader
  BY FrameIsThere DEF Refusal, FrameTooLarge, HeaderRejected, ActivationDenied,
     DiagnosticFromStranger, Framed, TooLarge, HasFrame, SoundHeader
<1>2. First.kind \in FrameKinds /\ First.len \in Nat
  BY <1>1, HeaderWritten DEF Window, Sessions
<1>3. MaxRxPayload \in Nat
  BY EntityAssumption DEF MaxRxPayload
<1>4. CASE FrameTooLarge
  <2> DEFINE verdict == Session!Close(<<"MessageTooLarge">>, active_tester)
  <2>1. verdict \in Session!Verdicts(First, active_tester)
    BY <1>2, <1>3, <1>4 DEF FrameTooLarge, TooLarge, SoundHeader, Session!Verdicts
  <2>2. Session!Given(verdict)
    BY <1>4, GivenClose DEF FrameTooLarge
  <2> QED BY <1>1, <2>1, <2>2, LoopVerdict
<1>5. CASE HeaderRejected
  <2> DEFINE verdict == Session!Close(<<"IncorrectPatternFormat">>, active_tester)
  <2>1. verdict \in Session!Verdicts(First, active_tester)
    BY <1>2, <1>3, <1>5 DEF HeaderRejected, SoundHeader, Session!Verdicts
  <2>2. Session!Given(verdict)
    BY <1>5, GivenClose DEF HeaderRejected
  <2> QED BY <1>1, <2>1, <2>2, LoopVerdict
<1>6. CASE ActivationDenied
  <2> DEFINE verdict == Session!Close(<<"Denied">>, active_tester)
  <2>1. First.kind = "Activation" /\ First.len <= MaxRxPayload /\ ~Grantable
    BY <1>2, <1>3, <1>6 DEF ActivationDenied, Framed, TooLarge, HasFrame
  <2>2. verdict \in Session!Verdicts(First, active_tester)
    BY <1>2, <1>3, <2>1 DEF Grantable, Session!Verdicts
  <2>3. Session!Given(verdict)
    BY <1>6, GivenClose DEF ActivationDenied
  <2> QED BY <1>1, <2>2, <2>3, LoopVerdict
<1>7. CASE DiagnosticFromStranger
  <2> DEFINE verdict == Session!Close(<<"NegativeAck">>, active_tester)
  <2>1. First.kind = "Diagnostic" /\ First.len <= MaxRxPayload /\ ~SourceRegistered
    BY <1>2, <1>3, <1>7 DEF DiagnosticFromStranger, Framed, TooLarge, HasFrame
  <2>2. verdict \in Session!Verdicts(First, active_tester)
    BY <1>2, <1>3, <2>1 DEF SourceRegistered, Session!Verdicts
  <2>3. Session!Given(verdict)
    BY <1>7, GivenClose DEF DiagnosticFromStranger
  <2> QED BY <1>1, <2>2, <2>3, LoopVerdict
<1> QED BY <1>4, <1>5, <1>6, <1>7

(* The frames the loop serves.                                             *)
LEMMA ServiceIsVerdict ==
    ASSUME Window, Service
    PROVE  Session!Next
<1>1. Session!Unanswered /\ at = "Loop" /\ HasFrame /\ Consumed
  BY FrameIsThere, Served
<1>2. First.kind \in FrameKinds /\ First.len \in Nat
  BY <1>1, HeaderWritten DEF Window, Sessions, HasFrame, SoundHeader
<1>3. MaxRxPayload \in Nat
  BY EntityAssumption DEF MaxRxPayload
<1>4. First.kind # "BadHeader" /\ First.len <= MaxRxPayload
  BY <1>1, <1>2, <1>3 DEF Service, ActivationGranted, DiagnosticToStranger,
     DiagnosticServed, FrameUnserved, Framed, TooLarge, HasFrame, SoundHeader
<1>5. CASE ActivationGranted
  <2> DEFINE verdict == Session!Keep(<<"Granted">>, active_tester')
  <2>1. verdict \in Session!Verdicts(First, active_tester)
    BY <1>2, <1>3, <1>4, <1>5 DEF ActivationGranted, Framed, Grantable, Session!Verdicts
  <2>2. Session!Given(verdict)
    BY <1>5, GivenKeep DEF ActivationGranted
  <2> QED BY <1>1, <2>1, <2>2, LoopVerdict
<1>6. CASE DiagnosticToStranger
  <2> DEFINE verdict == Session!Keep(<<"NegativeAck">>, active_tester')
  <2>1. verdict \in Session!Verdicts(First, active_tester)
    BY <1>2, <1>3, <1>4, <1>6 DEF DiagnosticToStranger, Framed, SourceRegistered, Session!Verdicts
  <2>2. Session!Given(verdict)
    BY <1>6, GivenKeep DEF DiagnosticToStranger
  <2> QED BY <1>1, <2>1, <2>2, LoopVerdict
<1>7. CASE DiagnosticServed
  <2>1. PICK kinds \in {<<"PositiveAck">>, <<"PositiveAck", "Response">>} : Replying(kinds)
    BY <1>7 DEF DiagnosticServed
  <2> DEFINE verdict == Session!Keep(kinds, active_tester')
  <2>2. First.kind = "Diagnostic" /\ SourceRegistered /\ First.ok
        /\ active_tester' = active_tester
    BY <1>7 DEF DiagnosticServed, Framed
  <2>3. verdict \in Session!Verdicts(First, active_tester)
    BY <1>2, <1>3, <1>4, <2>1, <2>2 DEF SourceRegistered, Session!Verdicts
  <2>4. Session!Given(verdict)
    BY <1>1, <2>1, GivenKeep
  <2> QED BY <1>1, <2>3, <2>4, LoopVerdict
<1>8. CASE FrameUnserved
  <2> DEFINE verdict == Session!Keep(<<"UnknownPayloadType">>, active_tester')
  <2>1. verdict \in Session!Verdicts(First, active_tester)
    BY <1>2, <1>3, <1>4, <1>8 DEF FrameUnserved, Framed, Session!Verdicts
  <2>2. Session!Given(verdict)
    BY <1>8, GivenKeep DEF FrameUnserved
  <2> QED BY <1>1, <2>1, <2>2, LoopVerdict
<1> QED BY <1>5, <1>6, <1>7, <1>8 DEF Service

(* A chunk that is refused for want of memory or of an entity.             *)
LEMMA ChunkRefused ==
    ASSUME Window, NEW n \in 1..(RxCap + 1), TcpRxUninitialised(n) \/ TcpRxOverflow(n)
    PROVE  Session!Next
<1>1. Session!Unanswered
  BY FrameIsThere DEF Refusal
<1>2. CASE TcpRxUninitialised(n)
  <2>1. ~serving /\ Closing /\ Replying(<<>>)
    BY <1>2, NoReply DEF TcpRxUninitialised, Window
  <2>2. Session!Given(Session!Close(<<>>, active_tester))
    BY <2>1, GivenClose
  <2> QED BY <1>1, <2>1, <2>2 DEF Session!HangUp, Session!Next
<1>3. CASE TcpRxOverflow(n)
  <2>1. serving /\ Closing /\ Replying(<<"OutOfMemory">>)
    BY <1>3 DEF TcpRxOverflow
  <2>2. Session!Given(Session!Close(<<"OutOfMemory">>, active_tester))
    BY <2>1, GivenClose
  <2> QED BY <1>1, <2>1, <2>2 DEF Session!RunOut, Session!Next
<1> QED BY <1>2, <1>3

(* However the tester's stream is cut into chunks, on_tcp_rx registers     *)
(* testers, replies and closes as the frame-at-a-time session does.        *)
THEOREM ImplementsSession == Spec => ChunkingIsInvisible
<1>1. Init => Session!Init
  BY DEF Init, Session!Init
<1>2. IInv /\ [Next]_vars => [Session!Next]_Session!vars
  <2> SUFFICES ASSUME Window, [Next]_vars PROVE [Session!Next]_Session!vars
      BY DEF IInv
  <2>1. CASE InitEntity
    BY <2>1 DEF InitEntity, ResetSession, Session!Start, Session!Next
  <2>2. CASE DeinitEntity
    BY <2>2 DEF DeinitEntity, ResetSession, Session!Stop, Session!Next
  <2>3. CASE Accept
    BY <2>3 DEF Accept, Session!Connect, Session!Next
  <2>4. CASE OnTcpDisconnect
    BY <2>4 DEF OnTcpDisconnect, ResetSession, Session!Disconnect, Session!Next
  <2>5. CASE \E kind \in FrameKinds, source \in Addresses \cup {0}, ok \in BOOLEAN,
                len \in Nat : TesterWrites(kind, source, ok, len)
    <3>1. PICK kind \in FrameKinds, source \in Addresses \cup {0}, ok \in BOOLEAN,
                len \in Nat : TesterWrites(kind, source, ok, len)
      BY <2>5
    <3>2. /\ stream' \in Seq(Frame) /\ Len(stream') = Len(stream) + 1
          /\ Len(stream) \in Nat /\ \A i \in 1..Len(stream) : stream'[i] = stream[i]
      BY <3>1, StreamGrows
    <3>3. SubSeq(stream', 1, Len(stream)) = stream
      <4>1. stream \in Seq(Frame)
        BY DEF Window, TypeOK
      <4> QED BY <3>2, <4>1
    <3> QED BY <3>1, <3>2, <3>3 DEF TesterWrites, Session!Write, Session!Next
  <2>6. CASE (\E n \in Nat : TcpRxStored(n)) \/ FrameIncomplete \/ UNCHANGED vars
    BY <2>6 DEF TcpRxStored, FrameIncomplete, vars, Session!vars
  <2>7. CASE Refusal
    BY <2>7, ChunkRefused, RefusalIsVerdict DEF Refusal
  <2>8. CASE Service
    BY <2>8, ServiceIsVerdict
  <2> QED BY <2>1, <2>2, <2>3, <2>4, <2>5, <2>6, <2>7, <2>8, Sorted
<1> QED BY <1>1, <1>2, EntityInvariant, PTL DEF Spec, Session!Spec, ChunkingIsInvisible
=============================================================================
