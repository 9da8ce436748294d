---------------------------- MODULE MessageCodec ----------------------------
(***************************************************************************)
(* One direction of a TCP connection: the peer's writer, the bytes, and    *)
(* the FramedRead that MessageCodec drives for the client's socket loop    *)
(* and for the server.  Bytes arrive in chunks of any size.                *)
(*                                                                         *)
(* For every frame written there is what the reader owes it: the verdict   *)
(* "Deliver" with the message, "Skip", the error that it is, or "Cut" when *)
(* the connection went down inside it.                                     *)
(***************************************************************************)
EXTENDS Wire

CONSTANTS Messages,    (* what a peer with this codec may send             *)
          ForeignFrames, (* what other peers may send: bytes and what is   *)
                       (* owed for them                                    *)
          Chunks,      (* how many bytes a read may return, or all         *)
          MaxFrames

(* What one frame, with no byte before or behind it, deserves.  Bytes that *)
(* break the framing in the header are that header: nothing behind it is a *)
(* frame to anyone.                                                        *)
Earns(bytes, owed) ==
    LET frame == try_frame(bytes)
        payload == PayloadDecode(frame.value.payload,
                                 frame.value.header.payload_type)
    IN  \/ /\ frame.is = "VersionInverseIncorrect"
           /\ Len(bytes) = HeaderSize
           /\ owed = [verdict |-> "VersionInverseIncorrect"]
        \/ /\ frame.is = "Ok"
           /\ frame.value.consumed = Len(bytes)
           /\ \/ /\ payload.is = "Ok"
                 /\ owed = [verdict |-> "Deliver",
                            message |-> [header |-> frame.value.header,
                                         payload |-> payload.value]]
              \/ /\ payload.is = "Incomplete"
                 /\ owed = [verdict |-> "Incomplete"]
              \/ /\ payload.is = "UnsupportedPayloadType"
                 /\ owed = [verdict |-> "Skip"]

ASSUME CodecAssumption ==
    /\ MaxFrames \in Nat
    /\ Chunks \subseteq Nat \ {0}
    /\ \A m \in Messages : Faithful(m)
    /\ \A f \in ForeignFrames : f.bytes \in Seq(Byte) /\ Earns(f.bytes, f.owed)

VARIABLES sent,     (* what is owed for the frames written so far          *)
          ends,     (* how many bytes were written up to each one's end    *)
          closed,   (* the writer is gone                                  *)
          wire,     (* the bytes that are written and not yet read         *)
          src,      (* FramedRead's buffer, the codec's src                *)
          reader,   (* "Read", "Decode", "Errored", "Done"                 *)
          eof,      (* a read returned nothing                             *)
          items     (* what the stream yielded                             *)

vars == <<sent, ends, closed, wire, src, reader, eof, items>>

TypeOK ==
    /\ closed \in BOOLEAN
    /\ wire \in Seq(Byte)
    /\ src \in Seq(Byte)
    /\ reader \in {"Read", "Decode", "Errored", "Done"}
    /\ eof \in BOOLEAN
    /\ \A i \in 1..Len(items) :
           items[i].is \in {"Ok", "VersionInverseIncorrect", "Incomplete",
                          "ConnectionReset", "BytesRemaining"}

Init ==
    /\ sent = <<>>
    /\ ends = <<>>
    /\ closed = FALSE
    /\ wire = <<>>
    /\ src = <<>>
    /\ reader = "Read"
    /\ eof = FALSE
    /\ items = <<>>

----------------------------------------------------------------------------
(* The writer.                                                             *)

EndOf(n) == IF n = 0 THEN 0 ELSE ends[n]

Put(owed, bytes) ==
    /\ Len(sent) < MaxFrames
    /\ sent' = Append(sent, owed)
    /\ ends' = Append(ends, EndOf(Len(ends)) + Len(bytes))
    /\ wire' = wire \o bytes

ReaderWaits == UNCHANGED <<src, reader, eof, items>>

(* Encoder::encode: the frame goes out whole, or nothing of it does and    *)
(* the socket loop ends.                                                   *)
Send(message) ==
    LET encoded == MessageEncode(message)
    IN  /\ ~closed
        /\ \/ /\ encoded.is = "Ok"
              /\ Put([verdict |-> "Deliver", message |-> Received(message)],
                     encoded.value)
              /\ UNCHANGED closed
           \/ /\ encoded.is # "Ok"
              /\ closed' = TRUE
              /\ UNCHANGED <<sent, ends, wire>>
        /\ ReaderWaits

SendForeign(frame) ==
    /\ ~closed
    /\ Put(frame.owed, frame.bytes)
    /\ UNCHANGED closed
    /\ ReaderWaits

Close ==
    /\ ~closed
    /\ closed' = TRUE
    /\ UNCHANGED <<sent, ends, wire>>
    /\ ReaderWaits

(* The writer goes down with only a part of a frame written.               *)
CloseInside(frame, n) ==
    /\ ~closed
    /\ n < Len(frame.bytes)
    /\ Put([verdict |-> "Cut"], SubSeq(frame.bytes, 1, n))
    /\ closed' = TRUE
    /\ ReaderWaits

----------------------------------------------------------------------------
(* The reader: FramedRead polled in a loop by the client's socket task.    *)

WriterWaits == UNCHANGED <<sent, ends, closed>>

ReadChunk(n) ==
    /\ reader = "Read"
    /\ n \in 1..Len(wire)
    /\ src' = src \o SubSeq(wire, 1, n)
    /\ wire' = SubSeq(wire, n + 1, Len(wire))
    /\ reader' = "Decode"
    /\ UNCHANGED <<eof, items>>
    /\ WriterWaits

ReadEof ==
    /\ reader = "Read"
    /\ closed
    /\ wire = <<>>
    /\ eof' = TRUE
    /\ reader' = "Decode"
    /\ UNCHANGED <<wire, src, items>>
    /\ WriterWaits

(* An error of the socket ends the socket loop at once.                    *)
ReadFails ==
    /\ reader = "Read"
    /\ items' = Append(items, Err("ConnectionReset"))
    /\ reader' = "Done"
    /\ UNCHANGED <<wire, src, eof>>
    /\ WriterWaits

(* Decoder::decode, one turn of its loop, by what it finds at the front of *)
(* src.  A message leaves the loop with src moved on, and FramedRead calls *)
(* again for the rest of src.                                              *)
split_to(n) == SubSeq(src, n + 1, Len(src))

(* A faulty variant: after a message the socket is read first, though src  *)
(* may hold another frame.                                                 *)
DecodeMessageThenReads(frame, payload) ==
    /\ src' = split_to(frame.consumed)
    /\ items' = Append(items, Ok([header |-> frame.header, payload |-> payload]))
    /\ reader' = "Read"
    /\ UNCHANGED <<wire, eof>>
    /\ WriterWaits

DecodeMessage(frame, payload) ==
    /\ src' = split_to(frame.consumed)
    /\ items' = Append(items, Ok([header |-> frame.header, payload |-> payload]))
    /\ UNCHANGED <<wire, reader, eof>>
    /\ WriterWaits

DecodeSkips(frame) ==
    /\ src' = split_to(frame.consumed)
    /\ UNCHANGED <<wire, reader, eof, items>>
    /\ WriterWaits

DecodeFails(error) ==
    /\ items' = Append(items, Err(error))
    /\ reader' = "Errored"
    /\ UNCHANGED <<wire, src, eof>>
    /\ WriterWaits

DecodeWaits ==
    /\ ~eof
    /\ reader' = "Read"
    /\ UNCHANGED <<wire, src, eof, items>>
    /\ WriterWaits

(* decode_eof: nothing more will come, and bytes that are left over are an *)
(* error of the socket's kind.                                             *)
DecodeEof ==
    /\ eof
    /\ items' = IF src = <<>> THEN items
                ELSE Append(items, Err("BytesRemaining"))
    /\ reader' = "Done"
    /\ UNCHANGED <<wire, src, eof>>
    /\ WriterWaits

DecodeFrame(frame) ==
    \E payload \in {PayloadDecode(frame.payload, frame.header.payload_type)} :
        \/ payload.is = "Ok" /\ DecodeMessage(frame, payload.value)
        \/ is_framing_fatal(payload.is) /\ DecodeFails(payload.is)
        \/ /\ payload.is # "Ok" /\ ~is_framing_fatal(payload.is)
           /\ DecodeSkips(frame)

DecodeTurn ==
    /\ reader = "Decode"
    /\ \E frame \in {try_frame(src)} :
           \/ frame.is = "None" /\ (DecodeWaits \/ DecodeEof)
           \/ frame.is = "Ok" /\ DecodeFrame(frame.value)
           \/ frame.is \notin {"None", "Ok"} /\ DecodeFails(frame.is)

(* The poll after a decoding error ends the stream.                        *)
PollAfterError ==
    /\ reader = "Errored"
    /\ reader' = "Done"
    /\ UNCHANGED <<wire, src, eof, items>>
    /\ WriterWaits

Write ==
    \/ \E message \in Messages : Send(message)
    \/ \E frame \in ForeignFrames :
           \/ SendForeign(frame)
           \/ \E n \in 1..(Len(frame.bytes) - 1) : CloseInside(frame, n)
    \/ Close

Read ==
    \/ \E n \in Chunks \cup {Len(wire)} : ReadChunk(n)
    \/ ReadEof

Decode == DecodeTurn \/ PollAfterError

Next == Write \/ Read \/ ReadFails \/ Decode

Spec == Init /\ [][Next]_vars

(* The socket task is polled whenever it can go on.                        *)
FairSpec == Spec /\ WF_vars(Read) /\ WF_vars(Decode)

----------------------------------------------------------------------------
(* How many bytes have left src, and the frames of which all have.         *)
Position == EndOf(Len(ends)) - Len(wire) - Len(src)
Taken == CHOOSE k \in 0..Len(ends) :
             \A n \in 1..Len(ends) : ends[n] <= Position <=> n <= k

Stream == INSTANCE MessageStream WITH
    taken <- Taken,
    ended <- IF reader \in {"Read", "Decode"} THEN "Open"
             ELSE IF items # <<>> /\ items[Len(items)].is # "Ok" THEN "Failed"
             ELSE "Clean"

(* Bytes cut into reads in every way, frames run together or torn apart:   *)
(* FramedRead with MessageCodec gives its reader what the frame-at-a-time  *)
(* stream would, each constructed message as it was sent, an unsupported   *)
(* frame skipped and no more than that frame, an error only for the frame  *)
(* that earned it.                                                         *)
StreamImplemented == Stream!Spec

(* No frame is stuck in the buffer behind another: whatever was written is *)
(* handed over or skipped, or the stream ends, without waiting for further *)
(* bytes to come.                                                          *)
FramesAreTaken ==
    \A n \in 1..MaxFrames :
        Len(sent) >= n ~> Taken >= n \/ reader = "Done"

=============================================================================
