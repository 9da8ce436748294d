--------------------------- MODULE BareMetalEntity --------------------------
(***************************************************************************)
(* The sans-io DoIP entity for targets with one diagnostic TCP socket: the *)
(* platform feeds it the TCP stream in chunks of any size, and datagrams,  *)
(* and acts on the verdicts it returns.                                    *)
(*                                                                         *)
(* The stream is the sequence of frames the tester wrote on the current    *)
(* connection, each with the offset it starts at; the reassembly buffer is *)
(* a window of that stream, so its content is known from how much it holds *)
(* and from the frame it starts with.  A pass of the loop in               *)
(* handle_tcp_bytes is a step; all methods are called from one context, so *)
(* while the loop runs no other operation of the entity does.              *)
(*                                                                         *)
(* The platform is the environment.  It follows the contract of the        *)
(* module: after Close it feeds no more bytes and reports the disconnect,  *)
(* and it initialises the entity while no connection is up.                *)
(***************************************************************************)
EXTENDS Naturals, Sequences

CONSTANTS HeaderSize,  (* Header::SIZE; 8                                  *)
          RxCap,       (* TCP_RX_CAP; 2048                                 *)
          Addresses,   (* logical addresses, none of them 0                *)
          Clients,     (* those valid for a client                         *)
          Lengths,     (* payload lengths the headers of a kind declare    *)
          MaxFrames    (* bound: frames written on a connection            *)

FrameKinds == {"Activation", "Diagnostic", "Unserved", "BadHeader"}

ASSUME EntityAssumption ==
    /\ HeaderSize \in Nat \ {0} /\ RxCap \in Nat /\ HeaderSize < RxCap
    /\ Addresses \subseteq Nat \ {0} /\ Clients \subseteq Addresses
    /\ Lengths \in [FrameKinds -> SUBSET Nat] /\ MaxFrames \in Nat

MaxRxPayload == RxCap - HeaderSize

VARIABLES
    serving,        (* callbacks.is_some()                                 *)
    active_tester,  (* 0 for None                                          *)
    rx_len,         (* bytes in the reassembly buffer                      *)
    at,             (* "Idle", or in the loop of handle_tcp_bytes          *)
    conn,           (* "None", "Open", or "Dead" after a Close verdict     *)
    stream,         (* the frames written on the connection                *)
    fed,            (* bytes of the stream the platform has delivered      *)
    next,           (* the frame the reassembly buffer starts with         *)
    replies         (* what was sent on the connection: kind and the frame *)
                    (* it answers                                          *)

vars == <<serving, active_tester, rx_len, at, conn, stream, fed, next,
          replies>>

(* What the entity can tell of a frame: whether its header is sound, how   *)
(* its payload decodes, the source address (0 where none is read), and     *)
(* whether the activation type is served or the target address is the      *)
(* entity's own.  A payload that decodes to an address is not empty.       *)
Frame == [kind: FrameKinds, source: Addresses \cup {0}, ok: BOOLEAN,
          len: Nat, from: Nat]
Writable(kind, source, ok, len) ==
    IF kind \in {"Activation", "Diagnostic"} THEN source # 0 /\ len > 0
                                             ELSE source = 0 /\ ok
Size(frame) == HeaderSize + frame.len

ReplyKinds == {"Granted", "Denied", "PositiveAck", "NegativeAck", "Response",
               "UnknownPayloadType", "MessageTooLarge", "OutOfMemory",
               "IncorrectPatternFormat"}
Reply == [is: ReplyKinds, to: Nat]

First == stream[next]
Written == IF stream = <<>> THEN 0
           ELSE LET last == stream[Len(stream)] IN last.from + Size(last)

TypeOK ==
    /\ serving \in BOOLEAN
    /\ active_tester \in Clients \cup {0}
    /\ rx_len \in 0..RxCap
    /\ at \in {"Idle", "Loop"}
    /\ conn \in {"None", "Open", "Dead"}
    /\ stream \in Seq(Frame) /\ Len(stream) <= MaxFrames
    /\ fed \in Nat /\ next \in Nat \ {0}
    /\ replies \in Seq(Reply)

Init ==
    /\ serving = FALSE /\ active_tester = 0 /\ rx_len = 0 /\ at = "Idle"
    /\ conn = "None" /\ stream = <<>> /\ fed = 0 /\ next = 1
    /\ replies = <<>>

----------------------------------------------------------------------------
(* The life of the entity and of the connection.                           *)

(* on_tcp_disconnect *)
ResetSession == active_tester' = 0 /\ rx_len' = 0

(* init; the identity it adopts is announced verbatim and tells nothing    *)
(* apart.                                                                  *)
InitEntity ==
    /\ at = "Idle" /\ conn = "None"
    /\ serving' = TRUE
    /\ ResetSession
    /\ UNCHANGED <<at, conn, stream, fed, next, replies>>

(* A connection that is up cannot go on: its buffer is gone, and the next  *)
(* chunk gets a Close.                                                     *)
DeinitEntity ==
    /\ at = "Idle"
    /\ serving' = FALSE
    /\ ResetSession
    /\ UNCHANGED <<at, conn, stream, fed, next, replies>>

(* The platform accepts a connection; the entity is not told.              *)
Accept ==
    /\ conn = "None"
    /\ conn' = "Open"
    /\ stream' = <<>> /\ fed' = 0 /\ next' = 1 /\ replies' = <<>>
    /\ UNCHANGED <<serving, active_tester, rx_len, at>>

(* A faulty variant: the tester stays registered.                          *)
OnTcpDisconnectKeeps ==
    /\ at = "Idle" /\ conn # "None"
    /\ rx_len' = 0
    /\ conn' = "None"
    /\ UNCHANGED <<serving, active_tester, at, stream, fed, next, replies>>

OnTcpDisconnect ==
    /\ at = "Idle" /\ conn # "None"
    /\ ResetSession
    /\ conn' = "None"
    /\ UNCHANGED <<serving, at, stream, fed, next, replies>>

(* The tester writes a frame; it need not wait for replies.                *)
TesterWrites(kind, source, ok, len) ==
    /\ conn = "Open"
    /\ Len(stream) < MaxFrames
    /\ Writable(kind, source, ok, len)
    /\ stream' = Append(stream, [kind |-> kind, source |-> source, ok |-> ok,
                                 len |-> len, from |-> Written])
    /\ UNCHANGED <<serving, active_tester, rx_len, at, conn, fed, next,
                   replies>>

----------------------------------------------------------------------------
(* on_udp_rx changes no state; only the entity status response depends on  *)
(* it.                                                                     *)

(* open_tcp_sockets *)
entity_status == IF active_tester # 0 THEN 1 ELSE 0

----------------------------------------------------------------------------
(* on_tcp_rx with a chunk of n bytes.                                      *)

Replying(kinds) ==
    replies' = replies \o [i \in 1..Len(kinds) |->
                              [is |-> kinds[i], to |-> next]]

(* The loop returns Close; the buffer keeps what it holds.                 *)
Closing ==
    /\ conn' = "Dead" /\ at' = "Idle"
    /\ UNCHANGED <<serving, active_tester, rx_len, stream, fed, next>>

Chunk(n) ==
    /\ at = "Idle" /\ conn = "Open"
    /\ n > 0 /\ fed + n <= Written

TcpRxUninitialised(n) ==
    /\ Chunk(n) /\ ~serving
    /\ UNCHANGED replies
    /\ Closing

TcpRxOverflow(n) ==
    /\ Chunk(n) /\ serving
    /\ rx_len + n > RxCap
    /\ Replying(<<"OutOfMemory">>)
    /\ Closing

(* A faulty variant: off by one at the capacity.                           *)
TcpRxStoredUnchecked(n) ==
    /\ Chunk(n) /\ serving
    /\ rx_len + n <= RxCap + 1
    /\ rx_len' = rx_len + n /\ fed' = fed + n
    /\ at' = "Loop"
    /\ UNCHANGED <<serving, active_tester, conn, stream, next, replies>>

TcpRxStored(n) ==
    /\ Chunk(n) /\ serving
    /\ rx_len + n <= RxCap
    /\ rx_len' = rx_len + n /\ fed' = fed + n
    /\ at' = "Loop"
    /\ UNCHANGED <<serving, active_tester, conn, stream, next, replies>>

----------------------------------------------------------------------------
(* The loop of handle_tcp_bytes.                                           *)

HasHeader == rx_len >= HeaderSize
SoundHeader == HasHeader /\ First.kind # "BadHeader"

(* try_frame of the buffer *)
HasFrame == SoundHeader /\ rx_len - HeaderSize >= First.len

TooLarge == SoundHeader /\ First.len > MaxRxPayload

FrameTooLarge ==
    /\ at = "Loop"
    /\ TooLarge
    /\ Replying(<<"MessageTooLarge">>)
    /\ Closing

(* A faulty variant: a header that is not all there yet is a bad one.      *)
HeaderRejectedEarly ==
    /\ at = "Loop"
    /\ ~SoundHeader
    /\ Replying(<<"IncorrectPatternFormat">>)
    /\ Closing

HeaderRejected ==
    /\ at = "Loop"
    /\ HasHeader /\ ~SoundHeader
    /\ Replying(<<"IncorrectPatternFormat">>)
    /\ Closing

(* Ok(None): the chunk is dealt with.                                      *)
FrameIncomplete ==
    /\ at = "Loop"
    /\ ~TooLarge
    /\ ~HasHeader \/ (SoundHeader /\ ~HasFrame)
    /\ at' = "Idle"
    /\ UNCHANGED <<serving, active_tester, rx_len, conn, stream, fed, next,
                   replies>>

(* Faulty variants: the header stays in the buffer, and the loop is left   *)
(* after one frame.                                                        *)
ConsumedPayloadOnly ==
    /\ rx_len' = rx_len - First.len
    /\ next' = next + 1
    /\ UNCHANGED <<serving, at, conn, stream, fed>>

ConsumedAndLeft ==
    /\ rx_len' = rx_len - Size(First)
    /\ next' = next + 1
    /\ at' = "Idle"
    /\ UNCHANGED <<serving, conn, stream, fed>>

(* A KeepOpen verdict for the first frame of the buffer: it is removed and *)
(* the loop goes on.                                                       *)
Consumed ==
    /\ rx_len' = rx_len - Size(First)
    /\ next' = next + 1
    /\ UNCHANGED <<serving, at, conn, stream, fed>>

Framed(kind) ==
    /\ at = "Loop"
    /\ ~TooLarge /\ HasFrame
    /\ First.kind = kind

(* handle_routing_activation *)
(* A faulty variant: the last activation wins.                             *)
GrantableToAnyone == First.source \in Clients /\ First.ok

Grantable == /\ First.source \in Clients /\ First.ok
             /\ active_tester \in {0, First.source}

ActivationGranted ==
    /\ Framed("Activation")
    /\ Grantable
    /\ active_tester' = First.source
    /\ Replying(<<"Granted">>)
    /\ Consumed

ActivationDenied ==
    /\ Framed("Activation")
    /\ ~Grantable
    /\ Replying(<<"Denied">>)
    /\ Closing

(* handle_diagnostic_message *)

(* A faulty variant: only another tester's activation is in the way.       *)
SourceRegisteredOrNone == active_tester \in {0, First.source}

SourceRegistered == active_tester # 0 /\ First.source = active_tester

DiagnosticFromStranger ==
    /\ Framed("Diagnostic")
    /\ ~SourceRegistered
    /\ Replying(<<"NegativeAck">>)
    /\ Closing

DiagnosticToStranger ==
    /\ Framed("Diagnostic")
    /\ SourceRegistered /\ ~First.ok
    /\ Replying(<<"NegativeAck">>)
    /\ Consumed
    /\ UNCHANGED active_tester

(* A faulty variant: the response is sent before the acknowledgement.      *)
DiagnosticAnsweredFirst ==
    /\ Framed("Diagnostic")
    /\ SourceRegistered /\ First.ok
    /\ Replying(<<"Response", "PositiveAck">>)
    /\ Consumed
    /\ UNCHANGED active_tester

(* on_uds_request decides whether there is a response.                     *)
DiagnosticServed ==
    /\ Framed("Diagnostic")
    /\ SourceRegistered /\ First.ok
    /\ \/ Replying(<<"PositiveAck">>)
       \/ Replying(<<"PositiveAck", "Response">>)
    /\ Consumed
    /\ UNCHANGED active_tester

FrameUnserved ==
    /\ Framed("Unserved")
    /\ Replying(<<"UnknownPayloadType">>)
    /\ Consumed
    /\ UNCHANGED active_tester

TcpLoop ==
    \/ FrameTooLarge \/ HeaderRejected \/ FrameIncomplete
    \/ ActivationGranted \/ ActivationDenied
    \/ DiagnosticFromStranger \/ DiagnosticToStranger \/ DiagnosticServed
    \/ FrameUnserved

Next ==
    \/ InitEntity \/ DeinitEntity \/ Accept \/ OnTcpDisconnect
    \/ \E kind \in FrameKinds, source \in Addresses \cup {0}, ok \in BOOLEAN :
           \E len \in Lengths[kind] : TesterWrites(kind, source, ok, len)
    \/ \E n \in 1..(RxCap + 1) : \/ TcpRxUninitialised(n)
                                 \/ TcpRxOverflow(n)
                                 \/ TcpRxStored(n)
    \/ TcpLoop

Spec == Init /\ [][Next]_vars

----------------------------------------------------------------------------
(* Properties.                                                             *)

Running == conn = "Open" /\ serving

StartOf(i) == IF i <= Len(stream) THEN stream[i].from ELSE Written

(* However the stream is cut into chunks, the reassembly buffer holds the  *)
(* bytes from the start of the next unanswered frame to the last one       *)
(* delivered: the copy_within after a frame (handle_tcp_bytes) loses none  *)
(* and keeps none.                                                         *)
BufferIsWindow ==
    Running => /\ next <= Len(stream) + 1
               /\ fed = StartOf(next) + rx_len

(* When on_tcp_rx returns KeepOpen nothing that could be answered is left  *)
(* in the buffer: no complete frame waits for a chunk that may never come. *)
NoFrameWaits ==
    Running /\ at = "Idle" /\ HasHeader => SoundHeader /\ ~TooLarge /\ ~HasFrame

(* Every frame gets exactly one verdict message, in the order the tester   *)
(* wrote the frames, and a diagnostic response comes directly after the    *)
(* positive acknowledgement of its own request                             *)
(* (handle_diagnostic_message).                                            *)
AnsweredInOrder ==
    /\ \A i \in 1..Len(replies) :
          LET previous == IF i = 1 THEN 0 ELSE replies[i - 1].to
          IN  IF replies[i].is = "Response"
              THEN i > 1 /\ replies[i - 1] = [is |-> "PositiveAck",
                                              to |-> replies[i].to]
              ELSE replies[i].to = previous + 1
    /\ Running => next = IF replies = <<>> THEN 1
                         ELSE replies[Len(replies)].to + 1

(* A diagnostic message is acknowledged, and so dispatched, only if its    *)
(* source was granted routing earlier on the same connection: nothing of a *)
(* previous connection's activation survives on_tcp_disconnect.            *)
ServedAfterActivation ==
    \A i \in 1..Len(replies) : replies[i].is = "PositiveAck" =>
        \E j \in 1..(i - 1) :
            /\ replies[j].is = "Granted"
            /\ stream[replies[j].to].source = stream[replies[i].to].source

(* One tester at a time: all activations a connection is granted are for   *)
(* one source address (handle_routing_activation).                         *)
OneTesterPerConnection ==
    \A i, j \in 1..Len(replies) :
        replies[i].is = "Granted" /\ replies[j].is = "Granted" =>
            stream[replies[i].to].source = stream[replies[j].to].source

(* An entity status response never counts a socket that is gone, whenever  *)
(* the request comes: the activation entity_status goes by does not        *)
(* outlive the connection, through deinit and init as well.                *)
StatusNeverOvercounts == entity_status <= IF conn = "None" THEN 0 ELSE 1

(* How the stream was cut into chunks shows nowhere: on_tcp_rx registers   *)
(* testers, replies and closes as the frame-at-a-time session does, frames *)
(* answered before all their bytes are there included.  Only a chunk that  *)
(* the buffer cannot hold makes a difference, the refusal for want of      *)
(* memory.                                                                 *)
Session == INSTANCE EntitySession WITH MaxPayload <- MaxRxPayload
ChunkingIsInvisible == Session!Spec
=============================================================================
