# simple_doip: a TLA+ verification project

TLA+ models of the `simple_doip` crate (DoIP, ISO 13400-2), the TLC runs that
check them on small instances, and TLAPS proofs for every value of their
constants. Paths below are relative to the repository; line numbers are in
`PROJECT.json` under `map`.

## Inventory

| Component | State | Operations | Hard part |
|---|---|---|---|
| Client facade (`src/client.rs`) | the two channel ends, options | `connect`, `reconnect`, `unbind_socket`, `send_diagnostic_message`, `receive_diagnostic_response`, `shut_down` | every call may be cancelled at an await; its own activation timeout races the inner task's |
| Inner task (`src/client_inner.rs`) | `active_request`, `await_response_deadline`, `tcp_data_socket`, `pending_diagnostic_response`, two channels | select loop over deadline, control channel and socket | take-or-restore of the pending request, stale deadlines, blocking sends inside the loop, exits of the loop |
| Socket manager (`src/socket_manager.rs`) | two bounded channels, the socket task | `bind`, `send`, `receive`, `shut_down`, socket loop | a blocked forward stops the write arm; loss of the stream |
| Server, TCP (`src/server.rs`) | `active_connections`, per-connection tester address | accept loop, connection loop, dispatch | one connection at a time; many early returns; no timers |
| Server, UDP (`src/server.rs`) | the receive buffer, reused | `run_udp_responder` | no datagram or error may end the loop |
| Bare-metal entity (`src/bare_metal_entity.rs`) | callbacks, `active_tester`, reassembly buffer | `init`, `deinit`, `on_udp_rx`, `on_tcp_rx`, `on_tcp_disconnect` | any cut of the stream into chunks; capacity edges; session reset |
| Codec and framer (`src/message_codec.rs`, `src/framer.rs`) | the read buffer | `try_frame`, `decode`, `encode` | skip and resynchronise |
| Messages (`src/messages/`) | none | encode and decode of each body | conversions, reserved values |

Interaction: the facade sends control messages, each with a oneshot `Sender`,
over a channel of 16 to the inner task; the inner task exchanges messages with
the socket task over two channels of 16 and passes unsolicited messages up an
update channel of 16. Server and bare-metal entity each serve one tester at a
time and share nothing with the client but the message types.

What makes each part correct:

- client: each request is answered exactly once, in order; none is lost when a
  request displaces it, the socket breaks or the task ends; a waiting request
  has its own deadline and a socket; buffered responses come first; requests
  and `shut_down` end;
- bare-metal entity: the reply sequence does not depend on how the stream was
  cut; only the activated tester of this connection is served;
- messages and codec: encoding what was decoded gives the bytes back; the two
  decoders of a frame agree; one bad frame costs no other one, and a stream that
  is cut off is not taken for one that ended;
- server: the count and the address belong to the connection served; nothing
  ends the accept loop or the responder.

The hazards, each at its line and with the properties aimed at it, are listed
in `PROJECT.json`.

## Modules

| Module | Models |
|---|---|
| `DoipMessages` | message kinds, `is_response`, `is_positive_ack` |
| `SocketManager` | one TCP connection of the client and its task |
| `ClientInner` | the inner task; extends `SocketManager` |
| `Client` | the facade on top of both: the whole client, its fairness and its properties |
| `RequestReply` | abstract: requests answered in order, once, for good |
| `ClientProofs` | proofs about `Client` |
| `BareMetalEntityProofs`, `ServerProofs`, `UdpResponderProofs`, `WireRoundTripProofs`, `MessageCodecProofs` | proofs about the modules they are named after |
| `WirePayloadProofs`, `WireProofs` | facts about `Wire` that the last two rest on: the codes and bodies, then headers, frames, messages and constructors |
| `BareMetalEntity` | the bare-metal entity with its platform and tester |
| `EntitySession` | abstract: the entity taking whole frames, one at a time |
| `Server` | the TCP half of the server with its testers |
| `UdpResponder` | the UDP half |
| `Wire` | every code, header, body and message on bytes; `try_frame`; the constructors |
| `WireRoundTrip` | bodies grown field by field, for the properties of `Wire` |
| `MessageCodec` | `MessageCodec` in the `FramedRead` of the socket loop; extends `Wire` |
| `MessageStream` | abstract: a stream of whole messages |
| `MC*` | the instances for TLC |

Conventions. An action is a handler or the part of it between two awaits that
can suspend it; variables keep the code's names. Next to some actions stands a
*faulty variant*, a bug the code could have had. No specification uses it; put
in the place of the action it breaks the property `PROJECT.json` pairs it with,
which shows that the property says something about that code.

### Client

`active` is `active_request`, an `AwaitResponse` being split by the request it
keeps. `answer[r]` is what the oneshot of request `r` carried; `waiter` is the
request whose `Receiver` is alive. `deadline` holds the request that set it, so
a stale deadline shows. Time is abstracted: a timer that is set may fire at any
moment. Abstractions: after the inner task is gone a call returns an error at
once, which changes nothing (for `unbind_socket` it panics, as `DropClient`);
the socket task of a dropped handle is forgotten; `session_id`, which nothing
reads, is left out; a panic of the task is not modelled, and `PendingHasSocket`
shows the one `unwrap` safe.

### Bare-metal entity

The stream is a sequence of frames with offsets, and the buffer a window of it,
so `rx_len` and the index of its first frame determine its content. `RxCap` and
`HeaderSize` are in arbitrary units. A pass of the loop in `handle_tcp_bytes` is
a step. A datagram changes no state and has no action; the one answer that
depends on the state is the operator `entity_status`. Assumed of the platform,
from the module's contract: after `Close` it feeds no more bytes and reports the
disconnect; it calls `init` with no connection up.

`EntitySession` has no buffer: the entity looks at the next frame of the stream
and gives its verdict, which depends on the frame and on the tester activated
on this connection only. One verdict stays open there, because it does depend
on the cut in the code: at any frame the session may end for want of memory,
which is what a chunk that does not fit the buffer does. In both modules the
bytes behind a closing verdict are dropped. That `BareMetalEntity` implements it says that
every other verdict is independent of the chunks.

### Messages, codec and framer

`Wire` has an operator for each conversion of `src/messages/`, on sequences of
bytes, with the error the code returns. Bodies are records; the owned and the
borrowed form of a message are one value. A length is a number; `U32Max`, the
most that a header can state, is a constant, so that a run can exceed it. TLC
counts to 2^31 - 1 only: the runs meet no header that states more, while the
proofs cover every length. `max_data_size`, which is read and written but never
counted with, is a pair of halves.

`Faithful` describes the messages whose reader gets them back as they were sent:
every field is a value of its type, a code that carries a number carries none
that has a name of its own, a group id is not one of the two patterns that mean
none, the inverse version is that of the version, and the type in the header is
one whose body the payload is. The fields of a Rust message are public and can be
set otherwise; the constructors, given such codes and group ids, make no other
message (theorem `ConstructedIsFaithful`).

In `MessageCodec` the writer appends bytes to `wire` and notes in `sent` what the
reader owes each frame and in `ends` where it ends; the reader moves bytes into
its buffer `src`. How many frames are done with follows from the bytes that are
left (`Taken`), never from what the decoder did. `FramedRead`
is external (`tokio-util`) and modelled from its contract as the socket loop
uses it: it decodes until the decoder asks for more, reads a chunk of any size,
turns to `decode_eof` at the end, and ends after an error. Both
constructor-made messages and foreign frames (unsupported type, bad body, bad
header, a length that is not that of its payload) are sent.

### Server and responder

Testers are TCP connections that write and close as they like. The connection
handler is external: it may grant, deny, fail, or write any number of messages.
The write of a response may fail at any time, through the encoder or the socket,
and a receive error of the UDP socket may or may not take a datagram with it.
The responder's `buf` is not cleared between datagrams; the model keeps what all
of it would decode to, so that reading beyond the datagram shows.

## Runs

Passing:

| Run | Checks | Bounds |
|---|---|---|
| `requests` | `TypeOK`, `NoRequestLost`, `SupersededIsAbandoned`, `PendingIsArmed`, `PendingHasSocket`, `NoWaitBesideBuffer`, `BufferOutlivesSocket`, `LoopEndsOnlyForGivenUpCall`, `AnswersOnceInOrder` | 4 requests, 2 messages of five kinds, socket channels and update channel of 1, control channel of 2, no routing activation |
| `liveness` | `RequestsAnswered`, `ShutDownEnds` | 3 requests, 2 messages, routing activation, every channel of 2, so that none can fill for good |
| `entity` | `TypeOK`, `BufferIsWindow`, `NoFrameWaits`, `AnsweredInOrder`, `ServedAfterActivation`, `OneTesterPerConnection`, `StatusNeverOvercounts`, `ChunkingIsInvisible` | header 2, buffer 6, payloads 1 (two such frames fill the buffer), 4 (one does) and 5 (too large), 3 frames per connection, two clients and an invalid address |
| `server` | `TypeOK`, `ConnectionsCounted`, `AliveNamesLatestGrant`, `TestersServed` | 2 testers, 3 frames in all, 2 addresses, 1 write per diagnostic request |
| `udp` | `OnlyPlainProbesAnswered`, `DatagramsTaken` | 4 datagrams of five kinds |
| `wire` | `ReencodingIsStable`, `EveryByteKept`, `DecodersAgree` | every payload type and an unknown one, codes at the edges of their ranges, bodies of any length up to one byte more than the longest layout |
| `codec` | `TypeOK`, `StreamImplemented`, `FramesAreTaken` | 2 frames, reads of 1, 7 and 8 bytes (inside, just short of and just at a header), lengths up to 40 |

Four requests are a bind, a request in flight, one that displaces it and one
queued behind; with routing activation connecting takes two of them. Capacities
of one and two make every channel full. Three frames on a connection are an
activation, a message it admits and one more, cut into chunks in every way;
connections repeat without bound. Three frames let one connection see two
activations and an alive check while another tester waits to be accepted. Two frames are a
bad one and the one behind it, or a whole one and one cut off. Deadlock is
checked for the entity, the server and the responder; the client may stop, once
it is dropped or its bound of requests is used up; a codec stops after the end
of its stream and a body at its full length.

Refuted statements of the documentation, one run each; `PROJECT.json` quotes
the lines:

| Run | Statement | What the code does |
|---|---|---|
| `cancelled` | a cancelled receive must not brick the client | its late response ends the inner task |
| `nack` | a negative ACK fails the send | 0x8003 is dropped, the send times out |
| `updates` | a receive ends by its timeout | a full update channel blocks the inner task |
| `circular` | `shut_down` shuts down | the two tasks can wait for each other |
| `reconnect` | `reconnect` returns the response in flight when the connection broke | it looks in the update channel, the response is in the inner task's buffer |

Differences met while reading, which no run states: a diagnostic response that
arrives while a send waits for its acknowledgement is dropped, and a second
buffered one overwrites the first; an alive check that arrives while a receive
waits fails it, where `Client` is documented to handle the protocol silently;
the entity refuses frames that fit its buffer when one chunk brings too many of
them, where `on_tcp_rx` is documented to take chunks of any framing; the entity's
`open_tcp_sockets` counts activated testers, not open sockets; the entity closes
the socket after `MessageTooLarge` and `OutOfMemory`, whose documented action is
to discard the message; the server's `ClientConnectionInfo` documents the address
0x0000 after a denied activation, where the code keeps that of an earlier grant
(theorem `GrantOutlivesDenial`; `AliveNamesLatestGrant` allows for both); the
server has no timer for a tester that never
activates; `RequestSuperseded` is documented as what a caller observes, while
`SupersededIsAbandoned` says that only oneshots nobody reads carry it.

## Fairness

Weak fairness for every task that is ready (the runtime polls it), for timers
that are set and for a caller whose await is ready; a connection attempt ends
(`CONNECT_TIMEOUT`) and a write is taken or fails. Accept and receive errors do
not recur for ever: strong fairness on accepting and on taking a datagram. The
codec's reader is polled while the stream has bytes or an end to deliver, and a
turn of its decoder comes to an end: weak fairness on both; nothing is assumed
of the writer.
Nothing is assumed of the entity a client talks to. `server` assumes that
testers close: the server itself never ends a silent connection, and
`run_server_with_listener` documents that a stalled tester "wedges this entity
until it disconnects".

## Proofs

The theorems hold for every value of the constants that satisfies the
assumptions named in the modules.

| Module | Theorem | Property |
|---|---|---|
| `ClientProofs` | `TypeCorrect` | `TypeOK` |
| | `NoSenderDropped` | `NoRequestLost` |
| | `WaitersAreNotSuperseded` | `SupersededIsAbandoned` |
| | `DeadlineIsItsOwn` | `PendingIsArmed` |
| | `WaitsWithSocket` | `PendingHasSocket` |
| | `BufferIsDrainedFirst` | `NoWaitBesideBuffer` |
| | `ImplementsRequestReply` | `AnswersOnceInOrder` (refinement) |
| | `OnlyGivenUpCallsEndLoop` | `LoopEndsOnlyForGivenUpCall` (action) |
| | `BufferIsKept` | `BufferOutlivesSocket` (action) |
| `BareMetalEntityProofs` | `EntityTypeCorrect` | `TypeOK` |
| | `ReassemblyIsExact` | `BufferIsWindow` |
| | `NothingWaits` | `NoFrameWaits` |
| | `OneVerdictPerFrame` | `AnsweredInOrder` |
| | `ActivationComesFirst` | `ServedAfterActivation` |
| | `OneTester` | `OneTesterPerConnection` |
| | `StatusIsSound` | `StatusNeverOvercounts` |
| | `ImplementsSession` | `ChunkingIsInvisible` (refinement) |
| `ServerProofs` | `ServerTypeCorrect` | `TypeOK` |
| | `GuardBalances` | `ConnectionsCounted` |
| | `AliveIsTruthful` | `AliveNamesLatestGrant` |
| | `GrantOutlivesDenial` | `AliveKept`, what the code does after a denial |
| `UdpResponderProofs` | `PlainProbesOnly` | `OnlyPlainProbesAnswered` |
| `WireProofs` | `ConstructedIsFaithful` | what `MessageCodec` assumes of `Messages` |
| `WireRoundTripProofs` | `ReadersAgree` | `DecodersAgree` |
| | `BytesKept` | `EveryByteKept` |
| | `ReencodingStable` | `ReencodingIsStable` |
| `MessageCodecProofs` | `CodecTyped` | `TypeOK` |
| | `StreamIsImplemented` | `StreamImplemented` (refinement) |

**Client**: any number of requests, any channel capacities, any set of messages.
Four inductive invariants. `TypeInv` adds to `TypeOK` that the task runs only
for a bound socket and that a dispatching task has a message. `Ledger` says
which requests are open, and why: those issued and held. Alone it is not
inductive, since telling a request needs that requests are numbered as issued
(`Numbered`) and queued in order; steps are therefore sorted by what they do to
the ledger (leave it, settle the request in flight, take, issue, exit), and each
sort is handled once. `Newest` says that the call under way waits for the request
issued last; what the control arm supersedes is older by the order of the queue.
`InFlight` ties a waiting request to its deadline, its
socket and the buffer. The refinement theorem uses the ledger to show that every
step answers all open requests up to some number, or issues one, or leaves
`answer` alone.

**Bare-metal entity**: any header size below the capacity, any frames and lengths, any
cut of the stream. `Window` says what the buffer holds: the frames lie one behind
the other (`Contiguous`), what was delivered reaches from the next frame to no
further than what was written (`Delivered`), and nothing of a session outlives
its connection (`Sessions`); `BufferIsWindow` needs all three. `Chronicle` is
about the replies: `History` for those already given, whatever became of the
connection, and `Present` while it is served, where the next frame is the one
behind the last answered and the registered tester is the one that was granted.
Without `Present` a new reply could not be placed behind the old ones. Each pass
of the loop is a refusal, a service or finds the frame incomplete (`Sorted`);
each sort is handled once. For the
refinement, a pass that answers a frame is the session's verdict on it, and all
other steps of the loop change nothing the session sees.

**Server**: any testers, messages and addresses. `Located` ties the place in the
code to the connection served, which makes the count inductive over every early
return. `AliveKept` is more than `AliveNamesLatestGrant`: the code hands out the
latest grant after a denial as well, which the documentation disputes and the
property leaves open. `Remembered` extends it from the moments of an alive check
to all states, since a later step depends on the address kept now.

**Responder**: any number of datagrams. `Answering` says that a reply is under
way only for a plain request, the datagram received last and not what else is in
the buffer, and `Earlier` that every reply already sent was for an
earlier datagram.

**Wire**: any payload type of 16 bits, bodies of any length, layout and content,
any bytes behind them; of `U32Max` only that it fits in 32 bits. For each code a
lemma says that a byte comes back from the variant it decodes to, and that such a
variant comes back from its byte (`NackCodeKept` to `PayloadTypeKept`). For each
body there are two: what is encoded decodes to itself (`...Written`), and what
decodes is encoded to the front of the bytes it was read from (`...Read`);
`PayloadWritten` and `PayloadRead` gather them. A body is a row of parts, so these
rest on facts about sequences joined and cut again (`FourPartsWritten` and the
like). On top, a header comes back (`HeaderWritten`), a frame is found at the
front of a buffer whatever is behind it (`FrameIsLocal`) and not before all of it
is there (`FrameIsWhole`), and both readers cut the same payload and remainder
out of the buffer (`SameCut`), so that their verdicts are equal (`Agreement`).
The inductive invariant of `WireRoundTrip` is `Counted`: the body is made of bytes
and its length fits the header, which is why `AddField` stops at `U32Max`.

**Codec**: any set of `Faithful` messages, any foreign frames that by themselves
earn what is owed for them, any sizes of reads, any number of frames
(`CodecAssumption`). `TypeOK` is not inductive, as the errors a stream yields
depend on the bytes it meets, and those on where in the bytes the decoder stands.
The invariant `Measured` therefore lays a ruler along the bytes that are written
and not yet taken, those of `src` followed by those of `wire`: they begin where a
frame begins, and between two marks of `ends` lies a frame that earns what is owed
for it or, last on a closed connection, a piece of one. Reading moves bytes
within the row and leaves the ruler alone (`ReadSteps`), which is all that the cut
into reads can do; writing lengthens it (`RulerWritten`); a turn of the decoder
finds at the front what is owed next (`RulerFront`) and moves on by one mark
(`RulerTaken`), so that it is the step of `MessageStream` for that verdict
(`MessageSteps`, `SkipSteps`, `BadFrameSteps`, `EofSteps`); without a whole frame
in `src` the decoder waits and the stream stutters. `RulerCounted` identifies
`Taken` with the mark at the front.

Only model-checked: liveness (`RequestsAnswered`, `ShutDownEnds`,
`TestersServed`, `DatagramsTaken`, `FramesAreTaken`), for which TLAPS has no rules
here. Every invariant, action property and refinement that a passing run
checks is proved.

## Plan

What would come next: a client and a server composed over one connection, with
the messages of `DoipMessages` in both.

## Not modelled

Formatting of messages and addresses, wording of errors, TCP and DNS behaviour
below a connection attempt, logging, the examples and fuzz targets. Liveness
and `ENABLED` are outside TLAPS here and stay with TLC.
