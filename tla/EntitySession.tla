--------------------------- MODULE EntitySession ----------------------------
(***************************************************************************)
(* What the bare-metal entity promises a tester, a frame at a time: the    *)
(* frames of a connection get their verdicts in order, and each verdict    *)
(* depends on the frame and on the tester that is registered, not on how   *)
(* the stream was cut into chunks.  There is no reassembly buffer here;    *)
(* all that is left of it is that it may run out.                          *)
(***************************************************************************)
EXTENDS Naturals, Sequences

CONSTANTS Clients,     (* addresses a client may have                      *)
          MaxPayload   (* the largest payload that is served               *)

VARIABLES serving, active_tester, conn, stream, next, replies

vars == <<serving, active_tester, conn, stream, next, replies>>

Init ==
    /\ serving = FALSE /\ active_tester = 0 /\ conn = "None"
    /\ stream = <<>> /\ next = 1 /\ replies = <<>>

Start ==
    /\ conn = "None"
    /\ serving' = TRUE /\ active_tester' = 0
    /\ UNCHANGED <<conn, stream, next, replies>>

Stop ==
    /\ serving' = FALSE /\ active_tester' = 0
    /\ UNCHANGED <<conn, stream, next, replies>>

Connect ==
    /\ conn = "None"
    /\ conn' = "Open"
    /\ stream' = <<>> /\ next' = 1 /\ replies' = <<>>
    /\ UNCHANGED <<serving, active_tester>>

Disconnect ==
    /\ conn # "None"
    /\ conn' = "None" /\ active_tester' = 0
    /\ UNCHANGED <<serving, stream, next, replies>>

Write ==
    /\ conn = "Open"
    /\ Len(stream') = Len(stream) + 1
    /\ SubSeq(stream', 1, Len(stream)) = stream
    /\ UNCHANGED <<serving, active_tester, conn, next, replies>>

(* The verdicts a frame may get: the replies, and the tester registered    *)
(* afterwards if the connection is kept.                                   *)
Keep(kinds, tester) == [replies |-> kinds, keep |-> TRUE, tester |-> tester]
Close(kinds, tester) == [replies |-> kinds, keep |-> FALSE, tester |-> tester]

Verdicts(frame, tester) ==
    CASE frame.kind = "BadHeader" -> {Close(<<"IncorrectPatternFormat">>, tester)}
      [] frame.kind # "BadHeader" /\ frame.len > MaxPayload ->
             {Close(<<"MessageTooLarge">>, tester)}
      [] frame.kind = "Unserved" /\ frame.len <= MaxPayload ->
             {Keep(<<"UnknownPayloadType">>, tester)}
      [] frame.kind = "Activation" /\ frame.len <= MaxPayload ->
             IF frame.source \in Clients /\ frame.ok
                /\ tester \in {0, frame.source}
             THEN {Keep(<<"Granted">>, frame.source)}
             ELSE {Close(<<"Denied">>, tester)}
      [] frame.kind = "Diagnostic" /\ frame.len <= MaxPayload ->
             IF tester = 0 \/ frame.source # tester
             THEN {Close(<<"NegativeAck">>, tester)}
             ELSE IF ~frame.ok THEN {Keep(<<"NegativeAck">>, tester)}
             ELSE {Keep(<<"PositiveAck">>, tester),
                   Keep(<<"PositiveAck", "Response">>, tester)}

Given(verdict) ==
    /\ replies' = replies \o [i \in 1..Len(verdict.replies) |->
                                 [is |-> verdict.replies[i], to |-> next]]
    /\ active_tester' = verdict.tester
    /\ \/ verdict.keep /\ next' = next + 1 /\ UNCHANGED conn
       \/ ~verdict.keep /\ conn' = "Dead" /\ UNCHANGED next
    /\ UNCHANGED <<serving, stream>>

Unanswered == conn = "Open" /\ next <= Len(stream)

Answer ==
    /\ Unanswered /\ serving
    /\ \E verdict \in Verdicts(stream[next], active_tester) : Given(verdict)

(* The buffer does not hold what arrived.                                  *)
RunOut == /\ Unanswered /\ serving
          /\ Given(Close(<<"OutOfMemory">>, active_tester))

(* Bytes for an entity that is not initialised, or not any more.           *)
HangUp == /\ Unanswered /\ ~serving
          /\ Given(Close(<<>>, active_tester))

Next == Start \/ Stop \/ Connect \/ Disconnect \/ Write
        \/ Answer \/ RunOut \/ HangUp

Spec == Init /\ [][Next]_vars

=============================================================================
