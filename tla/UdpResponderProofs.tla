------------------------- MODULE UdpResponderProofs -------------------------
(***************************************************************************)
(* Proofs about UdpResponder, for any number of datagrams.                 *)
(***************************************************************************)
EXTENDS UdpResponder, TLAPS

(* What ties the replies to the datagrams: a reply in the making is for    *)
(* the datagram taken last, a plain one, and all earlier ones are for      *)
(* earlier datagrams.                                                      *)
Answering == at = "Send" => taken > 0 /\ arrived[taken] = "Plain"
Earlier == \A i \in 1..Len(replies) :
               /\ replies[i] \in 1..taken
               /\ at = "Send" => replies[i] < taken

IInv ==
    /\ TypeOK /\ Len(arrived) <= MaxDatagrams
    /\ Answering /\ Earlier /\ OnlyPlainProbesAnswered

(* The socket starts without datagrams.                                    *)
LEMMA UdpInit == Init => IInv
  BY UdpAssumption DEF Init, IInv, TypeOK, Answering, Earlier,
     OnlyPlainProbesAnswered, Datagrams

(* The invariant is kept: whatever arrives is put behind what arrived, and *)
(* a reply is for a datagram later than any that was replied to.           *)
LEMMA UdpStep == IInv /\ [Next]_vars => IInv'
<1> SUFFICES ASSUME IInv, [Next]_vars PROVE IInv'
    OBVIOUS
<1> USE UdpAssumption DEF IInv, TypeOK
<1>1. CASE \E datagram \in Datagrams : Arrives(datagram)
  <2>1. PICK datagram \in Datagrams : Arrives(datagram)
        BY <1>1
  <2>2. /\ arrived' \in Seq(Datagrams) /\ Len(arrived') = Len(arrived) + 1
        /\ Len(arrived') <= MaxDatagrams
        /\ \A i \in 1..Len(arrived) : arrived'[i] = arrived[i]
        BY <2>1 DEF Arrives
  <2>3. UNCHANGED <<taken, buf, at, replies>>
        BY <2>1 DEF Arrives
  <2>4. TypeOK'
        BY <2>2, <2>3
  <2>5. Answering' /\ Earlier'
        BY <2>2, <2>3 DEF Answering, Earlier
  <2>6. ASSUME NEW i \in 1..Len(replies)
        PROVE  arrived'[replies[i]] = "Plain"
    <3>1. replies[i] \in 1..Len(arrived)
          BY DEF Earlier
    <3>2. arrived[replies[i]] = "Plain"
          BY DEF OnlyPlainProbesAnswered
    <3> QED BY <3>1, <3>2, <2>2
  <2>7. OnlyPlainProbesAnswered'
        BY <2>3, <2>6 DEF OnlyPlainProbesAnswered
  <2> QED BY <2>2, <2>4, <2>5, <2>7
<1>2. CASE ReceiveFails \/ BackoffOver
  BY <1>2 DEF ReceiveFails, BackoffOver, Answering, Earlier,
     OnlyPlainProbesAnswered
<1>3. CASE ReceiveLoses \/ DatagramSkipped \/ DatagramAnswered
  <2>1. /\ at = "Receive" /\ taken' = taken + 1 /\ taken' \in 1..Len(arrived)
        /\ arrived' = arrived /\ replies' = replies
        /\ buf' = IF arrived[taken'] = "Short" THEN buf ELSE arrived[taken']
        BY <1>3 DEF ReceiveLoses, DatagramSkipped, DatagramAnswered, Receives
  <2>2. buf' \in Datagrams \ {"Short"}
        BY <2>1
  <2>3. at' \in {"Receive", "Backoff", "Send"}
        BY <1>3, <2>1 DEF ReceiveLoses, DatagramSkipped, DatagramAnswered
  <2>4. ASSUME at' = "Send" PROVE arrived[taken'] = "Plain"
        BY <1>3, <2>1, <2>4 DEF ReceiveLoses, DatagramSkipped, DatagramAnswered,
           Decoded, Answerable
  <2> QED BY <2>1, <2>2, <2>3, <2>4
          DEF Answering, Earlier, OnlyPlainProbesAnswered
<1>4. CASE ReplySent
  <2>1. /\ at = "Send" /\ at' = "Receive"
        /\ arrived' = arrived /\ taken' = taken /\ buf' = buf
        /\ taken \in 1..Len(arrived) /\ arrived[taken] = "Plain"
        BY <1>4 DEF ReplySent, Answering
  <2>2. /\ replies' \in Seq(1..MaxDatagrams)
        /\ Len(replies') = Len(replies) + 1
        /\ replies'[Len(replies) + 1] = taken
        /\ \A i \in 1..Len(replies) : replies'[i] = replies[i]
        BY <1>4, <2>1 DEF ReplySent
  <2>3. TypeOK' /\ Len(arrived') <= MaxDatagrams /\ Answering'
        BY <2>1, <2>2 DEF Answering
  <2>4. \A i \in 1..Len(replies) : replies[i] \in 1..taken /\ replies[i] < taken
        BY <2>1 DEF Earlier
  <2>5. OnlyPlainProbesAnswered /\ Len(replies) \in Nat /\ taken \in Nat \ {0}
        BY <2>1
  <2> HIDE UdpAssumption DEF IInv, TypeOK
  <2>6. Earlier'
    <3> SUFFICES ASSUME NEW i \in 1..Len(replies') PROVE replies'[i] \in 1..taken
        BY <2>1 DEF Earlier
    <3>1. CASE i \in 1..Len(replies)
          BY <3>1, <2>2, <2>4, Zenon
    <3>2. CASE i = Len(replies) + 1
          BY <3>2, <2>2, <2>5
    <3> QED BY <3>1, <3>2, <2>2, <2>5
  <2>7. ASSUME NEW i \in 1..Len(replies')
        PROVE  arrived'[replies'[i]] = "Plain"
    <3>1. CASE i \in 1..Len(replies)
          BY <3>1, <2>1, <2>2, <2>5, Zenon DEF OnlyPlainProbesAnswered
    <3>2. CASE i = Len(replies) + 1
          BY <3>2, <2>1, <2>2, Zenon
    <3> QED BY <3>1, <3>2, <2>2, <2>5
  <2>8. ASSUME NEW i \in 1..Len(replies'), NEW j \in 1..Len(replies'), i < j
        PROVE  replies'[i] < replies'[j]
    <3>1. i \in 1..Len(replies) /\ replies'[i] = replies[i]
          BY <2>2, <2>8, <2>5
    <3>2. CASE j \in 1..Len(replies)
          BY <3>1, <3>2, <2>2, <2>8, <2>5, Zenon DEF OnlyPlainProbesAnswered
    <3>3. CASE j = Len(replies) + 1
          BY <3>1, <3>3, <2>2, <2>4, Zenon
    <3> QED BY <3>2, <3>3, <2>2, <2>5
  <2>9. OnlyPlainProbesAnswered'
        BY <2>7, <2>8, Zenon DEF OnlyPlainProbesAnswered
  <2> QED BY <2>3, <2>6, <2>9 DEF IInv
<1>5. CASE UNCHANGED vars
  BY <1>5 DEF vars, Answering, Earlier, OnlyPlainProbesAnswered
<1> QED BY <1>1, <1>2, <1>3, <1>4, <1>5 DEF Next, Responds

(* The invariant holds in every state the responder reaches.               *)
LEMMA UdpInvariant == Spec => []IInv
  BY UdpInit, UdpStep, PTL DEF Spec

(* Only plain identification requests are answered, once each and in the   *)
(* order in which they arrived, whatever earlier datagrams left in buf.    *)
THEOREM PlainProbesOnly == Spec => []OnlyPlainProbesAnswered
<1>1. IInv => OnlyPlainProbesAnswered
  BY DEF IInv
<1> QED BY <1>1, UdpInvariant, PTL
=============================================================================
