--------------------------- MODULE MessageStream ---------------------------
(***************************************************************************)
(* What a framed connection promises its reader, a frame at a time: the    *)
(* messages of the good frames, once each and in order; nothing for a      *)
(* frame it cannot decode; one error, and the end, at a frame that breaks  *)
(* the framing.  There are no bytes here, and nothing depends on how they  *)
(* were cut into reads.                                                    *)
(***************************************************************************)
EXTENDS Naturals, Sequences

VARIABLES sent,    (* the frames written, with what each deserves          *)
          taken,   (* how many of them the reader is done with             *)
          items,   (* what the reader was given                            *)
          ended    (* "Open", "Clean" or "Failed"                          *)

vars == <<sent, taken, items, ended>>

Init ==
    /\ sent = <<>>
    /\ taken = 0
    /\ items = <<>>
    /\ ended = "Open"

Write ==
    /\ Len(sent') = Len(sent) + 1
    /\ SubSeq(sent', 1, Len(sent)) = sent
    /\ UNCHANGED <<taken, items, ended>>

Due(verdict) ==
    /\ ended = "Open"
    /\ taken < Len(sent)
    /\ sent[taken + 1].verdict = verdict

Deliver ==
    /\ Due("Deliver")
    /\ items' = Append(items, [is |-> "Ok", value |-> sent[taken + 1].message])
    /\ taken' = taken + 1
    /\ UNCHANGED <<sent, ended>>

Skip ==
    /\ Due("Skip")
    /\ taken' = taken + 1
    /\ UNCHANGED <<sent, items, ended>>

Fail(error) ==
    /\ items' = Append(items, [is |-> error, value |-> [kind |-> "None"]])
    /\ ended' = "Failed"
    /\ UNCHANGED <<sent, taken>>

(* A frame that breaks the framing; the end of the bytes inside a frame.   *)
BadFrame == \E error \in {"VersionInverseIncorrect", "Incomplete"} :
                Due(error) /\ Fail(error)
CutOff == Due("Cut") /\ Fail("BytesRemaining")

(* The connection may break at any time.                                   *)
Reset == ended = "Open" /\ Fail("ConnectionReset")

Finish ==
    /\ ended = "Open"
    /\ taken = Len(sent)
    /\ ended' = "Clean"
    /\ UNCHANGED <<sent, taken, items>>

Next == Write \/ Deliver \/ Skip \/ BadFrame \/ CutOff \/ Reset \/ Finish

Spec == Init /\ [][Next]_vars

=============================================================================
