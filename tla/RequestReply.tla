---------------------------- MODULE RequestReply ----------------------------
(***************************************************************************)
(* What the inner task promises its callers: requests are answered in the  *)
(* order they were issued, each once, and an answer never changes.  A step *)
(* may answer several requests, but never one while an older one is open.  *)
(***************************************************************************)
EXTENDS Naturals

CONSTANTS Max,        (* requests are numbered 1..Max as they are issued   *)
          Unissued,   (* the request does not exist yet                    *)
          Open        (* the request is waiting for its answer             *)

VARIABLE answer

Answered(r) == answer[r] \notin {Unissued, Open}

Init == answer = [r \in 1..Max |-> Unissued]

Issue(r) ==
    /\ answer[r] = Unissued
    /\ \A q \in 1..(r - 1) : answer[q] # Unissued
    /\ answer' = [answer EXCEPT ![r] = Open]

(* Every open request up to r gets an answer; nothing else changes.        *)
AnswerUpTo(r) ==
    /\ answer[r] = Open
    /\ answer' = [q \in 1..Max |->
                     IF q <= r /\ answer[q] = Open THEN answer'[q]
                                                   ELSE answer[q]]
    /\ \A q \in 1..r : Answered(q)'

Next == \E r \in 1..Max : Issue(r) \/ AnswerUpTo(r)

Spec == Init /\ [][Next]_answer
=============================================================================
