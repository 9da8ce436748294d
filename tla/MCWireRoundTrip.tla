-------------------------- MODULE MCWireRoundTrip --------------------------
EXTENDS WireRoundTrip

(* The fields of every body, addresses byte by byte, arrays so that they   *)
(* can be cut short.  Types without a body get bytes all the same: their   *)
(* decoders ignore them.                                                   *)
MCLayout ==
    0 :> <<1>> @@ 1 :> <<>> @@ 2 :> <<6>> @@ 3 :> <<17>> @@
    4 :> <<16, 1, 1, 1, 6, 5, 1, 1, 1>> @@ 5 :> <<1, 1, 1, 3, 1, 3, 1>> @@
    6 :> <<1, 1, 1, 1, 1, 3, 1, 3, 1>> @@ 7 :> <<>> @@ 8 :> <<1, 1>> @@
    9 :> <<>> @@ 16384 :> <<>> @@ 16385 :> <<>> @@
    16386 :> <<1, 1, 1, 1, 1, 2>> @@ 16387 :> <<>> @@ 16388 :> <<1>> @@
    32768 :> <<>> @@ 32769 :> <<1, 1, 1, 1, 2>> @@
    32770 :> <<1, 1, 1, 1, 1, 2>> @@ 32771 :> <<1, 1, 1, 1, 1>> @@
    32772 :> <<>> @@ 61439 :> <<>> @@ 61440 :> <<>> @@ 65535 :> <<>>
MCTypes == DOMAIN MCLayout

(* Both sides of every boundary between two ranges of codes.               *)
MCCodes == 0..9 \cup {15, 16, 17, 18, 223, 224, 225, 254, 255}
MCBehind == <<2, 253, 0>>

=============================================================================
