-------------------------- MODULE MCBareMetalEntity -------------------------
(* The bare-metal entity for TLC: headers of two units, a reassembly       *)
(* buffer of six, two testers and an address no client may use.            *)
EXTENDS BareMetalEntity

(* Two frames of payload 1 fill the buffer, as does one of payload 4; a    *)
(* payload of 5 is too large.                                              *)
MCLengths == [Activation |-> {1}, Diagnostic |-> {1, 4},
              Unserved |-> {1, 5}, BadHeader |-> {1}]
=============================================================================
