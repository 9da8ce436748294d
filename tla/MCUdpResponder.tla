--------------------------- MODULE MCUdpResponder ---------------------------
(* The UDP responder for TLC.                                              *)
EXTENDS UdpResponder
=============================================================================
