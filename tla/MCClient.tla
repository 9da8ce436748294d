------------------------------ MODULE MCClient ------------------------------
(* The client on small instances.                                          *)
EXTENDS Client
=============================================================================
