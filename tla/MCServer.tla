------------------------------ MODULE MCServer ------------------------------
(* The TCP server for TLC.                                                 *)
EXTENDS Server
=============================================================================
