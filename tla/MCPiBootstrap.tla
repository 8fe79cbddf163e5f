---------------------------- MODULE MCPiBootstrap ----------------------------
(* Small instances of PiBootstrap for TLC. *)
EXTENDS PiBootstrap
=============================================================================
