---------------------------- MODULE MCPiRosBridge ----------------------------
(* Small instances of PiRosBridge for TLC. *)
EXTENDS PiRosBridge
=============================================================================
