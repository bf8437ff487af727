---------------------------- MODULE MCPPRecvRing ----------------------------
(* PPRecvRing for TLC. *)
EXTENDS PPRecvRing

CONSTANTS r1, r2
============================================================================
