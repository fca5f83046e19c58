---------------------------- MODULE MCLogServer ----------------------------
(* The instance of LogServer for TLC. *)
EXTENDS LogServer
CONSTANTS c1, c2
=============================================================================
