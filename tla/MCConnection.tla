---------------------------- MODULE MCConnection ----------------------------
(* Connection for TLC: one connection, with one and two service threads.      *)
EXTENDS Connection

=============================================================================
