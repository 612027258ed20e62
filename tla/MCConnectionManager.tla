------------------------ MODULE MCConnectionManager -------------------------
(* Small limits: two connections per window of one tick, a block of four.     *)
EXTENDS ConnectionManager

=============================================================================
