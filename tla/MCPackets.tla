----------------------------- MODULE MCPackets ------------------------------
(* An instance of Packets in which an answer may just fit and may not fit.    *)
EXTENDS Packets

=============================================================================
