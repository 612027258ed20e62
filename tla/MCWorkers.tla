------------------------------ MODULE MCWorkers -----------------------------
(* Workers for TLC: the two threads otlogin starts, and three tasks, one more *)
(* than there are threads.                                                    *)
EXTENDS Workers

=============================================================================
