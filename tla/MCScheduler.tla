---------------------------- MODULE MCScheduler -----------------------------
(* Scheduler for TLC: two delayed jobs, an immediate one, and a clock long    *)
(* enough for an event to be added after another is due.                      *)
EXTENDS Scheduler

=============================================================================
