------------------------------- MODULE MCLogin ------------------------------
(* Two accounts, one of them the account numbered 10, with days of two ticks. *)
EXTENDS Login, TLC

CONSTANTS a1, a2, none

MCAccounts == {a1, a2}
MCBannable == {a1}
\* Premium out of range, never started, running since earlier days or in the future.
MCFirstRows ==
    {[premium |-> -1, lastDay |-> 3], [premium |-> 1, lastDay |-> 3],
     [premium |-> 2, lastDay |-> 0], [premium |-> 2, lastDay |-> 4],
     [premium |-> 2, lastDay |-> 6], [premium |-> 10, lastDay |-> 3]}
MCInitialRows ==
    {a1 :> row @@ a2 :> [premium |-> 1, lastDay |-> 2] : row \in MCFirstRows}
    \cup {a1 :> [premium |-> 1, lastDay |-> 3] @@ a2 :> [premium |-> 3, lastDay |-> 3]}
=============================================================================
