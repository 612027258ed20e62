----------------------------- MODULE TaskQueues -----------------------------
(* What the rest of the server expects of the scheduler and the dispatcher:   *)
(* a job handed over is executed once, by one thread; immediate jobs in the   *)
(* order of the list; a delayed job goes to the front of the list when the    *)
(* scheduler releases it. Connection is written against this view.            *)
EXTENDS Sequences

CONSTANT Jobs

VARIABLES
    delayed,   \* jobs the scheduler holds
    list,      \* jobs waiting for the dispatcher
    executed   \* jobs whose callback has been run

queues == <<delayed, list, executed>>

Listed == {list[i] : i \in DOMAIN list}
Fresh(j) == j \notin delayed \cup Listed \cup executed

Init == delayed = {} /\ list = <<>> /\ executed = {}

Delay(j) == Fresh(j) /\ delayed' = delayed \cup {j} /\ UNCHANGED <<list, executed>>

Enqueue(j) ==
    /\ Fresh(j)
    /\ list' \in {list \o <<j>>, <<j>> \o list}
    /\ UNCHANGED <<delayed, executed>>

Release(j) ==
    /\ j \in delayed
    /\ delayed' = delayed \ {j}
    /\ list' = <<j>> \o list
    /\ UNCHANGED executed

Execute ==
    /\ list # <<>>
    /\ list' = Tail(list)
    /\ executed' = executed \cup {Head(list)}
    /\ UNCHANGED delayed

Next == Execute \/ \E j \in Jobs : Delay(j) \/ Enqueue(j) \/ Release(j)

Spec == Init /\ [][Next]_queues
=============================================================================
