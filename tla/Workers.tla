------------------------------ MODULE Workers -------------------------------
(* Database's worker pool: asyncTask hands a task to workerLoop's threads,    *)
(* and stopWorkers, shutdownWorkers and joinWorkers end the pool. The queue   *)
(* is guarded by s_taskMutex; workerLoop tests s_workerState outside of it.   *)
(*                                                                            *)
(* A step is what happens between two operations on the mutex or on s_taskCv. *)
(* The tasks come from the callers of asyncTask, one for each task.           *)
EXTENDS Integers, Sequences, FiniteSets

CONSTANTS
    Workers,   \* threads made by startWorkers
    Tasks      \* tasks, each handed over once

ASSUME WorkersAssumption == Workers # {} /\ IsFiniteSet(Workers)

VARIABLES
    workerState, \* s_workerState
    queue,       \* s_taskQueue
    worker,      \* what each worker is doing
    notifying,   \* tasks whose caller is about to call notify_one
    offered,     \* tasks asyncTask was called with
    executed,    \* tasks that were run
    closer,      \* the thread that ends the pool
    late         \* history: workers between their test and the lock at shutdown

vars == <<workerState, queue, worker, notifying, offered, executed, closer, late>>

-----------------------------------------------------------------------------
NoTask == "none"

\* "test": the loop's condition; "lock": before lock.lock(); "wait": in s_taskCv.wait;
\* "woken": notified and waiting for the mutex; "run": with a task, unlocked.
WorkerType ==
    [pc : {"test", "lock", "wait", "woken", "run", "ended"}, task : Tasks \cup {NoTask}]

TypeOK ==
    /\ workerState \in {"RUNNING", "CLOSING", "TERMINATED"}
    /\ queue \in Seq(Tasks)
    /\ worker \in [Workers -> WorkerType]
    /\ notifying \subseteq offered /\ offered \subseteq Tasks
    /\ executed \subseteq offered
    /\ closer \in {"idle", "drain", "notify", "join", "joined"}
    /\ late \subseteq Workers

Fresh == [pc |-> "test", task |-> NoTask]

\* startWorkers
Init ==
    /\ workerState = "RUNNING"
    /\ queue = <<>> /\ notifying = {} /\ offered = {} /\ executed = {}
    /\ worker = [w \in Workers |-> Fresh]
    /\ closer = "idle" /\ late = {}

\* shutdownWorkers holds the mutex while it empties the queue.
Unlocked == closer # "drain"

-----------------------------------------------------------------------------
(* asyncTask                                                                  *)

AsyncTaskWakesOnce(t) ==
    /\ t \notin offered /\ Unlocked
    /\ offered' = offered \cup {t}
    /\ IF workerState = "RUNNING"
       THEN /\ queue' = Append(queue, t)
            /\ notifying' = IF queue = <<>> THEN notifying \cup {t} ELSE notifying
       ELSE UNCHANGED <<queue, notifying>>
    /\ UNCHANGED <<workerState, worker, executed, closer, late>>
AsyncTask(t) ==
    /\ t \notin offered /\ Unlocked
    /\ offered' = offered \cup {t}
    /\ IF workerState = "RUNNING"
       THEN queue' = Append(queue, t) /\ notifying' = notifying \cup {t}
       ELSE UNCHANGED <<queue, notifying>>
    /\ UNCHANGED <<workerState, worker, executed, closer, late>>

\* s_taskCv.notify_one, after the unlock: it wakes one waiting worker, if there is one.
Waiting == {w \in Workers : worker[w].pc = "wait"}

NotifyNobody == UNCHANGED worker
NotifyOne ==
    IF Waiting = {} THEN UNCHANGED worker
    ELSE \E w \in Waiting : worker' = [worker EXCEPT ![w].pc = "woken"]

NotifyTask(t) ==
    /\ t \in notifying
    /\ notifying' = notifying \ {t}
    /\ NotifyOne
    /\ UNCHANGED <<workerState, queue, offered, executed, closer, late>>

-----------------------------------------------------------------------------
(* workerLoop                                                                 *)

At(w, pc) == worker[w].pc = pc
Goto(w, pc) == worker' = [worker EXCEPT ![w] = [pc |-> pc, task |-> NoTask]]

TestState(w) ==
    /\ At(w, "test")
    /\ Goto(w, IF workerState # "TERMINATED" THEN "lock" ELSE "ended")
    /\ UNCHANGED <<workerState, queue, notifying, offered, executed, closer, late>>

\* With the mutex, after the wait: the first task is taken unless the pool has ended.
TakeKeepsTask(w) ==
    IF queue # <<>> /\ workerState # "TERMINATED"
    THEN /\ worker' = [worker EXCEPT ![w] = [pc |-> "run", task |-> Head(queue)]]
         /\ UNCHANGED queue
    ELSE Goto(w, "test") /\ UNCHANGED queue
Take(w) ==
    IF queue # <<>> /\ workerState # "TERMINATED"
    THEN /\ worker' = [worker EXCEPT ![w] = [pc |-> "run", task |-> Head(queue)]]
         /\ queue' = Tail(queue)
    ELSE Goto(w, "test") /\ UNCHANGED queue

LockQueue(w) ==
    /\ At(w, "lock") /\ Unlocked
    /\ IF queue = <<>> THEN Goto(w, "wait") /\ UNCHANGED queue ELSE Take(w)
    /\ UNCHANGED <<workerState, notifying, offered, executed, closer, late>>

\* s_taskCv may wake a worker without a notification.
SpuriousWakeup(w) ==
    /\ At(w, "wait")
    /\ Goto(w, "woken")
    /\ UNCHANGED <<workerState, queue, notifying, offered, executed, closer, late>>

WaitReturns(w) ==
    /\ At(w, "woken") /\ Unlocked
    /\ Take(w)
    /\ UNCHANGED <<workerState, notifying, offered, executed, closer, late>>

\* The task is run; an exception it throws is dropped.
RunTask(w) ==
    /\ At(w, "run")
    /\ executed' = executed \cup {worker[w].task}
    /\ Goto(w, "test")
    /\ UNCHANGED <<workerState, queue, notifying, offered, closer, late>>

-----------------------------------------------------------------------------
(* The end of the pool.                                                       *)

StopWorkers ==
    /\ closer = "idle" /\ workerState = "RUNNING"
    /\ workerState' = "CLOSING"
    /\ UNCHANGED <<queue, worker, notifying, offered, executed, closer, late>>

ShutdownWorkers ==
    /\ closer = "idle"
    /\ workerState' = "TERMINATED"
    /\ closer' = "drain"
    /\ late' = {w \in Workers : At(w, "lock")}
    /\ UNCHANGED <<queue, worker, notifying, offered, executed>>

\* The tasks still in the queue are run with the mutex held.
DrainTask ==
    /\ closer = "drain" /\ queue # <<>>
    /\ executed' = executed \cup {Head(queue)}
    /\ queue' = Tail(queue)
    /\ UNCHANGED <<workerState, worker, notifying, offered, closer, late>>

UnlockQueue ==
    /\ closer = "drain" /\ queue = <<>>
    /\ closer' = "notify"
    /\ UNCHANGED <<workerState, queue, worker, notifying, offered, executed, late>>

NotifyAllIsOne == NotifyOne
NotifyAll == worker' = [w \in Workers |-> IF At(w, "wait") THEN [worker[w] EXCEPT !.pc = "woken"]
                                          ELSE worker[w]]

NotifyWorkers ==
    /\ closer = "notify"
    /\ NotifyAll
    /\ closer' = "join"
    /\ UNCHANGED <<workerState, queue, notifying, offered, executed, late>>

JoinWorkers ==
    /\ closer = "join"
    /\ \A w \in Workers : At(w, "ended")
    /\ closer' = "joined"
    /\ UNCHANGED <<workerState, queue, worker, notifying, offered, executed, late>>

-----------------------------------------------------------------------------
WorkerLoop(w) == TestState(w) \/ LockQueue(w) \/ WaitReturns(w) \/ RunTask(w)
Closing == DrainTask \/ UnlockQueue \/ NotifyWorkers \/ JoinWorkers

Next ==
    \/ \E t \in Tasks : AsyncTask(t) \/ NotifyTask(t)
    \/ \E w \in Workers : WorkerLoop(w) \/ SpuriousWakeup(w)
    \/ StopWorkers \/ ShutdownWorkers \/ Closing

Spec == Init /\ [][Next]_vars

(* Every thread runs on, and a thread that waits for the mutex gets it in the *)
(* end. A caller may never end the pool, and no spurious wake-up ever come.   *)
Fairness ==
    /\ \A t \in Tasks : WF_vars(NotifyTask(t))
    /\ \A w \in Workers : WF_vars(WorkerLoop(w))
    /\ WF_vars(Closing)

FairSpec == Spec /\ Fairness

-----------------------------------------------------------------------------
(* Properties.                                                                *)

Queues == INSTANCE TaskQueues WITH
    Jobs <- Tasks,
    delayed <- {},
    list <- queue,
    executed <- executed \cup {worker[w].task : w \in {v \in Workers : At(v, "run")}}

\* A task is taken once, by one worker or by shutdownWorkers, and in the order of the
\* queue, whoever takes it.
ImplementsQueues == Queues!Spec

\* A worker sleeps only while it is not needed: for every task in the queue a notify_one
\* is still to come or a worker is awake that was woken by one. notify_one after the
\* unlock, workers that take a task without having slept and spurious wake-ups together
\* never leave a task to a thread that is busy while another one sleeps.
SleepersAreNotNeeded ==
    Waiting # {} =>
        Len(queue) <= Cardinality(notifying) + Cardinality({w \in Workers : At(w, "woken")})

\* When joinWorkers waits, only a worker that was late can be asleep, and the queue is
\* empty: notify_all reached all the others, and none of them goes to sleep again.
SleepersWereLate == closer = "join" => Waiting \subseteq late /\ queue = <<>>

\* Whoever sleeps has a reason: nobody needs him, or, at the end, he was late.
SleepersAreExcused == SleepersAreNotNeeded /\ SleepersWereLate

\* A task asyncTask has queued is run in the end: no notification is lost for it, and
\* shutdownWorkers leaves none behind.
AcceptedIsRun ==
    \A t \in Tasks : (\E i \in DOMAIN queue : queue[i] = t) ~> t \in executed

\* joinWorkers returns, unless a worker was between its test of s_workerState and the
\* lock when shutdownWorkers ended the pool: that one may wait after the notify_all.
JoinReturns ==
    closer = "join" ~> (closer = "joined" \/ \E w \in late : At(w, "wait"))
=============================================================================
