----------------------------- MODULE Scheduler ------------------------------
(* Scheduler and Dispatcher: two threads, each with a list, a mutex and a     *)
(* condition variable. Callers add delayed jobs to the scheduler (addEvent)   *)
(* and immediate ones to the dispatcher (addTask); the scheduler passes a     *)
(* delayed job to the front of the dispatcher's list.                         *)
(*                                                                            *)
(* A step is what happens between two operations on a mutex or a condition    *)
(* variable. A caller unlocks before it calls notify_one, so the notification *)
(* is a step of its own; one that finds no thread waiting has no effect. No   *)
(* caller of stopEvent, stop or shutdown exists: m_threadState stays RUNNING. *)
EXTENDS Integers, Sequences

CONSTANTS
    Events,           \* delayed jobs, each handed over once
    Tasks,            \* immediate jobs
    Delays,           \* delays in ticks of the clock
    MaxTime,          \* bound of the clock
    MaxEventId,       \* where m_lastEvent wraps (0xFFFFFFFF)
    SpuriousWakeups   \* may a condition variable wake without a notification?

ASSUME SchedulerAssumption ==
    /\ Delays \subseteq Nat \ {0}
    /\ MaxTime \in Nat
    /\ MaxEventId \in Nat \ {0}
    /\ SpuriousWakeups \in BOOLEAN
    /\ Events \cap Tasks = {}

VARIABLES
    now,         \* the system clock
    eventList,   \* m_eventList
    eventIds,    \* m_eventIds
    lastEvent,   \* m_lastEvent
    sched,       \* the scheduler thread
    eventNotify, \* callers of addEvent about to call m_eventSignal.notify_one
    taskList,    \* m_taskList
    disp,        \* the dispatcher thread
    taskNotify,  \* callers of addTask about to call m_taskSignal.notify_one
    executed     \* jobs whose callback has been called

eventVars == <<eventList, eventIds, lastEvent, eventNotify>>
taskVars == <<taskList, taskNotify>>
vars == <<now, eventVars, sched, taskVars, disp, executed>>

-----------------------------------------------------------------------------
Never == -1   \* not_a_date_time

Event == [job : Events, cycle : Nat, id : 1..MaxEventId]
\* expiration is m_expiration.
Task == [job : Events \cup Tasks, expiration : Nat \cup {Never}]
NoEvent == [job |-> "none"]
NoTask == [job |-> "none"]

\* "timeout", "signal" and "waited" are the ways to leave the wait: a timed_wait that
\* timed out, one that was notified, and a wait.
SchedType ==
    [pc : {"top", "wait", "timedWait", "timeout", "signal", "waited", "push", "undefined"},
     until : Nat, task : Event \cup {NoEvent}]
DispType == [pc : {"top", "wait", "woken", "run"}, task : Task \cup {NoTask}]

TypeOK ==
    /\ now \in 0..MaxTime
    /\ eventList \subseteq Event
    /\ eventIds \subseteq 1..MaxEventId
    /\ lastEvent \in 0..MaxEventId
    /\ sched \in SchedType
    /\ eventNotify \subseteq Events
    /\ taskList \in Seq(Task)
    /\ disp \in DispType
    /\ taskNotify \subseteq Events \cup Tasks
    /\ executed \subseteq Events \cup Tasks

\* A fresh server, or one that has handed out its ids up to the wrap before.
Init ==
    /\ now = 0
    /\ eventList = {} /\ eventIds = {} /\ eventNotify = {}
    /\ lastEvent \in {0, MaxEventId - 1}
    /\ sched = [pc |-> "top", until |-> 0, task |-> NoEvent]
    /\ taskList = <<>> /\ taskNotify = {}
    /\ disp = [pc |-> "top", task |-> NoTask]
    /\ executed = {}

\* Jobs that have been handed over already.
Given ==
    {x.job : x \in eventList} \cup {taskList[i].job : i \in DOMAIN taskList}
    \cup executed \cup {sched.task.job, disp.task.job}

Tick ==
    /\ now < MaxTime
    /\ now' = now + 1
    /\ UNCHANGED <<eventVars, sched, taskVars, disp, executed>>

-----------------------------------------------------------------------------
(* Scheduler::addEvent                                                        *)

NextId == IF lastEvent >= MaxEventId THEN 1 ELSE lastEvent + 1

\* Is the new event the top of the priority queue? On a tie the old top stays.
SignalsIfWasEmpty(cycle) == eventList = {}
Signals(cycle) == \A x \in eventList : cycle < x.cycle

\* The ids of waiting events are not handed out again: that takes MaxEventId
\* additions while one event waits (bound: the clock has no such delay).
AddEvent(e) ==
    /\ e \notin Given
    /\ NextId \notin eventIds
    /\ \E delay \in Delays :
         /\ now + delay <= MaxTime
         /\ eventList' = eventList \cup {[job |-> e, cycle |-> now + delay, id |-> NextId]}
         /\ eventNotify' = IF Signals(now + delay) THEN eventNotify \cup {e} ELSE eventNotify
    /\ eventIds' = eventIds \cup {NextId}
    /\ lastEvent' = NextId
    /\ UNCHANGED <<now, sched, taskVars, disp, executed>>

\* m_eventSignal.notify_one
NotifyEvent(e) ==
    /\ e \in eventNotify
    /\ eventNotify' = eventNotify \ {e}
    /\ sched' = [sched EXCEPT !.pc = CASE @ = "wait" -> "waited"
                                       [] @ = "timedWait" -> "signal"
                                       [] OTHER -> @]
    /\ UNCHANGED <<now, eventList, eventIds, lastEvent, taskVars, disp, executed>>

-----------------------------------------------------------------------------
(* Scheduler::schedulerThread                                                 *)

Tops == {x \in eventList : \A y \in eventList : x.cycle <= y.cycle}

\* Lock, look at the list and wait.
WaitTimeEarly(x) == x.cycle - 1
WaitTime(x) == x.cycle

SchedulerWait ==
    /\ sched.pc = "top"
    /\ IF eventList = {}
       THEN sched' = [sched EXCEPT !.pc = "wait"]
       ELSE \E x \in Tops :
              sched' = [sched EXCEPT !.pc = "timedWait", !.until = WaitTime(x)]
    /\ UNCHANGED <<now, eventVars, taskVars, disp, executed>>

SchedulerTimeout ==
    /\ sched.pc = "timedWait" /\ now >= sched.until
    /\ sched' = [sched EXCEPT !.pc = "timeout"]
    /\ UNCHANGED <<now, eventVars, taskVars, disp, executed>>

SchedulerSpurious ==
    /\ SpuriousWakeups
    /\ sched.pc \in {"wait", "timedWait"}
    /\ sched' = [sched EXCEPT !.pc = IF @ = "wait" THEN "waited" ELSE "signal"]
    /\ UNCHANGED <<now, eventVars, taskVars, disp, executed>>

\* timed_wait returned true: nothing to do.
SchedulerAgain ==
    /\ sched.pc = "signal"
    /\ sched' = [sched EXCEPT !.pc = "top"]
    /\ UNCHANGED <<now, eventVars, taskVars, disp, executed>>

\* action is false after a timeout and, its initial value, after wait(). The top of
\* the list is taken; with an empty list top() and pop() are undefined and the model
\* ends there.
SchedulerPop ==
    /\ sched.pc \in {"timeout", "waited"}
    /\ IF eventList = {}
       THEN /\ sched' = [sched EXCEPT !.pc = "undefined"]
            /\ UNCHANGED <<eventList, eventIds>>
       ELSE \E x \in Tops :
              /\ eventList' = eventList \ {x}
              /\ eventIds' = eventIds \ {x.id}
              /\ sched' = IF x.id \in eventIds
                          THEN [sched EXCEPT !.pc = "push", !.task = x]
                          ELSE [sched EXCEPT !.pc = "top"]
    /\ UNCHANGED <<now, lastEvent, eventNotify, taskVars, disp, executed>>

\* Dispatcher::addTask signals when the list was empty.
TaskSignalsNever(list) == list # <<>> /\ list = <<>>
TaskSignals(list) == list = <<>>
TaskNotification(job) == IF TaskSignals(taskList) THEN taskNotify \cup {job} ELSE taskNotify

\* unsetExpiration
ExpirationKept(x) == x.cycle
Expiration(x) == Never

SchedulerPush ==
    /\ sched.pc = "push"
    /\ taskList' = <<[job |-> sched.task.job, expiration |-> Expiration(sched.task)]>> \o taskList
    /\ taskNotify' = TaskNotification(sched.task.job)
    /\ sched' = [sched EXCEPT !.pc = "top", !.task = NoEvent]
    /\ UNCHANGED <<now, eventVars, disp, executed>>

-----------------------------------------------------------------------------
(* Dispatcher::addTask by other threads, and Dispatcher::tasksThread          *)

\* createTask without an expiration is the only form in use.
AddTask(j) ==
    /\ j \notin Given
    /\ LET task == [job |-> j, expiration |-> Never]
       IN  taskList' \in {taskList \o <<task>>, <<task>> \o taskList}
    /\ taskNotify' = TaskNotification(j)
    /\ UNCHANGED <<now, eventVars, sched, disp, executed>>

NotifyTask(j) ==
    /\ j \in taskNotify
    /\ taskNotify' = taskNotify \ {j}
    /\ disp' = [disp EXCEPT !.pc = IF @ = "wait" THEN "woken" ELSE @]
    /\ UNCHANGED <<now, eventVars, sched, taskList, executed>>

\* Lock and wait when the list is empty; else take the first task.
Take ==
    IF taskList = <<>>
    THEN /\ disp' = [disp EXCEPT !.pc = IF @ = "top" THEN "wait" ELSE "top"]
         /\ UNCHANGED taskList
    ELSE /\ disp' = [pc |-> "run", task |-> Head(taskList)]
         /\ taskList' = Tail(taskList)

DispatcherTake ==
    /\ disp.pc \in {"top", "woken"}
    /\ Take
    /\ UNCHANGED <<now, eventVars, sched, taskNotify, executed>>

DispatcherSpurious ==
    /\ SpuriousWakeups
    /\ disp.pc = "wait"
    /\ disp' = [disp EXCEPT !.pc = "woken"]
    /\ UNCHANGED <<now, eventVars, sched, taskVars, executed>>

HasExpired(task) == task.expiration # Never /\ task.expiration < now

\* The callback is called unless the task has expired; the task is deleted.
DispatcherRun ==
    /\ disp.pc = "run"
    /\ disp' = [pc |-> "top", task |-> NoTask]
    /\ executed' = IF HasExpired(disp.task) THEN executed
                   ELSE executed \cup {disp.task.job}
    /\ UNCHANGED <<now, eventVars, sched, taskVars>>

-----------------------------------------------------------------------------
SchedulerThread ==
    \/ SchedulerWait \/ SchedulerTimeout \/ SchedulerAgain \/ SchedulerPop \/ SchedulerPush

DispatcherThread == DispatcherTake \/ DispatcherRun

Next ==
    \/ Tick
    \/ \E e \in Events : AddEvent(e) \/ NotifyEvent(e)
    \/ \E j \in Events \cup Tasks : NotifyTask(j)
    \/ \E j \in Tasks : AddTask(j)
    \/ SchedulerThread \/ SchedulerSpurious
    \/ DispatcherThread \/ DispatcherSpurious

Spec == Init /\ [][Next]_vars

(* Time passes and the threads, the callers about to notify included, run on. *)
(* Spurious wake-ups do not pre-empt the end of a timed_wait for ever.        *)
Fairness ==
    /\ WF_vars(Tick)
    /\ WF_vars(SchedulerThread) /\ SF_vars(SchedulerTimeout)
    /\ WF_vars(DispatcherThread)
    /\ \A e \in Events : WF_vars(NotifyEvent(e))
    /\ \A j \in Events \cup Tasks : WF_vars(NotifyTask(j))

FairSpec == Spec /\ Fairness

-----------------------------------------------------------------------------
(* Properties.                                                                *)

\* No wake-up is lost. When the scheduler thread sleeps past the time of a waiting
\* event, a caller of addEvent is about to notify it; when the dispatcher sleeps with
\* tasks in its list, the caller that found the list empty is about to.
NoWakeupLost ==
    /\ sched.pc = "wait" /\ eventList # {} => eventNotify # {}
    /\ sched.pc = "timedWait" =>
         eventNotify # {} \/ \A x \in eventList : sched.until <= x.cycle
    /\ disp.pc = "wait" /\ taskList # <<>> => taskNotify # {}

\* After a timeout there is an event to execute, and every event then at the top is
\* due, whatever was added between the timeout and the return of timed_wait.
TimeoutFindsDueEvent ==
    sched.pc = "timeout" => Tops # {} /\ \A x \in Tops : x.cycle <= now

Queues == INSTANCE TaskQueues WITH
    Jobs <- Events \cup Tasks,
    delayed <- {x.job : x \in eventList}
               \cup (IF sched.pc = "push" THEN {sched.task.job} ELSE {}),
    list <- [i \in DOMAIN taskList |-> taskList[i].job],
    executed <- executed \cup (IF disp.pc = "run" THEN {disp.task.job} ELSE {})

\* The two threads implement the queues Connection relies on: nothing handed over is
\* dropped as expired, run twice or overtaken, but for a delayed job or one added in
\* front.
ImplementsQueues == Queues!Spec

\* A delayed job is executed in the end, unless the scheduler has left the defined
\* behaviour of its queue.
EventRuns ==
    \A e \in Events :
        (\E x \in eventList : x.job = e) ~> (e \in executed \/ sched.pc = "undefined")

\* schedulerThread says "ok we had a timeout, so there has to be an event we have to
\* execute...", and otlogin "MOTD reload scheduled (every 60s from Discord)": whenever
\* it is about to take an event there is one, and its time has come.
TakesDueEvent ==
    sched.pc \in {"timeout", "waited"} => Tops # {} /\ \A x \in Tops : x.cycle <= now
=============================================================================
