--------------------------- MODULE SchedulerProofs --------------------------
(* Proofs about Scheduler for any sets of jobs and delays: no wake-up of the  *)
(* two threads is lost, a timeout finds a due event, and the two threads      *)
(* implement TaskQueues.                                                      *)
EXTENDS Scheduler, WellFoundedInduction, TLAPS

-----------------------------------------------------------------------------
(* The inductive invariant.                                                   *)

\* A waiting event has its id in m_eventIds, and no two share an id or a job: popping
\* one never makes schedulerThread take another for a stopped event.
EventsAreKnown ==
    /\ \A x \in eventList : x.id \in eventIds
    /\ \A x, y \in eventList : x.id = y.id \/ x.job = y.job => x = y

\* The event in the scheduler's hand was taken out of the list.
HandIsApart ==
    sched.pc = "push" =>
        sched.task \in Event /\ sched.task.job \notin {x.job : x \in eventList}

\* Nothing that reaches the dispatcher carries an expiration.
NothingExpires ==
    /\ \A i \in DOMAIN taskList : taskList[i].expiration = Never
    /\ disp.pc = "run" => disp.task \in Task /\ disp.task.expiration = Never

\* The event a timed_wait was set for, or an earlier one, is still in the list; once
\* it has timed out that event is due.
DeadlineHasEvent ==
    /\ sched.pc \in {"timedWait", "timeout"} => \E x \in eventList : x.cycle <= sched.until
    /\ sched.pc = "timeout" => sched.until <= now

IInv ==
    /\ TypeOK
    /\ NoWakeupLost
    /\ EventsAreKnown
    /\ HandIsApart
    /\ NothingExpires
    /\ DeadlineHasEvent

-----------------------------------------------------------------------------
(* Lemmas about the queues.                                                   *)

\* A set of times has an earliest one.
LEMMA Earliest ==
    ASSUME NEW T, T \subseteq Nat, T # {}
    PROVE  \E m \in T : \A n \in T : m <= n
<1> DEFINE less == {p \in Nat \X Nat : p[1] < p[2]}
<1>1. IsWellFoundedOn(less, Nat)
  BY NatLessThanWellFounded, Zenon DEF OpToRel
<1> HIDE DEF less
<1>2. PICK m \in T : \A n \in T : ~ (<<n, m>> \in less)
  BY <1>1, WFMin, Zenon
<1>3. ASSUME NEW n \in T PROVE m <= n
  <2>1. m \in Nat /\ n \in Nat
    OBVIOUS
  <2>2. n < m => <<n, m>> \in less
    BY <2>1 DEF less
  <2> QED
    BY <1>2, <2>1, <2>2
<1> QED
  BY <1>3

\* A list of events that is not empty has a top.
LEMMA TopsExist ==
    ASSUME eventList \subseteq Event, eventList # {}
    PROVE  Tops # {}
<1> DEFINE T == {x.cycle : x \in eventList}
<1>1. T \subseteq Nat /\ T # {}
  BY DEF Event
<1>2. PICK m \in T : \A n \in T : m <= n
  BY <1>1, Earliest
<1>3. PICK x \in eventList : x.cycle = m
  BY <1>2
<1> QED
  BY <1>2, <1>3 DEF Tops

\* The jobs of a list of tasks, as the abstract list sees it.
JobsOf(s) == [i \in DOMAIN s |-> s[i].job]

LEMMA JobsOfList ==
    ASSUME NEW s \in Seq(Task), NEW t \in Task
    PROVE  /\ JobsOf(s) \in Seq(Events \cup Tasks)
           /\ JobsOf(<<t>> \o s) = <<t.job>> \o JobsOf(s)
           /\ JobsOf(s \o <<t>>) = JobsOf(s) \o <<t.job>>
           /\ s # <<>> => /\ JobsOf(s) # <<>>
                          /\ JobsOf(Tail(s)) = Tail(JobsOf(s))
                          /\ Head(s).job = Head(JobsOf(s))
<1>1. JobsOf(s) \in Seq(Events \cup Tasks) /\ Len(JobsOf(s)) = Len(s)
  <2>1. DOMAIN s = 1..Len(s) /\ Len(s) \in Nat
    OBVIOUS
  <2>2. \A i \in 1..Len(s) : s[i] \in Task
    OBVIOUS
  <2>3. \A x \in Task : x.job \in Events \cup Tasks
    BY Zenon DEF Task
  <2>4. JobsOf(s) = [i \in 1..Len(s) |-> s[i].job]
    BY <2>1 DEF JobsOf
  <2> QED
    BY <2>1, <2>2, <2>3, <2>4
<1>2. JobsOf(<<t>> \o s) = <<t.job>> \o JobsOf(s)
  BY <1>1 DEF JobsOf, Task
<1>3. JobsOf(s \o <<t>>) = JobsOf(s) \o <<t.job>>
  BY <1>1 DEF JobsOf, Task
<1>4. ASSUME s # <<>>
      PROVE  /\ JobsOf(s) # <<>>
             /\ JobsOf(Tail(s)) = Tail(JobsOf(s))
             /\ Head(s).job = Head(JobsOf(s))
  BY <1>1, <1>4 DEF JobsOf, Task
<1> QED
  BY <1>1, <1>2, <1>3, <1>4

-----------------------------------------------------------------------------
(* Each step keeps the invariant.                                             *)

LEMMA InitHolds == Init => IInv
<1> SUFFICES ASSUME Init PROVE IInv
  OBVIOUS
<1>1. lastEvent \in 0..MaxEventId
  BY SchedulerAssumption DEF Init
<1>2. TypeOK
  BY <1>1, SchedulerAssumption DEF Init, TypeOK, SchedType, DispType
<1> QED
  BY <1>2 DEF IInv, Init, NoWakeupLost, EventsAreKnown, HandIsApart, NothingExpires,
              DeadlineHasEvent

LEMMA TickKeeps == ASSUME IInv, Tick PROVE IInv'
<1>1. TypeOK'
  BY SchedulerAssumption DEF IInv, TypeOK, Tick, eventVars, taskVars
<1>2. DeadlineHasEvent'
  BY DEF IInv, TypeOK, SchedType, Tick, eventVars, taskVars, DeadlineHasEvent
<1> QED
  BY <1>1, <1>2 DEF IInv, Tick, eventVars, taskVars, NoWakeupLost, EventsAreKnown,
                    HandIsApart, NothingExpires

\* addEvent signals when the new event becomes the top of the list.
LEMMA AddEventKeeps == ASSUME IInv, NEW e \in Events, AddEvent(e) PROVE IInv'
<1> DEFINE new(d) == [job |-> e, cycle |-> now + d, id |-> NextId]
<1>1. PICK d \in Delays :
        /\ now + d <= MaxTime
        /\ eventList' = eventList \cup {new(d)}
        /\ eventNotify' = IF Signals(now + d) THEN eventNotify \cup {e} ELSE eventNotify
  BY DEF AddEvent
<1>2. d \in Nat /\ now \in Nat /\ now + d \in Nat
  BY SchedulerAssumption DEF IInv, TypeOK
<1>3. NextId \in 1..MaxEventId
  BY SchedulerAssumption DEF IInv, TypeOK, NextId
<1>4. new(d) \in Event
  BY <1>2, <1>3 DEF Event
<1>5. /\ e \notin Given /\ NextId \notin eventIds
      /\ eventIds' = eventIds \cup {NextId} /\ lastEvent' = NextId
      /\ UNCHANGED <<now, sched, taskList, taskNotify, disp, executed>>
  BY DEF AddEvent, taskVars
<1>6. /\ new(d).job = e /\ new(d).cycle = now + d /\ new(d).id = NextId
      /\ new(d) \in eventList' /\ eventList \subseteq eventList'
  BY <1>1
<1> HIDE DEF new
<1>7. TypeOK'
  <2>1. eventList' \subseteq Event /\ eventIds' \subseteq 1..MaxEventId
    BY <1>1, <1>3, <1>4, <1>5 DEF IInv, TypeOK
  <2>2. lastEvent' \in 0..MaxEventId
    BY <1>3, <1>5, SchedulerAssumption
  <2>3. eventNotify' \subseteq Events
    BY <1>1 DEF IInv, TypeOK
  <2> QED
    BY <1>5, <2>1, <2>2, <2>3, Zenon DEF IInv, TypeOK
<1>8. NoWakeupLost'
  <2>1. eventList = {} => eventNotify' # {}
    BY <1>1 DEF Signals
  <2>2. eventNotify # {} => eventNotify' # {}
    BY <1>1
  <2>3. sched.pc = "wait" /\ eventList' # {} => eventNotify' # {}
    BY <2>1, <2>2 DEF IInv, NoWakeupLost
  <2>4. ASSUME sched.pc = "timedWait", eventNotify' = {}, NEW x \in eventList'
        PROVE  sched.until <= x.cycle
    <3>1. eventNotify = {} /\ ~ Signals(now + d)
      BY <1>1, <2>2, <2>4
    <3>2. \A y \in eventList : sched.until <= y.cycle
      BY <2>4, <3>1 DEF IInv, NoWakeupLost
    <3>3. PICK y \in eventList : ~ (now + d < y.cycle)
      BY <3>1 DEF Signals
    <3>4. y.cycle \in Nat /\ sched.until \in Nat
      BY DEF IInv, TypeOK, Event, SchedType
    <3>5. sched.until <= now + d
      BY <1>2, <3>2, <3>3, <3>4
    <3> QED
      BY <1>1, <1>6, <3>2, <3>5
  <2> QED
    BY <1>5, <2>3, <2>4, Zenon DEF IInv, NoWakeupLost
<1>9. EventsAreKnown'
  <2>1. \A x \in eventList : x.id # NextId /\ x.job # e
    BY <1>5 DEF IInv, EventsAreKnown, Given
  <2> QED
    BY <1>1, <1>5, <1>6, <2>1 DEF IInv, EventsAreKnown
<1>10. HandIsApart'
  <2>1. e # sched.task.job
    BY <1>5 DEF Given
  <2> QED
    BY <1>1, <1>5, <1>6, <2>1 DEF IInv, HandIsApart
<1>11. NothingExpires' /\ DeadlineHasEvent'
  BY <1>5, <1>6 DEF IInv, NothingExpires, DeadlineHasEvent
<1> QED
  BY <1>7, <1>8, <1>9, <1>10, <1>11 DEF IInv

\* A notification wakes the scheduler if it waits, so nothing is left to be lost.
LEMMA NotifyEventKeeps == ASSUME IInv, NEW e \in Events, NotifyEvent(e) PROVE IInv'
<1>1. /\ eventNotify' = eventNotify \ {e}
      /\ sched.pc = "wait" => sched' = [sched EXCEPT !.pc = "waited"]
      /\ sched.pc = "timedWait" => sched' = [sched EXCEPT !.pc = "signal"]
      /\ sched.pc \notin {"wait", "timedWait"} => sched' = [sched EXCEPT !.pc = sched.pc]
      /\ UNCHANGED <<now, eventList, eventIds, lastEvent, taskList, taskNotify, disp, executed>>
  BY DEF NotifyEvent, taskVars
<1>2. sched \in SchedType /\ sched' \in SchedType
  BY <1>1 DEF IInv, TypeOK, SchedType
<1>3. /\ sched'.task = sched.task /\ sched'.until = sched.until
      /\ sched'.pc \notin {"wait", "timedWait"}
      /\ sched'.pc \in {"timeout", "push"} => sched'.pc = sched.pc
  BY <1>1, <1>2 DEF SchedType
<1>4. TypeOK'
  BY <1>1, <1>2 DEF IInv, TypeOK
<1> QED
  BY <1>1, <1>3, <1>4 DEF IInv, NoWakeupLost, EventsAreKnown, HandIsApart, NothingExpires,
                          DeadlineHasEvent

\* Every step of the scheduler thread that only moves its program counter keeps the
\* invariant when what is required at the new place holds there.
LEMMA SchedMoveKeeps ==
    ASSUME IInv, sched' \in SchedType, sched'.task = sched.task,
           sched'.pc \notin {"push"},
           sched'.pc = "wait" => eventList = {},
           sched'.pc = "timedWait" => \A x \in eventList : sched'.until <= x.cycle,
           sched'.pc \in {"timedWait", "timeout"} =>
               \E x \in eventList : x.cycle <= sched'.until,
           sched'.pc = "timeout" => sched'.until <= now,
           UNCHANGED <<now, eventVars, taskVars, disp, executed>>
    PROVE  IInv'
<1>1. UNCHANGED <<now, eventList, eventIds, lastEvent, eventNotify, taskList, taskNotify,
                  disp, executed>>
  BY DEF eventVars, taskVars
<1>2. TypeOK'
  BY <1>1 DEF IInv, TypeOK
<1>3. NoWakeupLost'
  BY <1>1 DEF IInv, NoWakeupLost
<1>4. EventsAreKnown' /\ HandIsApart' /\ NothingExpires'
  BY <1>1 DEF IInv, EventsAreKnown, HandIsApart, NothingExpires
<1>5. DeadlineHasEvent'
  BY <1>1 DEF DeadlineHasEvent
<1> QED
  BY <1>2, <1>3, <1>4, <1>5 DEF IInv

LEMMA SchedulerWaitKeeps == ASSUME IInv, SchedulerWait PROVE IInv'
<1> USE DEF SchedulerWait
<1>0. sched \in SchedType
  BY DEF IInv, TypeOK
<1>1. CASE eventList = {}
  <2>1. sched' = [sched EXCEPT !.pc = "wait"]
    BY <1>1
  <2>2. sched' \in SchedType /\ sched'.task = sched.task /\ sched'.pc = "wait"
    BY <1>0, <2>1 DEF SchedType
  <2> QED
    BY <1>1, <2>2, SchedMoveKeeps
<1>2. CASE eventList # {}
  <2>1. PICK x \in Tops : sched' = [sched EXCEPT !.pc = "timedWait", !.until = x.cycle]
    BY <1>2 DEF WaitTime
  <2>2. x \in eventList /\ x.cycle \in Nat /\ \A y \in eventList : x.cycle <= y.cycle
    BY DEF Tops, IInv, TypeOK, Event
  <2>3. /\ sched' \in SchedType /\ sched'.task = sched.task
        /\ sched'.pc = "timedWait" /\ sched'.until = x.cycle
    BY <1>0, <2>1, <2>2 DEF SchedType
  <2>4. sched'.until <= sched'.until
    BY <2>2, <2>3
  <2> QED
    BY <2>2, <2>3, <2>4, SchedMoveKeeps
<1> QED
  BY <1>1, <1>2

\* The three other moves of the scheduler thread.
LEMMA SchedulerMovesKeep ==
    ASSUME IInv, SchedulerTimeout \/ SchedulerSpurious \/ SchedulerAgain
    PROVE  IInv'
<1>0. sched \in SchedType /\ now \in Nat
  BY SchedulerAssumption DEF IInv, TypeOK
<1>1. CASE SchedulerTimeout
  <2>1. /\ sched.pc = "timedWait" /\ now >= sched.until
        /\ sched' \in SchedType /\ sched'.task = sched.task
        /\ sched'.pc = "timeout" /\ sched'.until = sched.until
    BY <1>0, <1>1 DEF SchedulerTimeout, SchedType
  <2>2. sched'.until <= now /\ \E x \in eventList : x.cycle <= sched'.until
    BY <1>0, <2>1 DEF SchedType, IInv, DeadlineHasEvent
  <2>3. UNCHANGED <<now, eventVars, taskVars, disp, executed>>
    BY <1>1 DEF SchedulerTimeout
  <2> QED
    BY <2>1, <2>2, <2>3, SchedMoveKeeps
<1>2. CASE SchedulerSpurious \/ SchedulerAgain
  <2>1. /\ sched' \in SchedType /\ sched'.task = sched.task
        /\ sched'.pc \in {"waited", "signal", "top"}
    BY <1>0, <1>2 DEF SchedulerSpurious, SchedulerAgain, SchedType
  <2>2. UNCHANGED <<now, eventVars, taskVars, disp, executed>>
    BY <1>2 DEF SchedulerSpurious, SchedulerAgain
  <2> QED
    BY <2>1, <2>2, SchedMoveKeeps
<1> QED
  BY <1>1, <1>2

\* What is popped is an event of the list, and it was not stopped.
LEMMA PopTakes ==
    ASSUME IInv, SchedulerPop, eventList # {}
    PROVE  \E x \in Tops :
             /\ x \in eventList /\ x \in Event
             /\ eventList' = eventList \ {x}
             /\ eventIds' = eventIds \ {x.id}
             /\ sched' = [sched EXCEPT !.pc = "push", !.task = x]
<1>1. PICK x \in Tops :
        /\ eventList' = eventList \ {x}
        /\ eventIds' = eventIds \ {x.id}
        /\ sched' = IF x.id \in eventIds THEN [sched EXCEPT !.pc = "push", !.task = x]
                    ELSE [sched EXCEPT !.pc = "top"]
  BY DEF SchedulerPop
<1>2. x \in eventList /\ x \in Event /\ x.id \in eventIds
  BY DEF Tops, IInv, TypeOK, EventsAreKnown
<1> QED
  BY <1>1, <1>2

LEMMA SchedulerPopKeeps == ASSUME IInv, SchedulerPop PROVE IInv'
<1>0. /\ sched \in SchedType
      /\ UNCHANGED <<now, lastEvent, eventNotify, taskList, taskNotify, disp, executed>>
  BY DEF IInv, TypeOK, SchedulerPop, taskVars
<1>1. CASE eventList = {}
  <2>1. sched' = [sched EXCEPT !.pc = "undefined"] /\ UNCHANGED <<eventList, eventIds>>
    BY <1>1 DEF SchedulerPop
  <2>2. sched' \in SchedType /\ sched'.task = sched.task /\ sched'.pc = "undefined"
    BY <1>0, <2>1 DEF SchedType
  <2>3. UNCHANGED <<now, eventVars, taskVars, disp, executed>>
    BY <1>0, <2>1 DEF eventVars, taskVars
  <2> QED
    BY <2>2, <2>3, SchedMoveKeeps
<1>2. CASE eventList # {}
  <2>1. PICK x \in Tops :
          /\ x \in eventList /\ x \in Event
          /\ eventList' = eventList \ {x}
          /\ eventIds' = eventIds \ {x.id}
          /\ sched' = [sched EXCEPT !.pc = "push", !.task = x]
    BY <1>2, PopTakes
  <2>2. sched' \in SchedType /\ sched'.pc = "push" /\ sched'.task = x
    BY <1>0, <2>1 DEF SchedType
  <2>3. TypeOK'
    BY <1>0, <2>1, <2>2 DEF IInv, TypeOK
  <2>4. \A y \in eventList : y # x => y.id # x.id /\ y.job # x.job
    BY <2>1 DEF IInv, EventsAreKnown
  <2>5. EventsAreKnown' /\ HandIsApart'
    BY <2>1, <2>2, <2>4 DEF IInv, EventsAreKnown, HandIsApart
  <2>6. NoWakeupLost' /\ NothingExpires' /\ DeadlineHasEvent'
    BY <1>0, <2>2 DEF IInv, NoWakeupLost, NothingExpires, DeadlineHasEvent
  <2> QED
    BY <2>3, <2>5, <2>6 DEF IInv
<1> QED
  BY <1>1, <1>2

\* A task that never expires goes to one end of the list; the caller that finds the
\* list empty is about to notify.
LEMMA ListGrows ==
    ASSUME IInv, NEW t \in Task, t.expiration = Never,
           taskList' \in {taskList \o <<t>>, <<t>> \o taskList},
           taskNotify' = TaskNotification(t.job)
    PROVE  /\ taskList' \in Seq(Task) /\ taskNotify' \subseteq Events \cup Tasks
           /\ \A i \in DOMAIN taskList' : taskList'[i].expiration = Never
           /\ (disp.pc = "wait" => taskNotify' # {})
<1>1. taskList \in Seq(Task) /\ taskNotify \subseteq Events \cup Tasks
  BY DEF IInv, TypeOK
<1>2. t.job \in Events \cup Tasks
  BY Zenon DEF Task
<1>3. \A i \in DOMAIN taskList : taskList[i].expiration = Never
  BY DEF IInv, NothingExpires
<1>4. /\ taskList \o <<t>> \in Seq(Task) /\ <<t>> \o taskList \in Seq(Task)
      /\ \A i \in DOMAIN (taskList \o <<t>>) : (taskList \o <<t>>)[i].expiration = Never
      /\ \A i \in DOMAIN (<<t>> \o taskList) : (<<t>> \o taskList)[i].expiration = Never
  BY <1>1, <1>3
<1>5. taskList' \in Seq(Task) /\ \A i \in DOMAIN taskList' : taskList'[i].expiration = Never
  BY <1>4, Zenon
<1>6. taskNotify' \subseteq Events \cup Tasks
  BY <1>1, <1>2 DEF TaskNotification
<1>7. disp.pc = "wait" => taskNotify' # {}
  BY DEF IInv, NoWakeupLost, TaskNotification, TaskSignals
<1> QED
  BY <1>5, <1>6, <1>7

LEMMA SchedulerPushKeeps == ASSUME IInv, SchedulerPush PROVE IInv'
<1> DEFINE t == [job |-> sched.task.job, expiration |-> Never]
<1>1. sched \in SchedType /\ sched.task \in Event
  BY DEF IInv, TypeOK, HandIsApart, SchedulerPush
<1>2. t \in Task /\ t.expiration = Never /\ t.job = sched.task.job
  BY <1>1 DEF Event, Task
<1>3. taskList' = <<t>> \o taskList /\ taskNotify' = TaskNotification(t.job)
  BY DEF SchedulerPush, Expiration
<1> HIDE DEF t
<1>4. /\ taskList' \in Seq(Task) /\ taskNotify' \subseteq Events \cup Tasks
      /\ \A i \in DOMAIN taskList' : taskList'[i].expiration = Never
      /\ (disp.pc = "wait" => taskNotify' # {})
  BY <1>2, <1>3, ListGrows
<1>5. UNCHANGED <<now, eventList, eventIds, lastEvent, eventNotify, disp, executed>>
  BY DEF SchedulerPush, eventVars
<1>6. sched' \in SchedType /\ sched'.pc = "top"
  BY <1>1 DEF SchedulerPush, SchedType
<1>7. TypeOK'
  BY <1>4, <1>5, <1>6 DEF IInv, TypeOK
<1>8. NoWakeupLost' /\ NothingExpires'
  BY <1>4, <1>5, <1>6 DEF IInv, NoWakeupLost, NothingExpires
<1>9. EventsAreKnown' /\ HandIsApart' /\ DeadlineHasEvent'
  BY <1>5, <1>6 DEF IInv, EventsAreKnown, HandIsApart, DeadlineHasEvent
<1> QED
  BY <1>7, <1>8, <1>9 DEF IInv

LEMMA AddTaskKeeps == ASSUME IInv, NEW j \in Tasks, AddTask(j) PROVE IInv'
<1> DEFINE t == [job |-> j, expiration |-> Never]
<1>2. t \in Task /\ t.expiration = Never /\ t.job = j
  BY DEF Task
<1>3. /\ taskList' \in {taskList \o <<t>>, <<t>> \o taskList}
      /\ taskNotify' = TaskNotification(t.job)
  BY DEF AddTask
<1> HIDE DEF t
<1>4. /\ taskList' \in Seq(Task) /\ taskNotify' \subseteq Events \cup Tasks
      /\ \A i \in DOMAIN taskList' : taskList'[i].expiration = Never
      /\ (disp.pc = "wait" => taskNotify' # {})
  BY <1>2, <1>3, ListGrows
<1>5. UNCHANGED <<now, eventList, eventIds, lastEvent, eventNotify, sched, disp, executed>>
  BY DEF AddTask, eventVars
<1>6. TypeOK'
  BY <1>4, <1>5 DEF IInv, TypeOK
<1>7. NoWakeupLost' /\ NothingExpires'
  BY <1>4, <1>5 DEF IInv, NoWakeupLost, NothingExpires
<1>8. EventsAreKnown' /\ HandIsApart' /\ DeadlineHasEvent'
  BY <1>5 DEF IInv, EventsAreKnown, HandIsApart, DeadlineHasEvent
<1> QED
  BY <1>6, <1>7, <1>8 DEF IInv

\* The dispatcher's moves leave the scheduler's half of the invariant alone.
LEMMA DispatcherFrame ==
    ASSUME IInv,
           UNCHANGED <<now, eventList, eventIds, lastEvent, eventNotify, sched>>,
           taskList' \in Seq(Task), disp' \in DispType,
           taskNotify' \subseteq Events \cup Tasks, executed' \subseteq Events \cup Tasks,
           disp'.pc = "wait" /\ taskList' # <<>> => taskNotify' # {},
           NothingExpires'
    PROVE  IInv'
<1>1. TypeOK'
  BY DEF IInv, TypeOK
<1>2. NoWakeupLost'
  BY DEF IInv, NoWakeupLost
<1>3. EventsAreKnown' /\ HandIsApart' /\ DeadlineHasEvent'
  BY DEF IInv, EventsAreKnown, HandIsApart, DeadlineHasEvent
<1> QED
  BY <1>1, <1>2, <1>3 DEF IInv

LEMMA NotifyTaskKeeps ==
    ASSUME IInv, NEW j \in Events \cup Tasks, NotifyTask(j) PROVE IInv'
<1>1. disp \in DispType /\ taskList \in Seq(Task) /\ taskNotify \subseteq Events \cup Tasks
      /\ executed \subseteq Events \cup Tasks
  BY DEF IInv, TypeOK
<1>2. /\ UNCHANGED <<now, eventList, eventIds, lastEvent, eventNotify, sched, taskList, executed>>
      /\ taskNotify' = taskNotify \ {j}
      /\ disp' = [disp EXCEPT !.pc = IF @ = "wait" THEN "woken" ELSE @]
  BY DEF NotifyTask, eventVars
<1>3. /\ disp' \in DispType /\ disp'.task = disp.task /\ disp'.pc # "wait"
      /\ (disp'.pc = "run" => disp.pc = "run")
  BY <1>1, <1>2 DEF DispType
<1>4. NothingExpires'
  BY <1>2, <1>3 DEF IInv, NothingExpires
<1> QED
  BY <1>1, <1>2, <1>3, <1>4, DispatcherFrame

LEMMA DispatcherTakeKeeps == ASSUME IInv, DispatcherTake PROVE IInv'
<1>1. disp \in DispType /\ taskList \in Seq(Task) /\ taskNotify \subseteq Events \cup Tasks
      /\ executed \subseteq Events \cup Tasks
  BY DEF IInv, TypeOK
<1>2. UNCHANGED <<now, eventList, eventIds, lastEvent, eventNotify, sched, taskNotify, executed>>
  BY DEF DispatcherTake, eventVars
<1>3. \A i \in DOMAIN taskList : taskList[i].expiration = Never
  BY DEF IInv, NothingExpires
<1>4. CASE taskList = <<>>
  <2>1. taskList' = taskList /\ disp' \in DispType /\ disp'.pc # "run"
    BY <1>1, <1>4 DEF DispatcherTake, Take, DispType
  <2>2. NothingExpires'
    BY <1>3, <2>1 DEF NothingExpires
  <2> QED
    BY <1>1, <1>2, <1>4, <2>1, <2>2, DispatcherFrame
<1>5. CASE taskList # <<>>
  <2>1. /\ taskList' = Tail(taskList)
        /\ disp' = [pc |-> "run", task |-> Head(taskList)]
    BY <1>5 DEF DispatcherTake, Take
  <2>2. /\ Head(taskList) \in Task /\ Head(taskList).expiration = Never
        /\ taskList' \in Seq(Task)
        /\ \A i \in DOMAIN taskList' : taskList'[i].expiration = Never
    BY <1>1, <1>3, <1>5, <2>1
  <2>3. disp' \in DispType /\ disp'.pc = "run" /\ disp'.task = Head(taskList)
    BY <2>1, <2>2 DEF DispType
  <2>4. NothingExpires'
    BY <2>2, <2>3 DEF NothingExpires
  <2> QED
    BY <1>1, <1>2, <2>2, <2>3, <2>4, DispatcherFrame
<1> QED
  BY <1>4, <1>5

LEMMA DispatcherMovesKeep ==
    ASSUME IInv, DispatcherSpurious \/ DispatcherRun
    PROVE  IInv'
<1>1. disp \in DispType /\ taskList \in Seq(Task) /\ taskNotify \subseteq Events \cup Tasks
      /\ executed \subseteq Events \cup Tasks
  BY DEF IInv, TypeOK
<1>2. UNCHANGED <<now, eventList, eventIds, lastEvent, eventNotify, sched, taskList, taskNotify>>
  BY DEF DispatcherSpurious, DispatcherRun, eventVars, taskVars
<1>3. disp' \in DispType /\ disp'.pc \in {"woken", "top"}
  BY <1>1 DEF DispatcherSpurious, DispatcherRun, DispType
<1>4. executed' \subseteq Events \cup Tasks
  <2>1. CASE DispatcherSpurious
    BY <1>1, <2>1 DEF DispatcherSpurious
  <2>2. CASE DispatcherRun
    <3>1. disp.task.job \in Events \cup Tasks
      BY <2>2, Zenon DEF IInv, NothingExpires, DispatcherRun, Task
    <3> QED
      BY <1>1, <2>2, <3>1 DEF DispatcherRun
  <2> QED
    BY <2>1, <2>2
<1>5. NothingExpires'
  BY <1>2, <1>3 DEF IInv, NothingExpires
<1> QED
  BY <1>1, <1>2, <1>3, <1>4, <1>5, DispatcherFrame

-----------------------------------------------------------------------------
(* The invariant, and what it says of the two threads.                        *)

LEMMA StepKeeps == ASSUME IInv, [Next]_vars PROVE IInv'
<1>1. CASE UNCHANGED vars
  BY <1>1 DEF vars, eventVars, taskVars, IInv, TypeOK, NoWakeupLost, EventsAreKnown,
              HandIsApart, NothingExpires, DeadlineHasEvent
<1>2. CASE Next
  BY <1>2, TickKeeps, AddEventKeeps, NotifyEventKeeps, NotifyTaskKeeps, AddTaskKeeps,
     SchedulerWaitKeeps, SchedulerMovesKeep, SchedulerPopKeeps, SchedulerPushKeeps,
     DispatcherTakeKeeps, DispatcherMovesKeep, Zenon
     DEF Next, SchedulerThread, DispatcherThread
<1> QED
  BY <1>1, <1>2

\* Everything the invariant says holds of every reachable state of the scheduler and
\* the dispatcher.
THEOREM SchedulerInvariance == Spec => []IInv
<1>1. IInv /\ [Next]_vars => IInv'
  BY StepKeeps
<1> QED
  BY InitHolds, <1>1, PTL DEF Spec

\* addEvent and addTask decide under the lock whether to notify and notify after the
\* unlock; yet neither schedulerThread nor tasksThread sleeps past work without a
\* notification on its way.
THEOREM WakeupsArrive == Spec => []NoWakeupLost
<1>1. IInv => NoWakeupLost
  BY DEF IInv
<1> QED
  BY SchedulerInvariance, <1>1, PTL

LEMMA DeadlineIsDue == ASSUME IInv PROVE TimeoutFindsDueEvent
<1> SUFFICES ASSUME sched.pc = "timeout"
             PROVE  Tops # {} /\ \A x \in Tops : x.cycle <= now
  BY DEF TimeoutFindsDueEvent
<1>1. PICK y \in eventList : y.cycle <= sched.until
  BY DEF IInv, DeadlineHasEvent
<1>2. sched.until <= now /\ sched.until \in Nat /\ now \in Nat
  BY SchedulerAssumption DEF IInv, DeadlineHasEvent, TypeOK, SchedType
<1>3. \A x \in eventList : x.cycle \in Nat
  BY DEF IInv, TypeOK, Event
<1>4. Tops # {}
  BY <1>1, TopsExist DEF IInv, TypeOK
<1>5. ASSUME NEW x \in Tops PROVE x.cycle <= now
  BY <1>1, <1>2, <1>3 DEF Tops
<1> QED
  BY <1>4, <1>5

\* When timed_wait times out, schedulerThread finds an event at the top of its queue
\* and that event is due.
THEOREM TimeoutIsDue == Spec => []TimeoutFindsDueEvent
<1>1. IInv => TimeoutFindsDueEvent
  BY DeadlineIsDue
<1> QED
  BY SchedulerInvariance, <1>1, PTL

-----------------------------------------------------------------------------
(* The two threads implement TaskQueues.                                      *)

\* The abstract queues, in terms of the detailed state.
Delayed == {x.job : x \in eventList} \cup (IF sched.pc = "push" THEN {sched.task.job} ELSE {})
Done == executed \cup (IF disp.pc = "run" THEN {disp.task.job} ELSE {})

LEMMA QueuesAre ==
    /\ Queues!queues = <<Delayed, JobsOf(taskList), Done>>
    /\ \A j : Queues!Fresh(j) <=>
                  j \notin Delayed \cup {JobsOf(taskList)[i] : i \in DOMAIN JobsOf(taskList)}
                           \cup Done
  BY DEF Queues!queues, Delayed, JobsOf, Done, Queues!Fresh, Queues!Listed

\* Who is given to neither thread is fresh to the abstract queues.
LEMMA NotGivenIsFresh == ASSUME NEW j, j \notin Given PROVE Queues!Fresh(j)
<1>1. j \notin Delayed /\ j \notin Done
  BY DEF Given, Delayed, Done
<1>2. j \notin {JobsOf(taskList)[i] : i \in DOMAIN JobsOf(taskList)}
  BY DEF Given, JobsOf
<1> QED
  BY <1>1, <1>2, QueuesAre

\* A step that leaves the three abstract queues alone is a stutter.
LEMMA Stutters ==
    ASSUME Delayed' = Delayed, taskList' = taskList, Done' = Done
    PROVE  UNCHANGED Queues!queues
  BY DEF Queues!queues, Delayed, Done

\* addEvent is Delay.
LEMMA AddEventDelays ==
    ASSUME IInv, NEW e \in Events, AddEvent(e) PROVE Queues!Delay(e)
<1>1. Queues!Fresh(e)
  BY NotGivenIsFresh DEF AddEvent
<1>2. UNCHANGED <<sched, taskList, disp, executed>>
  BY DEF AddEvent, taskVars
<1>3. PICK new : new.job = e /\ eventList' = eventList \cup {new}
  BY DEF AddEvent
<1>4. {x.job : x \in eventList'} = {x.job : x \in eventList} \cup {e}
  BY <1>3
<1>5. Delayed' = Delayed \cup {e}
  BY <1>2, <1>4 DEF Delayed
<1> QED
  BY <1>1, <1>2, <1>5 DEF Queues!Delay, Delayed

\* addTask is Enqueue.
LEMMA AddTaskEnqueues ==
    ASSUME IInv, NEW j \in Tasks, AddTask(j) PROVE Queues!Enqueue(j)
<1> DEFINE t == [job |-> j, expiration |-> Never]
<1>1. Queues!Fresh(j)
  BY NotGivenIsFresh DEF AddTask
<1>2. UNCHANGED <<eventList, sched, disp, executed>>
  BY DEF AddTask, eventVars
<1>3. t \in Task /\ t.job = j /\ taskList' \in {taskList \o <<t>>, <<t>> \o taskList}
  BY DEF AddTask, Task
<1>4. taskList \in Seq(Task)
  BY DEF IInv, TypeOK
<1> HIDE DEF t
<1>5. JobsOf(taskList') \in {JobsOf(taskList) \o <<j>>, <<j>> \o JobsOf(taskList)}
  BY <1>3, <1>4, JobsOfList
<1>6. Delayed' = Delayed /\ Done' = Done
  BY <1>2 DEF Delayed, Done
<1> QED
  BY <1>1, <1>5, <1>6 DEF Queues!Enqueue, JobsOf, Delayed, Done

\* Taking an event out of the list leaves it delayed: it is in the scheduler's hand.
LEMMA PopStutters == ASSUME IInv, SchedulerPop PROVE UNCHANGED Queues!queues
<1>1. UNCHANGED <<taskList, disp, executed>> /\ sched.pc # "push"
  BY DEF SchedulerPop, taskVars
<1>2. sched \in SchedType
  BY DEF IInv, TypeOK
<1>3. CASE eventList = {}
  <2>1. sched'.pc = "undefined" /\ eventList' = eventList
    BY <1>2, <1>3 DEF SchedulerPop, SchedType
  <2>2. Delayed' = Delayed /\ Done' = Done
    BY <1>1, <2>1 DEF Delayed, Done
  <2> QED
    BY <1>1, <2>2, Stutters
<1>4. CASE eventList # {}
  <2>1. PICK x \in Tops :
          /\ x \in eventList /\ eventList' = eventList \ {x}
          /\ sched' = [sched EXCEPT !.pc = "push", !.task = x]
    BY <1>4, PopTakes
  <2>2. sched'.pc = "push" /\ sched'.task = x
    BY <1>2, <2>1 DEF SchedType
  <2>3. {y.job : y \in eventList'} \cup {x.job} = {y.job : y \in eventList}
    BY <2>1
  <2>4. Delayed' = Delayed /\ Done' = Done
    BY <1>1, <2>2, <2>3 DEF Delayed, Done
  <2> QED
    BY <1>1, <2>4, Stutters
<1> QED
  BY <1>3, <1>4

\* The scheduler's call of addTask is Release.
LEMMA PushReleases ==
    ASSUME IInv, SchedulerPush
    PROVE  \E job \in Events \cup Tasks : Queues!Release(job)
<1>1. /\ sched \in SchedType /\ sched.task \in Event /\ sched.pc = "push"
      /\ sched.task.job \notin {x.job : x \in eventList}
  BY DEF IInv, TypeOK, HandIsApart, SchedulerPush
<1>2. PICK j \in Events : j = sched.task.job
  BY <1>1 DEF Event
<1> DEFINE t == [job |-> j, expiration |-> Never]
<1>3. t \in Task /\ t.job = j
  BY DEF Task
<1>4. taskList \in Seq(Task) /\ taskList' = <<t>> \o taskList
  BY <1>2 DEF IInv, TypeOK, SchedulerPush, Expiration
<1>5. UNCHANGED <<eventList, disp, executed>> /\ sched'.pc = "top"
  BY <1>1 DEF SchedulerPush, eventVars, SchedType
<1> HIDE DEF t
<1>6. JobsOf(taskList') = <<j>> \o JobsOf(taskList)
  BY <1>3, <1>4, JobsOfList
<1>7. j \in Delayed /\ Delayed' = Delayed \ {j} /\ Done' = Done
  BY <1>1, <1>2, <1>5 DEF Delayed, Done
<1>8. Queues!Release(j)
  BY <1>6, <1>7 DEF Queues!Release, JobsOf, Delayed, Done
<1> QED
  BY <1>8

\* Taking the first task of the list is Execute: nothing takes it back from then on.
LEMMA TakeExecutes ==
    ASSUME IInv, DispatcherTake
    PROVE  Queues!Execute \/ UNCHANGED Queues!queues
<1>1. /\ disp \in DispType /\ disp.pc # "run" /\ taskList \in Seq(Task)
      /\ UNCHANGED <<eventList, sched, executed>>
  BY DEF IInv, TypeOK, DispatcherTake, eventVars
<1>2. CASE taskList = <<>>
  <2>1. taskList' = taskList /\ disp'.pc # "run"
    BY <1>1, <1>2 DEF DispatcherTake, Take, DispType
  <2>2. Delayed' = Delayed /\ Done' = Done
    BY <1>1, <2>1 DEF Delayed, Done
  <2> QED
    BY <2>1, <2>2, Stutters
<1>3. CASE taskList # <<>>
  <2>1. taskList' = Tail(taskList) /\ disp'.pc = "run" /\ disp'.task = Head(taskList)
    BY <1>3 DEF DispatcherTake, Take
  <2>2. Head(taskList) \in Task
    BY <1>1, <1>3
  <2>3. /\ JobsOf(taskList) # <<>> /\ JobsOf(taskList') = Tail(JobsOf(taskList))
        /\ Head(taskList).job = Head(JobsOf(taskList))
    BY <1>1, <1>3, <2>1, <2>2, JobsOfList
  <2>4. Delayed' = Delayed /\ Done' = Done \cup {Head(JobsOf(taskList))}
    BY <1>1, <2>1, <2>3 DEF Delayed, Done
  <2> QED
    BY <2>3, <2>4 DEF Queues!Execute, JobsOf, Delayed, Done
<1> QED
  BY <1>2, <1>3

\* Running the task is a stutter: its time never runs out, so it is not dropped.
LEMMA RunStutters == ASSUME IInv, DispatcherRun PROVE UNCHANGED Queues!queues
<1>1. /\ disp.pc = "run" /\ disp.task.expiration = Never
      /\ UNCHANGED <<eventList, sched, taskList>>
  BY DEF IInv, NothingExpires, DispatcherRun, eventVars, taskVars
<1>2. executed' = executed \cup {disp.task.job} /\ disp'.pc = "top"
  BY <1>1 DEF DispatcherRun, HasExpired
<1>3. Delayed' = Delayed /\ Done' = Done
  BY <1>1, <1>2 DEF Delayed, Done
<1> QED
  BY <1>1, <1>3, Stutters

\* The steps that only move a program counter, the clock or a pending notification.
LEMMA OthersStutter ==
    ASSUME IInv,
           \/ Tick \/ SchedulerWait \/ SchedulerTimeout \/ SchedulerAgain
           \/ SchedulerSpurious \/ DispatcherSpurious
           \/ \E e \in Events : NotifyEvent(e)
           \/ \E j \in Events \cup Tasks : NotifyTask(j)
    PROVE  UNCHANGED Queues!queues
<1>1. sched \in SchedType /\ disp \in DispType
  BY DEF IInv, TypeOK
<1>2. UNCHANGED <<eventList, taskList, executed>>
  BY DEF Tick, SchedulerWait, SchedulerTimeout, SchedulerAgain, SchedulerSpurious,
         DispatcherSpurious, NotifyEvent, NotifyTask, eventVars, taskVars
<1>3. /\ sched' = sched \/ (sched.pc # "push" /\ sched'.pc # "push")
                        \/ (sched.pc = sched'.pc /\ sched'.task = sched.task)
      /\ disp' = disp \/ (disp.pc # "run" /\ disp'.pc # "run")
                      \/ (disp.pc = disp'.pc /\ disp'.task = disp.task)
  BY <1>1
  DEF Tick, SchedulerWait, SchedulerTimeout, SchedulerAgain, SchedulerSpurious,
      DispatcherSpurious, NotifyEvent, NotifyTask, SchedType, DispType
<1>4. Delayed' = Delayed /\ Done' = Done
  BY <1>2, <1>3 DEF Delayed, Done
<1> QED
  BY <1>2, <1>4, Stutters

LEMMA QueuesStep == ASSUME IInv, [Next]_vars PROVE [Queues!Next]_Queues!queues
<1>1. CASE UNCHANGED vars
  <2>1. Delayed' = Delayed /\ taskList' = taskList /\ Done' = Done
    BY <1>1 DEF vars, eventVars, taskVars, Delayed, Done
  <2> QED
    BY <2>1, Stutters
<1>2. CASE Next
  BY <1>2, AddEventDelays, AddTaskEnqueues, PopStutters, PushReleases, TakeExecutes,
     RunStutters, OthersStutter, Zenon
     DEF Next, SchedulerThread, DispatcherThread, Queues!Next
<1> QED
  BY <1>1, <1>2

LEMMA QueuesInit == ASSUME Init PROVE Queues!Init
  BY DEF Init, Queues!Init

\* The scheduler and the dispatcher, with their locks, notifications and expirations,
\* are the two queues Connection is written against: a job is executed once, in the
\* order of the list, and the scheduler's go to the front.
THEOREM SchedulerImplementsQueues == Spec => ImplementsQueues
<1>1. Init => Queues!Init
  BY QueuesInit
<1>2. IInv /\ [Next]_vars => [Queues!Next]_Queues!queues
  BY QueuesStep
<1> QED
  BY <1>1, <1>2, SchedulerInvariance, PTL DEF Spec, ImplementsQueues, Queues!Spec
=============================================================================
