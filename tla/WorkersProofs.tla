---------------------------- MODULE WorkersProofs ---------------------------
(* Proofs about Workers for any number of workers and any set of tasks: the   *)
(* pool implements TaskQueues, whoever takes a task and however it ends, and  *)
(* no worker sleeps while a task waits for it.                                *)
EXTENDS Workers, FiniteSetTheorems, TLAPS

-----------------------------------------------------------------------------
(* The inductive invariant.                                                   *)

\* Tasks in a worker's hands.
Running == {worker[w].task : w \in {v \in Workers : At(v, "run")}}

\* A task is queued or run only after asyncTask was called with it.
OnlyOffered ==
    /\ \A i \in DOMAIN queue : queue[i] \in offered
    /\ Running \subseteq offered

IInv == TypeOK /\ OnlyOffered

-----------------------------------------------------------------------------
LEMMA InitHolds == Init => IInv
<1> SUFFICES ASSUME Init PROVE IInv
  OBVIOUS
<1>1. Fresh \in WorkerType /\ Fresh.pc = "test"
  BY DEF Fresh, WorkerType
<1>2. TypeOK
  BY <1>1 DEF Init, TypeOK
<1>3. \A w \in Workers : worker[w].pc # "run"
  BY <1>1 DEF Init
<1> QED
  BY <1>2, <1>3 DEF IInv, Init, OnlyOffered, Running, At

\* What the first element and the rest of a queue are.
LEMMA HeadOfQueue ==
    ASSUME IInv, queue # <<>>
    PROVE  /\ Head(queue) \in Tasks /\ Head(queue) \in offered
           /\ Tail(queue) \in Seq(Tasks)
           /\ \A i \in DOMAIN Tail(queue) : Tail(queue)[i] \in offered
<1>1. queue \in Seq(Tasks) /\ \A i \in DOMAIN queue : queue[i] \in offered
  BY DEF IInv, TypeOK, OnlyOffered
<1> QED
  BY <1>1

\* A worker moved to a place without a task: no task is taken, one may be put down.
LEMMA GotoFacts ==
    ASSUME IInv, NEW w \in Workers, NEW pc \in {"test", "lock", "wait", "woken", "ended"},
           Goto(w, pc)
    PROVE  /\ worker' \in [Workers -> WorkerType]
           /\ Running' = {worker[v].task : v \in {u \in Workers \ {w} : At(u, "run")}}
<1>1. worker \in [Workers -> WorkerType]
  BY DEF IInv, TypeOK
<1>2. worker' = [worker EXCEPT ![w] = [pc |-> pc, task |-> NoTask]]
  BY DEF Goto
<1>3. [pc |-> pc, task |-> NoTask] \in WorkerType
  BY DEF WorkerType
<1>4. worker' \in [Workers -> WorkerType]
  BY <1>1, <1>2, <1>3
<1>5. worker'[w].pc # "run" /\ \A v \in Workers \ {w} : worker'[v] = worker[v]
  BY <1>1, <1>2
<1>6. {v \in Workers : worker'[v].pc = "run"} = {u \in Workers \ {w} : worker[u].pc = "run"}
  BY <1>5
<1> QED
  BY <1>4, <1>5, <1>6 DEF Running, At

\* A worker that takes the first task.
LEMMA TakeFacts ==
    ASSUME IInv, NEW w \in Workers, ~ At(w, "run"), NEW t \in Tasks,
           worker' = [worker EXCEPT ![w] = [pc |-> "run", task |-> t]]
    PROVE  worker' \in [Workers -> WorkerType] /\ Running' = Running \cup {t}
<1>1. worker \in [Workers -> WorkerType]
  BY DEF IInv, TypeOK
<1>2. [pc |-> "run", task |-> t] \in WorkerType
  BY DEF WorkerType
<1>3. worker' \in [Workers -> WorkerType]
  BY <1>1, <1>2
<1>4. /\ worker'[w].pc = "run" /\ worker'[w].task = t
      /\ \A v \in Workers \ {w} : worker'[v] = worker[v]
  BY <1>1
<1>5. {v \in Workers : worker'[v].pc = "run"} = {v \in Workers : worker[v].pc = "run"} \cup {w}
  BY <1>4
<1>6. {worker'[v].task : v \in {u \in Workers : worker'[u].pc = "run"}}
        = {worker[v].task : v \in {u \in Workers : worker[u].pc = "run"}} \cup {t}
  BY <1>4, <1>5 DEF At
<1> QED
  BY <1>3, <1>6 DEF Running, At

\* Waking workers takes nothing from them and gives them nothing.
LEMMA WakeFacts ==
    ASSUME IInv, NEW W \in SUBSET Workers, \A w \in W : At(w, "wait"),
           worker' = [w \in Workers |-> IF w \in W THEN [worker[w] EXCEPT !.pc = "woken"]
                                        ELSE worker[w]]
    PROVE  worker' \in [Workers -> WorkerType] /\ Running' = Running
<1>1. worker \in [Workers -> WorkerType]
  BY DEF IInv, TypeOK
<1>2. \A r \in WorkerType : [r EXCEPT !.pc = "woken"] \in WorkerType
  BY DEF WorkerType
<1>3. worker' \in [Workers -> WorkerType]
  BY <1>1, <1>2
<1>4. \A w \in W : worker[w].pc # "run" /\ worker'[w].pc # "run"
  BY <1>1 DEF At, WorkerType
<1>5. \A w \in Workers \ W : worker'[w] = worker[w]
  OBVIOUS
<1>6. {v \in Workers : worker'[v].pc = "run"} = {v \in Workers : worker[v].pc = "run"}
  BY <1>4, <1>5
<1>7. \A v \in Workers : worker'[v].pc = "run" => worker'[v] = worker[v]
  BY <1>4, <1>5
<1> QED
  BY <1>3, <1>6, <1>7 DEF Running, At

LEMMA NotifyOneFacts ==
    ASSUME IInv, NotifyOne
    PROVE  worker' \in [Workers -> WorkerType] /\ Running' = Running
<1>1. CASE worker' = worker
  BY <1>1 DEF IInv, TypeOK, Running, At
<1>2. ASSUME NEW w \in Waiting, worker' = [worker EXCEPT ![w].pc = "woken"]
      PROVE  worker' \in [Workers -> WorkerType] /\ Running' = Running
  <2>1. w \in Workers /\ At(w, "wait")
    BY DEF Waiting, At
  <2>2. worker' = [v \in Workers |-> IF v \in {w} THEN [worker[v] EXCEPT !.pc = "woken"]
                                     ELSE worker[v]]
    BY <1>2, <2>1 DEF IInv, TypeOK
  <2>3. {w} \in SUBSET Workers /\ \A v \in {w} : At(v, "wait")
    BY <2>1
  <2> QED
    BY <2>2, <2>3, WakeFacts
<1> QED
  BY <1>1, <1>2 DEF NotifyOne

LEMMA NotifyAllFacts ==
    ASSUME IInv, NotifyAll
    PROVE  worker' \in [Workers -> WorkerType] /\ Running' = Running
<1> DEFINE W == {w \in Workers : At(w, "wait")}
<1>1. worker' = [v \in Workers |-> IF v \in W THEN [worker[v] EXCEPT !.pc = "woken"]
                                   ELSE worker[v]]
  BY DEF NotifyAll
<1>2. W \in SUBSET Workers /\ \A v \in W : At(v, "wait")
  OBVIOUS
<1> HIDE DEF W
<1> QED
  BY <1>1, <1>2, WakeFacts

-----------------------------------------------------------------------------
(* Every step keeps the invariant and is a step of the abstract queue, or     *)
(* leaves it alone.                                                           *)

\* What the abstract specification calls executed.
Done == executed \cup Running

Good == IInv' /\ [Queues!Next]_Queues!queues

\* A step that changes neither the queue nor what was taken from it.
LEMMA Stutters ==
    ASSUME IInv, queue' = queue, Done' = Done, Running' \subseteq Done, TypeOK',
           offered \subseteq offered'
    PROVE  Good
<1>1. Done \subseteq offered
  BY DEF Done, IInv, TypeOK, OnlyOffered
<1>2. OnlyOffered'
  BY <1>1 DEF IInv, OnlyOffered
<1>3. UNCHANGED Queues!queues
  BY DEF Queues!queues, Done, Running
<1> QED
  BY <1>2, <1>3 DEF Good, IInv

\* A step that takes the first task of the queue, for a worker or for shutdownWorkers.
LEMMA TakesFirst ==
    ASSUME IInv, queue # <<>>, queue' = Tail(queue), Done' = Done \cup {Head(queue)},
           TypeOK', UNCHANGED offered
    PROVE  Good
<1>1. Running' \subseteq offered
  BY HeadOfQueue DEF Done, IInv, TypeOK, OnlyOffered
<1>2. OnlyOffered'
  BY <1>1, HeadOfQueue DEF OnlyOffered
<1>3. Queues!Execute
  BY DEF Queues!Execute, Done, Running
<1> QED
  BY <1>2, <1>3 DEF Good, IInv, Queues!Next

\* asyncTask is Enqueue while the pool runs; later the task is dropped.
LEMMA AsyncTaskGood == ASSUME IInv, NEW t \in Tasks, AsyncTask(t) PROVE Good
<1>1. /\ t \notin offered /\ offered' = offered \cup {t}
      /\ UNCHANGED <<workerState, worker, executed, closer, late>>
  BY DEF AsyncTask
<1>2. Running' = Running /\ Done' = Done
  BY <1>1 DEF Running, At, Done
<1>3. CASE workerState # "RUNNING"
  <2>1. UNCHANGED <<queue, notifying>>
    BY <1>3 DEF AsyncTask
  <2>2. TypeOK'
    BY <1>1, <2>1 DEF IInv, TypeOK
  <2> QED
    BY <1>1, <1>2, <2>1, <2>2, Stutters DEF Done
<1>4. CASE workerState = "RUNNING"
  <2>1. queue' = Append(queue, t) /\ notifying' = notifying \cup {t}
    BY <1>4 DEF AsyncTask
  <2>2. queue \in Seq(Tasks) /\ \A i \in DOMAIN queue : queue[i] \in offered
    BY DEF IInv, TypeOK, OnlyOffered
  <2>3. /\ queue' \in Seq(Tasks) /\ queue' = queue \o <<t>>
        /\ \A i \in DOMAIN queue' : queue'[i] \in offered'
    BY <1>1, <2>1, <2>2
  <2>4. TypeOK'
    BY <1>1, <2>1, <2>3 DEF IInv, TypeOK
  <2>5. OnlyOffered'
    BY <1>1, <1>2, <2>3 DEF IInv, OnlyOffered
  <2>6. t \notin Done
    BY <1>1 DEF Done, IInv, TypeOK, OnlyOffered
  <2>7. t \notin {queue[i] : i \in DOMAIN queue}
    BY <1>1, <2>2
  <2>8. Queues!Fresh(t)
    BY <2>6, <2>7 DEF Queues!Fresh, Queues!Listed, Done, Running
  <2>9. Queues!Enqueue(t)
    BY <1>2, <2>3, <2>8 DEF Queues!Enqueue, Done, Running
  <2> QED
    BY <2>4, <2>5, <2>9 DEF Good, IInv, Queues!Next
<1> QED
  BY <1>3, <1>4

LEMMA NotifyTaskGood == ASSUME IInv, NEW t \in Tasks, NotifyTask(t) PROVE Good
<1>1. /\ notifying' = notifying \ {t} /\ NotifyOne
      /\ UNCHANGED <<workerState, queue, offered, executed, closer, late>>
  BY DEF NotifyTask
<1>2. worker' \in [Workers -> WorkerType] /\ Running' = Running
  BY <1>1, NotifyOneFacts
<1>3. TypeOK'
  BY <1>1, <1>2 DEF IInv, TypeOK
<1> QED
  BY <1>1, <1>2, <1>3, Stutters DEF Done

\* A worker without a task goes to another place without one.
LEMMA MoveGood ==
    ASSUME IInv, NEW w \in Workers, ~ At(w, "run"),
           NEW pc \in {"test", "lock", "wait", "woken", "ended"}, Goto(w, pc),
           UNCHANGED <<workerState, queue, notifying, offered, executed, closer, late>>
    PROVE  Good
<1>1. worker' \in [Workers -> WorkerType]
      /\ Running' = {worker[v].task : v \in {u \in Workers \ {w} : At(u, "run")}}
  BY GotoFacts
<1>2. Running' = Running
  BY <1>1 DEF Running
<1>3. TypeOK'
  BY <1>1 DEF IInv, TypeOK
<1> QED
  BY <1>2, <1>3, Stutters DEF Done

LEMMA TakeGood ==
    ASSUME IInv, NEW w \in Workers, ~ At(w, "run"), Take(w),
           UNCHANGED <<workerState, notifying, offered, executed, closer, late>>
    PROVE  Good
<1>1. CASE queue # <<>> /\ workerState # "TERMINATED"
  <2>1. /\ worker' = [worker EXCEPT ![w] = [pc |-> "run", task |-> Head(queue)]]
        /\ queue' = Tail(queue)
    BY <1>1 DEF Take
  <2>2. Head(queue) \in Tasks /\ queue' \in Seq(Tasks)
    BY <1>1, <2>1, HeadOfQueue
  <2>3. worker' \in [Workers -> WorkerType] /\ Running' = Running \cup {Head(queue)}
    <3>1. PICK t \in Tasks : t = Head(queue)
      BY <2>2
    <3> QED
      BY <2>1, <3>1, TakeFacts
  <2>4. TypeOK' /\ Done' = Done \cup {Head(queue)}
    BY <2>2, <2>3 DEF IInv, TypeOK, Done
  <2> QED
    BY <1>1, <2>1, <2>4, TakesFirst
<1>2. CASE ~ (queue # <<>> /\ workerState # "TERMINATED")
  BY <1>2, MoveGood DEF Take
<1> QED
  BY <1>1, <1>2

LEMMA WorkerGood ==
    ASSUME IInv, NEW w \in Workers, WorkerLoop(w) \/ SpuriousWakeup(w)
    PROVE  Good
<1>1. CASE TestState(w)
  BY <1>1, MoveGood DEF TestState, At
<1>2. CASE LockQueue(w)
  <2>1. CASE queue = <<>>
    BY <1>2, <2>1, MoveGood DEF LockQueue, At
  <2>2. CASE queue # <<>>
    BY <1>2, <2>2, TakeGood DEF LockQueue, At
  <2> QED
    BY <2>1, <2>2
<1>3. CASE WaitReturns(w)
  BY <1>3, TakeGood DEF WaitReturns, At
<1>4. CASE SpuriousWakeup(w)
  BY <1>4, MoveGood DEF SpuriousWakeup, At
<1>5. CASE RunTask(w)
  <2>1. /\ At(w, "run") /\ Goto(w, "test") /\ executed' = executed \cup {worker[w].task}
        /\ UNCHANGED <<workerState, queue, notifying, offered, closer, late>>
    BY <1>5 DEF RunTask
  <2>2. /\ worker' \in [Workers -> WorkerType]
        /\ Running' = {worker[v].task : v \in {u \in Workers \ {w} : At(u, "run")}}
    BY <2>1, GotoFacts
  <2>3. Running = {worker[v].task : v \in {u \in Workers \ {w} : At(u, "run")}}
                    \cup {worker[w].task}
    BY <2>1 DEF Running
  <2>4. Done' = Done /\ Running' \subseteq Done
    BY <2>1, <2>2, <2>3 DEF Done
  <2>5. executed' \subseteq offered'
    BY <2>1, <2>3 DEF IInv, TypeOK, OnlyOffered
  <2>6. TypeOK'
    BY <2>1, <2>2, <2>5 DEF IInv, TypeOK
  <2> QED
    BY <2>1, <2>4, <2>6, Stutters
<1> QED
  BY <1>1, <1>2, <1>3, <1>4, <1>5 DEF WorkerLoop

\* The end of the pool: shutdownWorkers runs what is left, in order.
LEMMA ClosingGood ==
    ASSUME IInv, StopWorkers \/ ShutdownWorkers \/ Closing
    PROVE  Good
<1>1. CASE DrainTask
  <2>1. /\ queue # <<>> /\ executed' = executed \cup {Head(queue)} /\ queue' = Tail(queue)
        /\ UNCHANGED <<workerState, worker, notifying, offered, closer, late>>
    BY <1>1 DEF DrainTask
  <2>2. TypeOK'
    BY <2>1, HeadOfQueue DEF IInv, TypeOK
  <2>3. Done' = Done \cup {Head(queue)}
    BY <2>1 DEF Done, Running, At
  <2> QED
    BY <2>1, <2>2, <2>3, TakesFirst
<1>2. CASE NotifyWorkers
  <2>1. /\ NotifyAll /\ closer' = "join"
        /\ UNCHANGED <<workerState, queue, notifying, offered, executed, late>>
    BY <1>2 DEF NotifyWorkers
  <2>2. worker' \in [Workers -> WorkerType] /\ Running' = Running
    BY <2>1, NotifyAllFacts
  <2>3. TypeOK'
    BY <2>1, <2>2 DEF IInv, TypeOK
  <2> QED
    BY <2>1, <2>2, <2>3, Stutters DEF Done
<1>3. CASE StopWorkers \/ ShutdownWorkers \/ UnlockQueue \/ JoinWorkers
  <2>1. UNCHANGED <<queue, worker, notifying, offered, executed>>
    BY <1>3 DEF StopWorkers, ShutdownWorkers, UnlockQueue, JoinWorkers
  <2>2. /\ workerState' \in {"RUNNING", "CLOSING", "TERMINATED"}
        /\ closer' \in {"idle", "drain", "notify", "join", "joined"}
        /\ late' \subseteq Workers
    BY <1>3 DEF StopWorkers, ShutdownWorkers, UnlockQueue, JoinWorkers, IInv, TypeOK
  <2>3. TypeOK'
    BY <2>1, <2>2 DEF IInv, TypeOK
  <2>4. Running' = Running /\ Done' = Done
    BY <2>1 DEF Done, Running, At
  <2> QED
    BY <2>1, <2>3, <2>4, Stutters DEF Done
<1> QED
  BY <1>1, <1>2, <1>3 DEF Closing

LEMMA StepGood == ASSUME IInv, [Next]_vars PROVE Good
<1>1. CASE UNCHANGED vars
  <2>1. Running' = Running /\ Done' = Done
    BY <1>1 DEF vars, Done, Running, At
  <2>2. TypeOK'
    BY <1>1 DEF vars, IInv, TypeOK
  <2> QED
    BY <1>1, <2>1, <2>2, Stutters DEF vars, Done
<1>2. CASE Next
  BY <1>2, AsyncTaskGood, NotifyTaskGood, WorkerGood, ClosingGood, Zenon DEF Next
<1> QED
  BY <1>1, <1>2

LEMMA QueuesInit == ASSUME Init PROVE Queues!Init
<1>1. Running = {}
  BY DEF Init, Running, At, Fresh
<1> QED
  BY <1>1 DEF Init, Queues!Init, Running

\* Everything the invariant says holds of every reachable state of the pool.
THEOREM WorkersInvariance == Spec => []IInv
<1>1. IInv /\ [Next]_vars => IInv'
  BY StepGood DEF Good
<1> QED
  BY InitHolds, <1>1, PTL DEF Spec

\* However many workers there are, and whether the pool is stopped, shut down or left
\* running: asyncTask's tasks are each taken once, by a workerLoop or by
\* shutdownWorkers, in the order they were queued.
THEOREM WorkersImplementQueues == Spec => ImplementsQueues
<1>1. Init => Queues!Init
  BY QueuesInit
<1>2. IInv /\ [Next]_vars => [Queues!Next]_Queues!queues
  BY StepGood DEF Good
<1> QED
  BY <1>1, <1>2, WorkersInvariance, PTL DEF Spec, ImplementsQueues, Queues!Spec

-----------------------------------------------------------------------------
(* Notifications. SleepersAreNotNeeded compares a number of tasks with those  *)
(* of callers and workers, so every step is looked at for what it adds to     *)
(* each of them.                                                              *)

Woken == {w \in Workers : At(w, "woken")}
Locking == {w \in Workers : At(w, "lock")}

\* Only shutdownWorkers terminates the pool, and it leaves an empty queue behind. A worker
\* that comes to the lock, or goes to sleep, after the end was on its way there before.
EndIsKnown ==
    /\ workerState = "TERMINATED" <=> closer # "idle"
    /\ closer \in {"notify", "join", "joined"} => queue = <<>>
    /\ workerState = "TERMINATED" => Locking \subseteq late
    /\ closer = "join" => Waiting \subseteq late

WakeInv == IsFiniteSet(notifying) /\ SleepersAreNotNeeded /\ EndIsKnown

\* The workers at one place are finitely many.
LEMMA PlacesAreFinite ==
    /\ IsFiniteSet(Woken) /\ Cardinality(Woken) \in Nat
    /\ IsFiniteSet(notifying) => Cardinality(notifying) \in Nat
<1>1. IsFiniteSet(Woken)
  BY WorkersAssumption, FS_Subset DEF Woken
<1> QED
  BY <1>1, FS_CardinalityType

\* A worker that moves leaves its place and appears at the new one.
LEMMA MoveFacts ==
    ASSUME IInv, NEW w \in Workers, NEW r \in WorkerType, worker' = [worker EXCEPT ![w] = r]
    PROVE  /\ Waiting' = IF r.pc = "wait" THEN Waiting \cup {w} ELSE Waiting \ {w}
           /\ Woken' = IF r.pc = "woken" THEN Woken \cup {w} ELSE Woken \ {w}
           /\ Locking' = IF r.pc = "lock" THEN Locking \cup {w} ELSE Locking \ {w}
<1>1. worker'[w] = r /\ \A v \in Workers \ {w} : worker'[v] = worker[v]
  BY DEF IInv, TypeOK
<1> QED
  BY <1>1 DEF Waiting, Woken, Locking, At

\* The same for a worker that goes on without a task.
LEMMA GotoMoves ==
    ASSUME IInv, NEW w \in Workers, NEW pc \in {"test", "lock", "wait", "woken", "ended"},
           Goto(w, pc)
    PROVE  /\ Waiting' = IF pc = "wait" THEN Waiting \cup {w} ELSE Waiting \ {w}
           /\ Woken' = IF pc = "woken" THEN Woken \cup {w} ELSE Woken \ {w}
           /\ Locking' = IF pc = "lock" THEN Locking \cup {w} ELSE Locking \ {w}
<1> DEFINE r == [pc |-> pc, task |-> NoTask]
<1>1. r \in WorkerType /\ r.pc = pc
  BY DEF WorkerType
<1>2. worker' = [worker EXCEPT ![w] = r]
  BY DEF Goto
<1> HIDE DEF r
<1> QED
  BY <1>1, <1>2, MoveFacts

\* asyncTask: one task more, and one caller that will notify.
LEMMA AsyncTaskWakes ==
    ASSUME IInv, WakeInv, NEW t \in Tasks, AsyncTask(t)
    PROVE  WakeInv'
<1>1. /\ t \notin notifying /\ UNCHANGED <<workerState, worker, closer, late>> /\ Unlocked
      /\ Waiting' = Waiting /\ Woken' = Woken /\ Locking' = Locking
  BY DEF AsyncTask, IInv, TypeOK, Waiting, Woken, Locking, At
<1>2. CASE workerState # "RUNNING"
  <2>1. UNCHANGED <<queue, notifying>>
    BY <1>2 DEF AsyncTask
  <2> QED
    BY <1>1, <2>1 DEF WakeInv, SleepersAreNotNeeded, EndIsKnown, Woken
<1>3. CASE workerState = "RUNNING"
  <2>1. queue' = Append(queue, t) /\ notifying' = notifying \cup {t}
    BY <1>3 DEF AsyncTask
  <2>2. Len(queue') = Len(queue) + 1 /\ Len(queue) \in Nat
    BY <2>1 DEF IInv, TypeOK
  <2>3. IsFiniteSet(notifying') /\ Cardinality(notifying') = Cardinality(notifying) + 1
    BY <1>1, <2>1, FS_AddElement DEF WakeInv
  <2>4. SleepersAreNotNeeded'
    <3>1. /\ Cardinality(Woken) \in Nat /\ Cardinality(notifying) \in Nat
          /\ Waiting # {} => Len(queue) <= Cardinality(notifying) + Cardinality(Woken)
      BY PlacesAreFinite DEF WakeInv, SleepersAreNotNeeded, Woken
    <3>2. SUFFICES ASSUME Waiting' # {}
                   PROVE  Len(queue') <= Cardinality(notifying') + Cardinality(Woken')
      BY Zenon DEF SleepersAreNotNeeded, Woken
    <3>3. Waiting # {} /\ Cardinality(Woken') = Cardinality(Woken)
      BY <1>1, <3>2, Zenon
    <3> QED
      BY <2>2, <2>3, <3>1, <3>3
  <2>5. EndIsKnown'
    BY <1>1, <1>3 DEF WakeInv, EndIsKnown
  <2> QED
    BY <2>3, <2>4, <2>5 DEF WakeInv
<1> QED
  BY <1>2, <1>3

\* notify_one: a caller less, and a worker awake more if one was asleep.
LEMMA NotifyTaskWakes ==
    ASSUME IInv, WakeInv, NEW t \in Tasks, NotifyTask(t)
    PROVE  WakeInv'
<1>1. /\ t \in notifying /\ notifying' = notifying \ {t}
      /\ UNCHANGED <<workerState, queue, closer, late>> /\ Len(queue) \in Nat
  BY DEF NotifyTask, IInv, TypeOK
<1>2. IsFiniteSet(notifying') /\ Cardinality(notifying') = Cardinality(notifying) - 1
  BY <1>1, FS_RemoveElement DEF WakeInv
<1>3. CASE Waiting = {}
  <2>1. worker' = worker
    BY <1>3 DEF NotifyTask, NotifyOne
  <2>2. Waiting' = {} /\ Locking' = Locking
    BY <1>3, <2>1 DEF Waiting, Locking, At
  <2> QED
    BY <1>1, <1>2, <2>2 DEF WakeInv, SleepersAreNotNeeded, EndIsKnown
<1>4. CASE Waiting # {}
  <2>1. PICK w \in Waiting : worker' = [worker EXCEPT ![w].pc = "woken"]
    BY <1>4 DEF NotifyTask, NotifyOne
  <2>2. w \in Workers /\ worker[w] \in WorkerType /\ w \notin Woken /\ w \notin Locking
    BY DEF Waiting, Woken, Locking, At, IInv, TypeOK
  <2> DEFINE r == [worker[w] EXCEPT !.pc = "woken"]
  <2>3. r \in WorkerType /\ r.pc = "woken" /\ worker' = [worker EXCEPT ![w] = r]
    BY <2>1, <2>2 DEF WorkerType, IInv, TypeOK
  <2> HIDE DEF r
  <2>4. Waiting' = Waiting \ {w} /\ Woken' = Woken \cup {w} /\ Locking' = Locking
    <3>1. /\ r.pc # "wait" /\ r.pc = "woken" /\ r.pc # "lock"
          /\ Locking \ {w} = Locking
      BY <2>2, <2>3
    <3> QED
      BY <2>2, <2>3, <3>1, MoveFacts, Zenon
  <2>5. Cardinality(Woken') = Cardinality(Woken) + 1
    BY <2>2, <2>4, PlacesAreFinite, FS_AddElement
  <2>6. SleepersAreNotNeeded'
    BY <1>1, <1>2, <1>4, <2>5, PlacesAreFinite DEF WakeInv, SleepersAreNotNeeded, Woken
  <2>7. EndIsKnown'
    BY <1>1, <2>4 DEF WakeInv, EndIsKnown
  <2> QED
    BY <1>2, <2>6, <2>7 DEF WakeInv
<1> QED
  BY <1>3, <1>4

\* A step that lets no worker go to sleep or come to the lock, wakes none too few and
\* makes the queue no longer.
LEMMA NobodySleeps ==
    ASSUME IInv, WakeInv, UNCHANGED <<workerState, notifying, closer, late>>,
           Waiting' \subseteq Waiting, Locking' \subseteq Locking,
           queue = <<>> => queue' = <<>>,
           \/ queue' = <<>>
           \/ Len(queue') - Cardinality(Woken') <= Len(queue) - Cardinality(Woken),
           queue' \in Seq(Tasks)
    PROVE  WakeInv'
<1>1. Len(queue) \in Nat /\ Len(queue') \in Nat /\ (queue' = <<>> => Len(queue') = 0)
  BY DEF IInv, TypeOK
<1>2. Cardinality(Woken) \in Nat /\ Cardinality(Woken') \in Nat /\ Cardinality(notifying) \in Nat
  <2>1. Woken' \subseteq Workers
    BY DEF Woken
  <2>2. Cardinality(Woken') \in Nat
    BY <2>1, WorkersAssumption, FS_Subset, FS_CardinalityType
  <2> QED
    BY <2>2, PlacesAreFinite DEF WakeInv
<1>3. SleepersAreNotNeeded'
  <2> SUFFICES ASSUME Waiting' # {}
               PROVE  Len(queue') <= Cardinality(notifying) + Cardinality(Woken')
    BY DEF SleepersAreNotNeeded, Woken
  <2>1. Len(queue) <= Cardinality(notifying) + Cardinality(Woken)
    BY DEF WakeInv, SleepersAreNotNeeded, Woken
  <2> QED
    BY <1>1, <1>2, <2>1
<1>4. EndIsKnown'
  BY DEF WakeInv, EndIsKnown
<1> QED
  BY <1>3, <1>4 DEF WakeInv

\* A worker with the mutex: woken, it takes the task it was woken for, or there is none.
LEMMA TakeWakes ==
    ASSUME IInv, WakeInv, NEW w \in Workers, At(w, "lock") \/ At(w, "woken"), Take(w), Unlocked,
           UNCHANGED <<workerState, notifying, closer, late>>
    PROVE  WakeInv'
<1>0. queue \in Seq(Tasks) /\ w \notin Waiting
  BY DEF IInv, TypeOK, Waiting, At
<1>1. Cardinality(Woken \ {w}) \in Nat /\ Cardinality(Woken) \in Nat
      /\ Cardinality(Woken \ {w}) >= Cardinality(Woken) - 1
      /\ Cardinality(Woken \ {w}) <= Cardinality(Woken)
  <2>1. w \in Woken => Cardinality(Woken \ {w}) = Cardinality(Woken) - 1
    BY PlacesAreFinite, FS_RemoveElement
  <2>2. w \notin Woken => Woken \ {w} = Woken
    OBVIOUS
  <2>3. Cardinality(Woken \ {w}) \in Nat
    BY PlacesAreFinite, FS_Subset, FS_CardinalityType
  <2> QED
    BY <2>1, <2>2, <2>3, PlacesAreFinite
<1>2. CASE queue # <<>> /\ workerState # "TERMINATED"
  <2>1. /\ worker' = [worker EXCEPT ![w] = [pc |-> "run", task |-> Head(queue)]]
        /\ queue' = Tail(queue)
    BY <1>2 DEF Take
  <2> DEFINE r == [pc |-> "run", task |-> Head(queue)]
  <2>2. r \in WorkerType /\ r.pc = "run"
    BY <1>2, HeadOfQueue DEF WorkerType
  <2>3. worker' = [worker EXCEPT ![w] = r]
    BY <2>1
  <2> HIDE DEF r
  <2>4. Waiting' = Waiting /\ Woken' = Woken \ {w} /\ Locking' = Locking \ {w}
    <3>1. /\ r.pc # "wait" /\ r.pc # "woken" /\ r.pc # "lock"
          /\ Waiting \ {w} = Waiting
      BY <1>0, <2>2
    <3> QED
      BY <2>2, <2>3, <3>1, MoveFacts, Zenon
  <2>5. queue' \in Seq(Tasks) /\ Len(queue') = Len(queue) - 1 /\ Len(queue) \in Nat
    BY <1>0, <1>2, <2>1
  <2>6. Len(queue') - Cardinality(Woken') <= Len(queue) - Cardinality(Woken)
    BY <1>1, <2>4, <2>5
  <2> QED
    BY <1>2, <2>4, <2>5, <2>6, NobodySleeps
<1>3. CASE ~ (queue # <<>> /\ workerState # "TERMINATED")
  <2>1. Goto(w, "test") /\ UNCHANGED queue
    BY <1>3 DEF Take
  <2>2. Waiting' = Waiting /\ Woken' = Woken \ {w} /\ Locking' = Locking \ {w}
    <3>1. /\ "test" \in {"test", "lock", "wait", "woken", "ended"}
          /\ "test" # "wait" /\ "test" # "woken" /\ "test" # "lock"
          /\ Waiting \ {w} = Waiting
      BY <1>0
    <3> QED
      BY <2>1, <3>1, GotoMoves, Zenon
  <2>3. queue = <<>>
    BY <1>3 DEF WakeInv, EndIsKnown, Unlocked, IInv, TypeOK
  <2> QED
    BY <1>0, <2>1, <2>2, <2>3, NobodySleeps
<1> QED
  BY <1>2, <1>3

\* Every step of workerLoop, and a spurious wake-up.
LEMMA WorkerWakes ==
    ASSUME IInv, WakeInv, NEW w \in Workers, WorkerLoop(w) \/ SpuriousWakeup(w)
    PROVE  WakeInv'
<1>0. queue \in Seq(Tasks) /\ Len(queue) \in Nat /\ Cardinality(Woken) \in Nat
  BY PlacesAreFinite DEF IInv, TypeOK
<1>1. CASE TestState(w)
  <2>1. /\ w \notin Waiting /\ w \notin Woken /\ UNCHANGED <<queue, workerState, notifying, closer, late>>
        /\ Goto(w, IF workerState # "TERMINATED" THEN "lock" ELSE "ended")
    BY <1>1 DEF TestState, Waiting, Woken, At
  <2>2. CASE workerState = "TERMINATED"
    <3>1. Goto(w, "ended")
      BY <2>1, <2>2
    <3>2. Waiting' = Waiting /\ Woken' = Woken /\ Locking' \subseteq Locking
      BY <2>1, <3>1, GotoMoves
    <3> QED
      BY <1>0, <2>1, <3>2, NobodySleeps
  <2>3. CASE workerState # "TERMINATED"
    <3>1. Goto(w, "lock")
      BY <2>1, <2>3
    <3>2. Waiting' = Waiting /\ Woken' = Woken
      BY <2>1, <3>1, GotoMoves
    <3> QED
      BY <2>1, <2>3, <3>2 DEF WakeInv, SleepersAreNotNeeded, EndIsKnown, Woken
  <2> QED
    BY <2>2, <2>3
<1>2. CASE LockQueue(w) /\ queue = <<>>
  <2>1. /\ Goto(w, "wait") /\ w \in Locking
        /\ UNCHANGED <<queue, workerState, notifying, closer, late>>
    BY <1>2 DEF LockQueue, Locking
  <2>2. Waiting' = Waiting \cup {w} /\ Woken' = Woken \ {w} /\ Locking' = Locking \ {w}
    BY <2>1, GotoMoves
  <2>3. EndIsKnown'
    BY <2>1, <2>2 DEF WakeInv, EndIsKnown
  <2>4. Cardinality(notifying') \in Nat /\ Cardinality(Woken') \in Nat
    BY <2>1, <2>2, PlacesAreFinite, FS_Subset, FS_CardinalityType DEF WakeInv
  <2>5. SleepersAreNotNeeded'
    BY <1>2, <2>1, <2>4 DEF SleepersAreNotNeeded, Woken
  <2> QED
    BY <2>1, <2>3, <2>5 DEF WakeInv
<1>3. CASE LockQueue(w) /\ queue # <<>>
  BY <1>3, TakeWakes DEF LockQueue
<1>4. CASE WaitReturns(w)
  BY <1>4, TakeWakes DEF WaitReturns
<1>5. CASE SpuriousWakeup(w)
  <2>1. /\ Goto(w, "woken") /\ w \in Waiting /\ w \notin Woken /\ w \notin Locking
        /\ UNCHANGED <<queue, workerState, notifying, closer, late>>
    BY <1>5 DEF SpuriousWakeup, Waiting, Woken, Locking, At
  <2>2. Waiting' = Waiting \ {w} /\ Woken' = Woken \cup {w} /\ Locking' = Locking
    BY <2>1, GotoMoves
  <2>3. Cardinality(Woken') = Cardinality(Woken) + 1
    BY <2>1, <2>2, PlacesAreFinite, FS_AddElement
  <2> QED
    BY <1>0, <2>1, <2>2, <2>3, NobodySleeps
<1>6. CASE RunTask(w)
  <2>1. /\ Goto(w, "test") /\ w \notin Waiting /\ w \notin Woken
        /\ UNCHANGED <<queue, workerState, notifying, closer, late>>
    BY <1>6 DEF RunTask, Waiting, Woken, At
  <2>2. Waiting' = Waiting /\ Woken' = Woken /\ Locking' \subseteq Locking
    BY <2>1, GotoMoves
  <2> QED
    BY <1>0, <2>1, <2>2, NobodySleeps
<1> QED
  BY <1>1, <1>2, <1>3, <1>4, <1>5, <1>6 DEF WorkerLoop

\* The end of the pool: notify_all leaves nobody asleep.
LEMMA ClosingWakes ==
    ASSUME IInv, WakeInv, StopWorkers \/ ShutdownWorkers \/ Closing
    PROVE  WakeInv'
<1>1. CASE DrainTask
  <2>1. /\ queue # <<>> /\ queue' = Tail(queue) /\ closer = "drain"
        /\ UNCHANGED <<workerState, worker, notifying, closer, late>>
    BY <1>1 DEF DrainTask
  <2>2. Waiting' = Waiting /\ Woken' = Woken /\ Locking' = Locking
    BY <2>1 DEF Waiting, Woken, Locking, At
  <2>3. queue' \in Seq(Tasks) /\ Len(queue') = Len(queue) - 1 /\ Len(queue) \in Nat
    BY <2>1 DEF IInv, TypeOK
  <2> QED
    BY <2>1, <2>2, <2>3, PlacesAreFinite, NobodySleeps
<1>2. CASE NotifyWorkers
  <2>1. /\ NotifyAll /\ closer = "notify" /\ closer' = "join"
        /\ UNCHANGED <<workerState, queue, notifying, late>>
    BY <1>2 DEF NotifyWorkers
  <2>2. \A w \in Workers : /\ worker'[w].pc # "wait"
                           /\ worker'[w].pc = "lock" => worker[w].pc = "lock"
    <3> SUFFICES ASSUME NEW w \in Workers
                 PROVE  /\ worker'[w].pc # "wait"
                        /\ worker'[w].pc = "lock" => worker[w].pc = "lock"
      OBVIOUS
    <3>1. worker'[w] = IF At(w, "wait") THEN [worker[w] EXCEPT !.pc = "woken"] ELSE worker[w]
      BY <2>1 DEF NotifyAll
    <3>2. worker[w] \in WorkerType
      BY DEF IInv, TypeOK
    <3> QED
      BY <3>1, <3>2 DEF At, WorkerType
  <2>3. Waiting' = {} /\ Locking' \subseteq Locking
    BY <2>2 DEF Waiting, Locking, At
  <2> QED
    BY <2>1, <2>3 DEF WakeInv, SleepersAreNotNeeded, EndIsKnown
<1>3. CASE StopWorkers \/ ShutdownWorkers \/ UnlockQueue \/ JoinWorkers
  <2>1. UNCHANGED <<queue, worker, notifying>>
    BY <1>3 DEF StopWorkers, ShutdownWorkers, UnlockQueue, JoinWorkers
  <2>2. Waiting' = Waiting /\ Woken' = Woken /\ Locking' = Locking
    BY <2>1 DEF Waiting, Woken, Locking, At
  <2>3. SleepersAreNotNeeded'
    BY <2>1, <2>2 DEF WakeInv, SleepersAreNotNeeded, Woken
  <2>4. EndIsKnown'
    BY <1>3, <2>1, <2>2 DEF WakeInv, EndIsKnown, StopWorkers, ShutdownWorkers, UnlockQueue,
       JoinWorkers, Locking
  <2> QED
    BY <2>1, <2>3, <2>4 DEF WakeInv
<1> QED
  BY <1>1, <1>2, <1>3 DEF Closing

\* Every step of the pool keeps the notifications and the end.
LEMMA StepWakes == ASSUME IInv, WakeInv, [Next]_vars PROVE WakeInv'
<1>1. CASE UNCHANGED vars
  BY <1>1 DEF vars, WakeInv, SleepersAreNotNeeded, EndIsKnown, Waiting, Locking, At
<1>2. CASE Next
  BY <1>2, AsyncTaskWakes, NotifyTaskWakes, WorkerWakes, ClosingWakes, Zenon DEF Next
<1> QED
  BY <1>1, <1>2

\* startWorkers begins with an empty queue and nobody asleep.
LEMMA InitWakes == Init => WakeInv
<1> SUFFICES ASSUME Init PROVE WakeInv
  OBVIOUS
<1>1. Waiting = {} /\ IsFiniteSet(notifying)
  BY FS_EmptySet DEF Init, Waiting, Fresh
<1> QED
  BY <1>1 DEF Init, WakeInv, SleepersAreNotNeeded, EndIsKnown

\* So they hold throughout.
LEMMA WakesAlways == Spec => []WakeInv
<1>1. IInv /\ WakeInv /\ [Next]_vars => WakeInv'
  BY StepWakes
<1> QED
  BY InitWakes, <1>1, WorkersInvariance, PTL DEF Spec

\* With any number of workers: while a workerLoop sleeps in s_taskCv.wait, there are at
\* least as many notifications on their way, or workers woken by one, as tasks queued.
THEOREM NoTaskIsOverslept == Spec => []SleepersAreNotNeeded
<1>1. WakeInv => SleepersAreNotNeeded
  BY DEF WakeInv
<1> QED
  BY WakesAlways, <1>1, PTL

\* joinWorkers can only hang for a worker that had tested s_workerState, and not yet
\* locked, when shutdownWorkers terminated the pool; no task is left behind.
THEOREM JoinWaitsForLate == Spec => []SleepersWereLate
<1>1. WakeInv => SleepersWereLate
  BY DEF WakeInv, EndIsKnown, SleepersWereLate
<1> QED
  BY WakesAlways, <1>1, PTL

\* Both together: with any number of workers, one that sleeps in s_taskCv.wait is not
\* needed for a queued task and, when joinWorkers waits, was late at the shutdown.
THEOREM SleepersExcused == Spec => []SleepersAreExcused
<1>1. SleepersAreNotNeeded /\ SleepersWereLate => SleepersAreExcused
  BY DEF SleepersAreExcused
<1> QED
  BY NoTaskIsOverslept, JoinWaitsForLate, <1>1, PTL
=============================================================================
