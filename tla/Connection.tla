----------------------------- MODULE Connection -----------------------------
(* The life of the login server's TCP connections: class Connection, the      *)
(* Protocol object attached to it, the one OutputMessage it may be sent, and  *)
(* the three kinds of thread that work on them.                               *)
(*                                                                            *)
(*  - service threads run the completion handlers of the io_context (reads,   *)
(*    writes, timers, posted functions);                                      *)
(*  - the dispatcher thread runs the tasks of one list (taskList) in order;   *)
(*  - the scheduler thread puts retries (events) at the front of that list.   *)
(*                                                                            *)
(* Every handler of Connection holds m_connectionLock from its first to its   *)
(* last statement, so a handler is one step. ProtocolLogin::delegate holds it *)
(* only inside the calls it makes, so delegate is one step per call.          *)
(* Tasks, retries and onStop are bound to raw pointers; the completion        *)
(* handlers own a share of the connection, the timers a weak pointer.         *)
EXTENDS Integers, Sequences, FiniteSets, SequencesExt

CONSTANTS
    Conns,           \* the connections that will be accepted
    ServiceThreads   \* threads in io_context::run()

ASSUME ServiceThreadsAssumption == ServiceThreads \in Nat \ {0}

VARIABLES
    conn,      \* conn[c]: the members of connection c, see ConnType
    taskList,  \* Dispatcher::m_taskList
    running,   \* the delegate task the dispatcher is in the middle of, if any
    events     \* retries waiting in the scheduler

vars == <<conn, taskList, running, events>>

-----------------------------------------------------------------------------
(* Types.                                                                     *)

Outcomes == {"ok", "failed", "aborted"}
ReadHandlers == {"parseHeader", "parsePacket"}
\* Handlers that own a Connection_ptr; a timeout handler owns one once its weak
\* pointer has been locked (it is then called "on...").
OwningHandlers ==
    ReadHandlers \cup {"onWrite", "~onWrite", "onReadTimeout", "onWriteTimeout"}
HandlerNames == OwningHandlers \cup {"handleReadTimeout", "handleWriteTimeout", "onStop"}
Handler == [h : HandlerNames, err : Outcomes]

TaskNames == {"closeConnection", "delegate", "internalReleaseMessage",
              "releaseConnection", "releaseProtocol"}
Task == [t : TaskNames, c : Conns]
Retry == [t : {"releaseConnection", "releaseProtocol"}, c : Conns]

\* "NONE" is a connection that has not been accepted yet.
States == {"NONE", "OPEN", "REQUEST_CLOSE", "CLOSING", "CLOSED"}

ConnType ==
    [state : States,
     socket : {"open", "closed", "deleted"},  \* deleted: m_socket is NULL
     pendingRead : Int, pendingWrite : Int,
     readError : BOOLEAN, writeError : BOOLEAN, receivedFirst : BOOLEAN,
     refCount : Int,                           \* Connection::m_refCount
     proto : {"none", "attached", "detached", "deleted"},
     protoRefs : Int,                          \* Protocol::m_refCount
     managed : BOOLEAN,                        \* listed in m_connections
     reading : ReadHandlers \cup {"none"},     \* the read in the kernel, by its handler
     writing : BOOLEAN,                        \* a write in the kernel
     readTimer : BOOLEAN, writeTimer : BOOLEAN,
     ready : Seq(Handler)]                     \* handlers queued in the io_context

Idle == [pc |-> "idle"]
RunningType == {Idle} \cup [pc : {"send", "close"}, c : Conns]

TypeOK ==
    /\ conn \in [Conns -> ConnType]
    /\ taskList \in Seq(Task)
    /\ running \in RunningType
    /\ events \in SUBSET Retry

NewConnection ==
    [state |-> "NONE", socket |-> "open", pendingRead |-> 0, pendingWrite |-> 0,
     readError |-> FALSE, writeError |-> FALSE, receivedFirst |-> FALSE,
     refCount |-> 0, proto |-> "none", protoRefs |-> 0, managed |-> FALSE,
     reading |-> "none", writing |-> FALSE,
     readTimer |-> FALSE, writeTimer |-> FALSE, ready |-> <<>>]

Init ==
    /\ conn = [c \in Conns |-> NewConnection]
    /\ taskList = <<>>
    /\ running = Idle
    /\ events = {}

-----------------------------------------------------------------------------
(* What the member functions do to the connection's own state r.              *)

OnReady(name, err) == <<[h |-> name, err |-> err]>>

\* Closing a socket completes what is outstanding on it with operation_aborted.
Aborted(r) ==
    (IF r.reading = "none" THEN <<>> ELSE OnReady(r.reading, "aborted"))
    \o (IF r.writing THEN OnReady("onWrite", "aborted") ELSE <<>>)

CloseSocket(r) ==
    IF r.socket # "open" THEN r
    ELSE [r EXCEPT !.socket = "closed", !.pendingRead = 0, !.pendingWrite = 0,
                   !.reading = "none", !.writing = FALSE,
                   !.ready = @ \o Aborted(r)]

\* Connection::close, without its task: see CloseTask.
Close(r) == IF r.state = "OPEN" THEN [r EXCEPT !.state = "REQUEST_CLOSE"] ELSE r

\* The task close() appends when it moves the connection out of OPEN.
CloseTaskTwice(c, before, after) ==
    IF after.state = "REQUEST_CLOSE"
    THEN <<[t |-> "closeConnection", c |-> c]>> ELSE <<>>

CloseTask(c, before, after) ==
    IF before.state = "OPEN" /\ after.state = "REQUEST_CLOSE"
    THEN <<[t |-> "closeConnection", c |-> c]>> ELSE <<>>

\* Dispatcher::addTask at the back of the list, and with front = true.
AddTaskAtFront(list, tasks) == tasks \o list
AddTask(list, tasks) == list \o tasks
AddTaskFront(list, tasks) == tasks \o list

\* handleReadError, handleWriteError: an abort does not ask for the close.
HandleReadError(r, err) ==
    [(IF err = "aborted" THEN r ELSE Close(r)) EXCEPT !.readError = TRUE]
HandleWriteError(r, err) ==
    [(IF err = "aborted" THEN r ELSE Close(r)) EXCEPT !.writeError = TRUE]

\* Count the read, arm its timer and start it.
StartReadUncounted(r, handler) == [r EXCEPT !.readTimer = TRUE, !.reading = handler]
StartReadUntimed(r, handler) == [r EXCEPT !.pendingRead = @ + 1, !.reading = handler]
StartRead(r, handler) ==
    [r EXCEPT !.pendingRead = @ + 1, !.readTimer = TRUE, !.reading = handler]

\* OutputMessagePool::configureOutputMessage: the message holds a reference on the
\* protocol and one on the connection.
GetOutputMessageUncounted(r) == [r EXCEPT !.protoRefs = @ + 1]
GetOutputMessage(r) == [r EXCEPT !.protoRefs = @ + 1, !.refCount = @ + 1]

Sendable(r) == r.state = "OPEN" /\ ~r.writeError

\* Connection::send with its internalSend. No second message is ever handed to a
\* connection (invariant OneMessage), so the branches for a busy connection are not
\* reached.
Send(r) ==
    IF Sendable(r)
    THEN [r EXCEPT !.pendingWrite = @ + 1, !.writeTimer = TRUE, !.writing = TRUE]
    ELSE r

\* OutputMessagePool::releaseMessage, the deleter of a message nobody owns any more.
ReleaseMessageForgotten(c) == <<>>
ReleaseMessage(c) == <<[t |-> "internalReleaseMessage", c |-> c]>>

\* A message that no write will carry goes straight back to the pool.
DropTask(c, r) == IF Sendable(r) THEN <<>> ELSE ReleaseMessage(c)

-----------------------------------------------------------------------------
(* The peer and the kernel.                                                   *)

\* ConnectionManager::createConnection
CreateConnection(r) == [r EXCEPT !.state = "OPEN", !.managed = TRUE]

\* The service port accepts a socket: createConnection, then accept().
Accept(c) ==
    /\ conn[c].state = "NONE"
    /\ conn' = [conn EXCEPT ![c] = StartRead(CreateConnection(@), "parseHeader")]
    /\ UNCHANGED <<taskList, running, events>>

CompleteRead(c) ==
    /\ conn[c].reading # "none"
    /\ \E err \in {"ok", "failed"} :
         conn' = [conn EXCEPT ![c].ready = @ \o OnReady(conn[c].reading, err),
                              ![c].reading = "none"]
    /\ UNCHANGED <<taskList, running, events>>

CompleteWrite(c) ==
    /\ conn[c].writing
    /\ \E err \in {"ok", "failed"} :
         conn' = [conn EXCEPT ![c].ready = @ \o OnReady("onWrite", err),
                              ![c].writing = FALSE]
    /\ UNCHANGED <<taskList, running, events>>

\* An expired timer's handler is queued; a later cancel() no longer reaches it.
ExpireReadTimer(c) ==
    /\ conn[c].readTimer
    /\ conn' = [conn EXCEPT ![c].readTimer = FALSE,
                            ![c].ready = @ \o OnReady("handleReadTimeout", "ok")]
    /\ UNCHANGED <<taskList, running, events>>

ExpireWriteTimer(c) ==
    /\ conn[c].writeTimer
    /\ conn' = [conn EXCEPT ![c].writeTimer = FALSE,
                            ![c].ready = @ \o OnReady("handleWriteTimeout", "ok")]
    /\ UNCHANGED <<taskList, running, events>>

-----------------------------------------------------------------------------
(* Service threads: handlers are started in the order they became ready, and   *)
(* as many as there are threads are in progress together, in any order.        *)

InProgress(c) == {i \in DOMAIN conn[c].ready : i <= ServiceThreads}

\* Handler i of c, called name, is executed and leaves the queue; r is the
\* connection without it.
Handles(c, i, name) == i \in InProgress(c) /\ conn[c].ready[i].h = name
Without(c, i) == [conn[c] EXCEPT !.ready = RemoveAt(@, i)]

\* Parse steps stop, asking for the close, unless the connection is open and sound.
Unusable(r) == r.state # "OPEN" \/ r.readError

\* "failed" stands for every read error and for a size out of range.
ParseHeader(c, i) ==
    LET err == conn[c].ready[i].err
        r == [Without(c, i) EXCEPT !.readTimer = FALSE]
        checked == IF err = "ok" THEN r ELSE HandleReadError(r, err)
        after == IF Unusable(checked) THEN Close(checked)
                 ELSE StartRead([checked EXCEPT !.pendingRead = @ - 1], "parsePacket")
    IN  /\ Handles(c, i, "parseHeader")
        /\ conn' = [conn EXCEPT ![c] = after]
        /\ taskList' = AddTask(taskList, CloseTask(c, conn[c], after))
        /\ UNCHANGED <<running, events>>

\* parsePacket up to the point where the packet is given to the protocol.
PacketStart(c, i) ==
    LET err == conn[c].ready[i].err
        r == [Without(c, i) EXCEPT !.readTimer = FALSE]
    IN  IF err = "ok" THEN r ELSE HandleReadError(r, err)

\* parsePacket when it returns early: a read error, a connection already closing, or
\* more packets per second than allowed.
ParsePacketRefused(c, i) ==
    LET r == PacketStart(c, i)
        after == Close(r)
    IN  /\ Handles(c, i, "parsePacket")
        /\ conn' = [conn EXCEPT ![c] = after]
        /\ taskList' = AddTask(taskList, CloseTask(c, conn[c], after))
        /\ UNCHANGED <<running, events>>

\* The first packet names no protocol of this port.
ParsePacketNoProtocol(c, i) ==
    LET r == PacketStart(c, i)
        after == Close([r EXCEPT !.pendingRead = @ - 1, !.receivedFirst = TRUE])
    IN  /\ Handles(c, i, "parsePacket")
        /\ ~Unusable(r) /\ ~r.receivedFirst
        /\ conn' = [conn EXCEPT ![c] = after]
        /\ taskList' = AddTask(taskList, CloseTask(c, conn[c], after))
        /\ UNCHANGED <<running, events>>

\* The state in which the protocol gets its first message.
WithProtocol(c, i) ==
    [PacketStart(c, i) EXCEPT !.pendingRead = @ - 1, !.receivedFirst = TRUE,
                              !.proto = "attached"]

\* onRecvFirstMessage cannot decrypt the message: close, but read on.
ParsePacketUndecryptable(c, i) ==
    LET r == WithProtocol(c, i)
        after == StartRead(Close(r), "parseHeader")
    IN  /\ Handles(c, i, "parsePacket")
        /\ ~Unusable(r) /\ ~PacketStart(c, i).receivedFirst
        /\ conn' = [conn EXCEPT ![c] = after]
        /\ taskList' = AddTask(taskList, CloseTask(c, conn[c], after))
        /\ UNCHANGED <<running, events>>

\* onRecvFirstMessage disconnects a client of a wrong version, or a disabled one.
ParsePacketDisconnect(c, i) ==
    LET r == WithProtocol(c, i)
        after == StartRead(Close(Send(GetOutputMessage(r))), "parseHeader")
    IN  /\ Handles(c, i, "parsePacket")
        /\ ~Unusable(r) /\ ~PacketStart(c, i).receivedFirst
        /\ conn' = [conn EXCEPT ![c] = after]
        /\ taskList' = AddTask(AddTaskFront(taskList, DropTask(c, r)),
                               CloseTask(c, conn[c], after))
        /\ UNCHANGED <<running, events>>

\* onRecvFirstMessage hands the login to the dispatcher.
ParsePacketLogin(c, i) ==
    LET r == WithProtocol(c, i)
    IN  /\ Handles(c, i, "parsePacket")
        /\ ~Unusable(r) /\ ~PacketStart(c, i).receivedFirst
        /\ conn' = [conn EXCEPT ![c] = StartRead(r, "parseHeader")]
        /\ taskList' = AddTask(taskList, <<[t |-> "delegate", c |-> c]>>)
        /\ UNCHANGED <<running, events>>

\* Later packets are decrypted and ignored by the login protocol.
ParsePacketLater(c, i) ==
    LET r == PacketStart(c, i)
    IN  /\ Handles(c, i, "parsePacket")
        /\ ~Unusable(r) /\ r.receivedFirst
        /\ conn' = [conn EXCEPT ![c] =
                      StartRead([r EXCEPT !.pendingRead = @ - 1], "parseHeader")]
        /\ UNCHANGED <<taskList, running, events>>

\* The bound handler still owns the message, and a share of the connection, when
\* onWrite has returned and unlocked: it is destroyed in a step of its own, "~onWrite".
OnWrite(c, i) ==
    LET err == conn[c].ready[i].err
        r == [conn[c] EXCEPT !.ready[i].h = "~onWrite", !.writeTimer = FALSE]
        checked == IF err = "ok" THEN r ELSE HandleWriteError(r, err)
        after == IF checked.state # "OPEN" \/ checked.writeError
                 THEN Close(CloseSocket(checked))
                 ELSE [checked EXCEPT !.pendingWrite = @ - 1]
    IN  /\ Handles(c, i, "onWrite")
        /\ conn' = [conn EXCEPT ![c] = after]
        /\ taskList' = AddTask(taskList, CloseTask(c, conn[c], after))
        /\ UNCHANGED <<running, events>>

\* The last owner of the message is gone: its deleter queues the release.
DestroyWrite(c, i) ==
    /\ Handles(c, i, "~onWrite")
    /\ conn' = [conn EXCEPT ![c] = Without(c, i)]
    /\ taskList' = AddTaskFront(taskList, ReleaseMessage(c))
    /\ UNCHANGED <<running, events>>

\* Somebody still owns the connection object: the manager's list, an operation, a
\* handler, the message or the protocol.
Alive(r) ==
    \/ r.managed
    \/ r.reading # "none" \/ r.writing
    \/ r.refCount > 0 \/ r.proto = "attached"
    \/ \E i \in DOMAIN r.ready : r.ready[i].h \in OwningHandlers

\* handleReadTimeout, handleWriteTimeout: lock the weak pointer or return.
HandleTimeout(c, i) ==
    LET name == IF conn[c].ready[i].h = "handleReadTimeout"
                THEN "onReadTimeout" ELSE "onWriteTimeout"
    IN  /\ \/ Handles(c, i, "handleReadTimeout")
           \/ Handles(c, i, "handleWriteTimeout")
        /\ conn' = [conn EXCEPT ![c] = IF Alive(conn[c])
                                       THEN [conn[c] EXCEPT !.ready[i].h = name]
                                       ELSE Without(c, i)]
        /\ UNCHANGED <<taskList, running, events>>

OnReadTimeout(c, i) ==
    LET r == Without(c, i)
        after == IF r.pendingRead > 0 \/ r.readError THEN Close(CloseSocket(r)) ELSE r
    IN  /\ Handles(c, i, "onReadTimeout")
        /\ conn' = [conn EXCEPT ![c] = after]
        /\ taskList' = AddTask(taskList, CloseTask(c, conn[c], after))
        /\ UNCHANGED <<running, events>>

OnWriteTimeout(c, i) ==
    LET r == Without(c, i)
        after == IF r.pendingWrite > 0 \/ r.writeError THEN Close(CloseSocket(r)) ELSE r
    IN  /\ Handles(c, i, "onWriteTimeout")
        /\ conn' = [conn EXCEPT ![c] = after]
        /\ taskList' = AddTask(taskList, CloseTask(c, conn[c], after))
        /\ UNCHANGED <<running, events>>

\* onStop: the end of the connection. A socket still open is closed first.
OnStop(c, i) ==
    LET r == Without(c, i)
    IN  /\ Handles(c, i, "onStop")
        /\ conn' = [conn EXCEPT ![c] =
             [r EXCEPT !.readTimer = FALSE, !.writeTimer = FALSE,
                       !.socket = "deleted", !.managed = FALSE,
                       !.reading = "none", !.writing = FALSE,
                       !.ready = IF r.socket = "open" THEN @ \o Aborted(r) ELSE @]]
        /\ UNCHANGED <<taskList, running, events>>

ServiceStep(c) ==
    \E i \in InProgress(c) :
        \/ ParseHeader(c, i)
        \/ ParsePacketRefused(c, i)
        \/ ParsePacketNoProtocol(c, i)
        \/ ParsePacketUndecryptable(c, i)
        \/ ParsePacketDisconnect(c, i)
        \/ ParsePacketLogin(c, i)
        \/ ParsePacketLater(c, i)
        \/ OnWrite(c, i)
        \/ DestroyWrite(c, i)
        \/ HandleTimeout(c, i)
        \/ OnReadTimeout(c, i)
        \/ OnWriteTimeout(c, i)
        \/ OnStop(c, i)

-----------------------------------------------------------------------------
(* The dispatcher thread.                                                     *)

\* The dispatcher takes task t of connection c off the list.
Takes(t, c) ==
    /\ running = Idle
    /\ taskList # <<>>
    /\ Head(taskList) = [t |-> t, c |-> c]

\* Protocol::releaseProtocol: delete it now or try again later.
ReleaseProtocolAtOnce(r) == "deleted"
ReleaseProtocol(r) == IF r.protoRefs > 0 THEN "detached" ELSE "deleted"
ProtocolRetryForgotten(c, r) == {}
ProtocolRetry(c, r) ==
    IF r.protoRefs > 0 THEN {[t |-> "releaseProtocol", c |-> c]} ELSE {}

\* Connection::releaseConnection: deleteConnection now or try again later.
ReleaseConnectionAtOnce(r) == [r EXCEPT !.ready = @ \o OnReady("onStop", "ok")]
ReleaseConnection(r) ==
    IF r.refCount > 0 THEN r ELSE [r EXCEPT !.ready = @ \o OnReady("onStop", "ok")]
ConnectionRetryForgotten(c, r) == {}
ConnectionRetryClosesAgain(c, r) ==
    IF r.refCount > 0 THEN {[t |-> "closeConnection", c |-> c]} ELSE {}
ConnectionRetry(c, r) ==
    IF r.refCount > 0 THEN {[t |-> "releaseConnection", c |-> c]} ELSE {}

\* The socket is closed and the connection released unless a write is under way.
Finishes(r) == r.pendingWrite = 0 \/ r.writeError

DetachProtocol(r) ==
    IF r.proto = "attached" THEN [r EXCEPT !.proto = ReleaseProtocol(r)] ELSE r

CloseConnection(c) ==
    LET r == conn[c]
        detached == [DetachProtocol(r) EXCEPT !.state = "CLOSING"]
        released == [ReleaseConnection(CloseSocket(detached)) EXCEPT !.state = "CLOSED"]
    IN  /\ Takes("closeConnection", c)
        /\ taskList' = Tail(taskList)
        /\ UNCHANGED running
        /\ IF r.state # "REQUEST_CLOSE"
           THEN UNCHANGED <<conn, events>>
           ELSE /\ conn' = [conn EXCEPT ![c] =
                              IF Finishes(r) THEN released ELSE detached]
                /\ events' = events
                     \cup (IF r.proto = "attached" THEN ProtocolRetry(c, r) ELSE {})
                     \cup (IF Finishes(r) THEN ConnectionRetry(c, r) ELSE {})

\* A releaseConnection or releaseProtocol retry.
RetryReleaseConnection(c) ==
    /\ Takes("releaseConnection", c)
    /\ taskList' = Tail(taskList)
    /\ conn' = [conn EXCEPT ![c] = ReleaseConnection(@)]
    /\ events' = events \cup ConnectionRetry(c, conn[c])
    /\ UNCHANGED running

RetryReleaseProtocol(c) ==
    /\ Takes("releaseProtocol", c)
    /\ taskList' = Tail(taskList)
    /\ conn' = [conn EXCEPT ![c].proto = ReleaseProtocol(conn[c])]
    /\ events' = events \cup ProtocolRetry(c, conn[c])
    /\ UNCHANGED running

\* OutputMessagePool::internalReleaseMessage
InternalReleaseMessage(c) ==
    /\ Takes("internalReleaseMessage", c)
    /\ taskList' = Tail(taskList)
    /\ conn' = [conn EXCEPT ![c].protoRefs = @ - 1, ![c].refCount = @ - 1]
    /\ UNCHANGED <<running, events>>

\* ProtocolLogin::delegate has judged the login and builds its answer, the
\* character list or an error: getOutputMessage ...
DelegateAnswer(c) ==
    /\ Takes("delegate", c)
    /\ taskList' = Tail(taskList)
    /\ conn' = [conn EXCEPT ![c] = GetOutputMessage(@)]
    /\ running' = [pc |-> "send", c |-> c]
    /\ UNCHANGED events

\* ... OutputMessagePool::send ...
DelegateSend(c) ==
    /\ running = [pc |-> "send", c |-> c]
    /\ conn' = [conn EXCEPT ![c] = Send(@)]
    /\ taskList' = AddTaskFront(taskList, DropTask(c, conn[c]))
    /\ running' = [pc |-> "close", c |-> c]
    /\ UNCHANGED events

\* ... and getConnection()->close().
DelegateClose(c) ==
    /\ running = [pc |-> "close", c |-> c]
    /\ conn' = [conn EXCEPT ![c] = Close(@)]
    /\ taskList' = AddTask(taskList, CloseTask(c, conn[c], Close(conn[c])))
    /\ running' = Idle
    /\ UNCHANGED events

DispatcherStep(c) ==
    \/ CloseConnection(c)
    \/ RetryReleaseConnection(c)
    \/ RetryReleaseProtocol(c)
    \/ InternalReleaseMessage(c)
    \/ DelegateAnswer(c)
    \/ DelegateSend(c)
    \/ DelegateClose(c)

\* The scheduler thread: a due retry goes to the front of the dispatcher's list.
SchedulerStep(e) ==
    /\ e \in events
    /\ events' = events \ {e}
    /\ taskList' = AddTaskFront(taskList, <<e>>)
    /\ UNCHANGED <<conn, running>>

-----------------------------------------------------------------------------
Next ==
    \/ \E c \in Conns :
         \/ Accept(c)
         \/ CompleteRead(c)
         \/ CompleteWrite(c)
         \/ ExpireReadTimer(c)
         \/ ExpireWriteTimer(c)
         \/ ServiceStep(c)
         \/ DispatcherStep(c)
    \/ \E e \in Retry : SchedulerStep(e)

Spec == Init /\ [][Next]_vars

(* Threads keep running, and a timer that is armed and not cancelled expires. *)
(* Peers owe nothing: a read or a write need never complete by itself. The    *)
(* scheduler can push a retry in front of a waiting task again and again; that *)
(* it does not win that race for ever is the strong fairness of the           *)
(* dispatcher's tasks: a retry travels through the scheduler's thread, while  *)
(* the dispatcher takes its next task at once.                                *)
Fairness ==
    /\ \A c \in Conns :
         /\ WF_vars(ExpireReadTimer(c))
         /\ WF_vars(ExpireWriteTimer(c))
         /\ WF_vars(ServiceStep(c))
         /\ SF_vars(CloseConnection(c))
         /\ SF_vars(RetryReleaseConnection(c))
         /\ SF_vars(RetryReleaseProtocol(c))
         /\ SF_vars(InternalReleaseMessage(c))
         /\ SF_vars(DelegateAnswer(c))
         /\ WF_vars(DelegateSend(c) \/ DelegateClose(c))
    /\ \A e \in Retry : WF_vars(SchedulerStep(e))

FairSpec == Spec /\ Fairness

-----------------------------------------------------------------------------
(* Safety.                                                                    *)

Positions(t, c) == {i \in DOMAIN taskList : taskList[i] = [t |-> t, c |-> c]}
Queued(t, c) == Positions(t, c) # {}
ReadyPositions(c, names) == {i \in DOMAIN conn[c].ready : conn[c].ready[i].h \in names}
One(b) == IF b THEN 1 ELSE 0

\* The dispatcher is inside delegate of c.
Delegating(c) == running \in [pc : {"send", "close"}, c : {c}]

\* delegate is bound to a raw Protocol pointer and calls getConnection()->close()
\* without a test: whenever it waits in the dispatcher's list or runs, its protocol
\* exists and still has its connection. Whoever asks for the close (peer, timeout,
\* delegate itself) can only append closeConnection behind the waiting delegate.
DelegateHasConnection ==
    \A c \in Conns :
        Queued("delegate", c) \/ Delegating(c) => conn[c].proto = "attached"

\* close() is called from many places and any thread, yet closeConnection runs once,
\* in REQUEST_CLOSE: its error branch is not reached and no close is lost.
CloseRunsOnce ==
    \A c \in Conns :
        /\ Queued("closeConnection", c) <=> conn[c].state = "REQUEST_CLOSE"
        /\ \A i, j \in Positions("closeConnection", c) : i = j

\* The chain closeConnection, releaseConnection retries, onStop is bound to a raw
\* Connection pointer. One link of it exists at a time, so onStop runs once; while there
\* is one the connection manager keeps the connection alive; and until onStop has run the
\* chain is not broken, but for CLOSING, where closeConnection ends it.
ConnectionReleasedOnce ==
    \A c \in Conns :
        LET links == Cardinality(Positions("closeConnection", c))
                     + Cardinality(Positions("releaseConnection", c))
                     + One([t |-> "releaseConnection", c |-> c] \in events)
                     + Cardinality(ReadyPositions(c, {"onStop"}))
            state == conn[c].state
        IN  /\ links <= 1
            /\ links = 1 => conn[c].managed
            /\ state \in {"REQUEST_CLOSE", "CLOSED"} /\ conn[c].managed => links = 1

\* releaseProtocol ends in "delete this" and is bound to a raw Protocol pointer: from the
\* moment closeConnection detaches a protocol that is still in use until it is deleted
\* there is exactly one retry, in the scheduler or in the list. A second would delete
\* the protocol twice, none would leave it for ever.
ProtocolReleasedOnce ==
    \A c \in Conns :
        Cardinality(Positions("releaseProtocol", c))
          + One([t |-> "releaseProtocol", c |-> c] \in events)
        = One(conn[c].proto = "detached")

\* So neither object is released twice or forgotten, whichever threads take part:
\* the connection's chain and the protocol's are both single and unbroken.
OneReleaseChain == ConnectionReleasedOnce /\ ProtocolReleasedOnce

\* A message's references on its protocol and its connection: both counters equal
\* the messages in existence (being built, in a write, or on their way back to the
\* pool), and there is never a second message, so Connection::send never meets a busy
\* connection.
OneMessage ==
    \A c \in Conns :
        LET inWrite == One(conn[c].writing)
                       + Cardinality(ReadyPositions(c, {"onWrite", "~onWrite"}))
            messages == One(running = [pc |-> "send", c |-> c]) + inWrite
                        + Cardinality(Positions("internalReleaseMessage", c))
        IN  /\ messages <= 1
            /\ conn[c].refCount = messages
            /\ conn[c].protoRefs = messages

\* internalReleaseMessage follows the message's protocol and connection pointers, and
\* the write uses the socket: none of them is gone while the message exists.
MessageOwnersExist ==
    \A c \in Conns :
        conn[c].refCount > 0 => /\ conn[c].proto \in {"attached", "detached"}
                                /\ conn[c].socket # "deleted"

\* What the counts promise for the message, and so for every thread that holds one: the
\* counts are right, and therefore what the message points to is there.
MessageIsOwned == OneMessage /\ MessageOwnersExist

\* An open connection has an open socket, is waiting for exactly one read, and its
\* counters say so: onReadTimeout and closeConnection decide by these counters.
OpenIsConsistent ==
    \A c \in Conns : LET r == conn[c] IN
        r.state = "OPEN" =>
            /\ r.socket = "open"
            /\ r.pendingRead = 1
            /\ One(r.reading # "none") + Cardinality(ReadyPositions(c, ReadHandlers)) = 1
            /\ r.pendingWrite = One(r.writing) + Cardinality(ReadyPositions(c, {"onWrite"}))

\* parsePacket uses m_protocol without a test after the first packet, and
\* closeConnection, on another thread, sets it to NULL.
OpenHasProtocol ==
    \A c \in Conns :
        conn[c].state = "OPEN" /\ conn[c].receivedFirst => conn[c].proto = "attached"

\* A handler that finds its connection OPEN may go on without further tests: socket,
\* counters and protocol are what it expects, whoever else is about to close it.
OpenIsUsable == OpenIsConsistent /\ OpenHasProtocol

\* onStop deletes m_socket while handlers of the connection may still be queued: none of
\* them is a write, and a timer that expired before cancel() finds nothing pending. With
\* one service thread no handler uses the socket any more; with several, a timeout does
\* when a handler of an aborted operation has set the error flag next to it.
SocketNotUsedAfterStop ==
    \A c \in Conns : LET r == conn[c] IN
        r.socket = "deleted" =>
            \A i \in DOMAIN r.ready :
                /\ r.ready[i].h # "onWrite"
                /\ r.ready[i].h = "onReadTimeout" =>
                     r.pendingRead = 0 /\ (r.readError => ServiceThreads > 1)
                /\ r.ready[i].h = "onWriteTimeout" =>
                     r.pendingWrite = 0 /\ (r.writeError => ServiceThreads > 1)

\* A read and a write share the life of the connection with timers that any later
\* operation cancels and arms anew: still every operation in the kernel has its timer
\* running or expired and not yet handled, and the timeout will find it pending. So no
\* operation of a silent client is left without somebody to close the socket.
OperationsAreTimed ==
    \A c \in Conns : LET r == conn[c] IN
        /\ r.reading # "none" =>
             /\ r.pendingRead > 0
             /\ r.readTimer \/ ReadyPositions(c, {"handleReadTimeout", "onReadTimeout"}) # {}
        /\ r.writing =>
             /\ r.pendingWrite > 0
             /\ r.writeTimer \/ ReadyPositions(c, {"handleWriteTimeout", "onWriteTimeout"}) # {}

-----------------------------------------------------------------------------
(* Reference counting, as CountedObject specifies it.                         *)

ConnectionPhase(r) ==
    CASE r.state = "NONE" -> "unborn"
      [] ~r.managed /\ r.state # "NONE" -> "freed"
      [] r.managed /\ r.state \in {"OPEN", "REQUEST_CLOSE"} -> "live"
      [] OTHER -> "retired"

ProtocolPhase(r) ==
    CASE r.proto = "none" -> "unborn"
      [] r.proto = "attached" -> "live"
      [] r.proto = "detached" -> "retired"
      [] OTHER -> "freed"

CountedConnection == INSTANCE CountedObject WITH
    Objects <- Conns,
    phase <- [c \in Conns |-> ConnectionPhase(conn[c])],
    refs <- [c \in Conns |-> conn[c].refCount]

CountedProtocol == INSTANCE CountedObject WITH
    Objects <- Conns,
    phase <- [c \in Conns |-> ProtocolPhase(conn[c])],
    refs <- [c \in Conns |-> conn[c].protoRefs]

\* m_refCount keeps the promise of a counted object for the connection: no message
\* takes a reference once closeConnection has run, and onStop frees the connection
\* only when no message refers to it.
ConnectionIsCounted == CountedConnection!Spec

\* The same for the protocol, which closeConnection or a retry deletes.
ProtocolIsCounted == CountedProtocol!Spec

-----------------------------------------------------------------------------
(* Liveness.                                                                  *)

\* No client can hold a socket for ever: stalled, silent or talkative, its socket is
\* closed in the end.
SocketCloses ==
    \A c \in Conns : conn[c].state = "OPEN" ~> conn[c].socket # "open"

\* A protocol that was attached is deleted in the end, whatever happens to its write.
ProtocolFreed ==
    \A c \in Conns : conn[c].proto = "attached" ~> conn[c].proto = "deleted"

\* A connection that reaches CLOSED leaves the connection manager's list.
ClosedIsReleased ==
    \A c \in Conns : conn[c].state = "CLOSED" ~> ~conn[c].managed

\* The handlers say of an aborted operation: "Operation aborted because connection
\* will be closed". A connection whose read was aborted should reach CLOSED.
AbortedReadIsClosed ==
    \A c \in Conns :
        (\E i \in DOMAIN conn[c].ready :
            /\ conn[c].ready[i].h \in ReadHandlers
            /\ conn[c].ready[i].err = "aborted")
        ~> conn[c].state = "CLOSED"
=============================================================================
