-------------------------- MODULE ConnectionProofs --------------------------
(* Proofs about Connection for any set of connections and any number of       *)
(* service threads: typing, and the order of the dispatcher's tasks on which  *)
(* the raw pointers of delegate and closeConnection depend.                   *)
EXTENDS Connection, TLAPS

-----------------------------------------------------------------------------
(* The inductive invariant.                                                   *)

\* A connection's close stands behind its login in the dispatcher's list.
DelegateBeforeClose ==
    \A c \in Conns :
        \A i \in Positions("closeConnection", c), j \in Positions("delegate", c) : j < i

\* Only a protocol that closeConnection has detached is being released.
RetriesAreDetached ==
    \A c \in Conns :
        Queued("releaseProtocol", c) \/ [t |-> "releaseProtocol", c |-> c] \in events
            => conn[c].proto \in {"detached", "deleted"}

\* The protocol is created by the first packet, which an open connection receives.
FirstPacketCreates ==
    \A c \in Conns :
        /\ ~conn[c].receivedFirst => conn[c].proto = "none"
        /\ conn[c].state = "NONE" => ~conn[c].receivedFirst

IInv ==
    /\ TypeOK
    /\ CloseRunsOnce
    /\ DelegateHasConnection
    /\ OpenHasProtocol
    /\ DelegateBeforeClose
    /\ RetriesAreDetached
    /\ FirstPacketCreates

-----------------------------------------------------------------------------
(* The member functions keep a connection well formed; what they do to the    *)
(* fields the invariant speaks of.                                            *)

SameLife(r, s) ==
    s.state = r.state /\ s.proto = r.proto /\ s.receivedFirst = r.receivedFirst

\* close() moves an open connection to REQUEST_CLOSE and leaves any other alone.
LEMMA CloseFacts ==
    ASSUME NEW r \in ConnType
    PROVE  /\ Close(r) \in ConnType
           /\ r.state = "OPEN" => Close(r).state = "REQUEST_CLOSE"
           /\ r.state # "OPEN" => Close(r).state = r.state
           /\ Close(r).proto = r.proto
           /\ Close(r).receivedFirst = r.receivedFirst
<1>1. CASE r.state = "OPEN"
  <2>1. Close(r) = [r EXCEPT !.state = "REQUEST_CLOSE"]
    BY <1>1, Zenon DEF Close
  <2> QED
    BY <1>1, <2>1, Zenon DEF ConnType, States
<1>2. CASE r.state # "OPEN"
  BY <1>2, Zenon DEF Close
<1> QED
  BY <1>1, <1>2

\* A handler that becomes ready is a well-formed entry of the queue.
LEMMA OnReadyFacts ==
    ASSUME NEW name \in HandlerNames, NEW err \in Outcomes
    PROVE  OnReady(name, err) \in Seq(Handler)
<1>1. [h |-> name, err |-> err] \in Handler
  BY DEF Handler
<1> QED
  BY <1>1 DEF OnReady

\* What closing the socket completes with an abort is a list of handlers.
LEMMA AbortedFacts ==
    ASSUME NEW r \in ConnType
    PROVE  Aborted(r) \in Seq(Handler)
<1>1. r.reading = "none" \/ r.reading \in HandlerNames
  BY Zenon DEF ConnType, HandlerNames, OwningHandlers
<1>2. /\ OnReady("onWrite", "aborted") \in Seq(Handler)
      /\ r.reading # "none" => OnReady(r.reading, "aborted") \in Seq(Handler)
  BY <1>1, OnReadyFacts, Zenon DEF HandlerNames, OwningHandlers, Outcomes
<1>3. /\ (IF r.reading = "none" THEN <<>> ELSE OnReady(r.reading, "aborted")) \in Seq(Handler)
      /\ (IF r.writing THEN OnReady("onWrite", "aborted") ELSE <<>>) \in Seq(Handler)
  BY <1>2
<1> QED
  BY <1>3 DEF Aborted

\* closeSocket touches the socket, never the state or the protocol.
LEMMA CloseSocketFacts ==
    ASSUME NEW r \in ConnType
    PROVE  CloseSocket(r) \in ConnType /\ SameLife(r, CloseSocket(r))
<1>1. Aborted(r) \in Seq(Handler) /\ r.ready \in Seq(Handler)
  BY AbortedFacts, Zenon DEF ConnType
<1>2. r.ready \o Aborted(r) \in Seq(Handler)
  BY <1>1
<1>3. 0 \in Int
  OBVIOUS
<1>4. CASE r.socket # "open"
  BY <1>4, Zenon DEF CloseSocket, SameLife
<1>5. CASE r.socket = "open"
  <2>1. CloseSocket(r) = [r EXCEPT !.socket = "closed", !.pendingRead = 0,
                             !.pendingWrite = 0, !.reading = "none", !.writing = FALSE,
                             !.ready = @ \o Aborted(r)]
    BY <1>5, Zenon DEF CloseSocket
  <2> QED
    BY <1>2, <1>3, <2>1, ZenonT(30) DEF ConnType, SameLife
<1> QED
  BY <1>4, <1>5

\* The two error handlers differ in the flag they raise.
LEMMA ReadErrorFacts ==
    ASSUME NEW r \in ConnType, NEW err \in Outcomes
    PROVE  LET s == HandleReadError(r, err) IN
           /\ s \in ConnType
           /\ s.state = r.state \/ (r.state = "OPEN" /\ s.state = "REQUEST_CLOSE")
           /\ s.proto = r.proto
           /\ s.receivedFirst = r.receivedFirst
           /\ s.readError
<1>1. CASE err = "aborted"
  <2>1. HandleReadError(r, err) = [r EXCEPT !.readError = TRUE]
    BY <1>1, Zenon DEF HandleReadError
  <2> QED
    BY <2>1, Zenon DEF ConnType
<1>2. CASE err # "aborted"
  <2>1. HandleReadError(r, err) = [Close(r) EXCEPT !.readError = TRUE]
    BY <1>2, Zenon DEF HandleReadError
  <2>2. /\ HandleReadError(r, err) \in ConnType
        /\ SameLife(Close(r), HandleReadError(r, err))
        /\ HandleReadError(r, err).readError
    BY <2>1, CloseFacts, ZenonT(30) DEF ConnType, SameLife
  <2> QED
    BY <2>2, CloseFacts, Zenon DEF SameLife
<1> QED
  BY <1>1, <1>2

\* handleWriteError asks for the close unless the write was aborted.
LEMMA WriteErrorFacts ==
    ASSUME NEW r \in ConnType, NEW err \in Outcomes
    PROVE  LET s == HandleWriteError(r, err) IN
           /\ s \in ConnType
           /\ s.state = r.state \/ (r.state = "OPEN" /\ s.state = "REQUEST_CLOSE")
           /\ s.proto = r.proto
           /\ s.receivedFirst = r.receivedFirst
           /\ s.writeError
<1>1. CASE err = "aborted"
  <2>1. HandleWriteError(r, err) = [r EXCEPT !.writeError = TRUE]
    BY <1>1, Zenon DEF HandleWriteError
  <2> QED
    BY <2>1, Zenon DEF ConnType
<1>2. CASE err # "aborted"
  <2>1. HandleWriteError(r, err) = [Close(r) EXCEPT !.writeError = TRUE]
    BY <1>2, Zenon DEF HandleWriteError
  <2>2. /\ HandleWriteError(r, err) \in ConnType
        /\ SameLife(Close(r), HandleWriteError(r, err))
        /\ HandleWriteError(r, err).writeError
    BY <2>1, CloseFacts, ZenonT(30) DEF ConnType, SameLife
  <2> QED
    BY <2>2, CloseFacts, Zenon DEF SameLife
<1> QED
  BY <1>1, <1>2

\* Starting a read changes neither the state nor the protocol.
LEMMA StartReadFacts ==
    ASSUME NEW r \in ConnType, NEW handler \in ReadHandlers
    PROVE  StartRead(r, handler) \in ConnType /\ SameLife(r, StartRead(r, handler))
<1>1. r.pendingRead + 1 \in Int
  BY DEF ConnType
<1> QED
  BY <1>1, Zenon DEF StartRead, ConnType, SameLife

\* The read that has completed is no longer counted.
LEMMA ReadDoneFacts ==
    ASSUME NEW r \in ConnType
    PROVE  LET s == [r EXCEPT !.pendingRead = @ - 1] IN s \in ConnType /\ SameLife(r, s)
<1>1. r.pendingRead - 1 \in Int
  BY DEF ConnType
<1> QED
  BY <1>1, Zenon DEF ConnType, SameLife

\* Taking a message from the pool only counts references.
LEMMA GetOutputMessageFacts ==
    ASSUME NEW r \in ConnType
    PROVE  GetOutputMessage(r) \in ConnType /\ SameLife(r, GetOutputMessage(r))
<1>1. r.protoRefs + 1 \in Int /\ r.refCount + 1 \in Int
  BY DEF ConnType
<1> QED
  BY <1>1, Zenon DEF GetOutputMessage, ConnType, SameLife

\* Sending a message changes neither the state nor the protocol.
LEMMA SendFacts ==
    ASSUME NEW r \in ConnType
    PROVE  Send(r) \in ConnType /\ SameLife(r, Send(r))
<1>1. r.pendingWrite + 1 \in Int
  BY DEF ConnType
<1>2. CASE Sendable(r)
  <2>1. Send(r) = [r EXCEPT !.pendingWrite = @ + 1, !.writeTimer = TRUE, !.writing = TRUE]
    BY <1>2, Zenon DEF Send
  <2> QED
    BY <1>1, <2>1, Zenon DEF ConnType, SameLife
<1>3. CASE ~Sendable(r)
  BY <1>3, Zenon DEF Send, SameLife
<1> QED
  BY <1>2, <1>3

\* A connection whose handler i has been taken off the queue.
LEMMA WithoutFacts ==
    ASSUME TypeOK, NEW c \in Conns, NEW i \in DOMAIN conn[c].ready
    PROVE  /\ Without(c, i) \in ConnType
           /\ SameLife(conn[c], Without(c, i))
           /\ conn[c].ready[i].err \in Outcomes
<1> DEFINE q == conn[c].ready
<1>1. conn[c] \in ConnType /\ q \in Seq(Handler)
  BY Zenon DEF TypeOK, ConnType
<1>2. q[i] \in Handler
  BY <1>1
<1>3. RemoveAt(q, i) \in Seq(Handler)
  BY <1>1 DEF RemoveAt
<1>4. q[i].err \in Outcomes
  BY <1>2 DEF Handler
<1> HIDE DEF q
<1>5. Without(c, i) = [conn[c] EXCEPT !.ready = RemoveAt(q, i)]
  BY Zenon DEF Without, q
<1>6. Without(c, i) \in ConnType /\ SameLife(conn[c], Without(c, i))
  BY <1>1, <1>3, <1>5, Zenon DEF ConnType, SameLife
<1> QED
  BY <1>4, <1>6, Zenon DEF q

-----------------------------------------------------------------------------
(* The dispatcher's list.                                                     *)

\* Tasks added to both ends of a list: where they and the old ones are found.
LEMMA ListGrowth ==
    ASSUME NEW q \in Seq(Task), NEW f \in Seq(Task), NEW b \in Seq(Task)
    PROVE  LET n == (f \o q) \o b IN
           /\ n \in Seq(Task)
           /\ \A i \in DOMAIN n :
                \/ i \in DOMAIN f /\ n[i] = f[i]
                \/ i - Len(f) \in DOMAIN q /\ n[i] = q[i - Len(f)]
                \/ /\ i - Len(f) - Len(q) \in DOMAIN b
                   /\ n[i] = b[i - Len(f) - Len(q)]
           /\ \A i \in DOMAIN q : i + Len(f) \in DOMAIN n /\ n[i + Len(f)] = q[i]
           /\ \A i \in DOMAIN b : /\ i + Len(f) + Len(q) \in DOMAIN n
                                  /\ n[i + Len(f) + Len(q)] = b[i]
  OBVIOUS

\* The list without the task the dispatcher takes.
LEMMA ListShrinks ==
    ASSUME NEW q \in Seq(Task), q # <<>>
    PROVE  /\ Tail(q) \in Seq(Task)
           /\ Head(q) \in Task
           /\ Head(q) = q[1] /\ 1 \in DOMAIN q
           /\ \A i \in DOMAIN Tail(q) : i + 1 \in DOMAIN q /\ Tail(q)[i] = q[i + 1]
           /\ \A i \in DOMAIN q : i = 1 \/ (i - 1 \in DOMAIN Tail(q) /\ Tail(q)[i - 1] = q[i])
  OBVIOUS

-----------------------------------------------------------------------------
(* Steps that only add to the list.                                           *)

CloseTaskOf(c) == [t |-> "closeConnection", c |-> c]
DelegateTaskOf(c) == [t |-> "delegate", c |-> c]

\* What a handler does to connection c: r is its new state, f and b are the tasks it
\* adds in front and behind.
Effect(c, r, f, b) ==
    /\ r \in ConnType
    /\ f = <<>> \/ f = ReleaseMessage(c)
    /\ \/ b = <<>> /\ r.state = conn[c].state
       \/ b = <<>> /\ conn[c].state = "NONE" /\ r.state = "OPEN"
       \/ b = <<CloseTaskOf(c)>> /\ conn[c].state = "OPEN" /\ r.state = "REQUEST_CLOSE"
       \/ /\ b = <<DelegateTaskOf(c)>>
          /\ conn[c].state = "OPEN" /\ r.state = "OPEN" /\ r.proto = "attached"
    /\ \/ r.proto = conn[c].proto /\ r.receivedFirst = conn[c].receivedFirst
       \/ /\ conn[c].state = "OPEN" /\ ~conn[c].receivedFirst /\ r.receivedFirst
          /\ r.proto = "attached" \/ (r.proto = conn[c].proto /\ r.state # "OPEN")

\* delegate may move on, but it is not entered.
DelegateMovesOn ==
    /\ running' \in RunningType
    /\ \A c \in Conns : Delegating(c)' => Delegating(c)

\* A step that adds tasks as Effect allows keeps the invariant.
LEMMA GrowthPreserves ==
    ASSUME IInv, NEW c \in Conns, NEW r, NEW f, NEW b,
           Effect(c, r, f, b),
           conn' = [conn EXCEPT ![c] = r],
           taskList' = (f \o taskList) \o b,
           events' = events,
           DelegateMovesOn
    PROVE  IInv'
<1>a. /\ b = <<>> \/ b = <<CloseTaskOf(c)>> \/ b = <<DelegateTaskOf(c)>>
      /\ f = <<>> \/ f = <<[t |-> "internalReleaseMessage", c |-> c]>>
      /\ b = <<>> => \/ r.state = conn[c].state
                     \/ conn[c].state = "NONE" /\ r.state = "OPEN"
      /\ b = <<CloseTaskOf(c)>> => conn[c].state = "OPEN" /\ r.state = "REQUEST_CLOSE"
      /\ b = <<DelegateTaskOf(c)>> =>
           conn[c].state = "OPEN" /\ r.state = "OPEN" /\ r.proto = "attached"
  <2>1. /\ <<CloseTaskOf(c)>> # <<DelegateTaskOf(c)>>
        /\ <<>> # <<CloseTaskOf(c)>> /\ <<>> # <<DelegateTaskOf(c)>>
    BY DEF CloseTaskOf, DelegateTaskOf
  <2> QED
    BY <2>1, Zenon DEF Effect, ReleaseMessage
<1>b. b # <<[t |-> "releaseProtocol", c |-> c]>>
  <2>1. /\ <<CloseTaskOf(c)>> # <<[t |-> "releaseProtocol", c |-> c]>>
        /\ <<DelegateTaskOf(c)>> # <<[t |-> "releaseProtocol", c |-> c]>>
        /\ <<>> # <<[t |-> "releaseProtocol", c |-> c]>>
    BY DEF CloseTaskOf, DelegateTaskOf
  <2> QED
    BY <2>1, <1>a, Zenon
<1>1. /\ taskList \in Seq(Task) /\ f \in Seq(Task) /\ b \in Seq(Task)
      /\ Len(b) = 0 \/ (Len(b) = 1 /\ b[1] = CloseTaskOf(c)) \/ (Len(b) = 1 /\ b[1] = DelegateTaskOf(c))
      /\ Len(b) = 0 <=> b = <<>>
      /\ \A i \in DOMAIN f : f[i] = [t |-> "internalReleaseMessage", c |-> c]
      /\ DOMAIN b = 1..Len(b) /\ Len(f) \in Nat /\ Len(taskList) \in Nat
      /\ DOMAIN taskList = 1..Len(taskList)
  <2>1. CloseTaskOf(c) \in Task /\ DelegateTaskOf(c) \in Task
        /\ [t |-> "internalReleaseMessage", c |-> c] \in Task
    BY DEF CloseTaskOf, DelegateTaskOf, Task, TaskNames
  <2>2. taskList \in Seq(Task)
    BY DEF IInv, TypeOK
  <2>3. /\ b \in Seq(Task)
        /\ Len(b) = 0 \/ (Len(b) = 1 /\ b[1] = CloseTaskOf(c)) \/ (Len(b) = 1 /\ b[1] = DelegateTaskOf(c))
        /\ Len(b) = 0 <=> b = <<>>
        /\ DOMAIN b = 1..Len(b)
    <3>1. CASE b = <<>>
      BY <3>1
    <3>2. CASE b = <<CloseTaskOf(c)>>
      BY <2>1, <3>2
    <3>3. CASE b = <<DelegateTaskOf(c)>>
      BY <2>1, <3>3
    <3> QED
      BY <1>a, <3>1, <3>2, <3>3, Zenon
  <2>4. f \in Seq(Task) /\ \A i \in DOMAIN f : f[i] = [t |-> "internalReleaseMessage", c |-> c]
    <3>1. CASE f = <<>>
      BY <3>1
    <3>2. CASE f = <<[t |-> "internalReleaseMessage", c |-> c]>>
      BY <2>1, <3>2
    <3> QED
      BY <1>a, <3>1, <3>2, Zenon
  <2> QED
    BY <2>2, <2>3, <2>4
<1>2. /\ taskList' \in Seq(Task)
      /\ \A i \in DOMAIN taskList' :
           \/ i \in DOMAIN f /\ taskList'[i] = f[i]
           \/ i - Len(f) \in DOMAIN taskList /\ taskList'[i] = taskList[i - Len(f)]
           \/ /\ i - Len(f) - Len(taskList) \in DOMAIN b
              /\ taskList'[i] = b[i - Len(f) - Len(taskList)]
      /\ \A i \in DOMAIN taskList : /\ i + Len(f) \in DOMAIN taskList'
                                    /\ taskList'[i + Len(f)] = taskList[i]
      /\ \A i \in DOMAIN b : /\ i + Len(f) + Len(taskList) \in DOMAIN taskList'
                             /\ taskList'[i + Len(f) + Len(taskList)] = b[i]
  <2> DEFINE n == (f \o taskList) \o b
  <2>1. /\ n \in Seq(Task)
        /\ \A i \in DOMAIN n :
             \/ i \in DOMAIN f /\ n[i] = f[i]
             \/ i - Len(f) \in DOMAIN taskList /\ n[i] = taskList[i - Len(f)]
             \/ /\ i - Len(f) - Len(taskList) \in DOMAIN b
                /\ n[i] = b[i - Len(f) - Len(taskList)]
        /\ \A i \in DOMAIN taskList : i + Len(f) \in DOMAIN n /\ n[i + Len(f)] = taskList[i]
        /\ \A i \in DOMAIN b : /\ i + Len(f) + Len(taskList) \in DOMAIN n
                               /\ n[i + Len(f) + Len(taskList)] = b[i]
    BY <1>1, ListGrowth, Zenon
  <2>2. taskList' = n
    OBVIOUS
  <2> QED
    BY <2>1, <2>2, Zenon
<1>3. \A d \in Conns, t \in {"closeConnection", "delegate", "releaseProtocol"} :
        \A i \in DOMAIN taskList' :
          taskList'[i] = [t |-> t, c |-> d] =>
            \/ i - Len(f) \in DOMAIN taskList /\ taskList[i - Len(f)] = [t |-> t, c |-> d]
            \/ /\ i = Len(f) + Len(taskList) + 1 /\ d = c
               /\ b = <<[t |-> t, c |-> c]>>
  BY <1>1, <1>2 DEF CloseTaskOf, DelegateTaskOf
<1>4. /\ conn' \in [Conns -> ConnType]
      /\ conn'[c] = r
      /\ \A d \in Conns : d # c => conn'[d] = conn[d]
      /\ conn \in [Conns -> ConnType]
  BY Zenon DEF IInv, TypeOK, Effect
\* A task waits exactly if it waited before or was appended.
<1>5. \A d \in Conns, t \in {"closeConnection", "delegate", "releaseProtocol"} :
        Queued(t, d)' <=> Queued(t, d) \/ (d = c /\ b = <<[t |-> t, c |-> c]>>)
  <2> SUFFICES ASSUME NEW d \in Conns,
                      NEW t \in {"closeConnection", "delegate", "releaseProtocol"}
               PROVE  Queued(t, d)' <=> Queued(t, d) \/ (d = c /\ b = <<[t |-> t, c |-> c]>>)
    OBVIOUS
  <2>1. Queued(t, d)' => Queued(t, d) \/ (d = c /\ b = <<[t |-> t, c |-> c]>>)
    <3> SUFFICES ASSUME NEW i \in Positions(t, d)'
                 PROVE  Queued(t, d) \/ (d = c /\ b = <<[t |-> t, c |-> c]>>)
      BY DEF Queued
    <3>1. i \in DOMAIN taskList' /\ taskList'[i] = [t |-> t, c |-> d]
      BY DEF Positions
    <3>2. CASE i - Len(f) \in DOMAIN taskList /\ taskList[i - Len(f)] = [t |-> t, c |-> d]
      BY <3>2 DEF Queued, Positions
    <3> QED
      BY <3>1, <3>2, <1>3, Zenon
  <2>2. Queued(t, d) => Queued(t, d)'
    <3> SUFFICES ASSUME NEW i \in Positions(t, d)
                 PROVE  i + Len(f) \in Positions(t, d)'
      BY DEF Queued
    <3> QED
      BY <1>2 DEF Positions
  <2>3. d = c /\ b = <<[t |-> t, c |-> c]>> => Queued(t, d)'
    BY <1>1, <1>2 DEF Queued, Positions
  <2> QED
    BY <2>1, <2>2, <2>3
<1>6. b = <<CloseTaskOf(c)>> => ~Queued("closeConnection", c)
  BY <1>a, Zenon DEF IInv, CloseRunsOnce
<1>7. b = <<DelegateTaskOf(c)>> => ~Queued("closeConnection", c)
  BY <1>a, Zenon DEF IInv, CloseRunsOnce
<1>8. TypeOK'
  BY <1>2, <1>4, Zenon DEF IInv, TypeOK, DelegateMovesOn
<1>9. CloseRunsOnce'
  <2> SUFFICES ASSUME NEW d \in Conns
               PROVE  /\ Queued("closeConnection", d)' <=> conn'[d].state = "REQUEST_CLOSE"
                      /\ \A i, j \in Positions("closeConnection", d)' : i = j
    BY DEF CloseRunsOnce
  <2>1. Queued("closeConnection", d) <=> conn[d].state = "REQUEST_CLOSE"
    BY Zenon DEF IInv, CloseRunsOnce
  <2>2. Queued("closeConnection", d)' <=> Queued("closeConnection", d) \/ (d = c /\ b = <<CloseTaskOf(c)>>)
    BY <1>5, Zenon DEF CloseTaskOf
  <2>3. r.state = "REQUEST_CLOSE" <=> conn[c].state = "REQUEST_CLOSE" \/ b = <<CloseTaskOf(c)>>
    BY <1>a
  <2>4. Queued("closeConnection", d)' <=> conn'[d].state = "REQUEST_CLOSE"
    BY <1>4, <2>1, <2>2, <2>3, Zenon
  <2>5. ASSUME NEW i \in Positions("closeConnection", d)', NEW j \in Positions("closeConnection", d)'
        PROVE  i = j
    <3>1. \A m, n \in Positions("closeConnection", d) : m = n
      BY Zenon DEF IInv, CloseRunsOnce
    <3>2. /\ i \in DOMAIN taskList' /\ taskList'[i] = [t |-> "closeConnection", c |-> d]
          /\ j \in DOMAIN taskList' /\ taskList'[j] = [t |-> "closeConnection", c |-> d]
      BY <2>5 DEF Positions
    <3>3. /\ i \in Int /\ j \in Int /\ Len(f) \in Int
      BY <3>2, <1>2, <1>1
    <3>4. CASE b = <<CloseTaskOf(c)>> /\ d = c
      <4>1. Positions("closeConnection", d) = {}
        BY <3>4, <1>6 DEF Queued
      <4> QED
        BY <4>1, <3>2, <1>3 DEF Positions
    <3>5. CASE ~(b = <<CloseTaskOf(c)>> /\ d = c)
      <4>1. i - Len(f) \in Positions("closeConnection", d) /\ j - Len(f) \in Positions("closeConnection", d)
        BY <3>5, <3>2, <1>3 DEF Positions, CloseTaskOf
      <4>2. i - Len(f) = j - Len(f)
        BY <4>1, <3>1, Zenon
      <4> QED
        BY <4>2, <3>3
    <3> QED
      BY <3>4, <3>5
  <2> QED
    BY <2>4, <2>5
<1>10. DelegateBeforeClose'
  <2> SUFFICES ASSUME NEW d \in Conns,
                      NEW i \in Positions("closeConnection", d)',
                      NEW j \in Positions("delegate", d)'
               PROVE  j < i
    BY DEF DelegateBeforeClose
  <2>1. /\ i \in DOMAIN taskList' /\ taskList'[i] = [t |-> "closeConnection", c |-> d]
        /\ j \in DOMAIN taskList' /\ taskList'[j] = [t |-> "delegate", c |-> d]
    BY DEF Positions
  <2>2. \/ i - Len(f) \in Positions("closeConnection", d)
        \/ i = Len(f) + Len(taskList) + 1 /\ d = c /\ b = <<CloseTaskOf(c)>>
    BY <2>1, <1>3 DEF Positions, CloseTaskOf
  <2>3. \/ j - Len(f) \in Positions("delegate", d)
        \/ d = c /\ b = <<DelegateTaskOf(c)>>
    BY <2>1, <1>3 DEF Positions, DelegateTaskOf
  <2>4. CASE i - Len(f) \in Positions("closeConnection", d) /\ j - Len(f) \in Positions("delegate", d)
    <3>1. j - Len(f) < i - Len(f)
      BY <2>4 DEF IInv, DelegateBeforeClose
    <3> QED
      BY <3>1, <2>1, <1>1, <1>2
  <2>5. CASE d = c /\ b = <<DelegateTaskOf(c)>>
    <3>1. Positions("closeConnection", d) = {}
      BY <2>5, <1>7 DEF Queued
    <3>2. <<DelegateTaskOf(c)>> # <<CloseTaskOf(c)>>
      BY DEF DelegateTaskOf, CloseTaskOf
    <3> QED
      BY <2>2, <2>5, <3>1, <3>2
  <2>6. CASE i = Len(f) + Len(taskList) + 1 /\ j - Len(f) \in Positions("delegate", d)
    <3>1. j - Len(f) \in 1..Len(taskList)
      BY <2>6, <1>1 DEF Positions
    <3> QED
      BY <2>6, <3>1, <2>1, <1>1, <1>2
  <2> QED
    BY <2>2, <2>3, <2>4, <2>5, <2>6
<1>11. conn[c].proto = "attached" => r.proto = "attached"
  BY Zenon DEF Effect, IInv, FirstPacketCreates
<1>12. DelegateHasConnection'
  <2> SUFFICES ASSUME NEW d \in Conns, Queued("delegate", d)' \/ Delegating(d)'
               PROVE  conn'[d].proto = "attached"
    BY Zenon DEF DelegateHasConnection
  <2>1. CASE d = c /\ b = <<DelegateTaskOf(c)>>
    BY <2>1, <1>a, <1>4
  <2>2. CASE ~(d = c /\ b = <<DelegateTaskOf(c)>>)
    <3>1. Queued("delegate", d) \/ Delegating(d)
      BY <2>2, <1>5, Zenon DEF DelegateMovesOn, DelegateTaskOf
    <3>2. conn[d].proto = "attached"
      BY <3>1, Zenon DEF IInv, DelegateHasConnection
    <3> QED
      BY <3>2, <1>4, <1>11
  <2> QED
    BY <2>1, <2>2
<1>13. OpenHasProtocol'
  <2> SUFFICES ASSUME NEW d \in Conns, conn'[d].state = "OPEN", conn'[d].receivedFirst
               PROVE  conn'[d].proto = "attached"
    BY Zenon DEF OpenHasProtocol
  <2>1. CASE d # c
    BY <2>1, <1>4, Zenon DEF IInv, OpenHasProtocol
  <2>2. CASE d = c
    <3>1. r.state = "OPEN" /\ r.receivedFirst
      BY <2>2, <1>4, Zenon
    <3>2. CASE r.proto = conn[c].proto /\ r.receivedFirst = conn[c].receivedFirst
      <4>1. conn[c].receivedFirst
        BY <3>1, <3>2, Zenon
      <4>2. conn[c].state # "NONE"
        BY <4>1, Zenon DEF IInv, FirstPacketCreates
      <4>3. conn[c].state = "OPEN"
        BY <3>1, <4>2, <1>a
      <4> QED
        BY <2>2, <3>2, <4>1, <4>3, <1>4, Zenon DEF IInv, OpenHasProtocol
    <3>3. CASE r.proto = "attached"
      BY <3>3, <2>2, <1>4, Zenon
    <3> QED
      BY <3>1, <3>2, <3>3, Zenon DEF Effect
  <2> QED
    BY <2>1, <2>2
<1>14. RetriesAreDetached'
  <2> SUFFICES ASSUME NEW d \in Conns,
                      Queued("releaseProtocol", d)' \/ [t |-> "releaseProtocol", c |-> d] \in events
               PROVE  conn'[d].proto \in {"detached", "deleted"}
    BY Zenon DEF RetriesAreDetached
  <2>2. conn[d].proto \in {"detached", "deleted"}
    BY <1>b, <1>5, Zenon DEF IInv, RetriesAreDetached
  <2>3. d = c => conn[c].receivedFirst
    BY <2>2, Zenon DEF IInv, FirstPacketCreates
  <2>4. d = c => r.proto = conn[c].proto
    BY <2>3, Zenon DEF Effect
  <2> QED
    BY <2>2, <2>4, <1>4
<1>15. FirstPacketCreates'
  <2> SUFFICES ASSUME NEW d \in Conns
               PROVE  /\ ~conn'[d].receivedFirst => conn'[d].proto = "none"
                      /\ conn'[d].state = "NONE" => ~conn'[d].receivedFirst
    BY Zenon DEF FirstPacketCreates
  <2>1. CASE d # c
    BY <2>1, <1>4, Zenon DEF IInv, FirstPacketCreates
  <2>2. CASE d = c
    <3>1. r.state = "NONE" => conn[c].state = "NONE"
      BY <1>a
    <3> QED
      BY <2>2, <3>1, <1>4, Zenon DEF IInv, FirstPacketCreates, Effect
  <2> QED
    BY <2>1, <2>2
<1> QED
  BY <1>8, <1>9, <1>10, <1>12, <1>13, <1>14, <1>15, Zenon DEF IInv

\* The same when nothing is added in front, or nothing at all.
LEMMA BackPreserves ==
    ASSUME IInv, NEW c \in Conns, NEW r, NEW b,
           Effect(c, r, <<>>, b),
           conn' = [conn EXCEPT ![c] = r],
           taskList' = AddTask(taskList, b),
           events' = events, running' = running
    PROVE  IInv'
<1>1. taskList \in Seq(Task)
  BY DEF IInv, TypeOK
<1>2. taskList' = (<<>> \o taskList) \o b
  <2>1. <<>> \o taskList = taskList
    BY <1>1
  <2> QED
    BY <2>1, Zenon DEF AddTask
<1>3. DelegateMovesOn
  BY Zenon DEF DelegateMovesOn, IInv, TypeOK, Delegating
<1> QED
  BY <1>2, <1>3, GrowthPreserves

\* A handler that adds no task keeps the invariant.
LEMMA QuietPreserves ==
    ASSUME IInv, NEW c \in Conns, NEW r,
           Effect(c, r, <<>>, <<>>),
           conn' = [conn EXCEPT ![c] = r],
           taskList' = taskList, events' = events, running' = running
    PROVE  IInv'
<1>1. taskList \in Seq(Task)
  BY DEF IInv, TypeOK
<1>2. taskList \o <<>> = taskList
  BY <1>1
<1>3. taskList' = AddTask(taskList, <<>>)
  BY <1>2, Zenon DEF AddTask
<1> QED
  BY <1>3, BackPreserves

\* A handler whose effect on the life of the connection is at most a close().
LEMMA ClosingEffect ==
    ASSUME NEW c \in Conns, NEW r \in ConnType, NEW f,
           f = <<>> \/ f = ReleaseMessage(c),
           r.state = conn[c].state \/ (conn[c].state = "OPEN" /\ r.state = "REQUEST_CLOSE"),
           r.proto = conn[c].proto, r.receivedFirst = conn[c].receivedFirst
    PROVE  Effect(c, r, f, CloseTask(c, conn[c], r))
<1>1. \/ CloseTask(c, conn[c], r) = <<>> /\ r.state = conn[c].state
      \/ /\ CloseTask(c, conn[c], r) = <<CloseTaskOf(c)>>
         /\ conn[c].state = "OPEN" /\ r.state = "REQUEST_CLOSE"
  BY Zenon DEF CloseTask, CloseTaskOf
<1> QED
  BY <1>1, Zenon DEF Effect

-----------------------------------------------------------------------------
(* The handlers of the service threads.                                       *)

\* Every connection is well formed.
LEMMA ConnTyped ==
    ASSUME IInv, NEW c \in Conns
    PROVE  conn[c] \in ConnType
  BY Zenon DEF IInv, TypeOK

\* The connection at the start of a handler: handler i has left the queue and a
\* timer is cancelled.
LEMMA HandlerStart ==
    ASSUME IInv, NEW c \in Conns, NEW i, NEW name, Handles(c, i, name)
    PROVE  LET r == [Without(c, i) EXCEPT !.readTimer = FALSE]
               w == [Without(c, i) EXCEPT !.writeTimer = FALSE]
           IN  /\ Without(c, i) \in ConnType /\ SameLife(conn[c], Without(c, i))
               /\ r \in ConnType /\ SameLife(conn[c], r)
               /\ w \in ConnType /\ SameLife(conn[c], w)
               /\ conn[c].ready[i].err \in Outcomes
               /\ PacketStart(c, i) \in ConnType
               /\ \/ PacketStart(c, i).state = conn[c].state
                  \/ conn[c].state = "OPEN" /\ PacketStart(c, i).state = "REQUEST_CLOSE"
               /\ PacketStart(c, i).proto = conn[c].proto
               /\ PacketStart(c, i).receivedFirst = conn[c].receivedFirst
<1>1. i \in DOMAIN conn[c].ready
  BY Zenon DEF Handles, InProgress
<1>2. /\ Without(c, i) \in ConnType /\ SameLife(conn[c], Without(c, i))
      /\ conn[c].ready[i].err \in Outcomes
  BY <1>1, WithoutFacts, Zenon DEF IInv
<1> DEFINE r == [Without(c, i) EXCEPT !.readTimer = FALSE]
           w == [Without(c, i) EXCEPT !.writeTimer = FALSE]
<1>3. r \in ConnType /\ SameLife(Without(c, i), r)
  BY <1>2, Zenon DEF ConnType, SameLife
<1>4. w \in ConnType /\ SameLife(Without(c, i), w)
  BY <1>2, Zenon DEF ConnType, SameLife
<1>5. SameLife(conn[c], r) /\ SameLife(conn[c], w)
  BY <1>2, <1>3, <1>4, Zenon DEF SameLife
<1> HIDE DEF r, w
<1>6. PacketStart(c, i) = IF conn[c].ready[i].err = "ok" THEN r
                          ELSE HandleReadError(r, conn[c].ready[i].err)
  BY Zenon DEF PacketStart, r
<1>7. CASE conn[c].ready[i].err = "ok"
  BY <1>2, <1>3, <1>4, <1>5, <1>6, <1>7, Zenon DEF SameLife, r, w
<1>8. CASE conn[c].ready[i].err # "ok"
  <2>1. PacketStart(c, i) = HandleReadError(r, conn[c].ready[i].err)
    BY <1>6, <1>8, Zenon
  <2>2. /\ PacketStart(c, i) \in ConnType
        /\ \/ PacketStart(c, i).state = r.state
           \/ r.state = "OPEN" /\ PacketStart(c, i).state = "REQUEST_CLOSE"
        /\ PacketStart(c, i).proto = r.proto
        /\ PacketStart(c, i).receivedFirst = r.receivedFirst
    <3> DEFINE s == HandleReadError(r, conn[c].ready[i].err)
    <3>1. /\ s \in ConnType
          /\ s.state = r.state \/ (r.state = "OPEN" /\ s.state = "REQUEST_CLOSE")
          /\ s.proto = r.proto
          /\ s.receivedFirst = r.receivedFirst
      BY <1>2, <1>3, ReadErrorFacts
    <3> QED
      BY <3>1, <2>1, Zenon
  <2> QED
    BY <1>2, <1>3, <1>4, <1>5, <2>2, Zenon DEF SameLife, r, w
<1> QED
  BY <1>7, <1>8

\* parseHeader asks for the close or reads on.
LEMMA ParseHeaderPreserves ==
    ASSUME IInv, NEW c \in Conns, NEW i, ParseHeader(c, i)
    PROVE  IInv'
<1> DEFINE checked == PacketStart(c, i)
           done == [checked EXCEPT !.pendingRead = @ - 1]
           after == IF Unusable(checked) THEN Close(checked) ELSE StartRead(done, "parsePacket")
<1>1. Handles(c, i, "parseHeader")
  BY Zenon DEF ParseHeader
<1>2. /\ checked \in ConnType
      /\ checked.state = conn[c].state \/ (conn[c].state = "OPEN" /\ checked.state = "REQUEST_CLOSE")
      /\ checked.proto = conn[c].proto /\ checked.receivedFirst = conn[c].receivedFirst
  BY <1>1, HandlerStart, Zenon
<1>3. /\ conn' = [conn EXCEPT ![c] = after]
      /\ taskList' = AddTask(taskList, CloseTask(c, conn[c], after))
      /\ running' = running /\ events' = events
  BY Zenon DEF ParseHeader, PacketStart
<1> HIDE DEF checked
<1>4. done \in ConnType /\ SameLife(checked, done)
  BY <1>2, ReadDoneFacts, Zenon
<1> HIDE DEF done
<1>5. /\ after \in ConnType
      /\ after.state = conn[c].state \/ (conn[c].state = "OPEN" /\ after.state = "REQUEST_CLOSE")
      /\ after.proto = conn[c].proto /\ after.receivedFirst = conn[c].receivedFirst
  <2>1. CASE Unusable(checked)
    <3>1. after = Close(checked)
      BY <2>1, Zenon
    <3> QED
      BY <1>2, <3>1, CloseFacts, Zenon
  <2>2. CASE ~Unusable(checked)
    <3>1. after = StartRead(done, "parsePacket")
      BY <2>2, Zenon
    <3>2. after \in ConnType /\ SameLife(done, after)
      BY <1>4, <3>1, StartReadFacts, Zenon DEF ReadHandlers
    <3> QED
      BY <1>2, <1>4, <3>2, Zenon DEF SameLife
  <2> QED
    BY <2>1, <2>2
<1> HIDE DEF after
<1>6. Effect(c, after, <<>>, CloseTask(c, conn[c], after))
  BY <1>5, ClosingEffect, Zenon
<1> QED
  BY <1>3, <1>6, BackPreserves, Zenon

\* parsePacket returning early asks for the close at most once.
LEMMA ParsePacketRefusedPreserves ==
    ASSUME IInv, NEW c \in Conns, NEW i, ParsePacketRefused(c, i)
    PROVE  IInv'
<1> DEFINE r == PacketStart(c, i)
           after == Close(r)
<1>1. Handles(c, i, "parsePacket")
  BY Zenon DEF ParsePacketRefused
<1>2. /\ r \in ConnType
      /\ r.state = conn[c].state \/ (conn[c].state = "OPEN" /\ r.state = "REQUEST_CLOSE")
      /\ r.proto = conn[c].proto /\ r.receivedFirst = conn[c].receivedFirst
  BY <1>1, HandlerStart, Zenon
<1>3. /\ conn' = [conn EXCEPT ![c] = after]
      /\ taskList' = AddTask(taskList, CloseTask(c, conn[c], after))
      /\ running' = running /\ events' = events
  BY Zenon DEF ParsePacketRefused
<1> HIDE DEF r
<1>4. /\ after \in ConnType
      /\ after.state = conn[c].state \/ (conn[c].state = "OPEN" /\ after.state = "REQUEST_CLOSE")
      /\ after.proto = conn[c].proto /\ after.receivedFirst = conn[c].receivedFirst
  BY <1>2, CloseFacts, Zenon
<1> HIDE DEF after
<1>5. Effect(c, after, <<>>, CloseTask(c, conn[c], after))
  BY <1>4, ClosingEffect, Zenon
<1> QED
  BY <1>3, <1>5, BackPreserves, Zenon

\* A packet that is accepted finds the connection open.
LEMMA UsableFacts ==
    ASSUME IInv, NEW c \in Conns, NEW i, Handles(c, i, "parsePacket"),
           PacketStart(c, i).state = "OPEN"
    PROVE  conn[c].state = "OPEN" /\ conn[c].receivedFirst = PacketStart(c, i).receivedFirst
<1>1. /\ \/ PacketStart(c, i).state = conn[c].state
         \/ conn[c].state = "OPEN" /\ PacketStart(c, i).state = "REQUEST_CLOSE"
      /\ PacketStart(c, i).receivedFirst = conn[c].receivedFirst
  BY HandlerStart, Zenon
<1> QED
  BY <1>1, Zenon

\* A first packet without a protocol closes the connection in the same step.
LEMMA ParsePacketNoProtocolPreserves ==
    ASSUME IInv, NEW c \in Conns, NEW i, ParsePacketNoProtocol(c, i)
    PROVE  IInv'
<1> DEFINE r == PacketStart(c, i)
           first == [r EXCEPT !.pendingRead = @ - 1, !.receivedFirst = TRUE]
           after == Close(first)
<1>1. /\ Handles(c, i, "parsePacket") /\ r.state = "OPEN" /\ ~r.receivedFirst
      /\ conn' = [conn EXCEPT ![c] = after]
      /\ taskList' = AddTask(taskList, CloseTask(c, conn[c], after))
      /\ running' = running /\ events' = events
  BY Zenon DEF ParsePacketNoProtocol, Unusable
<1>2. r \in ConnType /\ r.proto = conn[c].proto
  BY <1>1, HandlerStart, Zenon
<1>3. conn[c].state = "OPEN" /\ ~conn[c].receivedFirst
  BY <1>1, UsableFacts, Zenon
<1> HIDE DEF r
<1>4. r.pendingRead - 1 \in Int
  BY <1>2 DEF ConnType
<1>5. /\ first \in ConnType /\ first.state = "OPEN"
      /\ first.proto = conn[c].proto /\ first.receivedFirst
  BY <1>1, <1>2, <1>4, Zenon DEF ConnType
<1> HIDE DEF first
<1>6. /\ after \in ConnType /\ after.state = "REQUEST_CLOSE"
      /\ after.proto = conn[c].proto /\ after.receivedFirst
  BY <1>5, CloseFacts, Zenon
<1> HIDE DEF after
<1>7. CloseTask(c, conn[c], after) = <<CloseTaskOf(c)>>
  BY <1>3, <1>6, Zenon DEF CloseTask, CloseTaskOf
<1>8. after.state # "OPEN"
  BY <1>6
<1>9. Effect(c, after, <<>>, CloseTask(c, conn[c], after))
  BY <1>3, <1>6, <1>7, <1>8, Zenon DEF Effect
<1> QED
  BY <1>1, <1>9, BackPreserves, Zenon

\* The first packet attaches the protocol to an open connection.
LEMMA WithProtocolFacts ==
    ASSUME IInv, NEW c \in Conns, NEW i, Handles(c, i, "parsePacket"),
           ~Unusable(WithProtocol(c, i)), ~PacketStart(c, i).receivedFirst
    PROVE  LET r == WithProtocol(c, i) IN
           /\ r \in ConnType /\ r.state = "OPEN" /\ r.proto = "attached" /\ r.receivedFirst
           /\ conn[c].state = "OPEN" /\ ~conn[c].receivedFirst
<1> DEFINE s == PacketStart(c, i)
           r == [s EXCEPT !.pendingRead = @ - 1, !.receivedFirst = TRUE, !.proto = "attached"]
<1>1. s \in ConnType
  BY HandlerStart, Zenon
<1>2. WithProtocol(c, i) = r
  BY Zenon DEF WithProtocol
<1> HIDE DEF s
<1>3. s.pendingRead - 1 \in Int
  BY <1>1 DEF ConnType
<1>4. r \in ConnType /\ r.state = s.state /\ r.proto = "attached" /\ r.receivedFirst
  BY <1>1, <1>3, Zenon DEF ConnType
<1>5. r.state = "OPEN"
  BY <1>2, Zenon DEF Unusable
<1> HIDE DEF r
<1>6. s.state = "OPEN"
  BY <1>4, <1>5, Zenon
<1>7. conn[c].state = "OPEN" /\ ~conn[c].receivedFirst
  BY <1>6, UsableFacts, Zenon DEF s
<1> QED
  BY <1>2, <1>4, <1>5, <1>7, Zenon

\* A first packet that cannot be decrypted: the protocol stays until the close.
LEMMA ParsePacketUndecryptablePreserves ==
    ASSUME IInv, NEW c \in Conns, NEW i, ParsePacketUndecryptable(c, i)
    PROVE  IInv'
<1> DEFINE r == WithProtocol(c, i)
           closed == Close(r)
           after == StartRead(closed, "parseHeader")
<1>1. /\ Handles(c, i, "parsePacket") /\ ~Unusable(r) /\ ~PacketStart(c, i).receivedFirst
      /\ conn' = [conn EXCEPT ![c] = after]
      /\ taskList' = AddTask(taskList, CloseTask(c, conn[c], after))
      /\ running' = running /\ events' = events
  BY Zenon DEF ParsePacketUndecryptable
<1>2. /\ r \in ConnType /\ r.state = "OPEN" /\ r.proto = "attached" /\ r.receivedFirst
      /\ conn[c].state = "OPEN" /\ ~conn[c].receivedFirst
  BY <1>1, WithProtocolFacts, Zenon
<1> HIDE DEF r
<1>3. /\ closed \in ConnType /\ closed.state = "REQUEST_CLOSE"
      /\ closed.proto = "attached" /\ closed.receivedFirst
  BY <1>2, CloseFacts, Zenon
<1> HIDE DEF closed
<1>4. /\ after \in ConnType /\ after.state = "REQUEST_CLOSE"
      /\ after.proto = "attached" /\ after.receivedFirst
  BY <1>3, StartReadFacts, Zenon DEF SameLife, ReadHandlers
<1> HIDE DEF after
<1>5. CloseTask(c, conn[c], after) = <<CloseTaskOf(c)>>
  BY <1>2, <1>4, Zenon DEF CloseTask, CloseTaskOf
<1>6. Effect(c, after, <<>>, CloseTask(c, conn[c], after))
  BY <1>2, <1>4, <1>5, Zenon DEF Effect
<1> QED
  BY <1>1, <1>6, BackPreserves, Zenon

\* disconnectClient: message and close, no delegate.
LEMMA ParsePacketDisconnectPreserves ==
    ASSUME IInv, NEW c \in Conns, NEW i, ParsePacketDisconnect(c, i)
    PROVE  IInv'
<1> DEFINE r == WithProtocol(c, i)
           held == GetOutputMessage(r)
           sent == Send(held)
           closed == Close(sent)
           after == StartRead(closed, "parseHeader")
<1>1. /\ Handles(c, i, "parsePacket") /\ ~Unusable(r) /\ ~PacketStart(c, i).receivedFirst
      /\ conn' = [conn EXCEPT ![c] = after]
      /\ taskList' = (DropTask(c, r) \o taskList) \o CloseTask(c, conn[c], after)
      /\ running' = running /\ events' = events
  BY Zenon DEF ParsePacketDisconnect, AddTask, AddTaskFront
<1>2. /\ r \in ConnType /\ r.state = "OPEN" /\ r.proto = "attached" /\ r.receivedFirst
      /\ conn[c].state = "OPEN" /\ ~conn[c].receivedFirst
  BY <1>1, WithProtocolFacts, Zenon
<1> HIDE DEF r
<1>3. held \in ConnType /\ SameLife(r, held)
  BY <1>2, GetOutputMessageFacts, Zenon
<1> HIDE DEF held
<1>4. sent \in ConnType /\ SameLife(held, sent)
  BY <1>3, SendFacts, Zenon
<1> HIDE DEF sent
<1>5. sent.state = "OPEN" /\ sent.proto = "attached" /\ sent.receivedFirst
  BY <1>2, <1>3, <1>4, Zenon DEF SameLife
<1>6. /\ closed \in ConnType /\ closed.state = "REQUEST_CLOSE"
      /\ closed.proto = "attached" /\ closed.receivedFirst
  BY <1>4, <1>5, CloseFacts, Zenon
<1> HIDE DEF closed
<1>7. /\ after \in ConnType /\ after.state = "REQUEST_CLOSE"
      /\ after.proto = "attached" /\ after.receivedFirst
  BY <1>6, StartReadFacts, Zenon DEF SameLife, ReadHandlers
<1> HIDE DEF after
<1>8. CloseTask(c, conn[c], after) = <<CloseTaskOf(c)>>
  BY <1>2, <1>7, Zenon DEF CloseTask, CloseTaskOf
<1>9. DropTask(c, r) = <<>> \/ DropTask(c, r) = ReleaseMessage(c)
  BY Zenon DEF DropTask
<1>10. Effect(c, after, DropTask(c, r), CloseTask(c, conn[c], after))
  BY <1>2, <1>7, <1>8, <1>9, Zenon DEF Effect
<1>11. DelegateMovesOn
  BY <1>1, Zenon DEF DelegateMovesOn, IInv, TypeOK, Delegating
<1> QED
  BY <1>1, <1>10, <1>11, GrowthPreserves, Zenon

\* The only step that queues delegate does so on an open connection.
LEMMA ParsePacketLoginPreserves ==
    ASSUME IInv, NEW c \in Conns, NEW i, ParsePacketLogin(c, i)
    PROVE  IInv'
<1> DEFINE r == WithProtocol(c, i)
           after == StartRead(r, "parseHeader")
<1>1. /\ Handles(c, i, "parsePacket") /\ ~Unusable(r) /\ ~PacketStart(c, i).receivedFirst
      /\ conn' = [conn EXCEPT ![c] = after]
      /\ taskList' = AddTask(taskList, <<DelegateTaskOf(c)>>)
      /\ running' = running /\ events' = events
  BY Zenon DEF ParsePacketLogin, DelegateTaskOf
<1>2. /\ r \in ConnType /\ r.state = "OPEN" /\ r.proto = "attached" /\ r.receivedFirst
      /\ conn[c].state = "OPEN" /\ ~conn[c].receivedFirst
  BY <1>1, WithProtocolFacts, Zenon
<1> HIDE DEF r
<1>3. /\ after \in ConnType /\ after.state = "OPEN"
      /\ after.proto = "attached" /\ after.receivedFirst
  BY <1>2, StartReadFacts, Zenon DEF SameLife, ReadHandlers
<1> HIDE DEF after
<1>4. Effect(c, after, <<>>, <<DelegateTaskOf(c)>>)
  BY <1>2, <1>3, Zenon DEF Effect
<1> QED
  BY <1>1, <1>4, BackPreserves, Zenon

\* A later packet reads on.
LEMMA ParsePacketLaterPreserves ==
    ASSUME IInv, NEW c \in Conns, NEW i, ParsePacketLater(c, i)
    PROVE  IInv'
<1> DEFINE r == PacketStart(c, i)
           done == [r EXCEPT !.pendingRead = @ - 1]
           after == StartRead(done, "parseHeader")
<1>1. /\ Handles(c, i, "parsePacket") /\ r.state = "OPEN"
      /\ conn' = [conn EXCEPT ![c] = after]
      /\ taskList' = taskList /\ running' = running /\ events' = events
  BY Zenon DEF ParsePacketLater, Unusable
<1>2. r \in ConnType /\ r.proto = conn[c].proto /\ r.receivedFirst = conn[c].receivedFirst
  BY <1>1, HandlerStart, Zenon
<1>3. conn[c].state = "OPEN"
  BY <1>1, UsableFacts, Zenon
<1> HIDE DEF r
<1>4. done \in ConnType /\ SameLife(r, done)
  BY <1>2, ReadDoneFacts, Zenon
<1> HIDE DEF done
<1>5. after \in ConnType /\ SameLife(done, after)
  BY <1>4, StartReadFacts, Zenon DEF ReadHandlers
<1> HIDE DEF after
<1>6. Effect(c, after, <<>>, <<>>)
  BY <1>1, <1>2, <1>3, <1>4, <1>5, Zenon DEF Effect, SameLife
<1> QED
  BY <1>1, <1>6, QuietPreserves, Zenon

\* A handler that keeps its place under another name.
LEMMA RenamedFacts ==
    ASSUME IInv, NEW c \in Conns, NEW i, NEW old, Handles(c, i, old),
           NEW name \in HandlerNames
    PROVE  LET renamed == [conn[c] EXCEPT !.ready[i].h = name]
           IN  renamed \in ConnType /\ SameLife(conn[c], renamed)
<1> DEFINE q == conn[c].ready
           renamed == [conn[c] EXCEPT !.ready[i].h = name]
<1>1. i \in DOMAIN q
  BY Zenon DEF Handles, InProgress
<1>2. conn[c] \in ConnType /\ q \in Seq(Handler)
  BY Zenon DEF IInv, TypeOK, ConnType
<1>3. q[i] \in Handler
  BY <1>1, <1>2
<1>4. renamed = [conn[c] EXCEPT !.ready = [q EXCEPT ![i] = [q[i] EXCEPT !.h = name]]]
  BY Zenon DEF q
<1> HIDE DEF q
<1>5. [q[i] EXCEPT !.h = name] \in Handler
  BY <1>3 DEF Handler
<1>6. [q EXCEPT ![i] = [q[i] EXCEPT !.h = name]] \in Seq(Handler)
  BY <1>1, <1>2, <1>5
<1>7. renamed \in ConnType /\ SameLife(conn[c], renamed)
  BY <1>2, <1>4, <1>6, Zenon DEF ConnType, SameLife
<1> QED
  BY <1>7, Zenon

\* onWrite asks for the close behind the tasks that wait.
LEMMA OnWritePreserves ==
    ASSUME IInv, NEW c \in Conns, NEW i, OnWrite(c, i)
    PROVE  IInv'
<1> DEFINE err == conn[c].ready[i].err
           renamed == [conn[c] EXCEPT !.ready[i].h = "~onWrite"]
           r == [renamed EXCEPT !.writeTimer = FALSE]
           checked == IF err = "ok" THEN r ELSE HandleWriteError(r, err)
           shut == CloseSocket(checked)
           counted == [checked EXCEPT !.pendingWrite = @ - 1]
           after == IF checked.state # "OPEN" \/ checked.writeError THEN Close(shut) ELSE counted
<1>1. /\ Handles(c, i, "onWrite")
      /\ conn' = [conn EXCEPT ![c] = after]
      /\ taskList' = AddTask(taskList, CloseTask(c, conn[c], after))
      /\ running' = running /\ events' = events
  BY Zenon DEF OnWrite
<1>2. err \in Outcomes /\ r \in ConnType /\ SameLife(conn[c], r)
  <2>1. err \in Outcomes
    BY <1>1, HandlerStart, Zenon
  <2>2. renamed \in ConnType /\ SameLife(conn[c], renamed)
    BY <1>1, RenamedFacts, Zenon DEF HandlerNames, OwningHandlers
  <2> HIDE DEF renamed
  <2>3. r \in ConnType /\ SameLife(renamed, r)
    BY <2>2, Zenon DEF ConnType, SameLife
  <2> QED
    BY <2>1, <2>2, <2>3, Zenon DEF SameLife
<1> HIDE DEF r, err
<1>3. /\ checked \in ConnType
      /\ checked.state = conn[c].state \/ (conn[c].state = "OPEN" /\ checked.state = "REQUEST_CLOSE")
      /\ checked.proto = conn[c].proto /\ checked.receivedFirst = conn[c].receivedFirst
  <2>1. CASE err = "ok"
    BY <1>2, <2>1, Zenon DEF SameLife
  <2>2. CASE err # "ok"
    <3> DEFINE s == HandleWriteError(r, err)
    <3>1. /\ s \in ConnType
          /\ s.state = r.state \/ (r.state = "OPEN" /\ s.state = "REQUEST_CLOSE")
          /\ s.proto = r.proto
          /\ s.receivedFirst = r.receivedFirst
      BY <1>2, WriteErrorFacts
    <3>2. checked = s
      BY <2>2, Zenon
    <3> HIDE DEF s
    <3> QED
      BY <1>2, <3>1, <3>2, Zenon DEF SameLife
  <2> QED
    BY <2>1, <2>2
<1> HIDE DEF checked
<1>4. shut \in ConnType /\ SameLife(checked, shut)
  BY <1>3, CloseSocketFacts, Zenon
<1> HIDE DEF shut
<1>5. counted \in ConnType /\ SameLife(checked, counted)
  <2>1. checked.pendingWrite - 1 \in Int
    BY <1>3 DEF ConnType
  <2> QED
    BY <1>3, <2>1, Zenon DEF ConnType, SameLife
<1> HIDE DEF counted
<1>6. /\ after \in ConnType
      /\ after.state = conn[c].state \/ (conn[c].state = "OPEN" /\ after.state = "REQUEST_CLOSE")
      /\ after.proto = conn[c].proto /\ after.receivedFirst = conn[c].receivedFirst
  <2>1. CASE checked.state # "OPEN" \/ checked.writeError
    <3>1. after = Close(shut)
      BY <2>1, Zenon
    <3>2. /\ Close(shut) \in ConnType
          /\ Close(shut).state = shut.state \/ (shut.state = "OPEN" /\ Close(shut).state = "REQUEST_CLOSE")
          /\ Close(shut).proto = shut.proto
          /\ Close(shut).receivedFirst = shut.receivedFirst
      BY <1>4, CloseFacts, Zenon
    <3> QED
      BY <1>3, <1>4, <3>1, <3>2, Zenon DEF SameLife
  <2>2. CASE ~(checked.state # "OPEN" \/ checked.writeError)
    <3>1. after = counted
      BY <2>2, Zenon
    <3> QED
      BY <1>3, <1>5, <3>1, Zenon DEF SameLife
  <2> QED
    BY <2>1, <2>2
<1> HIDE DEF after
<1>7. Effect(c, after, <<>>, CloseTask(c, conn[c], after))
  BY <1>6, ClosingEffect, Zenon
<1> QED
  BY <1>1, <1>7, BackPreserves, Zenon

\* The destroyed write handler returns the message in front.
LEMMA DestroyWritePreserves ==
    ASSUME IInv, NEW c \in Conns, NEW i, DestroyWrite(c, i)
    PROVE  IInv'
<1> DEFINE r == Without(c, i)
<1>1. /\ Handles(c, i, "~onWrite")
      /\ conn' = [conn EXCEPT ![c] = r]
      /\ taskList' = ReleaseMessage(c) \o taskList
      /\ running' = running /\ events' = events
  BY Zenon DEF DestroyWrite, AddTaskFront
<1>2. r \in ConnType /\ SameLife(conn[c], r)
  BY <1>1, HandlerStart, Zenon
<1> HIDE DEF r
<1>3. Effect(c, r, ReleaseMessage(c), <<>>)
  BY <1>2, Zenon DEF Effect, SameLife
<1>4. taskList' = (ReleaseMessage(c) \o taskList) \o <<>>
  <2>1. ReleaseMessage(c) \in Seq(Task) /\ taskList \in Seq(Task)
    <3>1. taskList \in Seq(Task)
      BY Zenon DEF IInv, TypeOK
    <3>2. [t |-> "internalReleaseMessage", c |-> c] \in Task
      BY DEF Task, TaskNames
    <3> QED
      BY <3>1, <3>2 DEF ReleaseMessage
  <2> HIDE DEF ReleaseMessage
  <2> QED
    BY <1>1, <2>1
<1>5. DelegateMovesOn
  BY <1>1, Zenon DEF DelegateMovesOn, IInv, TypeOK, Delegating
<1> QED
  BY <1>1, <1>3, <1>4, <1>5, GrowthPreserves, Zenon

\* A timeout handler closes the socket and asks for the close, or does nothing.
LEMMA TimeoutPreserves ==
    ASSUME IInv, NEW c \in Conns, NEW i, NEW name, Handles(c, i, name),
           NEW after, after = Without(c, i) \/ after = Close(CloseSocket(Without(c, i))),
           conn' = [conn EXCEPT ![c] = after],
           taskList' = AddTask(taskList, CloseTask(c, conn[c], after)),
           running' = running, events' = events
    PROVE  IInv'
<1> DEFINE r == Without(c, i)
           shut == CloseSocket(r)
<1>1. r \in ConnType /\ SameLife(conn[c], r)
  BY HandlerStart, Zenon
<1> HIDE DEF r
<1>2. shut \in ConnType /\ SameLife(r, shut)
  BY <1>1, CloseSocketFacts, Zenon
<1>3. after = r \/ after = Close(shut)
  BY Zenon DEF r
<1> HIDE DEF shut
<1>4. /\ after \in ConnType
      /\ after.state = conn[c].state \/ (conn[c].state = "OPEN" /\ after.state = "REQUEST_CLOSE")
      /\ after.proto = conn[c].proto /\ after.receivedFirst = conn[c].receivedFirst
  <2>1. CASE after = r
    BY <1>1, <2>1, Zenon DEF SameLife
  <2>2. CASE after = Close(shut)
    <3>2. /\ Close(shut) \in ConnType
          /\ Close(shut).state = shut.state \/ (shut.state = "OPEN" /\ Close(shut).state = "REQUEST_CLOSE")
          /\ Close(shut).proto = shut.proto
          /\ Close(shut).receivedFirst = shut.receivedFirst
      BY <1>2, CloseFacts, Zenon
    <3> QED
      BY <1>1, <1>2, <2>2, <3>2, Zenon DEF SameLife
  <2> QED
    BY <1>3, <2>1, <2>2
<1>5. Effect(c, after, <<>>, CloseTask(c, conn[c], after))
  BY <1>4, ClosingEffect, Zenon
<1> QED
  BY <1>5, BackPreserves, Zenon

\* A read timeout asks for the close like a handler.
LEMMA OnReadTimeoutPreserves ==
    ASSUME IInv, NEW c \in Conns, NEW i, OnReadTimeout(c, i)
    PROVE  IInv'
<1> DEFINE r == Without(c, i)
           after == IF r.pendingRead > 0 \/ r.readError THEN Close(CloseSocket(r)) ELSE r
<1>1. /\ Handles(c, i, "onReadTimeout")
      /\ after = r \/ after = Close(CloseSocket(r))
      /\ conn' = [conn EXCEPT ![c] = after]
      /\ taskList' = AddTask(taskList, CloseTask(c, conn[c], after))
      /\ running' = running /\ events' = events
  BY Zenon DEF OnReadTimeout
<1> HIDE DEF after
<1> QED
  BY <1>1, TimeoutPreserves, Zenon

\* A write timeout asks for the close like a handler.
LEMMA OnWriteTimeoutPreserves ==
    ASSUME IInv, NEW c \in Conns, NEW i, OnWriteTimeout(c, i)
    PROVE  IInv'
<1> DEFINE r == Without(c, i)
           after == IF r.pendingWrite > 0 \/ r.writeError THEN Close(CloseSocket(r)) ELSE r
<1>1. /\ Handles(c, i, "onWriteTimeout")
      /\ after = r \/ after = Close(CloseSocket(r))
      /\ conn' = [conn EXCEPT ![c] = after]
      /\ taskList' = AddTask(taskList, CloseTask(c, conn[c], after))
      /\ running' = running /\ events' = events
  BY Zenon DEF OnWriteTimeout
<1> HIDE DEF after
<1> QED
  BY <1>1, TimeoutPreserves, Zenon

\* Steps that leave the life of the connection alone.
LEMMA SameLifePreserves ==
    ASSUME IInv, NEW c \in Conns, NEW r \in ConnType, SameLife(conn[c], r),
           conn' = [conn EXCEPT ![c] = r],
           taskList' = taskList, running' = running, events' = events
    PROVE  IInv'
<1>1. Effect(c, r, <<>>, <<>>)
  BY Zenon DEF Effect, SameLife
<1> QED
  BY <1>1, QuietPreserves, Zenon

\* Locking the weak pointer changes the handler's name only.
LEMMA HandleTimeoutPreserves ==
    ASSUME IInv, NEW c \in Conns, NEW i, HandleTimeout(c, i)
    PROVE  IInv'
<1> DEFINE q == conn[c].ready
           name == IF q[i].h = "handleReadTimeout" THEN "onReadTimeout" ELSE "onWriteTimeout"
           locked == [conn[c] EXCEPT !.ready[i].h = name]
<1>1. Handles(c, i, "handleReadTimeout") \/ Handles(c, i, "handleWriteTimeout")
  BY Zenon DEF HandleTimeout
<1>4. Without(c, i) \in ConnType /\ SameLife(conn[c], Without(c, i))
  BY <1>1, HandlerStart, Zenon
<1>5. locked \in ConnType /\ SameLife(conn[c], locked)
  <2>1. name \in HandlerNames
    BY Zenon DEF HandlerNames, OwningHandlers
  <2> HIDE DEF name
  <2> QED
    BY <1>1, <2>1, RenamedFacts, Zenon
<1>6. /\ \/ conn' = [conn EXCEPT ![c] = Without(c, i)]
         \/ conn' = [conn EXCEPT ![c] = locked]
      /\ taskList' = taskList /\ running' = running /\ events' = events
  <2>1. CASE Alive(conn[c])
    BY <2>1, Zenon DEF HandleTimeout
  <2>2. CASE ~Alive(conn[c])
    BY <2>2, Zenon DEF HandleTimeout
  <2> QED
    BY <2>1, <2>2
<1> HIDE DEF locked
<1> QED
  BY <1>4, <1>5, <1>6, SameLifePreserves, Zenon

\* onStop changes neither the state nor the protocol.
LEMMA OnStopPreserves ==
    ASSUME IInv, NEW c \in Conns, NEW i, OnStop(c, i)
    PROVE  IInv'
<1> DEFINE r == Without(c, i)
           q == IF r.socket = "open" THEN r.ready \o Aborted(r) ELSE r.ready
           after == [r EXCEPT !.readTimer = FALSE, !.writeTimer = FALSE,
                       !.socket = "deleted", !.managed = FALSE,
                       !.reading = "none", !.writing = FALSE, !.ready = q]
<1>1. /\ Handles(c, i, "onStop")
      /\ conn' = [conn EXCEPT ![c] = after]
      /\ taskList' = taskList /\ running' = running /\ events' = events
  BY Zenon DEF OnStop
<1>2. r \in ConnType /\ SameLife(conn[c], r)
  BY <1>1, HandlerStart, Zenon
<1> HIDE DEF r
<1>3. q \in Seq(Handler)
  <2>1. r.ready \in Seq(Handler) /\ Aborted(r) \in Seq(Handler)
    BY <1>2, AbortedFacts, Zenon DEF ConnType
  <2> QED
    BY <2>1
<1> HIDE DEF q
<1>4. after \in ConnType /\ SameLife(r, after)
  BY <1>2, <1>3, Zenon DEF ConnType, SameLife
<1>5. SameLife(conn[c], after)
  BY <1>2, <1>4, Zenon DEF SameLife
<1> HIDE DEF after
<1> QED
  BY <1>1, <1>4, <1>5, SameLifePreserves, Zenon

\* Every handler of the service threads keeps the invariant.
LEMMA ServiceStepPreserves ==
    ASSUME IInv, NEW c \in Conns, ServiceStep(c)
    PROVE  IInv'
<1> PICK i \in InProgress(c) :
        \/ ParseHeader(c, i)
        \/ ParsePacketRefused(c, i)
        \/ ParsePacketNoProtocol(c, i)
        \/ ParsePacketUndecryptable(c, i)
        \/ ParsePacketDisconnect(c, i)
        \/ ParsePacketLogin(c, i)
        \/ ParsePacketLater(c, i)
        \/ OnWrite(c, i)
        \/ DestroyWrite(c, i)
        \/ HandleTimeout(c, i)
        \/ OnReadTimeout(c, i)
        \/ OnWriteTimeout(c, i)
        \/ OnStop(c, i)
  BY Zenon DEF ServiceStep
<1> QED
  BY ParseHeaderPreserves, ParsePacketRefusedPreserves, ParsePacketNoProtocolPreserves,
     ParsePacketUndecryptablePreserves, ParsePacketDisconnectPreserves,
     ParsePacketLoginPreserves, ParsePacketLaterPreserves, OnWritePreserves,
     DestroyWritePreserves, HandleTimeoutPreserves, OnReadTimeoutPreserves, OnWriteTimeoutPreserves,
     OnStopPreserves, Zenon

-----------------------------------------------------------------------------
(* The peer and the kernel.                                                   *)

\* A newly accepted connection has received nothing.
LEMMA AcceptPreserves ==
    ASSUME IInv, NEW c \in Conns, Accept(c)
    PROVE  IInv'
<1> DEFINE open == CreateConnection(conn[c])
           after == StartRead(open, "parseHeader")
<1>1. /\ conn[c].state = "NONE"
      /\ conn' = [conn EXCEPT ![c] = after]
      /\ taskList' = taskList /\ running' = running /\ events' = events
  BY Zenon DEF Accept
<1>2. conn[c] \in ConnType
  BY ConnTyped
<1>3. /\ open \in ConnType /\ open.state = "OPEN"
      /\ open.proto = conn[c].proto /\ open.receivedFirst = conn[c].receivedFirst
  BY <1>2, Zenon DEF ConnType, States, CreateConnection
<1> HIDE DEF open
<1>4. after \in ConnType /\ SameLife(open, after)
  BY <1>3, StartReadFacts, Zenon DEF ReadHandlers
<1> HIDE DEF after
<1>5. Effect(c, after, <<>>, <<>>)
  BY <1>1, <1>3, <1>4, Zenon DEF Effect, SameLife
<1> QED
  BY <1>1, <1>5, QuietPreserves, Zenon

\* A handler becomes ready.
LEMMA ReadyFacts ==
    ASSUME IInv, NEW c \in Conns, NEW name \in HandlerNames, NEW err \in Outcomes
    PROVE  conn[c].ready \o OnReady(name, err) \in Seq(Handler)
<1>1. conn[c].ready \in Seq(Handler)
  BY Zenon DEF IInv, TypeOK, ConnType
<1>2. OnReady(name, err) \in Seq(Handler)
  BY OnReadyFacts
<1> QED
  BY <1>1, <1>2

\* Completions and expired timers only queue handlers.
LEMMA CompletionPreserves ==
    ASSUME IInv, NEW c \in Conns,
           \/ CompleteRead(c) \/ CompleteWrite(c) \/ ExpireReadTimer(c) \/ ExpireWriteTimer(c)
    PROVE  IInv'
<1>1. conn[c] \in ConnType
  BY ConnTyped
<1>2. CASE CompleteRead(c)
  <2> PICK err \in {"ok", "failed"} :
        conn' = [conn EXCEPT ![c].ready = @ \o OnReady(conn[c].reading, err),
                             ![c].reading = "none"]
    BY <1>2, Zenon DEF CompleteRead
  <2> DEFINE q == conn[c].ready \o OnReady(conn[c].reading, err)
             after == [conn[c] EXCEPT !.ready = q, !.reading = "none"]
  <2>1. conn[c].reading \in HandlerNames /\ err \in Outcomes
    BY <1>1, <1>2, Zenon DEF ConnType, CompleteRead, HandlerNames, OwningHandlers, Outcomes
  <2>2. q \in Seq(Handler)
    BY <2>1, ReadyFacts
  <2>3. /\ conn' = [conn EXCEPT ![c] = after]
        /\ taskList' = taskList /\ running' = running /\ events' = events
    BY <1>2, Zenon DEF CompleteRead, IInv, TypeOK
  <2> HIDE DEF q
  <2>4. after \in ConnType /\ SameLife(conn[c], after)
    BY <1>1, <2>2, Zenon DEF ConnType, SameLife
  <2> HIDE DEF after
  <2> QED
    BY <2>3, <2>4, SameLifePreserves, Zenon
<1>3. CASE CompleteWrite(c)
  <2> PICK err \in {"ok", "failed"} :
        conn' = [conn EXCEPT ![c].ready = @ \o OnReady("onWrite", err),
                             ![c].writing = FALSE]
    BY <1>3, Zenon DEF CompleteWrite
  <2> DEFINE q == conn[c].ready \o OnReady("onWrite", err)
             after == [conn[c] EXCEPT !.ready = q, !.writing = FALSE]
  <2>1. "onWrite" \in HandlerNames /\ err \in Outcomes
    BY DEF HandlerNames, OwningHandlers, Outcomes
  <2>2. q \in Seq(Handler)
    BY <2>1, ReadyFacts
  <2>3. /\ conn' = [conn EXCEPT ![c] = after]
        /\ taskList' = taskList /\ running' = running /\ events' = events
    BY <1>3, Zenon DEF CompleteWrite, IInv, TypeOK
  <2> HIDE DEF q
  <2>4. after \in ConnType /\ SameLife(conn[c], after)
    BY <1>1, <2>2, Zenon DEF ConnType, SameLife
  <2> HIDE DEF after
  <2> QED
    BY <2>3, <2>4, SameLifePreserves, Zenon
<1>4. CASE ExpireReadTimer(c)
  <2> DEFINE q == conn[c].ready \o OnReady("handleReadTimeout", "ok")
             after == [conn[c] EXCEPT !.readTimer = FALSE, !.ready = q]
  <2>1. "handleReadTimeout" \in HandlerNames /\ "ok" \in Outcomes
    BY DEF HandlerNames, OwningHandlers, Outcomes
  <2>2. q \in Seq(Handler)
    BY <2>1, ReadyFacts
  <2>3. /\ conn' = [conn EXCEPT ![c] = after]
        /\ taskList' = taskList /\ running' = running /\ events' = events
    BY <1>4, Zenon DEF ExpireReadTimer, IInv, TypeOK
  <2> HIDE DEF q
  <2>4. after \in ConnType /\ SameLife(conn[c], after)
    BY <1>1, <2>2, Zenon DEF ConnType, SameLife
  <2> HIDE DEF after
  <2> QED
    BY <2>3, <2>4, SameLifePreserves, Zenon
<1>5. CASE ExpireWriteTimer(c)
  <2> DEFINE q == conn[c].ready \o OnReady("handleWriteTimeout", "ok")
             after == [conn[c] EXCEPT !.writeTimer = FALSE, !.ready = q]
  <2>1. "handleWriteTimeout" \in HandlerNames /\ "ok" \in Outcomes
    BY DEF HandlerNames, OwningHandlers, Outcomes
  <2>2. q \in Seq(Handler)
    BY <2>1, ReadyFacts
  <2>3. /\ conn' = [conn EXCEPT ![c] = after]
        /\ taskList' = taskList /\ running' = running /\ events' = events
    BY <1>5, Zenon DEF ExpireWriteTimer, IInv, TypeOK
  <2> HIDE DEF q
  <2>4. after \in ConnType /\ SameLife(conn[c], after)
    BY <1>1, <2>2, Zenon DEF ConnType, SameLife
  <2> HIDE DEF after
  <2> QED
    BY <2>3, <2>4, SameLifePreserves, Zenon
<1> QED
  BY <1>2, <1>3, <1>4, <1>5

-----------------------------------------------------------------------------
(* The dispatcher: delegate's later steps add to the list like a handler.     *)

\* delegate sends its answer or gives the message back.
LEMMA DelegateSendPreserves ==
    ASSUME IInv, NEW c \in Conns, DelegateSend(c)
    PROVE  IInv'
<1> DEFINE r == Send(conn[c])
           f == DropTask(c, conn[c])
<1>1. /\ running = [pc |-> "send", c |-> c] /\ running' = [pc |-> "close", c |-> c]
      /\ conn' = [conn EXCEPT ![c] = r]
      /\ taskList' = f \o taskList
      /\ events' = events
  BY Zenon DEF DelegateSend, AddTaskFront
<1>2. r \in ConnType /\ SameLife(conn[c], r)
  BY ConnTyped, SendFacts, Zenon
<1>3. f = <<>> \/ f = ReleaseMessage(c)
  BY Zenon DEF DropTask
<1> HIDE DEF r, f
<1>4. Effect(c, r, f, <<>>)
  BY <1>2, <1>3, Zenon DEF Effect, SameLife
<1>5. taskList' = (f \o taskList) \o <<>>
  <2>1. taskList \in Seq(Task)
    BY DEF IInv, TypeOK
  <2>2. f \in Seq(Task)
    <3>1. ReleaseMessage(c) \in Seq(Task)
      BY DEF ReleaseMessage, Task, TaskNames
    <3>2. <<>> \in Seq(Task)
      OBVIOUS
    <3> QED
      BY <1>3, <3>1, <3>2, Zenon
  <2>3. (f \o taskList) \o <<>> = f \o taskList
    BY <2>1, <2>2
  <2> QED
    BY <1>1, <2>3, Zenon
<1>6. DelegateMovesOn
  BY <1>1, Zenon DEF DelegateMovesOn, RunningType, Delegating
<1> QED
  BY <1>1, <1>4, <1>5, <1>6, GrowthPreserves, Zenon

\* delegate's last call asks for the close.
LEMMA DelegateClosePreserves ==
    ASSUME IInv, NEW c \in Conns, DelegateClose(c)
    PROVE  IInv'
<1> DEFINE r == Close(conn[c])
           b == CloseTask(c, conn[c], r)
<1>1. /\ running' = Idle
      /\ conn' = [conn EXCEPT ![c] = r]
      /\ taskList' = taskList \o b
      /\ events' = events
  BY Zenon DEF DelegateClose, AddTask
<1>2. /\ r \in ConnType
      /\ r.state = conn[c].state \/ (conn[c].state = "OPEN" /\ r.state = "REQUEST_CLOSE")
      /\ r.proto = conn[c].proto /\ r.receivedFirst = conn[c].receivedFirst
  BY ConnTyped, CloseFacts, Zenon
<1> HIDE DEF r
<1>3. Effect(c, r, <<>>, b)
  BY <1>2, ClosingEffect, Zenon
<1>4. taskList' = (<<>> \o taskList) \o b
  <2>1. taskList \in Seq(Task)
    BY DEF IInv, TypeOK
  <2>2. <<>> \o taskList = taskList
    BY <2>1
  <2> QED
    BY <1>1, <2>2, Zenon
<1>5. DelegateMovesOn
  <2>1. \A d \in Conns : Idle \notin [pc : {"send", "close"}, c : {d}]
    BY DEF Idle
  <2> QED
    BY <1>1, <2>1, Zenon DEF DelegateMovesOn, RunningType, Delegating
<1> QED
  BY <1>1, <1>3, <1>4, <1>5, GrowthPreserves, Zenon

-----------------------------------------------------------------------------
(* The dispatcher takes a task off the list.                                  *)

\* What task t of connection c may do: r is the connection's new state.
TakeEffect(c, t, r) ==
    /\ r \in ConnType
    /\ r.receivedFirst = conn[c].receivedFirst
    /\ \/ t # "closeConnection" /\ r.state = conn[c].state /\ r.proto = conn[c].proto
       \/ /\ t = "releaseProtocol" /\ r.state = conn[c].state
          /\ r.proto \in {"detached", "deleted"}
       \/ /\ t = "closeConnection" /\ r.state \in {"CLOSING", "CLOSED"}
          /\ \/ conn[c].proto # "attached" /\ r.proto = conn[c].proto
             \/ conn[c].proto = "attached" /\ r.proto \in {"detached", "deleted"}
    /\ events' \in SUBSET Retry
    /\ \A d \in Conns :
         [t |-> "releaseProtocol", c |-> d] \in events' =>
            \/ [t |-> "releaseProtocol", c |-> d] \in events
            \/ d = c /\ r.proto \in {"detached", "deleted"}
    /\ running' \in RunningType
    /\ \A d \in Conns : Delegating(d)' => d = c /\ t = "delegate"

\* A step that takes the first task as TakeEffect allows keeps the invariant.
LEMMA TakePreserves ==
    ASSUME IInv, NEW c \in Conns, NEW t \in TaskNames, NEW r,
           Takes(t, c), TakeEffect(c, t, r),
           conn' = [conn EXCEPT ![c] = r],
           taskList' = Tail(taskList)
    PROVE  IInv'
<1>1. taskList \in Seq(Task) /\ taskList # <<>> /\ Head(taskList) = [t |-> t, c |-> c]
  BY Zenon DEF IInv, TypeOK, Takes
<1>2. /\ taskList' \in Seq(Task)
      /\ taskList[1] = [t |-> t, c |-> c] /\ 1 \in DOMAIN taskList
      /\ \A i \in DOMAIN taskList' : i + 1 \in DOMAIN taskList /\ taskList'[i] = taskList[i + 1]
      /\ \A i \in DOMAIN taskList :
            i = 1 \/ (i - 1 \in DOMAIN taskList' /\ taskList'[i - 1] = taskList[i])
      /\ DOMAIN taskList \subseteq Nat \ {0} /\ DOMAIN taskList' \subseteq Nat \ {0}
  <2>1. /\ Tail(taskList) \in Seq(Task)
        /\ Head(taskList) = taskList[1] /\ 1 \in DOMAIN taskList
        /\ \A i \in DOMAIN Tail(taskList) :
              i + 1 \in DOMAIN taskList /\ Tail(taskList)[i] = taskList[i + 1]
        /\ \A i \in DOMAIN taskList :
              \/ i = 1
              \/ i - 1 \in DOMAIN Tail(taskList) /\ Tail(taskList)[i - 1] = taskList[i]
    BY <1>1, ListShrinks, Zenon
  <2>2. DOMAIN taskList \subseteq Nat \ {0} /\ DOMAIN taskList' \subseteq Nat \ {0}
    BY <1>1, <2>1
  <2> QED
    BY <1>1, <2>1, <2>2, Zenon
<1>3. \A d \in Conns, u \in TaskNames : \A i \in Positions(u, d)' : i + 1 \in Positions(u, d)
  BY <1>2 DEF Positions
<1>4. \A d \in Conns, u \in TaskNames : Queued(u, d)' => Queued(u, d)
  BY <1>3 DEF Queued
<1>5. \A d \in Conns, u \in TaskNames :
        Queued(u, d) /\ ~(u = t /\ d = c) => Queued(u, d)'
  <2> SUFFICES ASSUME NEW d \in Conns, NEW u \in TaskNames, ~(u = t /\ d = c),
                      NEW i \in Positions(u, d)
               PROVE  Queued(u, d)'
    BY DEF Queued
  <2>1. i \in DOMAIN taskList /\ taskList[i] = [t |-> u, c |-> d]
    BY DEF Positions
  <2>2. i # 1
    BY <2>1, <1>2
  <2>3. i - 1 \in Positions(u, d)'
    BY <2>1, <2>2, <1>2 DEF Positions
  <2> QED
    BY <2>3 DEF Queued
<1>6. t \in {"closeConnection", "delegate", "releaseProtocol"} => 1 \in Positions(t, c)
  BY <1>2 DEF Positions
<1>7. /\ conn' \in [Conns -> ConnType]
      /\ conn'[c] = r
      /\ \A d \in Conns : d # c => conn'[d] = conn[d]
  BY Zenon DEF IInv, TypeOK, TakeEffect
<1>8. /\ {"closeConnection", "delegate", "releaseProtocol"} \subseteq TaskNames
      /\ r.receivedFirst = conn[c].receivedFirst
      /\ t = "closeConnection" => r.state \in {"CLOSING", "CLOSED"}
      /\ t # "closeConnection" => r.state = conn[c].state
      /\ t \notin {"closeConnection", "releaseProtocol"} => r.proto = conn[c].proto
      /\ r.proto = conn[c].proto \/ r.proto \in {"detached", "deleted"}
      /\ conn[c].proto \in {"none", "detached", "deleted"} /\ t # "releaseProtocol" =>
           r.proto = conn[c].proto
  <2>1. "closeConnection" # "releaseProtocol" /\ "none" # "attached"
        /\ "detached" # "attached" /\ "deleted" # "attached"
    OBVIOUS
  <2> QED
    BY <2>1, Zenon DEF TakeEffect, TaskNames
\* Only closeConnection and a retry change the protocol; neither finds delegate waiting.
<1>9. t = "closeConnection" => ~Queued("delegate", c)'
  <2> SUFFICES ASSUME t = "closeConnection", NEW j \in Positions("delegate", c)'
               PROVE  FALSE
    BY DEF Queued
  <2>1. j \in DOMAIN taskList'
    BY DEF Positions
  <2>2. j + 1 \in Positions("delegate", c) /\ 1 \in Positions("closeConnection", c)
    BY <1>3, <1>6, <1>8
  <2>3. j + 1 < 1
    BY <2>2 DEF IInv, DelegateBeforeClose
  <2> QED
    BY <2>1, <2>3, <1>2
<1>10. t = "releaseProtocol" => conn[c].proto \in {"detached", "deleted"}
  <2>1. t = "releaseProtocol" => Queued("releaseProtocol", c)
    BY <1>6, Zenon DEF Queued
  <2> QED
    BY <2>1, Zenon DEF IInv, RetriesAreDetached
<1>11. TypeOK'
  BY <1>2, <1>7, Zenon DEF TypeOK, TakeEffect
<1>12. CloseRunsOnce'
  <2> SUFFICES ASSUME NEW d \in Conns
               PROVE  /\ Queued("closeConnection", d)' <=> conn'[d].state = "REQUEST_CLOSE"
                      /\ \A i, j \in Positions("closeConnection", d)' : i = j
    BY DEF CloseRunsOnce
  <2>1. /\ Queued("closeConnection", d) <=> conn[d].state = "REQUEST_CLOSE"
        /\ \A i, j \in Positions("closeConnection", d) : i = j
    BY Zenon DEF IInv, CloseRunsOnce
  <2>2. ASSUME NEW i \in Positions("closeConnection", d)',
               NEW j \in Positions("closeConnection", d)'
        PROVE  i = j
    <3>1. i + 1 = j + 1
      BY <2>1, <1>3, <1>8, Zenon
    <3>2. i \in Int /\ j \in Int
      BY <1>2 DEF Positions
    <3> QED
      BY <3>1, <3>2
  <2>3. CASE d = c /\ t = "closeConnection"
    <3>1. ~Queued("closeConnection", d)'
      <4> SUFFICES ASSUME NEW i \in Positions("closeConnection", d)'
                   PROVE  FALSE
        BY DEF Queued
      <4>1. i + 1 = 1
        BY <2>1, <2>3, <1>3, <1>6, <1>8, Zenon
      <4>2. i \in Nat \ {0}
        BY <1>2 DEF Positions
      <4> QED
        BY <4>1, <4>2
    <3>2. conn'[d].state # "REQUEST_CLOSE"
      BY <2>3, <1>7, <1>8
    <3> QED
      BY <2>2, <3>1, <3>2, Zenon
  <2>4. CASE ~(d = c /\ t = "closeConnection")
    <3>1. Queued("closeConnection", d)' <=> Queued("closeConnection", d)
      BY <2>4, <1>4, <1>5, <1>8, Zenon
    <3>2. conn'[d].state = conn[d].state
      BY <2>4, <1>7, <1>8, Zenon
    <3> QED
      BY <2>1, <2>2, <3>1, <3>2, Zenon
  <2> QED
    BY <2>3, <2>4
<1>13. DelegateBeforeClose'
  <2> SUFFICES ASSUME NEW d \in Conns,
                      NEW i \in Positions("closeConnection", d)',
                      NEW j \in Positions("delegate", d)'
               PROVE  j < i
    BY DEF DelegateBeforeClose
  <2>1. i + 1 \in Positions("closeConnection", d) /\ j + 1 \in Positions("delegate", d)
    BY <1>3, <1>8, Zenon
  <2>2. j + 1 < i + 1
    BY <2>1, Zenon DEF IInv, DelegateBeforeClose
  <2>3. i \in Nat /\ j \in Nat
    BY <1>2 DEF Positions
  <2> QED
    BY <2>2, <2>3
<1>14. DelegateHasConnection'
  <2> SUFFICES ASSUME NEW d \in Conns, Queued("delegate", d)' \/ Delegating(d)'
               PROVE  conn'[d].proto = "attached"
    BY Zenon DEF DelegateHasConnection
  <2>1. Queued("delegate", d)
    <3>1. CASE Queued("delegate", d)'
      BY <3>1, <1>4, <1>8, Zenon
    <3>2. CASE Delegating(d)'
      <4>1. d = c /\ t = "delegate"
        BY <3>2, Zenon DEF TakeEffect
      <4> QED
        BY <4>1, <1>6, Zenon DEF Queued
    <3> QED
      BY <3>1, <3>2
  <2>2. conn[d].proto = "attached"
    BY <2>1, Zenon DEF IInv, DelegateHasConnection
  <2>3. d = c => t # "closeConnection"
    <3>1. Delegating(d)' => t = "delegate"
      BY Zenon DEF TakeEffect
    <3> QED
      BY <3>1, <1>9
  <2>4. d = c => t # "releaseProtocol"
    BY <2>2, <1>10
  <2> QED
    BY <2>2, <2>3, <2>4, <1>7, <1>8
<1>15. OpenHasProtocol'
  <2> SUFFICES ASSUME NEW d \in Conns, conn'[d].state = "OPEN", conn'[d].receivedFirst
               PROVE  conn'[d].proto = "attached"
    BY Zenon DEF OpenHasProtocol
  <2>1. CASE d # c
    BY <2>1, <1>7, Zenon DEF IInv, OpenHasProtocol
  <2>2. CASE d = c
    <3>1. r.state = "OPEN"
      BY <2>2, <1>7
    <3>2. t # "closeConnection"
      BY <3>1, <1>8
    <3>3. conn[c].state = "OPEN" /\ conn[c].receivedFirst
      BY <2>2, <3>1, <3>2, <1>7, <1>8, Zenon
    <3>4. conn[c].proto = "attached"
      BY <3>3, Zenon DEF IInv, OpenHasProtocol
    <3>5. t # "releaseProtocol"
      BY <3>4, <1>10
    <3> QED
      BY <2>2, <3>2, <3>4, <3>5, <1>7, <1>8
  <2> QED
    BY <2>1, <2>2
<1>16. RetriesAreDetached'
  <2> SUFFICES ASSUME NEW d \in Conns,
                      \/ Queued("releaseProtocol", d)'
                      \/ [t |-> "releaseProtocol", c |-> d] \in events'
               PROVE  conn'[d].proto \in {"detached", "deleted"}
    BY Zenon DEF RetriesAreDetached
  <2>1. CASE d = c /\ r.proto \in {"detached", "deleted"}
    BY <2>1, <1>7, Zenon
  <2>2. CASE ~(d = c /\ r.proto \in {"detached", "deleted"})
    <3>1. Queued("releaseProtocol", d) \/ [t |-> "releaseProtocol", c |-> d] \in events
      BY <2>2, <1>4, <1>8, Zenon DEF TakeEffect
    <3>2. conn[d].proto \in {"detached", "deleted"}
      BY <3>1, Zenon DEF IInv, RetriesAreDetached
    <3> QED
      BY <2>2, <3>2, <1>7, <1>8
  <2> QED
    BY <2>1, <2>2
<1>17. FirstPacketCreates'
  <2> SUFFICES ASSUME NEW d \in Conns
               PROVE  /\ ~conn'[d].receivedFirst => conn'[d].proto = "none"
                      /\ conn'[d].state = "NONE" => ~conn'[d].receivedFirst
    BY Zenon DEF FirstPacketCreates
  <2>1. CASE d # c
    BY <2>1, <1>7, Zenon DEF IInv, FirstPacketCreates
  <2>2. CASE d = c
    <3>1. conn'[d] = r
      BY <2>2, <1>7, Zenon
    <3>2. ~r.receivedFirst => conn[c].proto = "none"
      BY <1>8, Zenon DEF IInv, FirstPacketCreates
    <3>3. conn[c].proto = "none" => r.proto = "none"
      BY <1>8, <1>10
    <3>4. r.state = "NONE" => conn[c].state = "NONE"
      BY <1>8
    <3>5. conn[c].state = "NONE" => ~conn[c].receivedFirst
      BY Zenon DEF IInv, FirstPacketCreates
    <3> QED
      BY <3>1, <3>2, <3>3, <3>4, <3>5, <1>8, Zenon
  <2> QED
    BY <2>1, <2>2
<1> QED
  BY <1>11, <1>12, <1>13, <1>14, <1>15, <1>16, <1>17, Zenon DEF IInv

\* A task that leaves the scheduler and delegate alone.
LEMMA QuietTakePreserves ==
    ASSUME IInv, NEW c \in Conns, NEW t \in TaskNames, NEW r \in ConnType,
           t \in {"internalReleaseMessage", "releaseConnection"},
           Takes(t, c), SameLife(conn[c], r),
           conn' = [conn EXCEPT ![c] = r],
           taskList' = Tail(taskList),
           running' = running,
           events' \in SUBSET Retry,
           \A d \in Conns : [t |-> "releaseProtocol", c |-> d] \in events' =>
                            [t |-> "releaseProtocol", c |-> d] \in events
    PROVE  IInv'
<1>1. t # "closeConnection"
  OBVIOUS
<1>2. running' = Idle
  BY Zenon DEF Takes
<1>3. Idle \in RunningType /\ \A d \in Conns : Idle \notin [pc : {"send", "close"}, c : {d}]
  BY DEF Idle, RunningType
<1>4. running' \in RunningType /\ \A d \in Conns : ~Delegating(d)'
  BY <1>2, <1>3, Zenon DEF Delegating
<1>5. TakeEffect(c, t, r)
  BY <1>1, <1>4, Zenon DEF TakeEffect, SameLife
<1> QED
  BY <1>5, TakePreserves, Zenon

\* The message's references are dropped.
LEMMA InternalReleaseMessagePreserves ==
    ASSUME IInv, NEW c \in Conns, InternalReleaseMessage(c)
    PROVE  IInv'
<1> DEFINE r == [conn[c] EXCEPT !.protoRefs = @ - 1, !.refCount = @ - 1]
<1>1. conn[c] \in ConnType
  BY ConnTyped
<1>2. conn[c].protoRefs - 1 \in Int /\ conn[c].refCount - 1 \in Int
  BY <1>1 DEF ConnType
<1>3. r \in ConnType /\ SameLife(conn[c], r)
  BY <1>1, <1>2, Zenon DEF ConnType, SameLife
<1>4. /\ Takes("internalReleaseMessage", c) /\ taskList' = Tail(taskList)
      /\ conn' = [conn EXCEPT ![c] = r]
      /\ running' = running /\ events' = events
  BY Zenon DEF InternalReleaseMessage, IInv, TypeOK
<1>5. "internalReleaseMessage" \in TaskNames /\ events \in SUBSET Retry
  BY Zenon DEF TaskNames, IInv, TypeOK
<1> HIDE DEF r
<1> QED
  BY <1>3, <1>4, <1>5, QuietTakePreserves, Zenon

\* The release appends onStop or leaves the connection alone.
LEMMA ReleaseConnectionFacts ==
    ASSUME NEW r \in ConnType
    PROVE  ReleaseConnection(r) \in ConnType /\ SameLife(r, ReleaseConnection(r))
<1>1. CASE r.refCount > 0
  BY <1>1, Zenon DEF ReleaseConnection, SameLife
<1>2. CASE ~(r.refCount > 0)
  <2>1. "onStop" \in HandlerNames /\ "ok" \in Outcomes
    BY DEF HandlerNames, Outcomes
  <2>2. r.ready \in Seq(Handler) /\ OnReady("onStop", "ok") \in Seq(Handler)
    BY <2>1, OnReadyFacts, Zenon DEF ConnType
  <2>3. r.ready \o OnReady("onStop", "ok") \in Seq(Handler)
    BY <2>2
  <2>4. ReleaseConnection(r) = [r EXCEPT !.ready = @ \o OnReady("onStop", "ok")]
    BY <1>2, Zenon DEF ReleaseConnection
  <2> QED
    BY <2>3, <2>4, Zenon DEF ConnType, SameLife
<1> QED
  BY <1>1, <1>2

\* What the two kinds of retry may be.
LEMMA RetryFacts ==
    ASSUME NEW c \in Conns, NEW r
    PROVE  /\ ConnectionRetry(c, r) \in SUBSET Retry
           /\ ProtocolRetry(c, r) \in SUBSET Retry
           /\ \A d \in Conns : [t |-> "releaseProtocol", c |-> d] \notin ConnectionRetry(c, r)
           /\ \A d \in Conns :
                [t |-> "releaseProtocol", c |-> d] \in ProtocolRetry(c, r) => d = c
<1>1. /\ [t |-> "releaseConnection", c |-> c] \in Retry
      /\ [t |-> "releaseProtocol", c |-> c] \in Retry
      /\ \A d \in Conns :
           [t |-> "releaseProtocol", c |-> d] # [t |-> "releaseConnection", c |-> c]
      /\ \A d \in Conns :
           [t |-> "releaseProtocol", c |-> d] = [t |-> "releaseProtocol", c |-> c] => d = c
  BY DEF Retry
<1>2. \/ ConnectionRetry(c, r) = {}
      \/ ConnectionRetry(c, r) = {[t |-> "releaseConnection", c |-> c]}
  BY Zenon DEF ConnectionRetry
<1>3. ProtocolRetry(c, r) = {} \/ ProtocolRetry(c, r) = {[t |-> "releaseProtocol", c |-> c]}
  BY Zenon DEF ProtocolRetry
<1> QED
  BY <1>1, <1>2, <1>3, Zenon

\* A retry of releaseConnection.
LEMMA RetryReleaseConnectionPreserves ==
    ASSUME IInv, NEW c \in Conns, RetryReleaseConnection(c)
    PROVE  IInv'
<1> DEFINE r == ReleaseConnection(conn[c])
<1>1. r \in ConnType /\ SameLife(conn[c], r)
  BY ConnTyped, ReleaseConnectionFacts, Zenon
<1>2. /\ Takes("releaseConnection", c) /\ taskList' = Tail(taskList)
      /\ conn' = [conn EXCEPT ![c] = r]
      /\ running' = running /\ events' = events \cup ConnectionRetry(c, conn[c])
  BY Zenon DEF RetryReleaseConnection
<1>3. "releaseConnection" \in TaskNames /\ events \in SUBSET Retry
  BY Zenon DEF TaskNames, IInv, TypeOK
<1>4. /\ ConnectionRetry(c, conn[c]) \in SUBSET Retry
      /\ \A d \in Conns :
           [t |-> "releaseProtocol", c |-> d] \notin ConnectionRetry(c, conn[c])
  BY RetryFacts, Zenon
<1> HIDE DEF r
<1>5. /\ events' \in SUBSET Retry
      /\ \A d \in Conns : [t |-> "releaseProtocol", c |-> d] \in events' =>
                          [t |-> "releaseProtocol", c |-> d] \in events
  BY <1>2, <1>3, <1>4, Zenon
<1> QED
  BY <1>1, <1>2, <1>3, <1>5, QuietTakePreserves, Zenon

\* A retry of releaseProtocol finds a detached protocol.
LEMMA RetryReleaseProtocolPreserves ==
    ASSUME IInv, NEW c \in Conns, RetryReleaseProtocol(c)
    PROVE  IInv'
<1> DEFINE t == "releaseProtocol"
           r == [conn[c] EXCEPT !.proto = ReleaseProtocol(conn[c])]
<1>1. conn[c] \in ConnType
  BY ConnTyped
<1>2. ReleaseProtocol(conn[c]) \in {"detached", "deleted"}
  BY Zenon DEF ReleaseProtocol
<1>3. /\ r \in ConnType /\ r.state = conn[c].state
      /\ r.receivedFirst = conn[c].receivedFirst
      /\ r.proto \in {"detached", "deleted"}
  BY <1>1, <1>2, Zenon DEF ConnType
<1>4. /\ Takes(t, c) /\ taskList' = Tail(taskList)
      /\ conn' = [conn EXCEPT ![c] = r]
      /\ running' = running /\ events' = events \cup ProtocolRetry(c, conn[c])
      /\ running = Idle
  BY Zenon DEF RetryReleaseProtocol, Takes, IInv, TypeOK
<1>5. t \in TaskNames /\ events \in SUBSET Retry
  BY Zenon DEF TaskNames, IInv, TypeOK
<1>6. /\ ProtocolRetry(c, conn[c]) \in SUBSET Retry
      /\ \A d \in Conns :
           [t |-> "releaseProtocol", c |-> d] \in ProtocolRetry(c, conn[c]) => d = c
  BY RetryFacts, Zenon
<1>7. running' \in RunningType /\ \A d \in Conns : ~Delegating(d)'
  <2>1. /\ Idle \in RunningType
        /\ \A d \in Conns : Idle \notin [pc : {"send", "close"}, c : {d}]
    BY DEF Idle, RunningType
  <2> QED
    BY <1>4, <2>1, Zenon DEF Delegating
<1> HIDE DEF r
<1>8. TakeEffect(c, t, r)
  BY <1>3, <1>4, <1>5, <1>6, <1>7, Zenon DEF TakeEffect
<1> QED
  BY <1>4, <1>5, <1>8, TakePreserves, Zenon

\* delegate starts: its protocol is attached and stays so.
LEMMA DelegateAnswerPreserves ==
    ASSUME IInv, NEW c \in Conns, DelegateAnswer(c)
    PROVE  IInv'
<1> DEFINE t == "delegate"
           r == GetOutputMessage(conn[c])
<1>1. r \in ConnType /\ SameLife(conn[c], r)
  BY ConnTyped, GetOutputMessageFacts, Zenon
<1>2. /\ Takes(t, c) /\ taskList' = Tail(taskList)
      /\ conn' = [conn EXCEPT ![c] = r]
      /\ running' = [pc |-> "send", c |-> c] /\ events' = events
  BY Zenon DEF DelegateAnswer
<1>3. t \in TaskNames /\ events \in SUBSET Retry
  BY Zenon DEF TaskNames, IInv, TypeOK
<1>4. running' \in RunningType /\ \A d \in Conns : Delegating(d)' => d = c
  <2>1. /\ [pc |-> "send", c |-> c] \in RunningType
        /\ \A d \in Conns :
             [pc |-> "send", c |-> c] \in [pc : {"send", "close"}, c : {d}] => d = c
    BY DEF RunningType
  <2> QED
    BY <1>2, <2>1, Zenon DEF Delegating
<1>5. t # "closeConnection"
  OBVIOUS
<1> HIDE DEF r
<1>6. TakeEffect(c, t, r)
  BY <1>1, <1>2, <1>3, <1>4, <1>5, Zenon DEF TakeEffect, SameLife
<1> QED
  BY <1>2, <1>3, <1>6, TakePreserves, Zenon

\* closeConnection gives up the protocol and sets a state.
LEMMA DetachFacts ==
    ASSUME NEW r \in ConnType
    PROVE  /\ DetachProtocol(r) \in ConnType
           /\ DetachProtocol(r).receivedFirst = r.receivedFirst
           /\ r.proto # "attached" => DetachProtocol(r).proto = r.proto
           /\ r.proto = "attached" => DetachProtocol(r).proto \in {"detached", "deleted"}
<1>1. CASE r.proto # "attached"
  BY <1>1, Zenon DEF DetachProtocol
<1>2. CASE r.proto = "attached"
  <2>1. DetachProtocol(r) = [r EXCEPT !.proto = ReleaseProtocol(r)]
    BY <1>2, Zenon DEF DetachProtocol
  <2>2. ReleaseProtocol(r) \in {"detached", "deleted"}
    BY Zenon DEF ReleaseProtocol
  <2> QED
    BY <1>2, <2>1, <2>2, Zenon DEF ConnType
<1> QED
  BY <1>1, <1>2

\* Assigning m_connectionState.
LEMMA SetStateFacts ==
    ASSUME NEW r \in ConnType, NEW s \in States
    PROVE  /\ [r EXCEPT !.state = s] \in ConnType
           /\ [r EXCEPT !.state = s].state = s
           /\ [r EXCEPT !.state = s].proto = r.proto
           /\ [r EXCEPT !.state = s].receivedFirst = r.receivedFirst
  BY Zenon DEF ConnType

\* closeConnection detaches the protocol when no delegate is left behind it.
LEMMA CloseConnectionPreserves ==
    ASSUME IInv, NEW c \in Conns, CloseConnection(c)
    PROVE  IInv'
<1> DEFINE t == "closeConnection"
           p == DetachProtocol(conn[c])
           detached == [p EXCEPT !.state = "CLOSING"]
           q == ReleaseConnection(CloseSocket(detached))
           released == [q EXCEPT !.state = "CLOSED"]
           r == IF Finishes(conn[c]) THEN released ELSE detached
           retries == (IF conn[c].proto = "attached" THEN ProtocolRetry(c, conn[c]) ELSE {})
                      \cup (IF Finishes(conn[c]) THEN ConnectionRetry(c, conn[c]) ELSE {})
<1>1. conn[c] \in ConnType
  BY ConnTyped
<1>2. Takes(t, c) /\ taskList' = Tail(taskList) /\ running' = running /\ running = Idle
  BY Zenon DEF CloseConnection, Takes
\* The close that is taken is the only one, so the connection is in REQUEST_CLOSE.
<1>3. conn[c].state = "REQUEST_CLOSE"
  <2>1. taskList \in Seq(Task) /\ taskList # <<>> /\ Head(taskList) = [t |-> t, c |-> c]
    BY <1>2, Zenon DEF IInv, TypeOK, Takes
  <2>2. Head(taskList) = taskList[1] /\ 1 \in DOMAIN taskList
    BY <2>1, ListShrinks, Zenon
  <2>3. Queued(t, c)
    BY <2>1, <2>2, Zenon DEF Queued, Positions
  <2> QED
    BY <2>3, Zenon DEF IInv, CloseRunsOnce
<1>4. conn' = [conn EXCEPT ![c] = r]
  BY <1>3, Zenon DEF CloseConnection
<1>5. events' = events \cup retries
  <2>1. events' = (events
          \cup (IF conn[c].proto = "attached" THEN ProtocolRetry(c, conn[c]) ELSE {}))
          \cup (IF Finishes(conn[c]) THEN ConnectionRetry(c, conn[c]) ELSE {})
    BY <1>3, Zenon DEF CloseConnection
  <2> HIDE DEF r
  <2> QED
    BY <2>1, Zenon
<1>6. p \in ConnType
  BY <1>1, DetachFacts, Zenon
<1>7. "CLOSING" \in States /\ "CLOSED" \in States
  BY DEF States
<1>8. detached \in ConnType /\ detached.state = "CLOSING" /\ detached.proto = p.proto
      /\ detached.receivedFirst = p.receivedFirst
  <2> HIDE DEF p
  <2> QED
    BY <1>6, <1>7, SetStateFacts, Zenon
<1>9. q \in ConnType /\ q.proto = p.proto /\ q.receivedFirst = p.receivedFirst
  <2> HIDE DEF detached, p
  <2>1. CloseSocket(detached) \in ConnType /\ SameLife(detached, CloseSocket(detached))
    BY <1>8, CloseSocketFacts, Zenon
  <2>2. /\ q \in ConnType
        /\ SameLife(CloseSocket(detached), q)
    BY <2>1, ReleaseConnectionFacts, Zenon
  <2> HIDE DEF q
  <2> QED
    BY <1>8, <2>1, <2>2, Zenon DEF SameLife
<1>10. released \in ConnType /\ released.state = "CLOSED" /\ released.proto = p.proto
       /\ released.receivedFirst = p.receivedFirst
  <2> HIDE DEF q, p
  <2> QED
    BY <1>7, <1>9, SetStateFacts, Zenon
<1>11. /\ r \in ConnType /\ r.state \in {"CLOSING", "CLOSED"}
       /\ r.proto = p.proto /\ r.receivedFirst = p.receivedFirst
  <2> HIDE DEF released, detached, p
  <2> QED
    BY <1>8, <1>10, Zenon
<1>12. /\ p.receivedFirst = conn[c].receivedFirst
       /\ conn[c].proto # "attached" => p.proto = conn[c].proto
       /\ conn[c].proto = "attached" => p.proto \in {"detached", "deleted"}
  BY <1>1, DetachFacts, Zenon
<1>13. /\ retries \in SUBSET Retry
       /\ \A d \in Conns : [t |-> "releaseProtocol", c |-> d] \in retries =>
                           d = c /\ conn[c].proto = "attached"
  <2>1. /\ ConnectionRetry(c, conn[c]) \in SUBSET Retry
        /\ ProtocolRetry(c, conn[c]) \in SUBSET Retry
        /\ \A d \in Conns :
             [t |-> "releaseProtocol", c |-> d] \notin ConnectionRetry(c, conn[c])
        /\ \A d \in Conns :
             [t |-> "releaseProtocol", c |-> d] \in ProtocolRetry(c, conn[c]) => d = c
    BY RetryFacts, Zenon
  <2> HIDE DEF r, p
  <2> QED
    BY <2>1, Zenon
<1> HIDE DEF r, p, retries
<1>14. running' \in RunningType /\ \A d \in Conns : ~Delegating(d)'
  <2>1. /\ Idle \in RunningType
        /\ \A d \in Conns : Idle \notin [pc : {"send", "close"}, c : {d}]
    BY DEF Idle, RunningType
  <2> QED
    BY <1>2, <2>1, Zenon DEF Delegating
<1>15. /\ events' \in SUBSET Retry
       /\ \A d \in Conns :
            [t |-> "releaseProtocol", c |-> d] \in events' =>
               \/ [t |-> "releaseProtocol", c |-> d] \in events
               \/ d = c /\ r.proto \in {"detached", "deleted"}
  <2>1. events \in SUBSET Retry
    BY Zenon DEF IInv, TypeOK
  <2> QED
    BY <2>1, <1>5, <1>11, <1>12, <1>13, Zenon
<1>16. TakeEffect(c, t, r)
  BY <1>11, <1>12, <1>14, <1>15, Zenon DEF TakeEffect
<1>17. t \in TaskNames
  BY Zenon DEF TaskNames
<1> QED
  BY <1>2, <1>4, <1>16, <1>17, TakePreserves, Zenon

\* Every task of the dispatcher keeps the invariant.
LEMMA DispatcherStepPreserves ==
    ASSUME IInv, NEW c \in Conns, DispatcherStep(c)
    PROVE  IInv'
  BY CloseConnectionPreserves, RetryReleaseConnectionPreserves,
     RetryReleaseProtocolPreserves, InternalReleaseMessagePreserves,
     DelegateAnswerPreserves, DelegateSendPreserves, DelegateClosePreserves,
     Zenon DEF DispatcherStep

-----------------------------------------------------------------------------
(* The scheduler puts a retry in front of the list.                           *)

\* A retry put in front does not overtake a delegate with a close.
LEMMA SchedulerStepPreserves ==
    ASSUME IInv, NEW e \in Retry, SchedulerStep(e)
    PROVE  IInv'
<1>1. /\ e \in events /\ events' = events \ {e}
      /\ taskList' = <<e>> \o taskList /\ conn' = conn /\ running' = running
  BY Zenon DEF SchedulerStep, AddTaskFront
<1>2. taskList \in Seq(Task) /\ e \in Task
  BY DEF IInv, TypeOK, Retry, Task, TaskNames
<1>3. /\ taskList' \in Seq(Task)
      /\ \A i \in DOMAIN taskList' :
           (i = 1 /\ taskList'[i] = e) \/ (i - 1 \in DOMAIN taskList /\ taskList'[i] = taskList[i - 1])
      /\ \A i \in DOMAIN taskList : i + 1 \in DOMAIN taskList' /\ taskList'[i + 1] = taskList[i]
      /\ DOMAIN taskList \subseteq Int /\ DOMAIN taskList' \subseteq Int
  BY <1>1, <1>2
<1>4. \A d \in Conns : /\ e # [t |-> "closeConnection", c |-> d]
                       /\ e # [t |-> "delegate", c |-> d]
  BY DEF Retry
<1>5. ASSUME NEW d \in Conns, NEW u \in {"closeConnection", "delegate"}
      PROVE  /\ \A i \in Positions(u, d)' : i \in Int /\ i - 1 \in Positions(u, d)
             /\ \A i \in Positions(u, d) : i + 1 \in Positions(u, d)'
  BY <1>3, <1>4 DEF Positions
<1>6. \A d \in Conns : /\ Queued("closeConnection", d)' <=> Queued("closeConnection", d)
                       /\ Queued("delegate", d)' <=> Queued("delegate", d)
  BY <1>5 DEF Queued
<1>7. TypeOK'
  BY <1>1, <1>3, Zenon DEF IInv, TypeOK
<1>8. CloseRunsOnce'
  <2> SUFFICES ASSUME NEW d \in Conns
               PROVE  /\ Queued("closeConnection", d)' <=> conn'[d].state = "REQUEST_CLOSE"
                      /\ \A i, j \in Positions("closeConnection", d)' : i = j
    BY DEF CloseRunsOnce
  <2>1. /\ Queued("closeConnection", d) <=> conn[d].state = "REQUEST_CLOSE"
        /\ \A i, j \in Positions("closeConnection", d) : i = j
    BY Zenon DEF IInv, CloseRunsOnce
  <2>2. ASSUME NEW i \in Positions("closeConnection", d)',
               NEW j \in Positions("closeConnection", d)'
        PROVE  i = j
    <3>1. i \in Int /\ j \in Int /\ i - 1 \in Positions("closeConnection", d)
          /\ j - 1 \in Positions("closeConnection", d)
      BY <1>5
    <3>2. i - 1 = j - 1
      BY <3>1, <2>1, Zenon
    <3> QED
      BY <3>1, <3>2
  <2> QED
    BY <1>1, <1>6, <2>1, <2>2, Zenon
<1>9. DelegateHasConnection'
  BY <1>1, <1>6, Zenon DEF IInv, DelegateHasConnection, Delegating
<1>10. DelegateBeforeClose'
  <2> SUFFICES ASSUME NEW d \in Conns,
                      NEW i \in Positions("closeConnection", d)',
                      NEW j \in Positions("delegate", d)'
               PROVE  j < i
    BY DEF DelegateBeforeClose
  <2>1. i \in Int /\ j \in Int /\ i - 1 \in Positions("closeConnection", d)
        /\ j - 1 \in Positions("delegate", d)
    BY <1>5
  <2>2. j - 1 < i - 1
    BY <2>1, Zenon DEF IInv, DelegateBeforeClose
  <2> QED
    BY <2>1, <2>2
<1>11. RetriesAreDetached'
  <2> SUFFICES ASSUME NEW d \in Conns,
                      \/ Queued("releaseProtocol", d)'
                      \/ [t |-> "releaseProtocol", c |-> d] \in events'
               PROVE  conn[d].proto \in {"detached", "deleted"}
    BY <1>1, Zenon DEF RetriesAreDetached
  <2>1. Queued("releaseProtocol", d) \/ [t |-> "releaseProtocol", c |-> d] \in events
    <3>1. CASE [t |-> "releaseProtocol", c |-> d] \in events'
      BY <1>1, <3>1, Zenon
    <3>2. CASE Queued("releaseProtocol", d)'
      <4> PICK i \in DOMAIN taskList' : taskList'[i] = [t |-> "releaseProtocol", c |-> d]
        BY <3>2, Zenon DEF Queued, Positions
      <4>1. \/ e = [t |-> "releaseProtocol", c |-> d]
            \/ /\ i - 1 \in DOMAIN taskList
               /\ taskList[i - 1] = [t |-> "releaseProtocol", c |-> d]
        BY <1>3, Zenon
      <4> QED
        BY <1>1, <4>1, Zenon DEF Queued, Positions
    <3> QED
      BY <3>1, <3>2
  <2> QED
    BY <2>1, Zenon DEF IInv, RetriesAreDetached
<1> QED
  BY <1>1, <1>7, <1>8, <1>9, <1>10, <1>11, Zenon
     DEF IInv, OpenHasProtocol, FirstPacketCreates

-----------------------------------------------------------------------------
(* The theorems.                                                              *)

\* The invariant holds before the first connection is accepted ...
LEMMA InitInvariant == Init => IInv
<1> SUFFICES ASSUME Init PROVE IInv
  OBVIOUS
<1>1. conn = [c \in Conns |-> NewConnection] /\ taskList = <<>> /\ running = Idle /\ events = {}
  BY Zenon DEF Init
<1>2. NewConnection \in ConnType
  <2>1. 0 \in Int /\ <<>> \in Seq(Handler)
    OBVIOUS
  <2> QED
    BY <2>1, Zenon DEF NewConnection, ConnType, States
<1>3. taskList \in Seq(Task) /\ DOMAIN taskList = {} /\ Idle \in RunningType
      /\ \A d \in Conns : Idle \notin [pc : {"send", "close"}, c : {d}]
  BY <1>1 DEF RunningType, Idle
<1>4. TypeOK
  BY <1>1, <1>2, <1>3, Zenon DEF TypeOK
<1>5. \A d \in Conns : /\ conn[d].state = "NONE" /\ conn[d].proto = "none"
                       /\ conn[d].receivedFirst = FALSE
  BY <1>1, Zenon DEF NewConnection
<1>6. \A d \in Conns, u \in TaskNames : Positions(u, d) = {} /\ ~Queued(u, d)
  BY <1>3, Zenon DEF Positions, Queued
<1>7. \A d \in Conns : ~Delegating(d)
  BY <1>1, <1>3, Zenon DEF Delegating
<1>8. {"closeConnection", "delegate", "releaseProtocol"} \subseteq TaskNames
      /\ "NONE" # "REQUEST_CLOSE" /\ "NONE" # "OPEN"
  BY DEF TaskNames
<1>9. \A d \in Conns : /\ Positions("closeConnection", d) = {}
                       /\ ~Queued("closeConnection", d) /\ ~Queued("delegate", d)
                       /\ ~Queued("releaseProtocol", d)
  BY <1>6, <1>8, Zenon
<1> QED
  BY <1>1, <1>4, <1>5, <1>7, <1>8, <1>9, Zenon
     DEF IInv, CloseRunsOnce, DelegateHasConnection, OpenHasProtocol,
         DelegateBeforeClose, RetriesAreDetached, FirstPacketCreates

\* ... and every step of every thread keeps it.
LEMMA NextPreserves == IInv /\ [Next]_vars => IInv'
<1> SUFFICES ASSUME IInv, [Next]_vars PROVE IInv'
  OBVIOUS
<1>1. CASE \E c \in Conns : Accept(c)
  BY <1>1, AcceptPreserves, Zenon
<1>2. CASE \E c \in Conns : \/ CompleteRead(c) \/ CompleteWrite(c)
                            \/ ExpireReadTimer(c) \/ ExpireWriteTimer(c)
  BY <1>2, CompletionPreserves, Zenon
<1>3. CASE \E c \in Conns : ServiceStep(c)
  BY <1>3, ServiceStepPreserves, Zenon
<1>4. CASE \E c \in Conns : DispatcherStep(c)
  BY <1>4, DispatcherStepPreserves, Zenon
<1>5. CASE \E e \in Retry : SchedulerStep(e)
  BY <1>5, SchedulerStepPreserves, Zenon
<1>6. CASE UNCHANGED vars
  <2>1. conn' = conn /\ taskList' = taskList /\ running' = running /\ events' = events
    BY <1>6, Zenon DEF vars
  <2>2. /\ \A u \in TaskNames, d \in Conns :
             Positions(u, d)' = Positions(u, d) /\ (Queued(u, d)' <=> Queued(u, d))
        /\ \A d \in Conns : Delegating(d)' <=> Delegating(d)
    BY <2>1, Zenon DEF Positions, Queued, Delegating
  <2>3. {"closeConnection", "delegate", "releaseProtocol"} \subseteq TaskNames
    BY DEF TaskNames
  <2>4. /\ \A d \in Conns :
             /\ Positions("closeConnection", d)' = Positions("closeConnection", d)
             /\ Positions("delegate", d)' = Positions("delegate", d)
             /\ Queued("closeConnection", d)' <=> Queued("closeConnection", d)
             /\ Queued("delegate", d)' <=> Queued("delegate", d)
             /\ Queued("releaseProtocol", d)' <=> Queued("releaseProtocol", d)
    BY <2>2, <2>3, Zenon
  <2>5. TypeOK'
    BY <2>1, Zenon DEF IInv, TypeOK
  <2>6. CloseRunsOnce'
    BY <2>1, <2>4, Zenon DEF IInv, CloseRunsOnce
  <2>7. DelegateHasConnection'
    BY <2>1, <2>2, <2>4, Zenon DEF IInv, DelegateHasConnection
  <2>8. OpenHasProtocol' /\ FirstPacketCreates'
    BY <2>1, Zenon DEF IInv, OpenHasProtocol, FirstPacketCreates
  <2>9. DelegateBeforeClose'
    BY <2>4, Zenon DEF IInv, DelegateBeforeClose
  <2>10. RetriesAreDetached'
    BY <2>1, <2>4, Zenon DEF IInv, RetriesAreDetached
  <2> QED
    BY <2>5, <2>6, <2>7, <2>8, <2>9, <2>10, Zenon DEF IInv
<1> QED
  BY <1>1, <1>2, <1>3, <1>4, <1>5, <1>6, Zenon DEF Next

\* The inductive invariant holds of every behaviour of the connections.
THEOREM Invariance == Spec => []IInv
  BY InitInvariant, NextPreserves, PTL DEF Spec

\* Every member of every connection, every queued task and retry keeps its type: in
\* particular closeConnection is never put in the scheduler's hands.
THEOREM TypeCorrect == Spec => []TypeOK
<1>1. IInv => TypeOK
  BY DEF IInv
<1> QED
  BY <1>1, Invariance, PTL

\* However many connections and service threads there are, delegate finds the protocol
\* and the connection its raw pointers lead to.
THEOREM DelegateSafe == Spec => []DelegateHasConnection
<1>1. IInv => DelegateHasConnection
  BY DEF IInv
<1> QED
  BY <1>1, Invariance, PTL

\* A connection asks for its close once, and closeConnection then finds it in
\* REQUEST_CLOSE.
THEOREM CloseOnce == Spec => []CloseRunsOnce
<1>1. IInv => CloseRunsOnce
  BY DEF IInv
<1> QED
  BY <1>1, Invariance, PTL

\* parsePacket never uses a NULL m_protocol.
THEOREM OpenProtocol == Spec => []OpenHasProtocol
<1>1. IInv => OpenHasProtocol
  BY DEF IInv
<1> QED
  BY <1>1, Invariance, PTL
=============================================================================
