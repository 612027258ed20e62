----------------------- MODULE ConnectionCountsProofs -----------------------
(* Proofs about Connection for any set of connections and any number of       *)
(* service threads: the counts and flags by which the threads decide whether  *)
(* a connection, its socket and its protocol are still in use, and that with  *)
(* them both objects keep the promise of CountedObject; that a detached       *)
(* protocol has one release to come; and that the timers watch every read and *)
(* write.                                                                     *)
EXTENDS ConnectionProofs, FiniteSetTheorems

-----------------------------------------------------------------------------
(* The inductive invariant. It speaks of a connection through the numbers     *)
(* that summarise it, and of the queues through what they hold for it.        *)

\* Handlers of a queue of the io_context that have one of these names.
Among(queue, names) == Cardinality({i \in DOMAIN queue : queue[i].h \in names})

Summary(r) ==
    [state |-> r.state, socket |-> r.socket, proto |-> r.proto, ready |-> r.ready,
     pendingRead |-> r.pendingRead, pendingWrite |-> r.pendingWrite,
     refCount |-> r.refCount, protoRefs |-> r.protoRefs,
     managed |-> One(r.managed),
     reading |-> One(r.reading # "none"), writing |-> One(r.writing),
     readers |-> Among(r.ready, ReadHandlers),
     writers |-> Among(r.ready, {"onWrite"}),
     messages |-> Among(r.ready, {"onWrite", "~onWrite"}),
     stops |-> Among(r.ready, {"onStop"})]

\* Tasks, retries and the dispatcher's own message, by connection.
Tasks(list, t, c) == Cardinality({i \in DOMAIN list : list[i] = [t |-> t, c |-> c]})
Pending(list, task, retries, c) ==
    [close |-> Tasks(list, "closeConnection", c),
     release |-> Tasks(list, "releaseConnection", c)
                 + One([t |-> "releaseConnection", c |-> c] \in retries),
     delegate |-> Tasks(list, "delegate", c),
     message |-> Tasks(list, "internalReleaseMessage", c)
                 + One(task = [pc |-> "send", c |-> c])]

\* Both counts are the messages in existence; a login that waits has none yet.
MessagesAreCounted(q, k) ==
    /\ q.refCount = q.writing + q.messages + k.message
    /\ q.protoRefs = q.refCount
    /\ q.refCount + k.delegate <= 1
    /\ q.proto \in {"none", "deleted"} => q.refCount = 0
    /\ q.stops > 0 \/ q.socket = "deleted" => q.refCount = 0

\* From REQUEST_CLOSE on there is one link of the release chain, except in CLOSING; the
\* manager lists the connection until onStop, and closeConnection detaches the protocol.
LinksAreCounted(q, k) ==
    /\ q.state = "REQUEST_CLOSE" => k.close = 1 /\ k.release = 0 /\ q.stops = 0
    /\ q.state # "REQUEST_CLOSE" => k.close = 0
    /\ q.state = "CLOSED" /\ q.socket # "deleted" => k.release + q.stops = 1
    /\ q.state \in {"NONE", "OPEN", "CLOSING"} \/ q.socket = "deleted" =>
         k.release = 0 /\ q.stops = 0
    /\ q.state # "NONE" /\ q.socket # "deleted" => q.managed = 1
    /\ q.state = "NONE" \/ q.socket = "deleted" => q.managed = 0
    /\ q.state \in {"CLOSING", "CLOSED"} => q.proto # "attached"

\* The socket outlives the OPEN state, and CLOSED comes after it was closed.
SocketIsCounted(q) ==
    /\ q.state \in {"NONE", "OPEN"} => q.socket = "open"
    /\ q.state = "CLOSED" => q.socket # "open"
    /\ q.socket = "deleted" => q.state = "CLOSED"
    /\ q.socket # "open" =>
         q.pendingRead = 0 /\ q.pendingWrite = 0 /\ q.reading = 0 /\ q.writing = 0
    /\ q.state = "OPEN" => /\ q.pendingRead = 1 /\ q.reading + q.readers = 1
                           /\ q.pendingWrite = q.writing + q.writers

Whole(q, k) == MessagesAreCounted(q, k) /\ LinksAreCounted(q, k) /\ SocketIsCounted(q)

\* With one service thread handlers run in the order they were queued: behind onStop,
\* and after it, there are only timers that had expired.
TimeoutHandlers == {"handleReadTimeout", "handleWriteTimeout"}
OnlyTimers(queue) == \A i \in DOMAIN queue : queue[i].h \in TimeoutHandlers
TimersBehindStop(queue) ==
    \A i, j \in DOMAIN queue :
        queue[i].h = "onStop" /\ i < j => queue[j].h \in TimeoutHandlers
StopIsLast(q) ==
    ServiceThreads = 1 => /\ TimersBehindStop(q.ready)
                          /\ q.socket = "deleted" => OnlyTimers(q.ready)

\* Nothing happens to a connection before it is accepted.
Unborn(r) == r.state = "NONE" => r = NewConnection

CountsAreKept ==
    \A c \in Conns : /\ Whole(Summary(conn[c]), Pending(taskList, running, events, c))
                     /\ StopIsLast(Summary(conn[c]))
                     /\ Unborn(conn[c])

-----------------------------------------------------------------------------
(* Counting in sequences.                                                     *)

Hits(s, S) == {i \in DOMAIN s : s[i] \in S}
Count(s, S) == Cardinality(Hits(s, S))

\* The elements of a list that belong to S are finitely many.
LEMMA CountType ==
    ASSUME NEW A, NEW s \in Seq(A), NEW S
    PROVE  IsFiniteSet(Hits(s, S)) /\ Count(s, S) \in Nat
<1>1. IsFiniteSet(1..Len(s))
  BY FS_Interval
<1>2. Hits(s, S) \subseteq 1..Len(s)
  BY DEF Hits
<1>3. IsFiniteSet(Hits(s, S))
  BY <1>1, <1>2, FS_Subset
<1> QED
  BY <1>3, FS_CardinalityType DEF Count

\* What a list put behind another one adds.
LEMMA CountConcat ==
    ASSUME NEW A, NEW s \in Seq(A), NEW t \in Seq(A), NEW S
    PROVE  Count(s \o t, S) = Count(s, S) + Count(t, S)
<1> DEFINE n == Len(s)
           moved == {i + n : i \in Hits(t, S)}
           f == [i \in Hits(t, S) |-> i + n]
<1>1. n \in Nat /\ Hits(t, S) \subseteq Nat /\ Hits(s, S) \subseteq 1..n
      /\ Hits(t, S) \subseteq 1..Len(t) /\ Len(t) \in Nat
  BY DEF Hits
<1>2. f \in Bijection(Hits(t, S), moved)
  <2>1. f \in [Hits(t, S) -> moved]
    OBVIOUS
  <2>2. \A a, b \in Hits(t, S) : f[a] = f[b] => a = b
    BY <1>1
  <2>3. \A y \in moved : \E x \in Hits(t, S) : f[x] = y
    OBVIOUS
  <2> QED
    BY <2>1, <2>2, <2>3 DEF Bijection, Injection, Surjection, IsInjective
<1>3. IsFiniteSet(Hits(s, S)) /\ IsFiniteSet(Hits(t, S))
  BY CountType
<1>4. ExistsBijection(Hits(t, S), moved)
  BY <1>2 DEF ExistsBijection
<1>5. IsFiniteSet(moved) /\ Cardinality(moved) = Count(t, S)
  BY <1>3, <1>4, FS_Bijection, Zenon DEF Count
<1>6. Hits(s \o t, S) = Hits(s, S) \cup moved
  <2>1. /\ DOMAIN (s \o t) = 1..(n + Len(t))
        /\ \A i \in 1..n : (s \o t)[i] = s[i]
        /\ \A i \in 1..Len(t) : (s \o t)[i + n] = t[i]
        /\ DOMAIN s = 1..n /\ DOMAIN t = 1..Len(t)
    OBVIOUS
  <2>2. ASSUME NEW i \in Hits(s \o t, S) PROVE i \in Hits(s, S) \cup moved
    <3>1. i \in 1..(n + Len(t)) /\ (s \o t)[i] \in S
      BY <2>1 DEF Hits
    <3>2. CASE i \in 1..n
      BY <3>1, <3>2, <2>1 DEF Hits
    <3>3. CASE i \notin 1..n
      <4>1. i - n \in 1..Len(t) /\ (i - n) + n = i
        BY <3>1, <3>3, <1>1
      <4>2. t[i - n] \in S
        BY <4>1, <3>1, <2>1
      <4>3. i - n \in Hits(t, S)
        BY <4>1, <4>2, <2>1 DEF Hits
      <4> QED
        BY <4>1, <4>3
    <3> QED
      BY <3>2, <3>3
  <2>3. ASSUME NEW i \in Hits(s, S) PROVE i \in Hits(s \o t, S)
    BY <2>1, <1>1 DEF Hits
  <2>4. ASSUME NEW i \in Hits(t, S) PROVE i + n \in Hits(s \o t, S)
    <3>1. i \in 1..Len(t) /\ t[i] \in S
      BY <2>1 DEF Hits
    <3>2. i + n \in 1..(n + Len(t))
      BY <3>1, <1>1
    <3> QED
      BY <3>1, <3>2, <2>1 DEF Hits
  <2> QED
    BY <2>2, <2>3, <2>4
<1>7. Hits(s, S) \cap moved = {}
  BY <1>1
<1> HIDE DEF moved
<1>8. Cardinality(Hits(s, S) \cup moved) = Count(s, S) + Count(t, S)
  <2>1. /\ Cardinality(Hits(s, S) \cup moved) =
            Cardinality(Hits(s, S)) + Cardinality(moved) - Cardinality(Hits(s, S) \cap moved)
    BY <1>3, <1>5, FS_Union
  <2>2. Cardinality(Hits(s, S) \cap moved) = 0
    BY <1>7, FS_EmptySet
  <2>3. Count(s, S) \in Nat /\ Count(t, S) \in Nat
    BY CountType
  <2> QED
    BY <1>5, <2>1, <2>2, <2>3 DEF Count
<1> QED
  BY <1>6, <1>8 DEF Count

\* An empty list holds none of them ...
LEMMA CountNone ==
    ASSUME NEW S
    PROVE  Count(<<>>, S) = 0
<1>1. Hits(<<>>, S) = {}
  BY DEF Hits
<1> QED
  BY <1>1, FS_EmptySet DEF Count

\* ... and a list of one element holds it or nothing.
LEMMA CountSingle ==
    ASSUME NEW S, NEW e
    PROVE  Count(<<e>>, S) = One(e \in S)
<1>1. CASE e \in S
  <2>1. Hits(<<e>>, S) = {1}
    BY <1>1 DEF Hits
  <2> QED
    BY <1>1, <2>1, FS_Singleton DEF Count, One
<1>2. CASE e \notin S
  <2>1. Hits(<<e>>, S) = {}
    BY <1>2 DEF Hits
  <2> QED
    BY <1>2, <2>1, FS_EmptySet DEF Count, One
<1> QED
  BY <1>1, <1>2

\* Before position i of u there is a, at i there is x, and behind it b.
SplitAt(u, i, a, x, b) ==
    /\ u[i] = x /\ Len(a) = i - 1 /\ Len(b) = Len(u) - i
    /\ \A j \in 1..(i - 1) : u[j] = a[j]
    /\ \A j \in 1..(Len(u) - i) : u[j + i] = b[j]

\* A list is what stands before a member, the member, and what stands behind it.
LEMMA Split ==
    ASSUME NEW A, NEW a \in Seq(A), NEW b \in Seq(A), NEW x \in A, NEW u \in Seq(A),
           NEW i \in 1..Len(u), SplitAt(u, i, a, x, b)
    PROVE  u = (a \o <<x>>) \o b
<1> DEFINE w == a \o <<x>>
           v == w \o b
<1>1. /\ w \in Seq(A) /\ Len(w) = Len(a) + 1 /\ w[Len(a) + 1] = x
      /\ \A j \in 1..Len(a) : w[j] = a[j]
  OBVIOUS
<1>2. ASSUME NEW p \in Seq(A)
      PROVE  /\ p \o b \in Seq(A) /\ Len(p \o b) = Len(p) + Len(b)
             /\ \A j \in 1..Len(p) : (p \o b)[j] = p[j]
             /\ \A j \in 1..Len(b) : (p \o b)[j + Len(p)] = b[j]
  OBVIOUS
<1> HIDE DEF w
<1>3. /\ v \in Seq(A) /\ Len(v) = Len(w) + Len(b)
      /\ \A j \in 1..Len(w) : v[j] = w[j]
      /\ \A j \in 1..Len(b) : v[j + Len(w)] = b[j]
  BY <1>2, <1>1
<1> HIDE DEF v
<1> SUFFICES ASSUME u[i] = x, Len(a) = i - 1, Len(b) = Len(u) - i,
                    \A j \in 1..(i - 1) : u[j] = a[j],
                    \A j \in 1..(Len(u) - i) : u[j + i] = b[j]
             PROVE  u = v
  BY DEF SplitAt, v, w
<1>4. Len(u) \in Nat /\ i \in Nat /\ i \in 1..Len(u)
  OBVIOUS
<1>5. Len(w) = i /\ w[i] = x /\ \A j \in 1..(i - 1) : w[j] = a[j]
  BY <1>1, <1>4
<1>6. Len(v) = Len(u)
  BY <1>3, <1>5, <1>4
<1>7. ASSUME NEW j \in 1..Len(u) PROVE v[j] = u[j]
  <2>1. CASE j < i
    <3>1. j \in 1..Len(w) /\ j \in 1..(i - 1)
      BY <1>5, <1>4, <2>1
    <3> QED
      BY <1>3, <1>5, <3>1
  <2>2. CASE j = i
    <3>1. i \in 1..Len(w)
      BY <1>5, <1>4
    <3> QED
      BY <1>3, <1>5, <2>2, <3>1
  <2>3. CASE j > i
    <3>1. j - i \in 1..(Len(u) - i) /\ (j - i) + i = j
      BY <1>4, <2>3
    <3>2. v[(j - i) + i] = b[j - i] /\ u[(j - i) + i] = b[j - i]
      BY <1>3, <1>5, <3>1
    <3> QED
      BY <3>1, <3>2
  <2> QED
    BY <1>4, <2>1, <2>2, <2>3
<1> QED
  BY <1>3, <1>6, <1>4, <1>7

\* The list without its i-th member, and with another one in its place.
LEMMA CountReplace ==
    ASSUME NEW A, NEW s \in Seq(A), NEW i \in DOMAIN s, NEW e \in A, NEW S
    PROVE  /\ Count(s, S) = Count(RemoveAt(s, i), S) + One(s[i] \in S)
           /\ Count([s EXCEPT ![i] = e], S) = Count(RemoveAt(s, i), S) + One(e \in S)
<1> DEFINE a == SubSeq(s, 1, i - 1)
           b == SubSeq(s, i + 1, Len(s))
<1>1. i \in 1..Len(s) /\ Len(s) \in Nat /\ s[i] \in A /\ a \in Seq(A) /\ b \in Seq(A)
  OBVIOUS
<1>2. RemoveAt(s, i) = a \o b
  BY DEF RemoveAt
<1>3. /\ Len(a) = i - 1 /\ \A j \in 1..(i - 1) : a[j] = s[j]
      /\ Len(b) = Len(s) - i /\ \A j \in 1..(Len(s) - i) : b[j] = s[j + i]
  BY <1>1
<1> HIDE DEF a, b
<1>4. ASSUME NEW x \in A, NEW u \in Seq(A), Len(u) = Len(s), u[i] = x,
             \A j \in 1..Len(s) : j # i => u[j] = s[j]
      PROVE  u = (a \o <<x>>) \o b
  <2>1. /\ i \in 1..Len(u) /\ Len(a) = i - 1 /\ Len(b) = Len(u) - i
    BY <1>1, <1>3, <1>4
  <2>2. ASSUME NEW j \in 1..(i - 1) PROVE u[j] = a[j]
    <3>1. j \in 1..Len(s) /\ j # i
      BY <1>1
    <3> QED
      BY <1>3, <1>4, <3>1, Zenon
  <2>3. ASSUME NEW j \in 1..(Len(u) - i) PROVE u[j + i] = b[j]
    <3>1. j + i \in 1..Len(s) /\ j + i # i /\ j \in 1..(Len(s) - i)
      BY <1>1, <1>4
    <3> QED
      BY <1>3, <1>4, <3>1, Zenon
  <2> QED
    <3>1. SplitAt(u, i, a, x, b)
      BY <1>4, <2>1, <2>2, <2>3, Zenon DEF SplitAt
    <3>2. a \in Seq(A) /\ b \in Seq(A) /\ i \in 1..Len(u)
      BY <1>1, <2>1
    <3> QED
      BY <1>4, <3>1, <3>2, Split, Zenon
<1>5. ASSUME NEW x \in A PROVE Count((a \o <<x>>) \o b, S) = Count(a \o b, S) + One(x \in S)
  <2>1. <<x>> \in Seq(A) /\ a \o <<x>> \in Seq(A)
    BY <1>1
  <2>2. /\ Count((a \o <<x>>) \o b, S) = Count(a \o <<x>>, S) + Count(b, S)
        /\ Count(a \o <<x>>, S) = Count(a, S) + Count(<<x>>, S)
        /\ Count(a \o b, S) = Count(a, S) + Count(b, S)
    BY <1>1, <2>1, CountConcat
  <2>3. Count(<<x>>, S) = One(x \in S)
    BY CountSingle
  <2>4. Count(a, S) \in Nat /\ Count(b, S) \in Nat /\ One(x \in S) \in Nat
    BY <1>1, CountType DEF One
  <2> QED
    BY <2>2, <2>3, <2>4
<1>6. s = (a \o <<s[i]>>) \o b
  BY <1>1, <1>4
<1>7. [s EXCEPT ![i] = e] = (a \o <<e>>) \o b
  <2> DEFINE u == [s EXCEPT ![i] = e]
  <2>1. u \in Seq(A) /\ Len(u) = Len(s) /\ u[i] = e /\ \A j \in 1..Len(s) : j # i => u[j] = s[j]
    BY <1>1
  <2> QED
    BY <2>1, <1>4
<1> QED
  BY <1>1, <1>2, <1>5, <1>6, <1>7

-----------------------------------------------------------------------------
(* The handlers of a queue, by name.                                          *)

\* The handlers of a queue with given names, as a count of its elements.
LEMMA AmongIsCount ==
    ASSUME NEW q \in Seq(Handler), NEW N
    PROVE  Among(q, N) = Count(q, [h : N, err : Outcomes])
<1>1. ASSUME NEW i \in DOMAIN q PROVE q[i].h \in N <=> q[i] \in [h : N, err : Outcomes]
  <2>1. q[i] \in Handler
    OBVIOUS
  <2> QED
    BY <2>1 DEF Handler
<1>2. {i \in DOMAIN q : q[i].h \in N} = Hits(q, [h : N, err : Outcomes])
  BY <1>1, Zenon DEF Hits
<1> QED
  BY <1>2, Zenon DEF Among, Count

\* Handlers queued behind others are counted with them.
LEMMA AmongConcat ==
    ASSUME NEW q \in Seq(Handler), NEW t \in Seq(Handler), NEW N
    PROVE  Among(q \o t, N) = Among(q, N) + Among(t, N)
<1>1. q \o t \in Seq(Handler)
  OBVIOUS
<1>2. /\ Among(q, N) = Count(q, [h : N, err : Outcomes])
      /\ Among(t, N) = Count(t, [h : N, err : Outcomes])
      /\ Among(q \o t, N) = Count(q \o t, [h : N, err : Outcomes])
  BY <1>1, AmongIsCount
<1> HIDE DEF Among, Count
<1>3. Count(q \o t, [h : N, err : Outcomes])
        = Count(q, [h : N, err : Outcomes]) + Count(t, [h : N, err : Outcomes])
  BY CountConcat
<1> QED
  BY <1>2, <1>3

\* The handlers of a queue with given names are finitely many.
LEMMA AmongType ==
    ASSUME NEW q \in Seq(Handler), NEW N
    PROVE  Among(q, N) \in Nat
<1>1. Count(q, [h : N, err : Outcomes]) \in Nat
  BY CountType
<1> QED
  BY <1>1, AmongIsCount

\* A handler that becomes ready is counted under its own name.
LEMMA AmongReady ==
    ASSUME NEW name \in HandlerNames, NEW err \in Outcomes, NEW N
    PROVE  Among(OnReady(name, err), N) = One(name \in N)
<1> DEFINE e == [h |-> name, err |-> err]
<1>1. e \in Handler /\ (e \in [h : N, err : Outcomes] <=> name \in N) /\ <<e>> \in Seq(Handler)
  BY DEF Handler
<1>2. Among(<<e>>, N) = Count(<<e>>, [h : N, err : Outcomes])
  BY <1>1, AmongIsCount
<1> HIDE DEF e
<1>3. Count(<<e>>, [h : N, err : Outcomes]) = One(e \in [h : N, err : Outcomes])
  BY CountSingle
<1> QED
  BY <1>1, <1>2, <1>3 DEF OnReady, e, One

\* A handler leaves the queue, or keeps its place under another name.
LEMMA AmongReplace ==
    ASSUME NEW q \in Seq(Handler), NEW i \in DOMAIN q, NEW name \in HandlerNames, NEW N
    PROVE  /\ RemoveAt(q, i) \in Seq(Handler)
           /\ [q EXCEPT ![i].h = name] \in Seq(Handler)
           /\ Among(q, N) = Among(RemoveAt(q, i), N) + One(q[i].h \in N)
           /\ Among([q EXCEPT ![i].h = name], N) = Among(RemoveAt(q, i), N) + One(name \in N)
<1> DEFINE e == [q[i] EXCEPT !.h = name]
           S == [h : N, err : Outcomes]
<1>1. q[i] \in Handler
  OBVIOUS
<1>2. e \in Handler /\ (e \in S <=> name \in N) /\ (q[i] \in S <=> q[i].h \in N)
  BY <1>1 DEF Handler
<1>3. RemoveAt(q, i) \in Seq(Handler)
  BY DEF RemoveAt
<1>4. [q EXCEPT ![i].h = name] = [q EXCEPT ![i] = e]
  OBVIOUS
<1> HIDE DEF e, S
<1>5. [q EXCEPT ![i] = e] \in Seq(Handler)
  BY <1>2
<1>6. /\ Count(q, S) = Count(RemoveAt(q, i), S) + One(q[i] \in S)
      /\ Count([q EXCEPT ![i] = e], S) = Count(RemoveAt(q, i), S) + One(e \in S)
  <2>1. e \in Handler
    BY <1>2
  <2> QED
    BY <2>1, CountReplace, SMT
<1>7. /\ Among(q, N) = Count(q, S) /\ Among(RemoveAt(q, i), N) = Count(RemoveAt(q, i), S)
      /\ Among([q EXCEPT ![i] = e], N) = Count([q EXCEPT ![i] = e], S)
  BY <1>3, <1>5, AmongIsCount DEF S
<1>8. One(q[i] \in S) = One(q[i].h \in N) /\ One(e \in S) = One(name \in N)
  BY <1>2 DEF One
<1> QED
  BY <1>3, <1>4, <1>5, <1>6, <1>7, <1>8, Zenon

-----------------------------------------------------------------------------
(* What the member functions do to the summary.                               *)

\* Only the members in F differ between two summaries.
Keeps(q, s, F) ==
    /\ "state" \in F \/ s.state = q.state
    /\ "socket" \in F \/ s.socket = q.socket
    /\ "proto" \in F \/ s.proto = q.proto
    /\ "ready" \in F \/ s.ready = q.ready
    /\ "pendingRead" \in F \/ s.pendingRead = q.pendingRead
    /\ "pendingWrite" \in F \/ s.pendingWrite = q.pendingWrite
    /\ "refCount" \in F \/ s.refCount = q.refCount
    /\ "protoRefs" \in F \/ s.protoRefs = q.protoRefs
    /\ "managed" \in F \/ s.managed = q.managed
    /\ "reading" \in F \/ s.reading = q.reading
    /\ "writing" \in F \/ s.writing = q.writing
    /\ "ready" \in F \/ /\ s.readers = q.readers /\ s.writers = q.writers
                        /\ s.messages = q.messages /\ s.stops = q.stops

Typed(q) ==
    /\ q.state \in States
    /\ q.socket \in {"open", "closed", "deleted"}
    /\ q.proto \in {"none", "attached", "detached", "deleted"}
    /\ q.ready \in Seq(Handler)
    /\ q.pendingRead \in Int /\ q.pendingWrite \in Int
    /\ q.refCount \in Int /\ q.protoRefs \in Int
    /\ q.managed \in {0, 1} /\ q.reading \in {0, 1} /\ q.writing \in {0, 1}
    /\ q.readers \in Nat /\ q.writers \in Nat /\ q.messages \in Nat /\ q.stops \in Nat

\* The same for the numbers alone.
Numbers(q) ==
    /\ q.pendingRead \in Int /\ q.pendingWrite \in Int
    /\ q.refCount \in Int /\ q.protoRefs \in Int /\ q.managed \in Int
    /\ q.reading \in Int /\ q.reading >= 0 /\ q.writing \in Int /\ q.writing >= 0
    /\ q.readers \in Int /\ q.readers >= 0 /\ q.writers \in Int /\ q.writers >= 0
    /\ q.messages \in Int /\ q.messages >= 0 /\ q.stops \in Int /\ q.stops >= 0
Amounts(k) ==
    /\ k.close \in Int /\ k.close >= 0 /\ k.release \in Int /\ k.release >= 0
    /\ k.delegate \in Int /\ k.delegate >= 0 /\ k.message \in Int /\ k.message >= 0

\* The summary of a well-formed connection is well formed.
LEMMA SummaryTyped ==
    ASSUME NEW r \in ConnType
    PROVE  Typed(Summary(r))
<1>1. r.ready \in Seq(Handler)
  BY DEF ConnType
<1>2. \A N : Among(r.ready, N) \in Nat
  BY <1>1, AmongType
<1>3. \A b : One(b) \in {0, 1}
  BY DEF One
<1> QED
  BY <1>2, <1>3, SMT DEF Summary, Typed, ConnType

\* A summary keeps what it says.
LEMMA KeepsItself ==
    ASSUME NEW q
    PROVE  Keeps(q, q, {})
  BY DEF Keeps

\* What close() does to the summary: an open connection is asked to close.
LEMMA SummaryOfClose ==
    ASSUME NEW r \in ConnType
    PROVE  LET q == Summary(r)  s == Summary(Close(r)) IN
           /\ Keeps(q, s, {"state"})
           /\ s.state = IF q.state = "OPEN" THEN "REQUEST_CLOSE" ELSE q.state
<1>1. CASE r.state = "OPEN"
  <2>1. Close(r) = [r EXCEPT !.state = "REQUEST_CLOSE"]
    BY <1>1, Zenon DEF Close
  <2> QED
    BY <1>1, <2>1, SMT DEF Summary, ConnType, Keeps
<1>2. CASE r.state # "OPEN"
  <2>1. Close(r) = r
    BY <1>2, Zenon DEF Close
  <2> QED
    BY <1>2, <2>1, SMT DEF Summary, Keeps
<1> QED
  BY <1>1, <1>2

\* The flags and timers are not part of the summary.
LEMMA SummaryOfFlags ==
    ASSUME NEW r \in ConnType, NEW b \in BOOLEAN
    PROVE  /\ Keeps(Summary(r), Summary([r EXCEPT !.readTimer = b]), {})
           /\ Keeps(Summary(r), Summary([r EXCEPT !.writeTimer = b]), {})
           /\ Keeps(Summary(r), Summary([r EXCEPT !.readError = b]), {})
           /\ Keeps(Summary(r), Summary([r EXCEPT !.writeError = b]), {})
  BY SMT DEF Summary, ConnType, Keeps

\* What the start of a read does: it is counted in pendingRead and in the kernel.
LEMMA SummaryOfStartRead ==
    ASSUME NEW r \in ConnType, NEW name \in ReadHandlers
    PROVE  LET q == Summary(r)  s == Summary(StartRead(r, name)) IN
           /\ Keeps(q, s, {"pendingRead", "reading"})
           /\ s.pendingRead = q.pendingRead + 1 /\ s.reading = 1
<1>1. One(name # "none") = 1
  BY DEF ReadHandlers, One
<1> QED
  BY <1>1, SMT DEF Summary, ConnType, Keeps, StartRead

\* A read that has completed is no longer pending.
LEMMA SummaryOfReadDone ==
    ASSUME NEW r \in ConnType
    PROVE  LET q == Summary(r)  s == Summary([r EXCEPT !.pendingRead = @ - 1]) IN
           Keeps(q, s, {"pendingRead"}) /\ s.pendingRead = q.pendingRead - 1
  BY SMT DEF Summary, ConnType, Keeps

\* A message from the pool refers to the protocol and to the connection.
LEMMA SummaryOfMessage ==
    ASSUME NEW r \in ConnType
    PROVE  LET q == Summary(r)  s == Summary(GetOutputMessage(r)) IN
           /\ Keeps(q, s, {"refCount", "protoRefs"})
           /\ s.refCount = q.refCount + 1 /\ s.protoRefs = q.protoRefs + 1
  BY SMT DEF Summary, ConnType, Keeps, GetOutputMessage

\* A message that can be sent is counted in pendingWrite and in the kernel.
LEMMA SummaryOfSend ==
    ASSUME NEW r \in ConnType
    PROVE  LET q == Summary(r)  s == Summary(Send(r)) IN
           /\ Sendable(r) => /\ Keeps(q, s, {"pendingWrite", "writing"})
                             /\ s.pendingWrite = q.pendingWrite + 1 /\ s.writing = 1
           /\ ~Sendable(r) => Keeps(q, s, {})
<1>1. CASE Sendable(r)
  <2>1. Send(r) = [r EXCEPT !.pendingWrite = @ + 1, !.writeTimer = TRUE, !.writing = TRUE]
    BY <1>1, Zenon DEF Send
  <2>2. One(Send(r).writing) = 1
    BY <2>1 DEF One, ConnType
  <2>3. Summary(Send(r)).writing = 1
    BY <2>2 DEF Summary
  <2>4. LET q == Summary(r)  s == Summary(Send(r)) IN
        Keeps(q, s, {"pendingWrite", "writing"}) /\ s.pendingWrite = q.pendingWrite + 1
    BY <2>1, SMT DEF Summary, ConnType, Keeps
  <2> QED
    BY <1>1, <2>3, <2>4
<1>2. CASE ~Sendable(r)
  <2>1. Send(r) = r
    BY <1>2, Zenon DEF Send
  <2> QED
    BY <1>2, <2>1, KeepsItself, Zenon
<1> QED
  BY <1>1, <1>2

\* An attached protocol is deleted, or detached while messages refer to it.
LEMMA SummaryOfDetach ==
    ASSUME NEW r \in ConnType
    PROVE  LET q == Summary(r)  s == Summary(DetachProtocol(r)) IN
           /\ Keeps(q, s, {"proto"})
           /\ q.proto # "attached" => s.proto = q.proto
           /\ q.proto = "attached" /\ q.protoRefs > 0 => s.proto = "detached"
           /\ q.proto = "attached" /\ ~(q.protoRefs > 0) => s.proto = "deleted"
<1>1. CASE r.proto = "attached"
  <2>1. DetachProtocol(r) = [r EXCEPT !.proto = ReleaseProtocol(r)]
    BY <1>1, Zenon DEF DetachProtocol
  <2> QED
    BY <1>1, <2>1, SMT DEF Summary, ConnType, Keeps, ReleaseProtocol
<1>2. CASE r.proto # "attached"
  <2>1. DetachProtocol(r) = r
    BY <1>2, Zenon DEF DetachProtocol
  <2> QED
    BY <1>2, <2>1, SMT DEF Summary, Keeps
<1> QED
  BY <1>1, <1>2

\* Setting the state sets nothing else.
LEMMA SummaryOfState ==
    ASSUME NEW r \in ConnType, NEW st
    PROVE  LET q == Summary(r)  s == Summary([r EXCEPT !.state = st]) IN
           Keeps(q, s, {"state"}) /\ s.state = st
  BY SMT DEF Summary, ConnType, Keeps

\* The queue of ready handlers.
LEMMA SummaryOfQueue ==
    ASSUME NEW r \in ConnType, NEW queue
    PROVE  LET q == Summary(r)  s == Summary([r EXCEPT !.ready = queue]) IN
           /\ Keeps(q, s, {"ready"})
           /\ s.ready = queue
           /\ s.readers = Among(queue, ReadHandlers)
           /\ s.writers = Among(queue, {"onWrite"})
           /\ s.messages = Among(queue, {"onWrite", "~onWrite"})
           /\ s.stops = Among(queue, {"onStop"})
  BY SMT DEF Summary, ConnType, Keeps

\* What closing the socket completes, by name.
LEMMA AbortedAmong ==
    ASSUME NEW r \in ConnType
    PROVE  LET t == Aborted(r) IN
           /\ Among(t, ReadHandlers) = One(r.reading # "none")
           /\ Among(t, {"onWrite"}) = One(r.writing)
           /\ Among(t, {"onWrite", "~onWrite"}) = One(r.writing)
           /\ Among(t, {"onStop"}) = 0
<1> DEFINE a == IF r.reading = "none" THEN <<>> ELSE OnReady(r.reading, "aborted")
           b == IF r.writing THEN OnReady("onWrite", "aborted") ELSE <<>>
<1>1. r.reading \in ReadHandlers \cup {"none"}
  BY DEF ConnType
<1>2. "aborted" \in Outcomes /\ ReadHandlers \subseteq HandlerNames /\ "onWrite" \in HandlerNames
  BY DEF Outcomes, HandlerNames, OwningHandlers
<1>3. \A N : Among(<<>>, N) = 0
  <2>1. ASSUME NEW N PROVE {i \in DOMAIN <<>> : <<>>[i].h \in N} = {}
    OBVIOUS
  <2> QED
    BY <2>1, FS_EmptySet DEF Among
<1>4. /\ a \in Seq(Handler)
      /\ \A N : Among(a, N) = IF r.reading = "none" THEN 0 ELSE One(r.reading \in N)
  <2>1. CASE r.reading = "none"
    BY <1>3, <2>1
  <2>2. CASE r.reading # "none"
    <3>1. r.reading \in HandlerNames /\ a = OnReady(r.reading, "aborted")
      BY <1>1, <1>2, <2>2
    <3> QED
      BY <1>2, <2>2, <3>1, OnReadyFacts, AmongReady
  <2> QED
    BY <2>1, <2>2
<1>5. /\ b \in Seq(Handler)
      /\ \A N : Among(b, N) = IF r.writing THEN One("onWrite" \in N) ELSE 0
  <2>1. CASE ~r.writing
    BY <1>3, <2>1
  <2>2. CASE r.writing
    <3>1. b = OnReady("onWrite", "aborted")
      BY <2>2
    <3> QED
      BY <1>2, <2>2, <3>1, OnReadyFacts, AmongReady
  <2> QED
    BY <2>1, <2>2
<1>6. Aborted(r) = a \o b
  BY DEF Aborted
<1> HIDE DEF a, b
<1>7. \A N : Among(Aborted(r), N) = Among(a, N) + Among(b, N)
  BY <1>4, <1>5, <1>6, AmongConcat
<1>8. /\ r.reading # "none" => r.reading \in ReadHandlers /\ r.reading # "onStop"
                               /\ r.reading # "onWrite" /\ r.reading # "~onWrite"
      /\ "onWrite" \notin ReadHandlers
  BY <1>1 DEF ReadHandlers
<1> QED
  BY <1>4, <1>5, <1>7, <1>8 DEF One

\* What closeSocket() does: the outstanding operations become handlers, and nothing is
\* pending.
LEMMA SummaryOfShut ==
    ASSUME NEW r \in ConnType
    PROVE  LET q == Summary(r)  s == Summary(CloseSocket(r)) IN
           /\ q.socket # "open" => Keeps(q, s, {})
           /\ q.socket = "open" =>
                /\ Keeps(q, s, {"socket", "pendingRead", "pendingWrite", "reading", "writing",
                                "ready"})
                /\ s.socket = "closed" /\ s.pendingRead = 0 /\ s.pendingWrite = 0
                /\ s.reading = 0 /\ s.writing = 0
                /\ s.ready = q.ready \o Aborted(r)
                /\ s.readers = q.readers + q.reading /\ s.writers = q.writers + q.writing
                /\ s.messages = q.messages + q.writing /\ s.stops = q.stops
<1>1. CASE r.socket # "open"
  <2>1. CloseSocket(r) = r
    BY <1>1, Zenon DEF CloseSocket
  <2>2. Summary(r).socket = r.socket
    BY DEF Summary
  <2> QED
    BY <1>1, <2>1, <2>2, KeepsItself, Zenon
<1>2. CASE r.socket = "open"
  <2> DEFINE n == [r EXCEPT !.socket = "closed", !.pendingRead = 0, !.pendingWrite = 0,
                            !.reading = "none", !.writing = FALSE, !.ready = r.ready \o Aborted(r)]
             q == Summary(r)
             s == Summary(n)
  <2>1. CloseSocket(r) = n
    BY <1>2, Zenon DEF CloseSocket
  <2>2. One("none" # "none") = 0 /\ One(FALSE) = 0
    BY DEF One
  <2>3. n.writing = FALSE
    BY DEF ConnType
  <2>4. One(n.writing) = 0
    BY <2>3 DEF One
  <2>5. s.writing = 0
    BY <2>4, Zenon DEF Summary
  <2>6. /\ Keeps(q, s, {"socket", "pendingRead", "pendingWrite", "reading", "writing", "ready"})
        /\ s.socket = "closed" /\ s.pendingRead = 0 /\ s.pendingWrite = 0
        /\ s.reading = 0 /\ s.ready = q.ready \o Aborted(r)
        /\ s.readers = Among(r.ready \o Aborted(r), ReadHandlers)
        /\ s.writers = Among(r.ready \o Aborted(r), {"onWrite"})
        /\ s.messages = Among(r.ready \o Aborted(r), {"onWrite", "~onWrite"})
        /\ s.stops = Among(r.ready \o Aborted(r), {"onStop"})
    BY <2>2, SMT DEF Summary, ConnType, Keeps
  <2>7. r.ready \in Seq(Handler) /\ Aborted(r) \in Seq(Handler)
    BY AbortedFacts DEF ConnType
  <2>8. \A N : Among(r.ready \o Aborted(r), N) = Among(r.ready, N) + Among(Aborted(r), N)
    BY <2>7, AmongConcat
  <2>9. /\ q.readers = Among(r.ready, ReadHandlers) /\ q.writers = Among(r.ready, {"onWrite"})
        /\ q.messages = Among(r.ready, {"onWrite", "~onWrite"})
        /\ q.stops = Among(r.ready, {"onStop"}) /\ q.stops \in Nat
        /\ q.reading = One(r.reading # "none") /\ q.writing = One(r.writing)
        /\ q.socket = "open"
    <3>1. q.stops \in Nat
      BY SummaryTyped DEF Typed
    <3> QED
      BY <1>2, <3>1, SMT DEF Summary
  <2> HIDE DEF n, q, s
  <2>10. LET t == Aborted(r) IN
         /\ Among(t, ReadHandlers) = One(r.reading # "none")
         /\ Among(t, {"onWrite"}) = One(r.writing)
         /\ Among(t, {"onWrite", "~onWrite"}) = One(r.writing)
         /\ Among(t, {"onStop"}) = 0
    BY AbortedAmong, Zenon
  <2>11. /\ s.readers = q.readers + q.reading /\ s.writers = q.writers + q.writing
         /\ s.messages = q.messages + q.writing /\ s.stops = q.stops
    <3> HIDE DEF Aborted
    <3> QED
      BY <2>6, <2>8, <2>9, <2>10, SMT
  <2> QED
    BY <2>1, <2>5, <2>6, <2>9, <2>11, Zenon DEF q, s
<1> QED
  BY <1>1, <1>2, Zenon

WithReady(r, name, err) == [r EXCEPT !.ready = @ \o OnReady(name, err)]

\* A handler joins the queue of the io_context.
LEMMA SummaryOfReady ==
    ASSUME NEW r \in ConnType, NEW name \in HandlerNames, NEW err \in Outcomes
    PROVE  LET q == Summary(r)  s == Summary(WithReady(r, name, err)) IN
           /\ Keeps(q, s, {"ready"})
           /\ s.ready = q.ready \o OnReady(name, err)
           /\ s.readers = q.readers + One(name \in ReadHandlers)
           /\ s.writers = q.writers + One(name \in {"onWrite"})
           /\ s.messages = q.messages + One(name \in {"onWrite", "~onWrite"})
           /\ s.stops = q.stops + One(name \in {"onStop"})
<1> DEFINE q == Summary(r)
           t == OnReady(name, err)
<1>1. r.ready \in Seq(Handler) /\ t \in Seq(Handler)
  BY OnReadyFacts DEF ConnType
<1>2. \A N : Among(r.ready \o t, N) = Among(r.ready, N) + Among(t, N)
  BY <1>1, AmongConcat
<1>3. \A N : Among(t, N) = One(name \in N)
  BY AmongReady
<1>4. /\ q.readers = Among(r.ready, ReadHandlers) /\ q.writers = Among(r.ready, {"onWrite"})
      /\ q.messages = Among(r.ready, {"onWrite", "~onWrite"})
      /\ q.stops = Among(r.ready, {"onStop"}) /\ q.ready = r.ready
  BY DEF Summary
<1> DEFINE n == WithReady(r, name, err)
           s == Summary(n)
<1>5. /\ Keeps(q, s, {"ready"})
      /\ s.ready = r.ready \o t
      /\ s.readers = Among(r.ready \o t, ReadHandlers)
      /\ s.writers = Among(r.ready \o t, {"onWrite"})
      /\ s.messages = Among(r.ready \o t, {"onWrite", "~onWrite"})
      /\ s.stops = Among(r.ready \o t, {"onStop"})
  <2>1. n = [r EXCEPT !.ready = r.ready \o t]
    BY Zenon DEF WithReady
  <2> DEFINE m == Summary([r EXCEPT !.ready = r.ready \o t])
  <2>2. /\ Keeps(q, m, {"ready"})
        /\ m.ready = r.ready \o t
        /\ m.readers = Among(r.ready \o t, ReadHandlers)
        /\ m.writers = Among(r.ready \o t, {"onWrite"})
        /\ m.messages = Among(r.ready \o t, {"onWrite", "~onWrite"})
        /\ m.stops = Among(r.ready \o t, {"onStop"})
    BY SummaryOfQueue, Zenon
  <2>3. s = m
    BY <2>1, Zenon
  <2> HIDE DEF m, s
  <2> QED
    BY <2>2, <2>3, Zenon
<1> HIDE DEF q, t, s
<1>6. /\ s.readers = q.readers + One(name \in ReadHandlers)
      /\ s.writers = q.writers + One(name \in {"onWrite"})
      /\ s.messages = q.messages + One(name \in {"onWrite", "~onWrite"})
      /\ s.stops = q.stops + One(name \in {"onStop"})
      /\ s.ready = q.ready \o t
  BY <1>2, <1>3, <1>4, <1>5, SMT
<1> QED
  BY <1>5, <1>6, Zenon DEF q, s, t

\* Handler i leaves the queue.
LEMMA SummaryWithout ==
    ASSUME TypeOK, NEW c \in Conns, NEW i, NEW name, Handles(c, i, name)
    PROVE  LET q == Summary(conn[c])  s == Summary(Without(c, i)) IN
           /\ Keeps(q, s, {"ready"})
           /\ s.ready = RemoveAt(q.ready, i)
           /\ s.readers + One(name \in ReadHandlers) = q.readers
           /\ s.writers + One(name \in {"onWrite"}) = q.writers
           /\ s.messages + One(name \in {"onWrite", "~onWrite"}) = q.messages
           /\ s.stops + One(name \in {"onStop"}) = q.stops
<1> DEFINE queue == conn[c].ready
           left == RemoveAt(queue, i)
           q == Summary(conn[c])
           s == Summary([conn[c] EXCEPT !.ready = left])
<1>1. conn[c] \in ConnType /\ queue \in Seq(Handler)
  BY DEF TypeOK, ConnType
<1>2. i \in DOMAIN queue /\ queue[i].h = name
  BY Zenon DEF Handles, InProgress
<1>3. name \in HandlerNames
  <2>1. queue[i] \in Handler
    BY <1>1, <1>2
  <2> QED
    BY <1>2, <2>1 DEF Handler
<1>4. /\ Keeps(q, s, {"ready"}) /\ s.ready = left
      /\ s.readers = Among(left, ReadHandlers) /\ s.writers = Among(left, {"onWrite"})
      /\ s.messages = Among(left, {"onWrite", "~onWrite"}) /\ s.stops = Among(left, {"onStop"})
  BY <1>1, SummaryOfQueue, Zenon
<1>5. /\ q.readers = Among(queue, ReadHandlers) /\ q.writers = Among(queue, {"onWrite"})
      /\ q.messages = Among(queue, {"onWrite", "~onWrite"})
      /\ q.stops = Among(queue, {"onStop"}) /\ q.ready = queue
  BY DEF Summary
<1>6. \A N : Among(queue, N) = Among(left, N) + One(name \in N)
  BY <1>1, <1>2, <1>3, AmongReplace
<1>7. Without(c, i) = [conn[c] EXCEPT !.ready = left]
  BY Zenon DEF Without
<1> HIDE DEF q, s, queue, left
<1>8. /\ s.readers + One(name \in ReadHandlers) = q.readers
      /\ s.writers + One(name \in {"onWrite"}) = q.writers
      /\ s.messages + One(name \in {"onWrite", "~onWrite"}) = q.messages
      /\ s.stops + One(name \in {"onStop"}) = q.stops
  BY <1>4, <1>5, <1>6, SMT
<1>9. s.ready = RemoveAt(q.ready, i)
  BY <1>4, <1>5, Zenon DEF left
<1> QED
  BY <1>4, <1>7, <1>8, <1>9, Zenon DEF q, s

\* Handler i keeps its place under another name.
LEMMA SummaryRenamed ==
    ASSUME TypeOK, NEW c \in Conns, NEW i, NEW old, Handles(c, i, old), NEW name \in HandlerNames
    PROVE  LET q == Summary(conn[c])  s == Summary([conn[c] EXCEPT !.ready[i].h = name]) IN
           /\ Keeps(q, s, {"ready"})
           /\ s.ready = [q.ready EXCEPT ![i].h = name]
           /\ s.readers + One(old \in ReadHandlers) = q.readers + One(name \in ReadHandlers)
           /\ s.writers + One(old \in {"onWrite"}) = q.writers + One(name \in {"onWrite"})
           /\ s.messages + One(old \in {"onWrite", "~onWrite"})
                = q.messages + One(name \in {"onWrite", "~onWrite"})
           /\ s.stops + One(old \in {"onStop"}) = q.stops + One(name \in {"onStop"})
<1> DEFINE queue == conn[c].ready
           new == [queue EXCEPT ![i].h = name]
           left == RemoveAt(queue, i)
           q == Summary(conn[c])
           s == Summary([conn[c] EXCEPT !.ready = new])
<1>1. conn[c] \in ConnType /\ queue \in Seq(Handler)
  BY DEF TypeOK, ConnType
<1>2. i \in DOMAIN queue /\ queue[i].h = old
  BY Zenon DEF Handles, InProgress
<1>3. /\ Keeps(q, s, {"ready"}) /\ s.ready = new
      /\ s.readers = Among(new, ReadHandlers) /\ s.writers = Among(new, {"onWrite"})
      /\ s.messages = Among(new, {"onWrite", "~onWrite"}) /\ s.stops = Among(new, {"onStop"})
  BY <1>1, SummaryOfQueue, Zenon
<1>4. /\ q.readers = Among(queue, ReadHandlers) /\ q.writers = Among(queue, {"onWrite"})
      /\ q.messages = Among(queue, {"onWrite", "~onWrite"})
      /\ q.stops = Among(queue, {"onStop"}) /\ q.ready = queue
  BY DEF Summary
<1>5. ASSUME NEW N
      PROVE  /\ Among(queue, N) = Among(left, N) + One(old \in N)
             /\ Among(new, N) = Among(left, N) + One(name \in N)
             /\ Among(left, N) \in Nat
  <2>1. /\ left \in Seq(Handler)
        /\ Among(queue, N) = Among(left, N) + One(queue[i].h \in N)
        /\ Among(new, N) = Among(left, N) + One(name \in N)
    BY <1>1, <1>2, AmongReplace
  <2> HIDE DEF queue, new, left
  <2>2. Among(left, N) \in Nat
    BY <2>1, AmongType, Zenon
  <2> QED
    BY <1>2, <2>1, <2>2
<1>6. [conn[c] EXCEPT !.ready[i].h = name] = [conn[c] EXCEPT !.ready = new]
  BY Zenon
<1> HIDE DEF q, s, queue, new, left
<1>7. /\ s.readers + One(old \in ReadHandlers) = q.readers + One(name \in ReadHandlers)
      /\ s.writers + One(old \in {"onWrite"}) = q.writers + One(name \in {"onWrite"})
      /\ s.messages + One(old \in {"onWrite", "~onWrite"})
           = q.messages + One(name \in {"onWrite", "~onWrite"})
      /\ s.stops + One(old \in {"onStop"}) = q.stops + One(name \in {"onStop"})
  <2>1. \A b : One(b) \in Int
    BY DEF One
  <2> QED
    BY <1>3, <1>4, <1>5, <2>1, SMT
<1>8. s.ready = [q.ready EXCEPT ![i].h = name]
  BY <1>3, <1>4, Zenon DEF new
<1> QED
  BY <1>3, <1>6, <1>7, <1>8, Zenon DEF q, s

-----------------------------------------------------------------------------
(* The dispatcher's list, by task.                                            *)

TaskOf(t, c) == [t |-> t, c |-> c]

\* A connection's tasks of one kind, as a count of the list's elements.
LEMMA TasksAreCounted ==
    ASSUME NEW list, NEW t, NEW c
    PROVE  Tasks(list, t, c) = Count(list, {TaskOf(t, c)})
<1>1. {i \in DOMAIN list : list[i] = [t |-> t, c |-> c]} = Hits(list, {TaskOf(t, c)})
  BY Zenon DEF Hits, TaskOf
<1> QED
  BY <1>1, Zenon DEF Tasks, Count

\* They are finitely many.
LEMMA TasksTyped ==
    ASSUME NEW list \in Seq(Task), NEW t, NEW c
    PROVE  Tasks(list, t, c) \in Nat
<1>1. Count(list, {TaskOf(t, c)}) \in Nat
  BY CountType
<1> QED
  BY <1>1, TasksAreCounted

\* A list of one task.
LEMMA OneTask ==
    ASSUME NEW u, NEW d, NEW t, NEW c
    PROVE  Tasks(<<TaskOf(u, d)>>, t, c) = IF u = t /\ d = c THEN 1 ELSE 0
<1>1. TaskOf(u, d) \in {TaskOf(t, c)} <=> u = t /\ d = c
  BY DEF TaskOf
<1>2. Count(<<TaskOf(u, d)>>, {TaskOf(t, c)}) = One(TaskOf(u, d) \in {TaskOf(t, c)})
  BY CountSingle
<1>3. Tasks(<<TaskOf(u, d)>>, t, c) = Count(<<TaskOf(u, d)>>, {TaskOf(t, c)})
  BY TasksAreCounted
<1> QED
  BY <1>1, <1>2, <1>3 DEF One

\* A list without a task.
LEMMA NoTask ==
    ASSUME NEW t, NEW c
    PROVE  Tasks(<<>>, t, c) = 0
  BY TasksAreCounted, CountNone

\* Tasks added to a list are counted with it.
LEMMA TasksConcat ==
    ASSUME NEW list \in Seq(Task), NEW more \in Seq(Task), NEW t, NEW c
    PROVE  Tasks(list \o more, t, c) = Tasks(list, t, c) + Tasks(more, t, c)
<1>1. Count(list \o more, {TaskOf(t, c)}) = Count(list, {TaskOf(t, c)}) + Count(more, {TaskOf(t, c)})
  BY CountConcat
<1> QED
  BY <1>1, TasksAreCounted

\* Tasks added to both ends of the list.
LEMMA TasksAdded ==
    ASSUME NEW list \in Seq(Task), NEW f \in Seq(Task), NEW b \in Seq(Task), NEW t, NEW c
    PROVE  Tasks((f \o list) \o b, t, c)
             = Tasks(list, t, c) + Tasks(f, t, c) + Tasks(b, t, c)
<1> DEFINE g == f \o list
<1>1. g \in Seq(Task)
  OBVIOUS
<1>2. Tasks(g, t, c) = Tasks(f, t, c) + Tasks(list, t, c)
  BY TasksConcat
<1> HIDE DEF g
<1>3. /\ Tasks(g, t, c) = Tasks(f, t, c) + Tasks(list, t, c)
      /\ Tasks(g \o b, t, c) = Tasks(g, t, c) + Tasks(b, t, c)
  BY <1>1, <1>2, TasksConcat
<1>4. Tasks(f, t, c) \in Nat /\ Tasks(list, t, c) \in Nat /\ Tasks(b, t, c) \in Nat
  BY TasksTyped
<1> QED
  BY <1>3, <1>4 DEF g

\* The task the dispatcher takes.
LEMMA TasksTaken ==
    ASSUME NEW list \in Seq(Task), list # <<>>, NEW u, NEW d, Head(list) = TaskOf(u, d), NEW t, NEW c
    PROVE  /\ Tasks(list, t, c) = Tasks(Tail(list), t, c) + (IF u = t /\ d = c THEN 1 ELSE 0)
           /\ Tasks(Tail(list), t, c) \in Nat
<1> DEFINE first == <<TaskOf(u, d)>>
           rest == Tail(list)
<1>1. rest \in Seq(Task) /\ first \in Seq(Task) /\ list = first \o rest
  OBVIOUS
<1>2. Tasks(first, t, c) = IF u = t /\ d = c THEN 1 ELSE 0
  BY OneTask
<1> HIDE DEF first, rest
<1>3. Tasks(first \o rest, t, c) = Tasks(first, t, c) + Tasks(rest, t, c)
  BY <1>1, TasksConcat
<1>4. Tasks(rest, t, c) \in Nat
  BY <1>1, TasksTyped
<1>5. Tasks(list, t, c) = Tasks(first, t, c) + Tasks(rest, t, c)
  BY <1>1, <1>3, Zenon
<1> QED
  BY <1>2, <1>4, <1>5 DEF rest

\* What the dispatcher, its list and the scheduler hold for a connection is finite.
LEMMA PendingTyped ==
    ASSUME NEW list \in Seq(Task), NEW task, NEW retries, NEW c
    PROVE  LET k == Pending(list, task, retries, c) IN
           k.close \in Nat /\ k.release \in Nat /\ k.delegate \in Nat /\ k.message \in Nat
<1>1. \A t : Tasks(list, t, c) \in Nat
  BY TasksTyped
<1>2. \A b : One(b) \in Nat
  BY DEF One
<1> QED
  BY <1>1, <1>2, SMT DEF Pending

\* What a handler of c adds: the return of a message in front; behind, a close or a login.
LEMMA TasksOfHandler ==
    ASSUME NEW list \in Seq(Task), NEW c \in Conns, NEW f, NEW b,
           f = <<>> \/ f = ReleaseMessage(c),
           b = <<>> \/ b = <<CloseTaskOf(c)>> \/ b = <<DelegateTaskOf(c)>>,
           NEW d \in Conns
    PROVE  LET after == (f \o list) \o b IN
           /\ Tasks(after, "closeConnection", d)
                = Tasks(list, "closeConnection", d)
                  + (IF b = <<CloseTaskOf(c)>> /\ d = c THEN 1 ELSE 0)
           /\ Tasks(after, "delegate", d)
                = Tasks(list, "delegate", d)
                  + (IF b = <<DelegateTaskOf(c)>> /\ d = c THEN 1 ELSE 0)
           /\ Tasks(after, "internalReleaseMessage", d)
                = Tasks(list, "internalReleaseMessage", d)
                  + (IF f = ReleaseMessage(c) /\ d = c THEN 1 ELSE 0)
           /\ Tasks(after, "releaseConnection", d) = Tasks(list, "releaseConnection", d)
<1> DEFINE m == <<TaskOf("internalReleaseMessage", c)>>
           x == <<TaskOf("closeConnection", c)>>
           l == <<TaskOf("delegate", c)>>
           after == (f \o list) \o b
<1>1. /\ f = <<>> \/ f = m
      /\ b = <<>> \/ b = x \/ b = l
      /\ ReleaseMessage(c) = m /\ <<CloseTaskOf(c)>> = x /\ <<DelegateTaskOf(c)>> = l
  BY Zenon DEF ReleaseMessage, CloseTaskOf, DelegateTaskOf, TaskOf
<1>2. /\ <<>> # m /\ <<>> # x /\ <<>> # l /\ x # l
      /\ m \in Seq(Task) /\ x \in Seq(Task) /\ l \in Seq(Task) /\ <<>> \in Seq(Task)
  BY DEF TaskOf, Task, TaskNames
<1>3. ASSUME NEW t
      PROVE  /\ Tasks(m, t, d) = IF "internalReleaseMessage" = t /\ c = d THEN 1 ELSE 0
             /\ Tasks(x, t, d) = IF "closeConnection" = t /\ c = d THEN 1 ELSE 0
             /\ Tasks(l, t, d) = IF "delegate" = t /\ c = d THEN 1 ELSE 0
             /\ Tasks(<<>>, t, d) = 0
  BY OneTask, NoTask
<1>4. f \in Seq(Task) /\ b \in Seq(Task)
  <2> HIDE DEF m, x, l
  <2> QED
    BY <1>1, <1>2, Zenon
<1>5. ASSUME NEW t
      PROVE  /\ Tasks(after, t, d) = Tasks(list, t, d) + Tasks(f, t, d) + Tasks(b, t, d)
             /\ Tasks(list, t, d) \in Nat
  BY <1>4, TasksAdded, TasksTyped
<1> HIDE DEF m, x, l, after
<1>6. Tasks(after, "closeConnection", d)
        = Tasks(list, "closeConnection", d) + (IF b = x /\ d = c THEN 1 ELSE 0)
  BY <1>1, <1>2, <1>3, <1>5
<1>7. Tasks(after, "delegate", d)
        = Tasks(list, "delegate", d) + (IF b = l /\ d = c THEN 1 ELSE 0)
  BY <1>1, <1>2, <1>3, <1>5
<1>8. Tasks(after, "internalReleaseMessage", d)
        = Tasks(list, "internalReleaseMessage", d) + (IF f = m /\ d = c THEN 1 ELSE 0)
  BY <1>1, <1>2, <1>3, <1>5
<1>9. Tasks(after, "releaseConnection", d) = Tasks(list, "releaseConnection", d)
  BY <1>1, <1>2, <1>3, <1>5
<1> QED
  BY <1>1, <1>6, <1>7, <1>8, <1>9, Zenon DEF after

-----------------------------------------------------------------------------
(* The order of the queue with one service thread.                            *)

\* A name that is counted zero times is found nowhere in the queue.
LEMMA AmongNone ==
    ASSUME NEW queue \in Seq(Handler), NEW N, Among(queue, N) = 0, NEW i \in DOMAIN queue
    PROVE  queue[i].h \notin N
<1> DEFINE hits == {j \in DOMAIN queue : queue[j].h \in N}
<1>1. Len(queue) \in Int /\ DOMAIN queue = 1..Len(queue) /\ 1 \in Int
  OBVIOUS
<1>2. IsFiniteSet(1..Len(queue)) /\ hits \subseteq 1..Len(queue)
  BY <1>1, FS_Interval, Zenon
<1>3. IsFiniteSet(hits)
  BY <1>2, FS_Subset
<1>4. hits = {}
  BY <1>3, FS_EmptySet DEF Among
<1> QED
  BY <1>4

\* The first handler of a queue leaves it: the others keep their order.
LEMMA FirstLeaves ==
    ASSUME NEW queue \in Seq(Handler), 1 \in DOMAIN queue
    PROVE  LET left == RemoveAt(queue, 1) IN
           /\ TimersBehindStop(queue) => TimersBehindStop(left)
           /\ OnlyTimers(queue) => OnlyTimers(left)
           /\ TimersBehindStop(queue) /\ queue[1].h = "onStop" => OnlyTimers(left)
<1> DEFINE left == RemoveAt(queue, 1)
<1>1. /\ DOMAIN left \subseteq Nat \ {0}
      /\ \A i \in DOMAIN left : i + 1 \in DOMAIN queue /\ left[i] = queue[i + 1]
  BY DEF RemoveAt
<1> HIDE DEF left
<1>2. ASSUME TimersBehindStop(queue) PROVE TimersBehindStop(left)
  <2> SUFFICES ASSUME NEW i \in DOMAIN left, NEW j \in DOMAIN left, left[i].h = "onStop", i < j
               PROVE  left[j].h \in TimeoutHandlers
    BY DEF TimersBehindStop
  <2>1. i + 1 < j + 1 /\ i + 1 \in DOMAIN queue /\ j + 1 \in DOMAIN queue
        /\ left[i] = queue[i + 1] /\ left[j] = queue[j + 1]
    BY <1>1
  <2> QED
    BY <1>2, <2>1, Zenon DEF TimersBehindStop
<1>3. ASSUME OnlyTimers(queue) PROVE OnlyTimers(left)
  BY <1>1, <1>3, Zenon DEF OnlyTimers
<1>4. ASSUME TimersBehindStop(queue), queue[1].h = "onStop" PROVE OnlyTimers(left)
  <2> SUFFICES ASSUME NEW j \in DOMAIN left PROVE left[j].h \in TimeoutHandlers
    BY DEF OnlyTimers
  <2>1. 1 < j + 1 /\ j + 1 \in DOMAIN queue /\ left[j] = queue[j + 1]
    BY <1>1
  <2> QED
    BY <1>4, <2>1, Zenon DEF TimersBehindStop
<1> QED
  BY <1>2, <1>3, <1>4 DEF left

\* An element of a concatenation comes from one of its parts.
LEMMA JoinedAt ==
    ASSUME NEW queue \in Seq(Handler), NEW t \in Seq(Handler), NEW i \in DOMAIN (queue \o t)
    PROVE  \/ i \in DOMAIN queue /\ (queue \o t)[i] = queue[i] /\ i <= Len(queue)
           \/ /\ i - Len(queue) \in DOMAIN t
              /\ (queue \o t)[i] = t[i - Len(queue)] /\ i > Len(queue)
  OBVIOUS

\* Handlers that join a queue keep the timers behind onStop if onStop is not in it yet,
\* or if they are timers.
LEMMA Joins ==
    ASSUME NEW queue \in Seq(Handler), NEW t \in Seq(Handler)
    PROVE  /\ /\ Among(queue, {"onStop"}) = 0 /\ TimersBehindStop(t)
              => TimersBehindStop(queue \o t)
           /\ /\ TimersBehindStop(queue) /\ OnlyTimers(t)
              => TimersBehindStop(queue \o t)
           /\ OnlyTimers(queue) /\ OnlyTimers(t) => OnlyTimers(queue \o t)
<1> DEFINE n == Len(queue)
           both == queue \o t
<1>1. n \in Nat /\ DOMAIN both \subseteq Nat
  OBVIOUS
<1>2. ASSUME NEW i \in DOMAIN both
      PROVE  \/ i \in DOMAIN queue /\ both[i] = queue[i] /\ i <= n
             \/ i - n \in DOMAIN t /\ both[i] = t[i - n] /\ i > n
  BY JoinedAt
<1> HIDE DEF both, n
<1>3. ASSUME Among(queue, {"onStop"}) = 0, TimersBehindStop(t) PROVE TimersBehindStop(both)
  <2> SUFFICES ASSUME NEW i \in DOMAIN both, NEW j \in DOMAIN both, both[i].h = "onStop", i < j
               PROVE  both[j].h \in TimeoutHandlers
    BY DEF TimersBehindStop
  <2>1. \A a \in DOMAIN queue : queue[a].h # "onStop"
    BY <1>3, AmongNone
  <2>2. i - n \in DOMAIN t /\ both[i] = t[i - n] /\ i > n
    BY <1>2, <2>1
  <2>3. j - n \in DOMAIN t /\ both[j] = t[j - n] /\ i - n < j - n
    BY <1>1, <1>2, <2>2
  <2> QED
    BY <1>3, <2>2, <2>3, Zenon DEF TimersBehindStop
<1>4. ASSUME TimersBehindStop(queue), OnlyTimers(t) PROVE TimersBehindStop(both)
  <2> SUFFICES ASSUME NEW i \in DOMAIN both, NEW j \in DOMAIN both, both[i].h = "onStop", i < j
               PROVE  both[j].h \in TimeoutHandlers
    BY DEF TimersBehindStop
  <2>1. CASE j - n \in DOMAIN t /\ both[j] = t[j - n]
    BY <1>4, <2>1, Zenon DEF OnlyTimers
  <2>2. CASE j \in DOMAIN queue /\ both[j] = queue[j] /\ j <= n
    <3>1. i \in DOMAIN queue /\ both[i] = queue[i]
      BY <1>1, <1>2, <2>2
    <3> QED
      BY <1>4, <2>2, <3>1, Zenon DEF TimersBehindStop
  <2> QED
    BY <1>2, <2>1, <2>2, Zenon
<1>5. ASSUME OnlyTimers(queue), OnlyTimers(t) PROVE OnlyTimers(both)
  BY <1>2, <1>5, Zenon DEF OnlyTimers
<1> QED
  BY <1>3, <1>4, <1>5, Zenon DEF both

\* A single handler has nothing behind it.
LEMMA ReadyOrder ==
    ASSUME NEW name \in HandlerNames, NEW err \in Outcomes
    PROVE  /\ OnReady(name, err) \in Seq(Handler)
           /\ TimersBehindStop(OnReady(name, err))
           /\ name \in TimeoutHandlers => OnlyTimers(OnReady(name, err))
<1>1. OnReady(name, err) \in Seq(Handler)
  BY OnReadyFacts
<1>2. DOMAIN OnReady(name, err) = {1} /\ OnReady(name, err)[1].h = name
  BY DEF OnReady
<1>3. TimersBehindStop(OnReady(name, err))
  BY <1>2 DEF TimersBehindStop
<1> QED
  BY <1>1, <1>2, <1>3, Zenon DEF OnlyTimers

\* What closeSocket() completes holds no onStop.
LEMMA AbortedOrder ==
    ASSUME NEW r \in ConnType
    PROVE  Aborted(r) \in Seq(Handler) /\ TimersBehindStop(Aborted(r))
<1>1. Aborted(r) \in Seq(Handler) /\ Among(Aborted(r), {"onStop"}) = 0
  BY AbortedFacts, AbortedAmong
<1> HIDE DEF Aborted
<1>2. \A i \in DOMAIN Aborted(r) : Aborted(r)[i].h # "onStop"
  BY <1>1, AmongNone
<1> QED
  BY <1>1, <1>2, Zenon DEF TimersBehindStop

\* The first handler of a queue takes another name: the order behind onStop stays.
LEMMA FirstRenamed ==
    ASSUME NEW queue \in Seq(Handler), 1 \in DOMAIN queue, TimersBehindStop(queue),
           queue[1].h # "onStop", NEW name, name # "onStop"
    PROVE  TimersBehindStop([queue EXCEPT ![1].h = name])
<1> DEFINE new == [queue EXCEPT ![1].h = name]
<1>1. queue[1] \in Handler
  OBVIOUS
<1>2. /\ DOMAIN new = DOMAIN queue /\ DOMAIN queue \subseteq Nat \ {0}
      /\ new[1].h = name
      /\ \A i \in DOMAIN queue : i # 1 => new[i] = queue[i]
  BY <1>1 DEF Handler
<1> HIDE DEF new
<1> SUFFICES ASSUME NEW i \in DOMAIN new, NEW j \in DOMAIN new, new[i].h = "onStop", i < j
             PROVE  new[j].h \in TimeoutHandlers
  BY DEF TimersBehindStop, new
<1>3. i # 1 /\ j # 1 /\ i \in DOMAIN queue /\ j \in DOMAIN queue
  BY <1>2
<1> QED
  BY <1>2, <1>3, Zenon DEF TimersBehindStop

\* With one thread the handler in progress is the first.
LEMMA FirstInProgress ==
    ASSUME IInv, NEW c \in Conns, NEW i, NEW name, Handles(c, i, name), ServiceThreads = 1
    PROVE  i = 1 /\ 1 \in DOMAIN conn[c].ready /\ conn[c].ready \in Seq(Handler)
<1>1. conn[c].ready \in Seq(Handler)
  BY Zenon DEF IInv, TypeOK, ConnType
<1>2. i \in DOMAIN conn[c].ready /\ i <= ServiceThreads
  BY Zenon DEF Handles, InProgress
<1>3. i \in Nat \ {0}
  BY <1>1, <1>2
<1>4. i = 1
  BY <1>2, <1>3
<1> QED
  BY <1>1, <1>2, <1>4, Zenon

\* A handler that leaves the queue.
LEMMA StopWithout ==
    ASSUME IInv, NEW c \in Conns, NEW i, NEW name, Handles(c, i, name),
           StopIsLast(Summary(conn[c])), NEW s, s.ready = RemoveAt(conn[c].ready, i)
    PROVE  /\ s.socket = conn[c].socket \/ s.socket # "deleted" => StopIsLast(s)
           /\ name = "onStop" => StopIsLast(s)
<1> DEFINE queue == conn[c].ready
<1>1. CASE ServiceThreads # 1
  BY <1>1, Zenon DEF StopIsLast
<1>2. CASE ServiceThreads = 1
  <2>1. i = 1 /\ 1 \in DOMAIN queue /\ queue \in Seq(Handler) /\ queue[i].h = name
    <3>1. queue[i].h = name
      BY Zenon DEF Handles
    <3> QED
      BY <1>2, <3>1, FirstInProgress
  <2>2. Summary(conn[c]).ready = queue /\ Summary(conn[c]).socket = conn[c].socket
    BY DEF Summary
  <2>3. TimersBehindStop(queue) /\ (conn[c].socket = "deleted" => OnlyTimers(queue))
    BY <1>2, <2>2, Zenon DEF StopIsLast
  <2> HIDE DEF queue
  <2>4. /\ TimersBehindStop(queue) => TimersBehindStop(RemoveAt(queue, 1))
        /\ OnlyTimers(queue) => OnlyTimers(RemoveAt(queue, 1))
        /\ TimersBehindStop(queue) /\ queue[1].h = "onStop" => OnlyTimers(RemoveAt(queue, 1))
    BY <2>1, FirstLeaves, Zenon
  <2>5. s.ready = RemoveAt(queue, 1)
    BY <2>1, Zenon DEF queue
  <2> QED
    BY <2>1, <2>3, <2>4, <2>5, Zenon DEF StopIsLast
<1> QED
  BY <1>1, <1>2

-----------------------------------------------------------------------------
(* Steps of one connection.                                                   *)

\* A step of one connection that has been accepted.
LEMMA OneChanges ==
    ASSUME IInv, CountsAreKept, NEW c \in Conns, NEW r,
           conn' = [conn EXCEPT ![c] = r],
           \A d \in Conns : d # c => Pending(taskList', running', events', d)
                                     = Pending(taskList, running, events, d),
           Whole(Summary(r), Pending(taskList', running', events', c)),
           StopIsLast(Summary(r)), Summary(r).state # "NONE"
    PROVE  CountsAreKept'
<1>1. DOMAIN conn = Conns
  BY DEF IInv, TypeOK
<1>2. conn'[c] = r /\ \A d \in Conns : d # c => conn'[d] = conn[d]
  BY <1>1, Zenon
<1>3. Unborn(r)
  <2>1. Summary(r).state = r.state
    BY DEF Summary
  <2> QED
    BY <2>1, Zenon DEF Unborn
<1> SUFFICES ASSUME NEW d \in Conns
             PROVE  /\ Whole(Summary(conn'[d]), Pending(taskList', running', events', d))
                    /\ StopIsLast(Summary(conn'[d]))
                    /\ Unborn(conn'[d])
  BY Zenon DEF CountsAreKept
<1>4. CASE d = c
  BY <1>2, <1>3, <1>4, Zenon
<1>5. CASE d # c
  BY <1>2, <1>5, Zenon DEF CountsAreKept
<1> QED
  BY <1>4, <1>5

\* A connection with a handler has been accepted.
LEMMA HandlerBorn ==
    ASSUME CountsAreKept, NEW c \in Conns, NEW i, NEW name, Handles(c, i, name)
    PROVE  Summary(conn[c]).state # "NONE"
<1>1. i \in DOMAIN conn[c].ready
  BY Zenon DEF Handles, InProgress
<1>2. conn[c] # NewConnection
  BY <1>1 DEF NewConnection
<1>3. conn[c].state # "NONE"
  BY <1>2, Zenon DEF CountsAreKept, Unborn
<1>4. Summary(conn[c]).state = conn[c].state
  BY DEF Summary
<1> QED
  BY <1>3, <1>4, Zenon

\* A handler adds to the list and leaves retries and the dispatcher's task alone.
LEMMA PendingOfHandler ==
    ASSUME IInv, NEW c \in Conns, NEW f, NEW b,
           f = <<>> \/ f = ReleaseMessage(c),
           b = <<>> \/ b = <<CloseTaskOf(c)>> \/ b = <<DelegateTaskOf(c)>>,
           taskList' = (f \o taskList) \o b, running' = running, events' = events
    PROVE  LET k == Pending(taskList, running, events, c)
               n == Pending(taskList', running', events', c)
           IN  /\ n.close = k.close + (IF b = <<CloseTaskOf(c)>> THEN 1 ELSE 0)
               /\ n.delegate = k.delegate + (IF b = <<DelegateTaskOf(c)>> THEN 1 ELSE 0)
               /\ n.message = k.message + (IF f = ReleaseMessage(c) THEN 1 ELSE 0)
               /\ n.release = k.release
               /\ \A d \in Conns : d # c => Pending(taskList', running', events', d)
                                             = Pending(taskList, running, events, d)
<1>1. PICK list \in Seq(Task) : list = taskList
  BY Zenon DEF IInv, TypeOK
<1>2. PICK after : after = (f \o list) \o b
  OBVIOUS
<1>3. taskList' = after
  BY <1>1, <1>2
<1>4. ASSUME NEW d \in Conns
      PROVE  /\ Tasks(after, "closeConnection", d)
                  = Tasks(list, "closeConnection", d)
                    + (IF b = <<CloseTaskOf(c)>> /\ d = c THEN 1 ELSE 0)
             /\ Tasks(after, "delegate", d)
                  = Tasks(list, "delegate", d)
                    + (IF b = <<DelegateTaskOf(c)>> /\ d = c THEN 1 ELSE 0)
             /\ Tasks(after, "internalReleaseMessage", d)
                  = Tasks(list, "internalReleaseMessage", d)
                    + (IF f = ReleaseMessage(c) /\ d = c THEN 1 ELSE 0)
             /\ Tasks(after, "releaseConnection", d) = Tasks(list, "releaseConnection", d)
  BY <1>2, TasksOfHandler
<1>5. \A t, d : Tasks(list, t, d) \in Nat
  BY TasksTyped
<1>6. \A p : One(p) \in Nat
  BY DEF One
<1> DEFINE k == Pending(list, running, events, c)
           n == Pending(after, running, events, c)
<1>7. /\ n.close = k.close + (IF b = <<CloseTaskOf(c)>> THEN 1 ELSE 0)
      /\ n.delegate = k.delegate + (IF b = <<DelegateTaskOf(c)>> THEN 1 ELSE 0)
      /\ n.message = k.message + (IF f = ReleaseMessage(c) THEN 1 ELSE 0)
      /\ n.release = k.release
  BY <1>4, <1>5, <1>6, SMT DEF Pending
<1>8. ASSUME NEW d \in Conns, d # c
      PROVE  Pending(after, running, events, d) = Pending(list, running, events, d)
  <2>1. /\ Tasks(after, "closeConnection", d) = Tasks(list, "closeConnection", d)
        /\ Tasks(after, "delegate", d) = Tasks(list, "delegate", d)
        /\ Tasks(after, "internalReleaseMessage", d) = Tasks(list, "internalReleaseMessage", d)
        /\ Tasks(after, "releaseConnection", d) = Tasks(list, "releaseConnection", d)
    BY <1>4, <1>5, <1>8
  <2> QED
    BY <2>1, Zenon DEF Pending
<1> QED
  BY <1>1, <1>3, <1>7, <1>8, Zenon

\* A handler that adds at most a close.
LEMMA PendingOfClosing ==
    ASSUME IInv, NEW c \in Conns, NEW r,
           taskList' = AddTask(taskList, CloseTask(c, conn[c], r)),
           running' = running, events' = events
    PROVE  LET k == Pending(taskList, running, events, c)
               n == Pending(taskList', running', events', c)
           IN  /\ n.close = k.close + (IF conn[c].state = "OPEN" /\ r.state = "REQUEST_CLOSE"
                                       THEN 1 ELSE 0)
               /\ n.delegate = k.delegate /\ n.message = k.message /\ n.release = k.release
               /\ \A d \in Conns : d # c => Pending(taskList', running', events', d)
                                             = Pending(taskList, running, events, d)
<1> DEFINE b == CloseTask(c, conn[c], r)
           k == Pending(taskList, running, events, c)
           n == Pending(taskList', running', events', c)
<1>1. /\ <<>> # <<CloseTaskOf(c)>> /\ <<>> # <<DelegateTaskOf(c)>>
      /\ <<CloseTaskOf(c)>> # <<DelegateTaskOf(c)>>
      /\ <<>> # ReleaseMessage(c)
  BY DEF CloseTaskOf, DelegateTaskOf, ReleaseMessage
<1>2. /\ b = <<>> \/ b = <<CloseTaskOf(c)>>
      /\ b = <<CloseTaskOf(c)>> <=> conn[c].state = "OPEN" /\ r.state = "REQUEST_CLOSE"
  <2>1. CASE conn[c].state = "OPEN" /\ r.state = "REQUEST_CLOSE"
    BY <2>1, Zenon DEF CloseTask, CloseTaskOf
  <2>2. CASE ~(conn[c].state = "OPEN" /\ r.state = "REQUEST_CLOSE")
    BY <1>1, <2>2, Zenon DEF CloseTask
  <2> QED
    BY <2>1, <2>2
<1>3. taskList' = (<<>> \o taskList) \o b
  <2>1. taskList \in Seq(Task)
    BY DEF IInv, TypeOK
  <2>2. <<>> \o taskList = taskList
    BY <2>1
  <2> QED
    BY <2>2, Zenon DEF AddTask
<1> HIDE DEF b
<1>4. /\ n.close = k.close + (IF b = <<CloseTaskOf(c)>> THEN 1 ELSE 0)
      /\ n.delegate = k.delegate + (IF b = <<DelegateTaskOf(c)>> THEN 1 ELSE 0)
      /\ n.message = k.message + (IF <<>> = ReleaseMessage(c) THEN 1 ELSE 0)
      /\ n.release = k.release
      /\ \A d \in Conns : d # c => Pending(taskList', running', events', d)
                                    = Pending(taskList, running, events, d)
  BY <1>2, <1>3, PendingOfHandler, ZenonT(40)
<1>5. k.delegate \in Nat /\ k.message \in Nat /\ k.close \in Nat
  BY PendingTyped DEF IInv, TypeOK
<1> HIDE DEF k, n
<1>6. /\ n.close = k.close + (IF conn[c].state = "OPEN" /\ r.state = "REQUEST_CLOSE"
                              THEN 1 ELSE 0)
      /\ n.delegate = k.delegate /\ n.message = k.message /\ n.release = k.release
  <2>1. /\ b # <<DelegateTaskOf(c)>>
        /\ (IF b = <<CloseTaskOf(c)>> THEN 1 ELSE 0)
             = (IF conn[c].state = "OPEN" /\ r.state = "REQUEST_CLOSE" THEN 1 ELSE 0)
    BY <1>1, <1>2, Zenon
  <2>2. n.close = k.close + (IF conn[c].state = "OPEN" /\ r.state = "REQUEST_CLOSE"
                             THEN 1 ELSE 0)
    BY <1>4, <2>1, Zenon
  <2>3. n.delegate = k.delegate + 0 /\ n.message = k.message + 0
    BY <1>1, <1>4, <2>1, Zenon
  <2> QED
    BY <1>4, <1>5, <2>2, <2>3
<1> QED
  BY <1>4, <1>6, Zenon DEF k, n

-----------------------------------------------------------------------------
(* The handlers of the service threads keep the counts.                       *)

\* The numbers of a summary are integers, its counts natural ones.
LEMMA SummaryNumbers ==
    ASSUME NEW r \in ConnType
    PROVE  Numbers(Summary(r))
<1>1. Typed(Summary(r))
  BY SummaryTyped
<1> DEFINE q == Summary(r)
<1> HIDE DEF q
<1>2. /\ q.pendingRead \in Int /\ q.pendingWrite \in Int
      /\ q.refCount \in Int /\ q.protoRefs \in Int
      /\ q.managed \in {0, 1} /\ q.reading \in {0, 1} /\ q.writing \in {0, 1}
      /\ q.readers \in Nat /\ q.writers \in Nat /\ q.messages \in Nat /\ q.stops \in Nat
  BY <1>1, Zenon DEF Typed, q
<1>3. Numbers(q)
  BY <1>2 DEF Numbers
<1> QED
  BY <1>3 DEF q

\* What is known of a connection before a step.
LEMMA CountsBefore ==
    ASSUME IInv, CountsAreKept, NEW c \in Conns
    PROVE  LET q == Summary(conn[c])
               k == Pending(taskList, running, events, c)
           IN  /\ Numbers(q) /\ Amounts(k) /\ StopIsLast(q)
               /\ MessagesAreCounted(q, k) /\ LinksAreCounted(q, k) /\ SocketIsCounted(q)
               /\ q.state = conn[c].state /\ q.socket = conn[c].socket
               /\ q.proto = conn[c].proto /\ q.ready = conn[c].ready
               /\ q.state \in States /\ conn[c] \in ConnType
<1> DEFINE k == Pending(taskList, running, events, c)
<1>1. conn[c] \in ConnType
  BY ConnTyped
<1>2. taskList \in Seq(Task)
  BY DEF IInv, TypeOK
<1>3. Numbers(Summary(conn[c]))
  BY <1>1, SummaryNumbers
<1>4. k.close \in Nat /\ k.release \in Nat /\ k.delegate \in Nat /\ k.message \in Nat
  BY <1>2, PendingTyped, Zenon
<1>5. /\ Summary(conn[c]).state = conn[c].state /\ Summary(conn[c]).socket = conn[c].socket
      /\ Summary(conn[c]).proto = conn[c].proto /\ Summary(conn[c]).ready = conn[c].ready
  BY DEF Summary
<1>6. conn[c].state \in States
  BY <1>1 DEF ConnType
<1> HIDE DEF k
<1>7. Amounts(k)
  BY <1>4 DEF Amounts
<1> QED
  BY <1>1, <1>3, <1>5, <1>7, <1>6, Zenon DEF CountsAreKept, Whole, k

\* A read handler up to its checks.
LEMMA SummaryOfPacketStart ==
    ASSUME IInv, NEW c \in Conns, NEW i, NEW name \in ReadHandlers, Handles(c, i, name)
    PROVE  LET q == Summary(conn[c])  s == Summary(PacketStart(c, i)) IN
           /\ Keeps(q, s, {"state", "ready"})
           /\ s.ready = RemoveAt(conn[c].ready, i)
           /\ s.readers + 1 = q.readers
           /\ s.writers = q.writers /\ s.messages = q.messages /\ s.stops = q.stops
           /\ s.state = q.state \/ (q.state = "OPEN" /\ s.state = "REQUEST_CLOSE")
<1> DEFINE err == conn[c].ready[i].err
           w == Without(c, i)
           r == [w EXCEPT !.readTimer = FALSE]
           closed == Close(r)
           failed == [(IF err = "aborted" THEN r ELSE closed) EXCEPT !.readError = TRUE]
           q == Summary(conn[c])
<1>1. w \in ConnType /\ r \in ConnType
  BY HandlerStart, Zenon
<1>2. /\ Keeps(q, Summary(w), {"ready"})
      /\ Summary(w).ready = RemoveAt(q.ready, i)
      /\ Summary(w).readers + One(name \in ReadHandlers) = q.readers
      /\ Summary(w).writers + One(name \in {"onWrite"}) = q.writers
      /\ Summary(w).messages + One(name \in {"onWrite", "~onWrite"}) = q.messages
      /\ Summary(w).stops + One(name \in {"onStop"}) = q.stops
  BY SummaryWithout DEF IInv
<1>3. /\ One(name \in ReadHandlers) = 1 /\ One(name \in {"onWrite"}) = 0
      /\ One(name \in {"onWrite", "~onWrite"}) = 0 /\ One(name \in {"onStop"}) = 0
  BY DEF One, ReadHandlers
<1>4. PacketStart(c, i) = IF err = "ok" THEN r ELSE failed
  BY Zenon DEF PacketStart, HandleReadError
<1>5. q.ready = conn[c].ready
  BY DEF Summary
<1>6. Typed(Summary(w))
  BY <1>1, SummaryTyped
<1> HIDE DEF w, q, err
<1>7. Keeps(Summary(w), Summary(r), {})
  BY <1>1, SummaryOfFlags
<1> HIDE DEF r
<1>8. /\ closed \in ConnType /\ Keeps(Summary(r), Summary(closed), {"state"})
      /\ Summary(closed).state = IF Summary(r).state = "OPEN" THEN "REQUEST_CLOSE"
                                 ELSE Summary(r).state
  BY <1>1, SummaryOfClose, CloseFacts, Zenon
<1> HIDE DEF closed
<1>9. \/ PacketStart(c, i) = r
      \/ PacketStart(c, i) = [r EXCEPT !.readError = TRUE]
      \/ PacketStart(c, i) = [closed EXCEPT !.readError = TRUE]
  BY <1>4, Zenon
<1>10. /\ Keeps(Summary(r), Summary([r EXCEPT !.readError = TRUE]), {})
       /\ Keeps(Summary(closed), Summary([closed EXCEPT !.readError = TRUE]), {})
  BY <1>1, <1>8, SummaryOfFlags
<1> DEFINE s == Summary(PacketStart(c, i))
           u == Summary(r)
           v == Summary(w)
<1>11. /\ Keeps(u, s, {"state"})
       /\ s.state = u.state \/ (u.state = "OPEN" /\ s.state = "REQUEST_CLOSE")
  <2>1. CASE PacketStart(c, i) = r
    BY <2>1, SMT DEF Keeps
  <2>2. CASE PacketStart(c, i) = [r EXCEPT !.readError = TRUE]
    <3>1. Keeps(u, s, {})
      BY <1>10, <2>2, Zenon
    <3> HIDE DEF u, s
    <3> QED
      BY <3>1, SMT DEF Keeps
  <2>3. CASE PacketStart(c, i) = [closed EXCEPT !.readError = TRUE]
    <3> DEFINE x == Summary(closed)
    <3>1. /\ Keeps(x, s, {}) /\ Keeps(u, x, {"state"})
          /\ x.state = IF u.state = "OPEN" THEN "REQUEST_CLOSE" ELSE u.state
      BY <1>8, <1>10, <2>3, Zenon
    <3> HIDE DEF u, s, x
    <3> QED
      BY <3>1, SMT DEF Keeps
  <2> QED
    BY <1>9, <2>1, <2>2, <2>3
<1> HIDE DEF s, u, v
<1>12. Keeps(v, u, {}) /\ Typed(v) /\ Keeps(q, v, {"ready"})
       /\ v.ready = RemoveAt(conn[c].ready, i) /\ v.readers + 1 = q.readers
       /\ v.writers + 0 = q.writers /\ v.messages + 0 = q.messages /\ v.stops + 0 = q.stops
  BY <1>2, <1>3, <1>5, <1>6, <1>7, Zenon DEF u, v
<1>13. /\ Keeps(q, s, {"state", "ready"})
       /\ s.ready = RemoveAt(conn[c].ready, i)
       /\ s.readers + 1 = q.readers
       /\ s.writers = q.writers /\ s.messages = q.messages /\ s.stops = q.stops
       /\ s.state = q.state \/ (q.state = "OPEN" /\ s.state = "REQUEST_CLOSE")
  BY <1>11, <1>12, SMT DEF Keeps, Typed
<1> QED
  BY <1>13, Zenon DEF q, s

\* A read handler that ends the reading.
LEMMA ReadEnds ==
    ASSUME NEW q, NEW k, NEW s, NEW n, Numbers(q), Amounts(k), Numbers(s),
           MessagesAreCounted(q, k), LinksAreCounted(q, k), SocketIsCounted(q),
           Keeps(q, s, {"state", "ready"}), s.readers + 1 = q.readers,
           s.writers = q.writers, s.messages = q.messages, s.stops = q.stops,
           s.state = IF q.state = "OPEN" THEN "REQUEST_CLOSE" ELSE q.state,
           n.close = k.close + (IF q.state = "OPEN" /\ s.state = "REQUEST_CLOSE" THEN 1 ELSE 0),
           n.delegate = k.delegate, n.message = k.message, n.release = k.release
    PROVE  Whole(s, n)
<1>1. MessagesAreCounted(s, n)
  BY SMT DEF MessagesAreCounted, Keeps
<1>2. LinksAreCounted(s, n)
  BY SMT DEF LinksAreCounted, SocketIsCounted, Keeps, Numbers, Amounts
<1>3. SocketIsCounted(s)
  BY SMT DEF SocketIsCounted, Keeps, Numbers
<1> QED
  BY <1>1, <1>2, <1>3, Zenon DEF Whole

\* A read handler that starts the next read: there is still one.
LEMMA ReadGoesOn ==
    ASSUME NEW q, NEW k, NEW s, NEW n, Numbers(q), Amounts(k), Numbers(s),
           MessagesAreCounted(q, k), LinksAreCounted(q, k), SocketIsCounted(q),
           Keeps(q, s, {"ready", "pendingRead", "reading"}),
           q.state = "OPEN", s.readers + 1 = q.readers,
           s.pendingRead = q.pendingRead - 1 + 1, s.reading = 1,
           s.writers = q.writers, s.messages = q.messages, s.stops = q.stops,
           n.close = k.close, n.delegate = k.delegate, n.message = k.message,
           n.release = k.release
    PROVE  Whole(s, n)
<1>1. /\ s.state = q.state /\ s.socket = q.socket /\ s.proto = q.proto
      /\ s.pendingWrite = q.pendingWrite /\ s.writing = q.writing
      /\ s.managed = q.managed /\ s.refCount = q.refCount /\ s.protoRefs = q.protoRefs
  BY SMT DEF Keeps
<1>2. MessagesAreCounted(s, n)
  BY <1>1, SMT DEF MessagesAreCounted
<1>3. LinksAreCounted(s, n)
  BY <1>1, SMT DEF LinksAreCounted
<1>4. q.socket = "open" /\ q.pendingRead = 1 /\ q.reading + q.readers = 1
      /\ q.pendingWrite = q.writing + q.writers
  BY SMT DEF SocketIsCounted
<1>5. s.pendingRead = 1 /\ s.reading + s.readers = 1
  BY <1>4, SMT DEF Numbers
<1>6. SocketIsCounted(s)
  BY <1>1, <1>4, <1>5, SMT DEF SocketIsCounted
<1> QED
  BY <1>2, <1>3, <1>6, Zenon DEF Whole

\* The first packet is the first one only once; it may attach a protocol.
LEMMA SummaryOfFirst ==
    ASSUME NEW r \in ConnType
    PROVE  LET q == Summary(r)
               f == [r EXCEPT !.pendingRead = @ - 1, !.receivedFirst = TRUE]
               p == [r EXCEPT !.pendingRead = @ - 1, !.receivedFirst = TRUE, !.proto = "attached"]
           IN  /\ f \in ConnType /\ p \in ConnType
               /\ Keeps(q, Summary(f), {"pendingRead"})
               /\ Summary(f).pendingRead = q.pendingRead - 1
               /\ Keeps(q, Summary(p), {"pendingRead", "proto"})
               /\ Summary(p).pendingRead = q.pendingRead - 1 /\ Summary(p).proto = "attached"
<1> DEFINE f == [r EXCEPT !.pendingRead = r.pendingRead - 1, !.receivedFirst = TRUE]
           p == [r EXCEPT !.pendingRead = r.pendingRead - 1, !.receivedFirst = TRUE,
                          !.proto = "attached"]
           q == Summary(r)
<1>1. r.pendingRead - 1 \in Int
  BY DEF ConnType
<1>2. f \in ConnType /\ p \in ConnType
  BY <1>1, Zenon DEF ConnType
<1>3. Keeps(q, Summary(f), {"pendingRead"}) /\ Summary(f).pendingRead = q.pendingRead - 1
  BY SMT DEF Summary, ConnType, Keeps
<1>4. /\ Keeps(q, Summary(p), {"pendingRead", "proto"})
      /\ Summary(p).pendingRead = q.pendingRead - 1 /\ Summary(p).proto = "attached"
  BY SMT DEF Summary, ConnType, Keeps
<1> QED
  BY <1>2, <1>3, <1>4, Zenon

\* An open connection that is asked to close keeps its socket.
LEMMA CloseAsked ==
    ASSUME NEW q, NEW k, NEW s, NEW n, Numbers(q), Amounts(k),
           LinksAreCounted(q, k), SocketIsCounted(q),
           q.state = "OPEN", s.state = "REQUEST_CLOSE", s.socket = "open",
           s.managed = q.managed, s.stops = q.stops,
           n.close = k.close + 1, n.release = k.release, MessagesAreCounted(s, n)
    PROVE  Whole(s, n)
<1>1. q.socket = "open"
  BY SMT DEF SocketIsCounted
<1>2. k.close = 0 /\ k.release = 0 /\ q.stops = 0 /\ q.managed = 1
  BY <1>1, SMT DEF LinksAreCounted
<1>3. LinksAreCounted(s, n)
  BY <1>2, SMT DEF LinksAreCounted
<1>4. SocketIsCounted(s)
  BY SMT DEF SocketIsCounted
<1> QED
  BY <1>3, <1>4, Zenon DEF Whole

\* parseHeader asks for the close or hands the one read over to the next.
LEMMA ParseHeaderCounts ==
    ASSUME IInv, CountsAreKept, NEW c \in Conns, NEW i, ParseHeader(c, i)
    PROVE  CountsAreKept'
<1> DEFINE checked == PacketStart(c, i)
           done == [checked EXCEPT !.pendingRead = @ - 1]
           after == IF Unusable(checked) THEN Close(checked) ELSE StartRead(done, "parsePacket")
           t == Summary(checked)
           q == Summary(conn[c])
           s == Summary(after)
           k == Pending(taskList, running, events, c)
           n == Pending(taskList', running', events', c)
<1>1. /\ Handles(c, i, "parseHeader")
      /\ conn' = [conn EXCEPT ![c] = after]
      /\ taskList' = AddTask(taskList, CloseTask(c, conn[c], after))
      /\ running' = running /\ events' = events
  BY Zenon DEF ParseHeader, PacketStart
<1>2. checked \in ConnType
  BY <1>1, HandlerStart, Zenon
<1>3. /\ Keeps(q, t, {"state", "ready"}) /\ t.ready = RemoveAt(conn[c].ready, i)
      /\ t.readers + 1 = q.readers
      /\ t.writers = q.writers /\ t.messages = q.messages /\ t.stops = q.stops
      /\ t.state = q.state \/ (q.state = "OPEN" /\ t.state = "REQUEST_CLOSE")
  BY <1>1, SummaryOfPacketStart, Zenon DEF ReadHandlers
<1>4. /\ Numbers(q) /\ Amounts(k) /\ StopIsLast(q)
      /\ MessagesAreCounted(q, k) /\ LinksAreCounted(q, k) /\ SocketIsCounted(q)
      /\ q.state = conn[c].state /\ q.socket = conn[c].socket
  BY CountsBefore, Zenon
<1>5. /\ n.close = k.close + (IF conn[c].state = "OPEN" /\ after.state = "REQUEST_CLOSE"
                              THEN 1 ELSE 0)
      /\ n.delegate = k.delegate /\ n.message = k.message /\ n.release = k.release
      /\ \A d \in Conns : d # c => Pending(taskList', running', events', d)
                                    = Pending(taskList, running, events, d)
  BY <1>1, PendingOfClosing, Zenon
<1>6. q.state # "NONE"
  BY <1>1, HandlerBorn, Zenon
<1> HIDE DEF checked, q, k, n
<1>7. t.state = checked.state /\ s.state = after.state
  BY DEF Summary
<1>8. done \in ConnType /\ Keeps(t, Summary(done), {"pendingRead"})
      /\ Summary(done).pendingRead = t.pendingRead - 1
  BY <1>2, ReadDoneFacts, SummaryOfReadDone
<1> HIDE DEF done
<1>9. CASE Unusable(checked)
  <2>1. after = Close(checked)
    BY <1>9, Zenon
  <2>2. after \in ConnType /\ Keeps(t, s, {"state"})
        /\ s.state = IF t.state = "OPEN" THEN "REQUEST_CLOSE" ELSE t.state
    BY <1>2, <2>1, SummaryOfClose, CloseFacts, Zenon
  <2>3. Numbers(s)
    BY <2>2, SummaryNumbers
  <2> HIDE DEF after, t, s
  <2>4. /\ Keeps(q, s, {"state", "ready"}) /\ s.ready = RemoveAt(conn[c].ready, i)
        /\ s.readers + 1 = q.readers
        /\ s.writers = q.writers /\ s.messages = q.messages /\ s.stops = q.stops
        /\ s.state = IF q.state = "OPEN" THEN "REQUEST_CLOSE" ELSE q.state
        /\ s.socket = conn[c].socket /\ s.state # "NONE"
    BY <1>6, <1>3, <1>4, <2>2, SMT DEF Keeps
  <2>5. Whole(s, n)
    BY <1>4, <1>5, <1>7, <2>3, <2>4, ReadEnds, Zenon
  <2>6. StopIsLast(s)
    BY <1>1, <1>4, <2>4, StopWithout, Zenon DEF q
  <2> QED
    BY <1>1, <1>5, <2>4, <2>5, <2>6, OneChanges, Zenon DEF s, n
<1>10. CASE ~Unusable(checked)
  <2>1. after = StartRead(done, "parsePacket") /\ checked.state = "OPEN"
    BY <1>10, Zenon DEF Unusable
  <2>2. /\ after \in ConnType /\ Keeps(Summary(done), s, {"pendingRead", "reading"})
        /\ s.pendingRead = Summary(done).pendingRead + 1 /\ s.reading = 1
    BY <1>8, <2>1, SummaryOfStartRead, StartReadFacts, Zenon DEF ReadHandlers
  <2>3. Numbers(s) /\ Numbers(t)
    BY <1>2, <2>2, SummaryNumbers
  <2> DEFINE u == Summary(done)
  <2> HIDE DEF after, t, s, u
  <2>4. /\ Keeps(t, u, {"pendingRead"}) /\ u.pendingRead = t.pendingRead - 1
        /\ Keeps(u, s, {"pendingRead", "reading"}) /\ s.pendingRead = u.pendingRead + 1
        /\ t.state = "OPEN"
    BY <1>7, <1>8, <2>1, <2>2, Zenon DEF u
  <2>5. /\ Keeps(q, s, {"ready", "pendingRead", "reading"})
        /\ s.ready = RemoveAt(conn[c].ready, i) /\ s.socket = conn[c].socket
        /\ s.readers + 1 = q.readers /\ q.state = "OPEN" /\ s.state = "OPEN"
        /\ s.writers = q.writers /\ s.messages = q.messages /\ s.stops = q.stops
        /\ s.pendingRead = q.pendingRead - 1 + 1 /\ s.reading = 1 /\ s.state # "NONE"
    BY <1>3, <1>4, <2>2, <2>4, SMT DEF Keeps
  <2>6. n.close = k.close
    BY <1>4, <1>5, <1>7, <2>5, SMT DEF Amounts
  <2>7. Whole(s, n)
    BY <1>4, <1>5, <2>3, <2>5, <2>6, ReadGoesOn, Zenon
  <2>8. StopIsLast(s)
    BY <1>1, <1>4, <2>5, StopWithout, Zenon DEF q
  <2> QED
    BY <1>1, <1>5, <2>5, <2>7, <2>8, OneChanges, Zenon DEF s, n
<1> QED
  BY <1>9, <1>10

\* parsePacket returning early asks for the close at most once.
LEMMA ParsePacketRefusedCounts ==
    ASSUME IInv, CountsAreKept, NEW c \in Conns, NEW i, ParsePacketRefused(c, i)
    PROVE  CountsAreKept'
<1> DEFINE checked == PacketStart(c, i)
           after == Close(checked)
           t == Summary(checked)
           q == Summary(conn[c])
           s == Summary(after)
           k == Pending(taskList, running, events, c)
           n == Pending(taskList', running', events', c)
<1>1. /\ Handles(c, i, "parsePacket")
      /\ conn' = [conn EXCEPT ![c] = after]
      /\ taskList' = AddTask(taskList, CloseTask(c, conn[c], after))
      /\ running' = running /\ events' = events
  BY Zenon DEF ParsePacketRefused
<1>2. checked \in ConnType
  BY <1>1, HandlerStart, Zenon
<1>3. /\ Keeps(q, t, {"state", "ready"}) /\ t.ready = RemoveAt(conn[c].ready, i)
      /\ t.readers + 1 = q.readers
      /\ t.writers = q.writers /\ t.messages = q.messages /\ t.stops = q.stops
      /\ t.state = q.state \/ (q.state = "OPEN" /\ t.state = "REQUEST_CLOSE")
  BY <1>1, SummaryOfPacketStart, Zenon DEF ReadHandlers
<1>4. /\ Numbers(q) /\ Amounts(k) /\ StopIsLast(q)
      /\ MessagesAreCounted(q, k) /\ LinksAreCounted(q, k) /\ SocketIsCounted(q)
      /\ q.state = conn[c].state /\ q.socket = conn[c].socket
  BY CountsBefore, Zenon
<1>5. /\ n.close = k.close + (IF conn[c].state = "OPEN" /\ after.state = "REQUEST_CLOSE"
                              THEN 1 ELSE 0)
      /\ n.delegate = k.delegate /\ n.message = k.message /\ n.release = k.release
      /\ \A d \in Conns : d # c => Pending(taskList', running', events', d)
                                    = Pending(taskList, running, events, d)
  BY <1>1, PendingOfClosing, Zenon
<1>6. q.state # "NONE"
  BY <1>1, HandlerBorn, Zenon
<1> HIDE DEF checked, q, k, n
<1>7. s.state = after.state
  BY DEF Summary
<1>8. after \in ConnType /\ Keeps(t, s, {"state"})
      /\ s.state = IF t.state = "OPEN" THEN "REQUEST_CLOSE" ELSE t.state
  BY <1>2, SummaryOfClose, CloseFacts, Zenon
<1>9. Numbers(s)
  BY <1>8, SummaryNumbers
<1> HIDE DEF after, t, s
<1>10. /\ Keeps(q, s, {"state", "ready"}) /\ s.ready = RemoveAt(conn[c].ready, i)
       /\ s.readers + 1 = q.readers
       /\ s.writers = q.writers /\ s.messages = q.messages /\ s.stops = q.stops
       /\ s.state = IF q.state = "OPEN" THEN "REQUEST_CLOSE" ELSE q.state
       /\ s.socket = conn[c].socket /\ s.state # "NONE"
  BY <1>6, <1>3, <1>4, <1>8, SMT DEF Keeps
<1>11. Whole(s, n)
  BY <1>4, <1>5, <1>7, <1>9, <1>10, ReadEnds, Zenon
<1>12. StopIsLast(s)
  BY <1>1, <1>4, <1>10, StopWithout, Zenon DEF q
<1> QED
  BY <1>1, <1>5, <1>10, <1>11, <1>12, OneChanges, Zenon DEF s, n

\* No login waits for a connection without a protocol.
LEMMA NoLoginWaits ==
    ASSUME IInv, NEW c \in Conns, conn[c].proto # "attached"
    PROVE  Pending(taskList, running, events, c).delegate = 0
<1>1. Positions("delegate", c) = {}
  BY Zenon DEF IInv, DelegateHasConnection, Queued
<1>2. Tasks(taskList, "delegate", c) = Cardinality(Positions("delegate", c))
  BY Zenon DEF Tasks, Positions
<1>3. Tasks(taskList, "delegate", c) = 0
  BY <1>1, <1>2, FS_EmptySet
<1> QED
  BY <1>3 DEF Pending

\* The first packet finds a connection that no message and no login refers to.
LEMMA SummaryWithProtocol ==
    ASSUME IInv, CountsAreKept, NEW c \in Conns, NEW i, Handles(c, i, "parsePacket"),
           ~Unusable(WithProtocol(c, i)), ~PacketStart(c, i).receivedFirst
    PROVE  LET q == Summary(conn[c])
               s == Summary(WithProtocol(c, i))
               k == Pending(taskList, running, events, c)
           IN  /\ Keeps(q, s, {"ready", "pendingRead", "proto"})
               /\ s.ready = RemoveAt(conn[c].ready, i) /\ s.readers + 1 = q.readers
               /\ s.writers = q.writers /\ s.messages = q.messages /\ s.stops = q.stops
               /\ s.pendingRead = q.pendingRead - 1 /\ s.proto = "attached"
               /\ q.state = "OPEN" /\ q.socket = "open"
               /\ q.refCount = 0 /\ q.protoRefs = 0 /\ q.writing = 0 /\ q.messages = 0
               /\ k.message = 0 /\ k.delegate = 0
<1> DEFINE checked == PacketStart(c, i)
           first == [checked EXCEPT !.pendingRead = @ - 1, !.receivedFirst = TRUE,
                                    !.proto = "attached"]
           q == Summary(conn[c])
           t == Summary(checked)
           s == Summary(WithProtocol(c, i))
           k == Pending(taskList, running, events, c)
<1>1. conn[c].state = "OPEN" /\ ~conn[c].receivedFirst /\ WithProtocol(c, i).state = "OPEN"
  BY WithProtocolFacts, Zenon
<1>2. conn[c].proto = "none" /\ conn[c].proto # "attached"
  BY <1>1 DEF IInv, FirstPacketCreates
<1>3. k.delegate = 0
  BY <1>2, NoLoginWaits, Zenon
<1>4. /\ Numbers(q) /\ Amounts(k) /\ MessagesAreCounted(q, k) /\ SocketIsCounted(q)
      /\ q.state = conn[c].state /\ q.proto = conn[c].proto
  BY CountsBefore, Zenon
<1>5. /\ Keeps(q, t, {"state", "ready"}) /\ t.ready = RemoveAt(conn[c].ready, i)
      /\ t.readers + 1 = q.readers
      /\ t.writers = q.writers /\ t.messages = q.messages /\ t.stops = q.stops
  BY SummaryOfPacketStart, Zenon DEF ReadHandlers
<1>6. checked \in ConnType
  BY HandlerStart, Zenon
<1>7. WithProtocol(c, i) = first
  BY Zenon DEF WithProtocol
<1> HIDE DEF checked, k
<1>8. /\ Keeps(t, s, {"pendingRead", "proto"})
      /\ s.pendingRead = t.pendingRead - 1 /\ s.proto = "attached"
  BY <1>6, <1>7, SummaryOfFirst, Zenon
<1>9. s.state = "OPEN"
  BY <1>1 DEF Summary
<1> HIDE DEF q, t, s
<1>10. /\ Keeps(q, s, {"ready", "pendingRead", "proto"})
       /\ s.ready = RemoveAt(conn[c].ready, i) /\ s.readers + 1 = q.readers
       /\ s.writers = q.writers /\ s.messages = q.messages /\ s.stops = q.stops
       /\ s.pendingRead = q.pendingRead - 1 /\ s.proto = "attached"
  BY <1>1, <1>4, <1>5, <1>8, <1>9, SMT DEF Keeps
<1>11. q.state = "OPEN" /\ q.socket = "open"
  BY <1>1, <1>4, SMT DEF SocketIsCounted
<1>12. /\ q.refCount = 0 /\ q.protoRefs = 0 /\ q.writing = 0 /\ q.messages = 0 /\ k.message = 0
  <2>1. q.refCount = 0 /\ q.protoRefs = 0 /\ q.refCount = q.writing + q.messages + k.message
    BY <1>2, <1>4, SMT DEF MessagesAreCounted
  <2>2. q.writing \in Nat /\ q.messages \in Nat /\ k.message \in Nat
    BY <1>4 DEF Numbers, Amounts
  <2> QED
    BY <2>1, <2>2
<1> QED
  BY <1>3, <1>10, <1>11, <1>12, Zenon DEF q, s, k

\* A first packet without a protocol closes the connection in the same step.
LEMMA ParsePacketNoProtocolCounts ==
    ASSUME IInv, CountsAreKept, NEW c \in Conns, NEW i, ParsePacketNoProtocol(c, i)
    PROVE  CountsAreKept'
<1> DEFINE checked == PacketStart(c, i)
           first == [checked EXCEPT !.pendingRead = @ - 1, !.receivedFirst = TRUE]
           after == Close(first)
           t == Summary(checked)
           u == Summary(first)
           q == Summary(conn[c])
           s == Summary(after)
           k == Pending(taskList, running, events, c)
           n == Pending(taskList', running', events', c)
<1>1. /\ Handles(c, i, "parsePacket") /\ checked.state = "OPEN"
      /\ conn' = [conn EXCEPT ![c] = after]
      /\ taskList' = AddTask(taskList, CloseTask(c, conn[c], after))
      /\ running' = running /\ events' = events
  BY Zenon DEF ParsePacketNoProtocol, Unusable
<1>2. checked \in ConnType
  BY <1>1, HandlerStart, Zenon
<1>3. /\ Keeps(q, t, {"state", "ready"}) /\ t.ready = RemoveAt(conn[c].ready, i)
      /\ t.readers + 1 = q.readers
      /\ t.writers = q.writers /\ t.messages = q.messages /\ t.stops = q.stops
      /\ t.state = q.state \/ (q.state = "OPEN" /\ t.state = "REQUEST_CLOSE")
  BY <1>1, SummaryOfPacketStart, Zenon DEF ReadHandlers
<1>4. /\ Numbers(q) /\ Amounts(k) /\ StopIsLast(q)
      /\ MessagesAreCounted(q, k) /\ LinksAreCounted(q, k) /\ SocketIsCounted(q)
      /\ q.state = conn[c].state /\ q.socket = conn[c].socket
  BY CountsBefore, Zenon
<1>5. /\ n.close = k.close + (IF conn[c].state = "OPEN" /\ after.state = "REQUEST_CLOSE"
                              THEN 1 ELSE 0)
      /\ n.delegate = k.delegate /\ n.message = k.message /\ n.release = k.release
      /\ \A d \in Conns : d # c => Pending(taskList', running', events', d)
                                    = Pending(taskList, running, events, d)
  BY <1>1, PendingOfClosing, Zenon
<1> HIDE DEF checked, q, k, n
<1>6. t.state = "OPEN" /\ s.state = after.state
  BY <1>1 DEF Summary
<1>7. first \in ConnType /\ Keeps(t, u, {"pendingRead"})
  BY <1>2, SummaryOfFirst, Zenon
<1> HIDE DEF first, t
<1>8. Keeps(u, s, {"state"}) /\ s.state = IF u.state = "OPEN" THEN "REQUEST_CLOSE" ELSE u.state
  BY <1>7, SummaryOfClose, Zenon
<1> HIDE DEF after, u, s
<1>9. q.state = "OPEN" /\ q.socket = "open"
  BY <1>3, <1>4, <1>6, SMT DEF SocketIsCounted
<1>10. /\ s.ready = RemoveAt(conn[c].ready, i) /\ s.socket = conn[c].socket /\ s.socket = "open"
       /\ s.managed = q.managed /\ s.stops = q.stops /\ s.state = "REQUEST_CLOSE" /\ s.state # "NONE"
       /\ s.refCount = q.refCount /\ s.protoRefs = q.protoRefs /\ s.proto = q.proto
       /\ s.writing = q.writing /\ s.messages = q.messages
  BY <1>3, <1>4, <1>6, <1>7, <1>8, <1>9, SMT DEF Keeps
<1>11. n.close = k.close + 1
  BY <1>4, <1>5, <1>6, <1>9, <1>10, Zenon
<1>12. MessagesAreCounted(s, n)
  BY <1>4, <1>5, <1>9, <1>10, SMT DEF MessagesAreCounted
<1>13. Whole(s, n)
  BY <1>4, <1>5, <1>9, <1>10, <1>11, <1>12, CloseAsked, Zenon
<1>14. StopIsLast(s)
  BY <1>1, <1>4, <1>10, StopWithout, Zenon DEF q
<1> QED
  BY <1>1, <1>5, <1>10, <1>13, <1>14, OneChanges, Zenon DEF s, n

\* A first packet that cannot be decrypted: the close is asked for, the reading goes on.
LEMMA ParsePacketUndecryptableCounts ==
    ASSUME IInv, CountsAreKept, NEW c \in Conns, NEW i, ParsePacketUndecryptable(c, i)
    PROVE  CountsAreKept'
<1> DEFINE r == WithProtocol(c, i)
           closed == Close(r)
           after == StartRead(closed, "parseHeader")
           t == Summary(r)
           u == Summary(closed)
           q == Summary(conn[c])
           s == Summary(after)
           k == Pending(taskList, running, events, c)
           n == Pending(taskList', running', events', c)
<1>1. /\ Handles(c, i, "parsePacket") /\ ~Unusable(r) /\ ~PacketStart(c, i).receivedFirst
      /\ conn' = [conn EXCEPT ![c] = after]
      /\ taskList' = AddTask(taskList, CloseTask(c, conn[c], after))
      /\ running' = running /\ events' = events
  BY Zenon DEF ParsePacketUndecryptable
<1>2. r \in ConnType
  BY <1>1, WithProtocolFacts, Zenon
<1>3. /\ Keeps(q, t, {"ready", "pendingRead", "proto"})
      /\ t.ready = RemoveAt(conn[c].ready, i) /\ t.readers + 1 = q.readers
      /\ t.writers = q.writers /\ t.messages = q.messages /\ t.stops = q.stops
      /\ t.pendingRead = q.pendingRead - 1 /\ t.proto = "attached"
      /\ q.state = "OPEN" /\ q.socket = "open"
      /\ q.refCount = 0 /\ q.protoRefs = 0 /\ q.writing = 0 /\ q.messages = 0
      /\ k.message = 0 /\ k.delegate = 0
  BY <1>1, SummaryWithProtocol, Zenon
<1>4. /\ Numbers(q) /\ Amounts(k) /\ StopIsLast(q)
      /\ MessagesAreCounted(q, k) /\ LinksAreCounted(q, k) /\ SocketIsCounted(q)
      /\ q.state = conn[c].state /\ q.socket = conn[c].socket
  BY CountsBefore, Zenon
<1>5. /\ n.close = k.close + (IF conn[c].state = "OPEN" /\ after.state = "REQUEST_CLOSE"
                              THEN 1 ELSE 0)
      /\ n.delegate = k.delegate /\ n.message = k.message /\ n.release = k.release
      /\ \A d \in Conns : d # c => Pending(taskList', running', events', d)
                                    = Pending(taskList, running, events, d)
  BY <1>1, PendingOfClosing, Zenon
<1> HIDE DEF r, q, k, n
<1>6. closed \in ConnType /\ Keeps(t, u, {"state"})
      /\ u.state = IF t.state = "OPEN" THEN "REQUEST_CLOSE" ELSE t.state
  BY <1>2, CloseFacts, SummaryOfClose, Zenon
<1> HIDE DEF closed, t
<1>7. Keeps(u, s, {"pendingRead", "reading"})
  BY <1>6, SummaryOfStartRead, Zenon DEF ReadHandlers
<1>8. s.state = after.state
  BY DEF Summary
<1> HIDE DEF after, u, s
<1>9. /\ s.ready = RemoveAt(conn[c].ready, i) /\ s.socket = conn[c].socket /\ s.socket = "open"
      /\ s.managed = q.managed /\ s.stops = q.stops /\ s.state = "REQUEST_CLOSE" /\ s.state # "NONE"
      /\ s.refCount = q.refCount /\ s.protoRefs = q.protoRefs
      /\ s.writing = q.writing /\ s.messages = q.messages /\ s.proto = "attached"
  BY <1>3, <1>4, <1>6, <1>7, SMT DEF Keeps
<1>10. n.close = k.close + 1
  BY <1>3, <1>4, <1>5, <1>8, <1>9, Zenon
<1>11. MessagesAreCounted(s, n)
  BY <1>3, <1>4, <1>5, <1>9, SMT DEF MessagesAreCounted
<1>12. Whole(s, n)
  BY <1>3, <1>4, <1>5, <1>9, <1>10, <1>11, CloseAsked, Zenon
<1>13. StopIsLast(s)
  BY <1>1, <1>4, <1>9, StopWithout, Zenon DEF q
<1> QED
  BY <1>1, <1>5, <1>9, <1>12, <1>13, OneChanges, Zenon DEF s, n

\* disconnectClient: the one message, in a write or on its way back, and the close.
LEMMA ParsePacketDisconnectCounts ==
    ASSUME IInv, CountsAreKept, NEW c \in Conns, NEW i, ParsePacketDisconnect(c, i)
    PROVE  CountsAreKept'
<1> DEFINE r == WithProtocol(c, i)
           held == GetOutputMessage(r)
           sent == Send(held)
           closed == Close(sent)
           after == StartRead(closed, "parseHeader")
           t == Summary(r)
           h == Summary(held)
           w == Summary(sent)
           u == Summary(closed)
           q == Summary(conn[c])
           s == Summary(after)
           k == Pending(taskList, running, events, c)
           n == Pending(taskList', running', events', c)
<1>1. /\ Handles(c, i, "parsePacket") /\ ~Unusable(r) /\ ~PacketStart(c, i).receivedFirst
      /\ conn' = [conn EXCEPT ![c] = after]
      /\ taskList' = (DropTask(c, r) \o taskList) \o CloseTask(c, conn[c], after)
      /\ running' = running /\ events' = events
  BY Zenon DEF ParsePacketDisconnect, AddTask, AddTaskFront
<1>2. r \in ConnType /\ conn[c].state = "OPEN"
  BY <1>1, WithProtocolFacts, Zenon
<1>3. /\ Keeps(q, t, {"ready", "pendingRead", "proto"})
      /\ t.ready = RemoveAt(conn[c].ready, i) /\ t.readers + 1 = q.readers
      /\ t.writers = q.writers /\ t.messages = q.messages /\ t.stops = q.stops
      /\ t.pendingRead = q.pendingRead - 1 /\ t.proto = "attached"
      /\ q.state = "OPEN" /\ q.socket = "open"
      /\ q.refCount = 0 /\ q.protoRefs = 0 /\ q.writing = 0 /\ q.messages = 0
      /\ k.message = 0 /\ k.delegate = 0
  BY <1>1, SummaryWithProtocol, Zenon
<1>4. /\ Numbers(q) /\ Amounts(k) /\ StopIsLast(q)
      /\ MessagesAreCounted(q, k) /\ LinksAreCounted(q, k) /\ SocketIsCounted(q)
      /\ q.state = conn[c].state /\ q.socket = conn[c].socket
  BY CountsBefore, Zenon
<1> HIDE DEF r, q, k
<1>5. held \in ConnType /\ Sendable(held) = Sendable(r)
  BY <1>2, GetOutputMessageFacts DEF GetOutputMessage, Sendable, ConnType
<1>6. /\ Keeps(t, h, {"refCount", "protoRefs"})
      /\ h.refCount = t.refCount + 1 /\ h.protoRefs = t.protoRefs + 1
  BY <1>2, SummaryOfMessage, Zenon
<1> HIDE DEF held, t
<1>7. /\ sent \in ConnType
      /\ Sendable(r) => /\ Keeps(h, w, {"pendingWrite", "writing"}) /\ w.writing = 1
      /\ ~Sendable(r) => Keeps(h, w, {})
  BY <1>5, SendFacts, SummaryOfSend, Zenon
<1> HIDE DEF sent, h
<1>8. closed \in ConnType /\ Keeps(w, u, {"state"})
      /\ u.state = IF w.state = "OPEN" THEN "REQUEST_CLOSE" ELSE w.state
  BY <1>7, CloseFacts, SummaryOfClose, Zenon
<1> HIDE DEF closed, w
<1>9. Keeps(u, s, {"pendingRead", "reading"})
  BY <1>8, SummaryOfStartRead, Zenon DEF ReadHandlers
<1>10. s.state = after.state
  BY DEF Summary
<1> HIDE DEF u, s
<1>11. /\ h.state = "OPEN" /\ h.socket = "open" /\ h.ready = RemoveAt(conn[c].ready, i)
       /\ h.managed = q.managed /\ h.stops = q.stops /\ h.messages = q.messages
       /\ h.writing = q.writing /\ h.refCount = 1 /\ h.protoRefs = 1 /\ h.proto = "attached"
  BY <1>3, <1>6, SMT DEF Keeps
<1>12. /\ s.state = "REQUEST_CLOSE" /\ s.state # "NONE" /\ s.socket = "open" /\ s.socket = conn[c].socket
       /\ s.ready = RemoveAt(conn[c].ready, i)
       /\ s.managed = q.managed /\ s.stops = q.stops /\ s.messages = 0
       /\ s.refCount = 1 /\ s.protoRefs = 1 /\ s.proto = "attached"
       /\ s.writing = IF Sendable(r) THEN 1 ELSE 0
  <2>1. CASE Sendable(r)
    <3>1. Keeps(h, w, {"pendingWrite", "writing"}) /\ w.writing = 1
      BY <1>7, <2>1, Zenon
    <3> QED
      BY <1>3, <1>4, <1>8, <1>9, <1>11, <2>1, <3>1, SMT DEF Keeps
  <2>2. CASE ~Sendable(r)
    <3>1. Keeps(h, w, {})
      BY <1>7, <2>2, Zenon
    <3> QED
      BY <1>3, <1>4, <1>8, <1>9, <1>11, <2>2, <3>1, SMT DEF Keeps
  <2> QED
    BY <2>1, <2>2
<1> DEFINE f == DropTask(c, r)
           b == CloseTask(c, conn[c], after)
<1>13. b = <<CloseTaskOf(c)>>
  BY <1>2, <1>10, <1>12, Zenon DEF CloseTask, CloseTaskOf
<1>14. /\ f = <<>> \/ f = ReleaseMessage(c)
       /\ f = ReleaseMessage(c) <=> ~Sendable(r)
  <2>1. <<>> # ReleaseMessage(c)
    BY DEF ReleaseMessage
  <2> QED
    BY <2>1, Zenon DEF DropTask
<1>15. <<CloseTaskOf(c)>> # <<DelegateTaskOf(c)>>
  BY DEF CloseTaskOf, DelegateTaskOf
<1> HIDE DEF f, b
<1>16. /\ n.close = k.close + (IF b = <<CloseTaskOf(c)>> THEN 1 ELSE 0)
       /\ n.delegate = k.delegate + (IF b = <<DelegateTaskOf(c)>> THEN 1 ELSE 0)
       /\ n.message = k.message + (IF f = ReleaseMessage(c) THEN 1 ELSE 0)
       /\ n.release = k.release
       /\ \A d \in Conns : d # c => Pending(taskList', running', events', d)
                                     = Pending(taskList, running, events, d)
  <2>1. taskList' = (f \o taskList) \o b
    BY <1>1, Zenon DEF f, b
  <2> QED
    BY <1>1, <1>13, <1>14, <2>1, PendingOfHandler, Zenon DEF k
<1> HIDE DEF after, n
<1>17. /\ n.close = k.close + 1 /\ n.release = k.release /\ n.delegate = k.delegate + 0
       /\ n.message = k.message + (IF Sendable(r) THEN 0 ELSE 1)
  BY <1>13, <1>14, <1>15, <1>16, Zenon
<1>18. n.delegate = 0 /\ n.message = IF Sendable(r) THEN 0 ELSE 1
  BY <1>3, <1>17
<1>19. MessagesAreCounted(s, n)
  <2>1. q.stops = 0
    BY <1>3, <1>4, SMT DEF LinksAreCounted
  <2> QED
    BY <1>12, <1>18, <2>1, SMT DEF MessagesAreCounted
<1>20. Whole(s, n)
  BY <1>3, <1>4, <1>12, <1>17, <1>19, CloseAsked, Zenon
<1>21. StopIsLast(s)
  BY <1>1, <1>4, <1>12, StopWithout, Zenon DEF q
<1> QED
  BY <1>1, <1>12, <1>16, <1>20, <1>21, OneChanges, Zenon DEF s, n

\* The login that waits may have the one message; the reading goes on.
LEMMA ParsePacketLoginCounts ==
    ASSUME IInv, CountsAreKept, NEW c \in Conns, NEW i, ParsePacketLogin(c, i)
    PROVE  CountsAreKept'
<1> DEFINE r == WithProtocol(c, i)
           after == StartRead(r, "parseHeader")
           t == Summary(r)
           b == <<DelegateTaskOf(c)>>
           q == Summary(conn[c])
           s == Summary(after)
           k == Pending(taskList, running, events, c)
           n == Pending(taskList', running', events', c)
<1>1. /\ Handles(c, i, "parsePacket") /\ ~Unusable(r) /\ ~PacketStart(c, i).receivedFirst
      /\ conn' = [conn EXCEPT ![c] = after]
      /\ taskList' = AddTask(taskList, b)
      /\ running' = running /\ events' = events
  BY Zenon DEF ParsePacketLogin, DelegateTaskOf
<1>2. r \in ConnType
  BY <1>1, WithProtocolFacts, Zenon
<1>3. /\ Keeps(q, t, {"ready", "pendingRead", "proto"})
      /\ t.ready = RemoveAt(conn[c].ready, i) /\ t.readers + 1 = q.readers
      /\ t.writers = q.writers /\ t.messages = q.messages /\ t.stops = q.stops
      /\ t.pendingRead = q.pendingRead - 1 /\ t.proto = "attached"
      /\ q.state = "OPEN" /\ q.socket = "open"
      /\ q.refCount = 0 /\ q.protoRefs = 0 /\ q.writing = 0 /\ q.messages = 0
      /\ k.message = 0 /\ k.delegate = 0
  BY <1>1, SummaryWithProtocol, Zenon
<1>4. /\ Numbers(q) /\ Amounts(k) /\ StopIsLast(q)
      /\ MessagesAreCounted(q, k) /\ LinksAreCounted(q, k) /\ SocketIsCounted(q)
      /\ q.state = conn[c].state /\ q.socket = conn[c].socket
  BY CountsBefore, Zenon
<1> HIDE DEF r, q, k
<1>5. /\ after \in ConnType /\ Keeps(t, s, {"pendingRead", "reading"})
      /\ s.pendingRead = t.pendingRead + 1 /\ s.reading = 1
  BY <1>2, StartReadFacts, SummaryOfStartRead, Zenon DEF ReadHandlers
<1>6. Numbers(s)
  BY <1>5, SummaryNumbers
<1> HIDE DEF after, t, s
<1>7. /\ b # <<CloseTaskOf(c)>> /\ <<>> # ReleaseMessage(c)
      /\ taskList' = (<<>> \o taskList) \o b
  <2>1. taskList \in Seq(Task)
    BY DEF IInv, TypeOK
  <2>2. <<>> \o taskList = taskList
    BY <2>1
  <2>3. b # <<CloseTaskOf(c)>> /\ <<>> # ReleaseMessage(c)
    BY DEF CloseTaskOf, DelegateTaskOf, ReleaseMessage
  <2> QED
    BY <1>1, <2>2, <2>3, Zenon DEF AddTask
<1>8. /\ n.close = k.close + (IF b = <<CloseTaskOf(c)>> THEN 1 ELSE 0)
      /\ n.delegate = k.delegate + (IF b = <<DelegateTaskOf(c)>> THEN 1 ELSE 0)
      /\ n.message = k.message + (IF <<>> = ReleaseMessage(c) THEN 1 ELSE 0)
      /\ n.release = k.release
      /\ \A d \in Conns : d # c => Pending(taskList', running', events', d)
                                    = Pending(taskList, running, events, d)
  BY <1>1, <1>7, PendingOfHandler, Zenon DEF k
<1> HIDE DEF n
<1>9. n.close = k.close + 0 /\ n.delegate = k.delegate + 1 /\ n.message = k.message + 0
  BY <1>7, <1>8, Zenon
<1>10. n.close = k.close /\ n.delegate = 1 /\ n.message = 0
  BY <1>3, <1>4, <1>9 DEF Amounts
<1>11. /\ s.ready = RemoveAt(conn[c].ready, i) /\ s.socket = conn[c].socket
       /\ s.state = q.state /\ s.state # "NONE" /\ s.socket = q.socket /\ s.proto = "attached"
       /\ s.managed = q.managed /\ s.stops = q.stops
       /\ s.refCount = 0 /\ s.protoRefs = 0 /\ s.writing = 0 /\ s.messages = 0
       /\ s.writers = q.writers /\ s.pendingWrite = q.pendingWrite
       /\ s.reading = 1 /\ s.readers = q.readers - 1 /\ s.pendingRead = q.pendingRead - 1 + 1
  <2>1. t.readers = q.readers - 1
    BY <1>2, <1>3, <1>4, SummaryNumbers DEF Numbers, t
  <2> QED
    BY <1>3, <1>4, <1>5, <2>1, SMT DEF Keeps
<1>12. MessagesAreCounted(s, n)
  BY <1>10, <1>11, SMT DEF MessagesAreCounted
<1>13. LinksAreCounted(s, n)
  BY <1>3, <1>4, <1>8, <1>10, <1>11, SMT DEF LinksAreCounted
<1>14. q.pendingRead = 1 /\ q.reading + q.readers = 1 /\ q.pendingWrite = q.writing + q.writers
  BY <1>3, <1>4, SMT DEF SocketIsCounted
<1>15. s.pendingRead = 1 /\ s.reading + s.readers = 1
  BY <1>3, <1>4, <1>6, <1>11, <1>14, SMT DEF Numbers
<1>16. SocketIsCounted(s)
  BY <1>3, <1>11, <1>14, <1>15, SMT DEF SocketIsCounted
<1>17. StopIsLast(s)
  BY <1>1, <1>4, <1>11, StopWithout, Zenon DEF q
<1> QED
  BY <1>1, <1>8, <1>11, <1>12, <1>13, <1>16, <1>17, OneChanges, Zenon DEF s, n, Whole

\* A later packet hands the one read over to the next.
LEMMA ParsePacketLaterCounts ==
    ASSUME IInv, CountsAreKept, NEW c \in Conns, NEW i, ParsePacketLater(c, i)
    PROVE  CountsAreKept'
<1> DEFINE checked == PacketStart(c, i)
           done == [checked EXCEPT !.pendingRead = @ - 1]
           after == StartRead(done, "parseHeader")
           t == Summary(checked)
           u == Summary(done)
           q == Summary(conn[c])
           s == Summary(after)
           k == Pending(taskList, running, events, c)
           n == Pending(taskList', running', events', c)
<1>1. /\ Handles(c, i, "parsePacket") /\ checked.state = "OPEN"
      /\ conn' = [conn EXCEPT ![c] = after]
      /\ taskList' = taskList /\ running' = running /\ events' = events
  BY Zenon DEF ParsePacketLater, Unusable
<1>2. checked \in ConnType
  BY <1>1, HandlerStart, Zenon
<1>3. /\ Keeps(q, t, {"state", "ready"}) /\ t.ready = RemoveAt(conn[c].ready, i)
      /\ t.readers + 1 = q.readers
      /\ t.writers = q.writers /\ t.messages = q.messages /\ t.stops = q.stops
      /\ t.state = q.state \/ (q.state = "OPEN" /\ t.state = "REQUEST_CLOSE")
  BY <1>1, SummaryOfPacketStart, Zenon DEF ReadHandlers
<1>4. /\ Numbers(q) /\ Amounts(k) /\ StopIsLast(q)
      /\ MessagesAreCounted(q, k) /\ LinksAreCounted(q, k) /\ SocketIsCounted(q)
      /\ q.state = conn[c].state /\ q.socket = conn[c].socket
  BY CountsBefore, Zenon
<1>5. n = k /\ \A d \in Conns : Pending(taskList', running', events', d)
                                  = Pending(taskList, running, events, d)
  BY <1>1, Zenon
<1> HIDE DEF checked, q, k, n
<1>6. t.state = "OPEN"
  BY <1>1 DEF Summary
<1>7. done \in ConnType /\ Keeps(t, u, {"pendingRead"}) /\ u.pendingRead = t.pendingRead - 1
  BY <1>2, ReadDoneFacts, SummaryOfReadDone
<1> HIDE DEF done, t
<1>8. /\ after \in ConnType /\ Keeps(u, s, {"pendingRead", "reading"})
      /\ s.pendingRead = u.pendingRead + 1 /\ s.reading = 1
  BY <1>7, SummaryOfStartRead, StartReadFacts, Zenon DEF ReadHandlers
<1>9. Numbers(s)
  BY <1>8, SummaryNumbers
<1> HIDE DEF after, u, s
<1>10. /\ Keeps(q, s, {"ready", "pendingRead", "reading"})
       /\ s.ready = RemoveAt(conn[c].ready, i) /\ s.socket = conn[c].socket
       /\ s.readers + 1 = q.readers /\ q.state = "OPEN" /\ s.state # "NONE"
       /\ s.writers = q.writers /\ s.messages = q.messages /\ s.stops = q.stops
       /\ s.pendingRead = q.pendingRead - 1 + 1 /\ s.reading = 1
  BY <1>3, <1>4, <1>6, <1>7, <1>8, SMT DEF Keeps
<1>11. Whole(s, n)
  BY <1>4, <1>5, <1>9, <1>10, ReadGoesOn, Zenon
<1>12. StopIsLast(s)
  BY <1>1, <1>4, <1>10, StopWithout, Zenon DEF q
<1> QED
  BY <1>1, <1>5, <1>10, <1>11, <1>12, OneChanges, Zenon DEF s, n

\* Closing the socket, and asking for the close if the connection was open: the aborted
\* operations become handlers, and the message of an aborted write stays counted.
LEMMA Shuts ==
    ASSUME NEW q, NEW k, NEW s, NEW n, Numbers(q), Amounts(k), Numbers(s),
           MessagesAreCounted(q, k), LinksAreCounted(q, k), SocketIsCounted(q),
           q.state # "NONE",
           s.state = IF q.state = "OPEN" THEN "REQUEST_CLOSE" ELSE q.state,
           s.socket = IF q.socket = "open" THEN "closed" ELSE q.socket,
           s.proto = q.proto, s.managed = q.managed, s.stops = q.stops,
           s.refCount = q.refCount, s.protoRefs = q.protoRefs,
           s.writing + s.messages = q.writing + q.messages,
           s.pendingRead = 0, s.pendingWrite = 0, s.reading = 0, s.writing = 0,
           n.close = k.close + (IF q.state = "OPEN" THEN 1 ELSE 0),
           n.delegate = k.delegate, n.message = k.message, n.release = k.release
    PROVE  Whole(s, n)
<1>1. MessagesAreCounted(s, n)
  <2>1. s.refCount = s.writing + s.messages + n.message
    BY SMT DEF MessagesAreCounted, Numbers, Amounts
  <2>2. s.socket = "deleted" => q.socket = "deleted"
    OBVIOUS
  <2> QED
    BY <2>1, <2>2, SMT DEF MessagesAreCounted
<1>2. LinksAreCounted(s, n)
  <2>1. s.socket = "deleted" <=> q.socket = "deleted"
    OBVIOUS
  <2>2. CASE q.state = "OPEN"
    <3>1. q.socket = "open"
      BY <2>2, SMT DEF SocketIsCounted
    <3>2. k.close = 0 /\ k.release = 0 /\ q.stops = 0 /\ q.managed = 1
      BY <2>2, <3>1, SMT DEF LinksAreCounted
    <3>3. s.state = "REQUEST_CLOSE" /\ n.close = 1 /\ s.socket = "closed"
      BY <2>2, <3>1, <3>2
    <3> QED
      BY <3>2, <3>3, SMT DEF LinksAreCounted
  <2>3. CASE q.state # "OPEN"
    <3>1. s.state = q.state /\ n.close = k.close
      BY <2>3, SMT DEF Amounts
    <3> QED
      BY <2>1, <3>1, SMT DEF LinksAreCounted
  <2> QED
    BY <2>2, <2>3
<1>3. SocketIsCounted(s)
  BY SMT DEF SocketIsCounted
<1> QED
  BY <1>1, <1>2, <1>3, Zenon DEF Whole

\* Summaries with the same queue and socket.
LEMMA SameOrder ==
    ASSUME NEW q, NEW s, StopIsLast(q), s.ready = q.ready,
           s.socket = q.socket \/ s.socket # "deleted"
    PROVE  StopIsLast(s)
  BY Zenon DEF StopIsLast

\* The operations that closing an open socket aborts do not come behind onStop.
LEMMA ShutOrder ==
    ASSUME NEW r \in ConnType, StopIsLast(Summary(r)),
           r.socket = "open" => Summary(r).stops = 0
    PROVE  StopIsLast(Summary(CloseSocket(r)))
<1> DEFINE q == Summary(r)
           s == Summary(CloseSocket(r))
<1>1. /\ q.socket # "open" => Keeps(q, s, {})
      /\ q.socket = "open" => s.socket = "closed" /\ s.ready = q.ready \o Aborted(r)
      /\ q.socket = r.socket /\ q.ready = r.ready
      /\ q.stops = Among(r.ready, {"onStop"})
  <2>1. q.socket = r.socket /\ q.ready = r.ready /\ q.stops = Among(r.ready, {"onStop"})
    BY DEF Summary
  <2> QED
    BY <2>1, SummaryOfShut, Zenon
<1>2. r.ready \in Seq(Handler) /\ Aborted(r) \in Seq(Handler) /\ TimersBehindStop(Aborted(r))
  BY AbortedOrder DEF ConnType
<1>3. CASE r.socket # "open"
  <2>1. s.ready = q.ready /\ s.socket = q.socket
    BY <1>1, <1>3 DEF Keeps
  <2> QED
    BY <2>1, SameOrder
<1>4. CASE r.socket = "open"
  <2> DEFINE t == Aborted(r)
             queue == r.ready
  <2> HIDE DEF t, queue, s
  <2>1. Among(queue, {"onStop"}) = 0 /\ queue \in Seq(Handler) /\ t \in Seq(Handler)
        /\ TimersBehindStop(t) /\ s.ready = queue \o t /\ s.socket = "closed"
    BY <1>1, <1>2, <1>4, Zenon DEF t, queue
  <2>2. TimersBehindStop(queue \o t)
    BY <2>1, Joins
  <2>3. s.socket # "deleted"
    BY <2>1
  <2> QED
    BY <2>1, <2>2, <2>3, Zenon DEF StopIsLast, s
<1> QED
  BY <1>3, <1>4

\* closing the socket and asking for the close, by summaries.
LEMMA SummaryOfShutAndClose ==
    ASSUME NEW r \in ConnType,
           Summary(r).socket # "open" =>
             /\ Summary(r).pendingRead = 0 /\ Summary(r).pendingWrite = 0
             /\ Summary(r).reading = 0 /\ Summary(r).writing = 0
    PROVE  LET t == Summary(r)  s == Summary(Close(CloseSocket(r))) IN
           /\ Close(CloseSocket(r)) \in ConnType
           /\ s.state = IF t.state = "OPEN" THEN "REQUEST_CLOSE" ELSE t.state
           /\ s.socket = IF t.socket = "open" THEN "closed" ELSE t.socket
           /\ s.proto = t.proto /\ s.managed = t.managed /\ s.stops = t.stops
           /\ s.refCount = t.refCount /\ s.protoRefs = t.protoRefs
           /\ s.writing + s.messages = t.writing + t.messages
           /\ s.pendingRead = 0 /\ s.pendingWrite = 0 /\ s.reading = 0 /\ s.writing = 0
           /\ s.ready = Summary(CloseSocket(r)).ready
<1> DEFINE shut == CloseSocket(r)
           t == Summary(r)
           u == Summary(shut)
           s == Summary(Close(shut))
<1>1. shut \in ConnType /\ Numbers(t)
  BY CloseSocketFacts, SummaryNumbers
<1>2. /\ t.socket # "open" => Keeps(t, u, {})
      /\ t.socket = "open" =>
           /\ Keeps(t, u, {"socket", "pendingRead", "pendingWrite", "reading", "writing", "ready"})
           /\ u.socket = "closed" /\ u.pendingRead = 0 /\ u.pendingWrite = 0
           /\ u.reading = 0 /\ u.writing = 0
           /\ u.messages = t.messages + t.writing /\ u.stops = t.stops
  BY SummaryOfShut, Zenon
<1> HIDE DEF shut
<1>3. /\ Close(shut) \in ConnType /\ Keeps(u, s, {"state"})
      /\ s.state = IF u.state = "OPEN" THEN "REQUEST_CLOSE" ELSE u.state
  BY <1>1, CloseFacts, SummaryOfClose, Zenon
<1>4. t.socket # "open" => /\ t.pendingRead = 0 /\ t.pendingWrite = 0
                           /\ t.reading = 0 /\ t.writing = 0
  OBVIOUS
<1> HIDE DEF t, u, s
<1>5. /\ s.state = IF t.state = "OPEN" THEN "REQUEST_CLOSE" ELSE t.state
      /\ s.proto = t.proto /\ s.managed = t.managed
      /\ s.refCount = t.refCount /\ s.protoRefs = t.protoRefs /\ s.ready = u.ready
      /\ s.stops = t.stops
  BY <1>2, <1>3, SMT DEF Keeps
<1>6. /\ s.socket = IF t.socket = "open" THEN "closed" ELSE t.socket
      /\ s.pendingRead = 0 /\ s.pendingWrite = 0 /\ s.reading = 0 /\ s.writing = 0
  BY <1>2, <1>3, <1>4, SMT DEF Keeps
<1>7. s.writing + s.messages = t.writing + t.messages
  <2>1. t.writing \in Int /\ t.messages \in Int
    BY <1>1, Zenon DEF Numbers
  <2>2. CASE t.socket = "open"
    BY <1>2, <1>3, <1>6, <2>1, <2>2, SMT DEF Keeps
  <2>3. CASE t.socket # "open"
    BY <1>2, <1>3, <1>4, <1>6, <2>1, <2>3, SMT DEF Keeps
  <2> QED
    BY <2>2, <2>3
<1> QED
  BY <1>3, <1>5, <1>6, <1>7, Zenon DEF t, u, s, shut

\* Nothing is under way on a closed socket; an open one is not being stopped.
LEMMA SocketIdle ==
    ASSUME NEW q, NEW k, q.state \in States, LinksAreCounted(q, k), SocketIsCounted(q)
    PROVE  /\ q.socket # "open" => /\ q.pendingRead = 0 /\ q.pendingWrite = 0
                                   /\ q.reading = 0 /\ q.writing = 0
           /\ q.socket = "open" => q.stops = 0
           /\ q.state = "OPEN" => q.socket = "open"
<1>1. q.socket # "open" => /\ q.pendingRead = 0 /\ q.pendingWrite = 0
                           /\ q.reading = 0 /\ q.writing = 0
  BY SMT DEF SocketIsCounted
<1>2. q.state = "OPEN" => q.socket = "open"
  BY SMT DEF SocketIsCounted
<1>3. ASSUME q.socket = "open" PROVE q.stops = 0
  <2>1. q.state # "CLOSED"
    BY <1>3, SMT DEF SocketIsCounted
  <2>2. ASSUME q.stops # 0 PROVE FALSE
    <3>1. q.state # "REQUEST_CLOSE" /\ q.state # "NONE" /\ q.state # "OPEN" /\ q.state # "CLOSING"
      BY <2>2, SMT DEF LinksAreCounted
    <3> QED
      BY <2>1, <3>1 DEF States
  <2> QED
    BY <2>2
<1> QED
  BY <1>1, <1>2, <1>3

\* A timeout handler closes the socket and asks for the close, or does nothing.
LEMMA TimeoutCounts ==
    ASSUME IInv, CountsAreKept, NEW c \in Conns, NEW i, NEW name,
           name \in {"onReadTimeout", "onWriteTimeout"}, Handles(c, i, name),
           NEW after, after = Without(c, i) \/ after = Close(CloseSocket(Without(c, i))),
           conn' = [conn EXCEPT ![c] = after],
           taskList' = AddTask(taskList, CloseTask(c, conn[c], after)),
           running' = running, events' = events
    PROVE  CountsAreKept'
<1> DEFINE r == Without(c, i)
           t == Summary(r)
           q == Summary(conn[c])
           s == Summary(after)
           k == Pending(taskList, running, events, c)
           n == Pending(taskList', running', events', c)
<1>1. r \in ConnType
  BY HandlerStart, Zenon
<1>2. /\ Keeps(q, t, {"ready"}) /\ t.ready = RemoveAt(q.ready, i)
      /\ t.readers + One(name \in ReadHandlers) = q.readers
      /\ t.writers + One(name \in {"onWrite"}) = q.writers
      /\ t.messages + One(name \in {"onWrite", "~onWrite"}) = q.messages
      /\ t.stops + One(name \in {"onStop"}) = q.stops
  BY SummaryWithout DEF IInv
<1>3. /\ One(name \in ReadHandlers) = 0 /\ One(name \in {"onWrite"}) = 0
      /\ One(name \in {"onWrite", "~onWrite"}) = 0 /\ One(name \in {"onStop"}) = 0
  BY DEF One, ReadHandlers
<1>4. /\ Numbers(q) /\ Amounts(k) /\ StopIsLast(q)
      /\ MessagesAreCounted(q, k) /\ LinksAreCounted(q, k) /\ SocketIsCounted(q)
      /\ q.state = conn[c].state /\ q.socket = conn[c].socket /\ q.ready = conn[c].ready
      /\ q.state \in States
  BY CountsBefore, Zenon
<1>5. /\ n.close = k.close + (IF conn[c].state = "OPEN" /\ after.state = "REQUEST_CLOSE"
                              THEN 1 ELSE 0)
      /\ n.delegate = k.delegate /\ n.message = k.message /\ n.release = k.release
      /\ \A d \in Conns : d # c => Pending(taskList', running', events', d)
                                    = Pending(taskList, running, events, d)
  BY PendingOfClosing, Zenon
<1>6. q.state # "NONE"
  BY HandlerBorn, Zenon
<1>7. s.state = after.state /\ t.socket = r.socket
  BY DEF Summary
<1>8. Numbers(t)
  BY <1>1, SummaryNumbers
<1>9. after = r \/ after = Close(CloseSocket(r))
  BY Zenon
<1> HIDE DEF r, q, k, n
<1>10. /\ q.socket # "open" => /\ q.pendingRead = 0 /\ q.pendingWrite = 0
                               /\ q.reading = 0 /\ q.writing = 0
       /\ q.socket = "open" => q.stops = 0
       /\ q.state = "OPEN" => q.socket = "open"
  BY <1>4, SocketIdle, Zenon
<1>11. /\ Keeps(q, t, {"ready"}) /\ t.ready = RemoveAt(conn[c].ready, i)
       /\ t.readers = q.readers /\ t.writers = q.writers /\ t.messages = q.messages
       /\ t.stops = q.stops /\ t.socket = conn[c].socket
  <2>1. t.readers \in Int /\ t.writers \in Int /\ t.messages \in Int /\ t.stops \in Int
    BY <1>8, Zenon DEF Numbers
  <2> HIDE DEF t
  <2> QED
    BY <1>2, <1>3, <1>4, <2>1, SMT DEF Keeps
<1>12. StopIsLast(t)
  BY <1>4, <1>11, StopWithout, Zenon DEF q
<1>13. CASE after = r
  <2>1. s = t
    BY <1>13, Zenon
  <2>2. n.close = k.close
    <3>1. s.state = q.state
      BY <1>11, <2>1, SMT DEF Keeps
    <3> QED
      BY <1>4, <1>5, <1>7, <3>1, SMT DEF Amounts
  <2> HIDE DEF s, t
  <2>3. MessagesAreCounted(t, n)
    BY <1>4, <1>5, <1>11, SMT DEF MessagesAreCounted, Keeps
  <2>4. LinksAreCounted(t, n)
    BY <1>4, <1>5, <1>11, <2>2, SMT DEF LinksAreCounted, Keeps
  <2>5. SocketIsCounted(t)
    BY <1>4, <1>11, SMT DEF SocketIsCounted, Keeps
  <2>6. s.state # "NONE"
    BY <1>6, <1>11, <2>1, SMT DEF Keeps
  <2> QED
    BY <1>5, <1>12, <2>1, <2>3, <2>4, <2>5, <2>6, OneChanges, Zenon DEF s, n, Whole
<1>14. CASE after = Close(CloseSocket(r))
  <2> DEFINE u == Summary(CloseSocket(r))
  <2>1. t.socket # "open" => /\ t.pendingRead = 0 /\ t.pendingWrite = 0
                             /\ t.reading = 0 /\ t.writing = 0
    <3> HIDE DEF t
    <3> QED
      BY <1>10, <1>11, SMT DEF Keeps
  <2>2. /\ after \in ConnType
        /\ s.state = IF t.state = "OPEN" THEN "REQUEST_CLOSE" ELSE t.state
        /\ s.socket = IF t.socket = "open" THEN "closed" ELSE t.socket
        /\ s.proto = t.proto /\ s.managed = t.managed /\ s.stops = t.stops
        /\ s.refCount = t.refCount /\ s.protoRefs = t.protoRefs
        /\ s.writing + s.messages = t.writing + t.messages
        /\ s.pendingRead = 0 /\ s.pendingWrite = 0 /\ s.reading = 0 /\ s.writing = 0
        /\ s.ready = u.ready
    BY <1>1, <1>14, <2>1, SummaryOfShutAndClose, Zenon
  <2>3. Numbers(s)
    BY <2>2, SummaryNumbers
  <2>4. StopIsLast(u)
    <3>1. r.socket = "open" => t.stops = 0
      <4> HIDE DEF t
      <4> QED
        BY <1>4, <1>7, <1>10, <1>11, Zenon
    <3> QED
      BY <1>1, <1>12, <3>1, ShutOrder, Zenon
  <2>5. u.socket = IF t.socket = "open" THEN "closed" ELSE t.socket
    <3>1. /\ t.socket # "open" => Keeps(t, u, {})
          /\ t.socket = "open" => u.socket = "closed"
      BY <1>1, SummaryOfShut, Zenon
    <3> HIDE DEF t, u
    <3> QED
      BY <3>1, SMT DEF Keeps
  <2> HIDE DEF s, t, u
  <2>6. /\ s.state = IF q.state = "OPEN" THEN "REQUEST_CLOSE" ELSE q.state
        /\ s.socket = IF q.socket = "open" THEN "closed" ELSE q.socket
        /\ s.proto = q.proto /\ s.managed = q.managed /\ s.stops = q.stops
        /\ s.refCount = q.refCount /\ s.protoRefs = q.protoRefs
        /\ s.writing + s.messages = q.writing + q.messages
        /\ s.state # "NONE"
    BY <1>6, <1>11, <2>2, SMT DEF Keeps
  <2>7. n.close = k.close + (IF q.state = "OPEN" THEN 1 ELSE 0)
    BY <1>4, <1>5, <1>7, <2>6, Zenon
  <2>8. Whole(s, n)
    BY <1>4, <1>5, <1>6, <2>2, <2>3, <2>6, <2>7, Shuts, Zenon
  <2>9. StopIsLast(s)
    BY <2>2, <2>4, <2>5, SameOrder, Zenon
  <2> QED
    BY <1>5, <2>6, <2>8, <2>9, OneChanges, Zenon DEF s, n
<1> QED
  BY <1>9, <1>13, <1>14

\* A read timeout.
LEMMA OnReadTimeoutCounts ==
    ASSUME IInv, CountsAreKept, NEW c \in Conns, NEW i, OnReadTimeout(c, i)
    PROVE  CountsAreKept'
<1> DEFINE r == Without(c, i)
           after == IF r.pendingRead > 0 \/ r.readError THEN Close(CloseSocket(r)) ELSE r
<1>1. /\ Handles(c, i, "onReadTimeout")
      /\ after = r \/ after = Close(CloseSocket(r))
      /\ conn' = [conn EXCEPT ![c] = after]
      /\ taskList' = AddTask(taskList, CloseTask(c, conn[c], after))
      /\ running' = running /\ events' = events
  BY Zenon DEF OnReadTimeout
<1> HIDE DEF after
<1> QED
  BY <1>1, TimeoutCounts, Zenon

\* A write timeout.
LEMMA OnWriteTimeoutCounts ==
    ASSUME IInv, CountsAreKept, NEW c \in Conns, NEW i, OnWriteTimeout(c, i)
    PROVE  CountsAreKept'
<1> DEFINE r == Without(c, i)
           after == IF r.pendingWrite > 0 \/ r.writeError THEN Close(CloseSocket(r)) ELSE r
<1>1. /\ Handles(c, i, "onWriteTimeout")
      /\ after = r \/ after = Close(CloseSocket(r))
      /\ conn' = [conn EXCEPT ![c] = after]
      /\ taskList' = AddTask(taskList, CloseTask(c, conn[c], after))
      /\ running' = running /\ events' = events
  BY Zenon DEF OnWriteTimeout
<1> HIDE DEF after
<1> QED
  BY <1>1, TimeoutCounts, Zenon

\* onWrite up to its checks.
WriteStart(c, i) ==
    LET err == conn[c].ready[i].err
        r == [conn[c] EXCEPT !.ready[i].h = "~onWrite", !.writeTimer = FALSE]
    IN  IF err = "ok" THEN r ELSE HandleWriteError(r, err)

\* onWrite up to its checks: its handler owns the message under another name.
LEMMA SummaryOfWriteStart ==
    ASSUME IInv, CountsAreKept, NEW c \in Conns, NEW i, Handles(c, i, "onWrite")
    PROVE  LET q == Summary(conn[c])  t == Summary(WriteStart(c, i)) IN
           /\ WriteStart(c, i) \in ConnType
           /\ Keeps(q, t, {"state", "ready"})
           /\ t.writers + 1 = q.writers
           /\ t.readers = q.readers /\ t.messages = q.messages /\ t.stops = q.stops
           /\ t.state = q.state \/ (q.state = "OPEN" /\ t.state = "REQUEST_CLOSE")
           /\ StopIsLast(t)
<1> DEFINE err == conn[c].ready[i].err
           named == [conn[c] EXCEPT !.ready[i].h = "~onWrite"]
           r == [named EXCEPT !.writeTimer = FALSE]
           closed == Close(r)
           checked == WriteStart(c, i)
           q == Summary(conn[c])
           m == Summary(named)
           u == Summary(r)
           t == Summary(checked)
<1>1. "~onWrite" \in HandlerNames
  BY DEF HandlerNames, OwningHandlers
<1>2. named \in ConnType
  BY <1>1, RenamedFacts, Zenon
<1>3. PICK old, name : old = "onWrite" /\ name = "~onWrite"
  OBVIOUS
<1>4. /\ Keeps(q, m, {"ready"})
      /\ m.ready = [q.ready EXCEPT ![i].h = name]
      /\ m.readers + One(old \in ReadHandlers) = q.readers + One(name \in ReadHandlers)
      /\ m.writers + One(old \in {"onWrite"}) = q.writers + One(name \in {"onWrite"})
      /\ m.messages + One(old \in {"onWrite", "~onWrite"})
           = q.messages + One(name \in {"onWrite", "~onWrite"})
      /\ m.stops + One(old \in {"onStop"}) = q.stops + One(name \in {"onStop"})
  <2>1. TypeOK /\ Handles(c, i, old) /\ name \in HandlerNames
    BY <1>1, <1>3 DEF IInv
  <2> DEFINE x == Summary([conn[c] EXCEPT !.ready[i].h = name])
  <2>2. /\ Keeps(q, x, {"ready"})
        /\ x.ready = [q.ready EXCEPT ![i].h = name]
        /\ x.readers + One(old \in ReadHandlers) = q.readers + One(name \in ReadHandlers)
        /\ x.writers + One(old \in {"onWrite"}) = q.writers + One(name \in {"onWrite"})
        /\ x.messages + One(old \in {"onWrite", "~onWrite"})
             = q.messages + One(name \in {"onWrite", "~onWrite"})
        /\ x.stops + One(old \in {"onStop"}) = q.stops + One(name \in {"onStop"})
    BY <2>1, SummaryRenamed, SMT
  <2>3. m = x
    BY <1>3, Zenon
  <2> HIDE DEF m, x
  <2> QED
    BY <2>2, <2>3, Zenon
<1>5. /\ One(old \in ReadHandlers) = 0 /\ One(name \in ReadHandlers) = 0
      /\ One(old \in {"onWrite"}) = 1 /\ One(name \in {"onWrite"}) = 0
      /\ One(old \in {"onWrite", "~onWrite"}) = 1
      /\ One(name \in {"onWrite", "~onWrite"}) = 1
      /\ One(old \in {"onStop"}) = 0 /\ One(name \in {"onStop"}) = 0
  BY <1>3 DEF One, ReadHandlers
<1>6. Numbers(m) /\ Numbers(q)
  BY <1>2, CountsBefore, SummaryNumbers
<1>7. q.socket = conn[c].socket /\ q.ready = conn[c].ready /\ StopIsLast(q)
  BY CountsBefore, Zenon
<1>8. \/ checked = r
      \/ checked = [r EXCEPT !.writeError = TRUE]
      \/ checked = [closed EXCEPT !.writeError = TRUE]
  BY Zenon DEF HandleWriteError, WriteStart
<1> HIDE DEF named, q, checked
<1>9. r \in ConnType /\ Keeps(m, u, {})
  BY <1>2, SummaryOfFlags DEF ConnType
<1> HIDE DEF r
<1>10. /\ closed \in ConnType /\ Keeps(u, Summary(closed), {"state"})
       /\ Summary(closed).state = IF u.state = "OPEN" THEN "REQUEST_CLOSE" ELSE u.state
  BY <1>9, CloseFacts, SummaryOfClose, Zenon
<1> HIDE DEF closed
<1>11. /\ checked \in ConnType /\ Keeps(u, t, {"state"})
       /\ t.state = u.state \/ (u.state = "OPEN" /\ t.state = "REQUEST_CLOSE")
  <2>1. CASE checked = r
    BY <1>9, <2>1, SMT DEF Keeps
  <2>2. CASE checked = [r EXCEPT !.writeError = TRUE]
    <3>1. checked \in ConnType /\ Keeps(u, t, {})
      BY <1>9, <2>2, SummaryOfFlags DEF ConnType
    <3> HIDE DEF u, t
    <3> QED
      BY <3>1, SMT DEF Keeps
  <2>3. CASE checked = [closed EXCEPT !.writeError = TRUE]
    <3> DEFINE x == Summary(closed)
    <3>1. checked \in ConnType /\ Keeps(x, t, {})
      BY <1>10, <2>3, SummaryOfFlags DEF ConnType
    <3>2. Keeps(u, x, {"state"}) /\ x.state = IF u.state = "OPEN" THEN "REQUEST_CLOSE" ELSE u.state
      BY <1>10, Zenon
    <3> HIDE DEF u, t, x
    <3> QED
      BY <3>1, <3>2, SMT DEF Keeps
  <2> QED
    BY <1>8, <2>1, <2>2, <2>3
<1> HIDE DEF m, u, t
<1>12. /\ m.writers + 1 = q.writers /\ m.readers = q.readers
       /\ m.messages = q.messages /\ m.stops = q.stops
  <2>1. /\ m.writers \in Int /\ m.readers \in Int /\ m.messages \in Int /\ m.stops \in Int
        /\ q.writers \in Int /\ q.readers \in Int /\ q.messages \in Int /\ q.stops \in Int
    BY <1>6, Zenon DEF Numbers
  <2> QED
    BY <1>4, <1>5, <2>1
<1>13. /\ Keeps(q, t, {"state", "ready"}) /\ t.ready = m.ready /\ t.socket = q.socket
       /\ t.writers + 1 = q.writers
       /\ t.readers = q.readers /\ t.messages = q.messages /\ t.stops = q.stops
       /\ t.state = q.state \/ (q.state = "OPEN" /\ t.state = "REQUEST_CLOSE")
  BY <1>4, <1>9, <1>11, <1>12, SMT DEF Keeps
<1>14. StopIsLast(t)
  <2>1. CASE ServiceThreads # 1
    BY <2>1, Zenon DEF StopIsLast
  <2>2. CASE ServiceThreads = 1
    <3> DEFINE queue == conn[c].ready
    <3>1. i = 1 /\ 1 \in DOMAIN queue /\ queue \in Seq(Handler)
      BY <2>2, FirstInProgress
    <3>2. queue[1].h = "onWrite"
      BY <3>1, Zenon DEF Handles
    <3>3. TimersBehindStop(queue) /\ (q.socket = "deleted" => OnlyTimers(queue))
      BY <1>7, <2>2, Zenon DEF StopIsLast
    <3>4. q.socket # "deleted"
      BY <3>1, <3>2, <3>3 DEF OnlyTimers, TimeoutHandlers
    <3>5. t.ready = [queue EXCEPT ![1].h = "~onWrite"]
      BY <1>3, <1>4, <1>7, <1>13, <3>1, Zenon
    <3> HIDE DEF queue
    <3>6. queue[1].h # "onStop" /\ "~onWrite" # "onStop"
      BY <3>2
    <3>7. TimersBehindStop([queue EXCEPT ![1].h = "~onWrite"])
      BY <3>1, <3>3, <3>6, FirstRenamed, Zenon
    <3> QED
      BY <1>13, <3>4, <3>5, <3>7, Zenon DEF StopIsLast
  <2> QED
    BY <2>1, <2>2
<1> QED
  BY <1>11, <1>13, <1>14, Zenon DEF q, t, checked

\* onWrite counts its write off, or closes the socket and asks for the close.
LEMMA OnWriteCounts ==
    ASSUME IInv, CountsAreKept, NEW c \in Conns, NEW i, OnWrite(c, i)
    PROVE  CountsAreKept'
<1> DEFINE checked == WriteStart(c, i)
           counted == [checked EXCEPT !.pendingWrite = @ - 1]
           after == IF checked.state # "OPEN" \/ checked.writeError
                    THEN Close(CloseSocket(checked)) ELSE counted
           t == Summary(checked)
           q == Summary(conn[c])
           s == Summary(after)
           k == Pending(taskList, running, events, c)
           n == Pending(taskList', running', events', c)
<1>1. /\ Handles(c, i, "onWrite")
      /\ conn' = [conn EXCEPT ![c] = after]
      /\ taskList' = AddTask(taskList, CloseTask(c, conn[c], after))
      /\ running' = running /\ events' = events
  BY Zenon DEF OnWrite, WriteStart
<1>2. after = IF checked.state # "OPEN" \/ checked.writeError
              THEN Close(CloseSocket(checked)) ELSE counted
  OBVIOUS
<1> HIDE DEF after
<1>3. /\ checked \in ConnType
      /\ Keeps(q, t, {"state", "ready"}) /\ t.writers + 1 = q.writers
      /\ t.readers = q.readers /\ t.messages = q.messages /\ t.stops = q.stops
      /\ t.state = q.state \/ (q.state = "OPEN" /\ t.state = "REQUEST_CLOSE")
      /\ StopIsLast(t)
  BY <1>1, SummaryOfWriteStart, Zenon
<1>4. /\ Numbers(q) /\ Amounts(k)
      /\ MessagesAreCounted(q, k) /\ LinksAreCounted(q, k) /\ SocketIsCounted(q)
      /\ q.state = conn[c].state /\ q.state \in States
  BY CountsBefore, Zenon
<1>5. /\ n.close = k.close + (IF conn[c].state = "OPEN" /\ after.state = "REQUEST_CLOSE"
                              THEN 1 ELSE 0)
      /\ n.delegate = k.delegate /\ n.message = k.message /\ n.release = k.release
      /\ \A d \in Conns : d # c => Pending(taskList', running', events', d)
                                    = Pending(taskList, running, events, d)
  BY <1>1, PendingOfClosing, Zenon
<1>6. q.state # "NONE"
  BY <1>1, HandlerBorn, Zenon
<1>7. s.state = after.state /\ t.state = checked.state /\ t.socket = checked.socket
  BY DEF Summary
<1> HIDE DEF checked, q, k, n
<1>8. /\ q.socket # "open" => /\ q.pendingRead = 0 /\ q.pendingWrite = 0
                              /\ q.reading = 0 /\ q.writing = 0
      /\ q.socket = "open" => q.stops = 0
      /\ q.state = "OPEN" => q.socket = "open"
  BY <1>4, SocketIdle, Zenon
<1>9. CASE checked.state # "OPEN" \/ checked.writeError
  <2> DEFINE u == Summary(CloseSocket(checked))
  <2>1. after = Close(CloseSocket(checked))
    BY <1>9, <1>2, Zenon
  <2>2. t.socket # "open" => /\ t.pendingRead = 0 /\ t.pendingWrite = 0
                             /\ t.reading = 0 /\ t.writing = 0
    <3> HIDE DEF t
    <3> QED
      BY <1>3, <1>8, SMT DEF Keeps
  <2>3. /\ after \in ConnType
        /\ s.state = IF t.state = "OPEN" THEN "REQUEST_CLOSE" ELSE t.state
        /\ s.socket = IF t.socket = "open" THEN "closed" ELSE t.socket
        /\ s.proto = t.proto /\ s.managed = t.managed /\ s.stops = t.stops
        /\ s.refCount = t.refCount /\ s.protoRefs = t.protoRefs
        /\ s.writing + s.messages = t.writing + t.messages
        /\ s.pendingRead = 0 /\ s.pendingWrite = 0 /\ s.reading = 0 /\ s.writing = 0
        /\ s.ready = u.ready
    BY <1>3, <2>1, <2>2, SummaryOfShutAndClose, Zenon
  <2>4. Numbers(s)
    BY <2>3, SummaryNumbers
  <2>5. StopIsLast(u)
    <3>1. checked.socket = "open" => t.stops = 0
      <4> HIDE DEF t
      <4> QED
        BY <1>3, <1>7, <1>8, SMT DEF Keeps
    <3> QED
      BY <1>3, <3>1, ShutOrder, Zenon
  <2>6. u.socket = IF t.socket = "open" THEN "closed" ELSE t.socket
    <3>1. /\ t.socket # "open" => Keeps(t, u, {})
          /\ t.socket = "open" => u.socket = "closed"
      BY <1>3, SummaryOfShut, Zenon
    <3> HIDE DEF t, u
    <3> QED
      BY <3>1, SMT DEF Keeps
  <2> HIDE DEF s, t, u
  <2>7. /\ s.state = IF q.state = "OPEN" THEN "REQUEST_CLOSE" ELSE q.state
        /\ s.socket = IF q.socket = "open" THEN "closed" ELSE q.socket
        /\ s.proto = q.proto /\ s.managed = q.managed /\ s.stops = q.stops
        /\ s.refCount = q.refCount /\ s.protoRefs = q.protoRefs
        /\ s.writing + s.messages = q.writing + q.messages
        /\ s.state # "NONE"
    BY <1>3, <1>6, <2>3, SMT DEF Keeps
  <2>8. n.close = k.close + (IF q.state = "OPEN" THEN 1 ELSE 0)
    BY <1>4, <1>5, <1>7, <2>7, Zenon
  <2>9. Whole(s, n)
    BY <1>4, <1>5, <1>6, <2>3, <2>4, <2>7, <2>8, Shuts, Zenon
  <2>10. StopIsLast(s)
    BY <2>3, <2>5, <2>6, SameOrder, Zenon
  <2> QED
    BY <1>1, <1>5, <2>7, <2>9, <2>10, OneChanges, Zenon DEF s, n
<1>10. CASE ~(checked.state # "OPEN" \/ checked.writeError)
  <2>1. after = counted /\ checked.state = "OPEN"
    BY <1>10, <1>2, Zenon
  <2>2. Keeps(t, Summary(counted), {"pendingWrite"})
        /\ Summary(counted).pendingWrite = t.pendingWrite - 1
    BY <1>3, SMT DEF Summary, ConnType, Keeps
  <2>3. Keeps(t, s, {"pendingWrite"}) /\ s.pendingWrite = t.pendingWrite - 1 /\ t.state = "OPEN"
    BY <1>7, <2>1, <2>2, Zenon
  <2>4. Numbers(t)
    BY <1>3, SummaryNumbers
  <2> HIDE DEF s, t
  <2>5. /\ Keeps(q, s, {"ready", "pendingWrite"}) /\ q.state = "OPEN" /\ s.state = "OPEN"
        /\ s.ready = t.ready /\ s.socket = t.socket
        /\ s.pendingWrite = q.pendingWrite - 1 /\ s.writers + 1 = q.writers
        /\ s.readers = q.readers /\ s.messages = q.messages /\ s.stops = q.stops
        /\ s.writers \in Int /\ s.state # "NONE"
    <3>1. t.writers \in Int
      BY <2>4, Zenon DEF Numbers
    <3> QED
      BY <1>3, <2>3, <3>1, SMT DEF Keeps
  <2>6. n.close = k.close
    BY <1>4, <1>5, <1>7, <2>5, SMT DEF Amounts
  <2>7. /\ s.state = q.state /\ s.socket = q.socket /\ s.proto = q.proto
        /\ s.pendingRead = q.pendingRead /\ s.writing = q.writing /\ s.reading = q.reading
        /\ s.managed = q.managed /\ s.refCount = q.refCount /\ s.protoRefs = q.protoRefs
    BY <2>5, SMT DEF Keeps
  <2>8. MessagesAreCounted(s, n)
    BY <1>4, <1>5, <2>5, <2>7, SMT DEF MessagesAreCounted
  <2>9. LinksAreCounted(s, n)
    BY <1>4, <1>5, <2>5, <2>6, <2>7, SMT DEF LinksAreCounted
  <2>10. SocketIsCounted(s)
    <3>1. q.socket = "open" /\ q.pendingRead = 1 /\ q.reading + q.readers = 1
          /\ q.pendingWrite = q.writing + q.writers
      BY <1>4, <2>5, SMT DEF SocketIsCounted
    <3>2. s.pendingWrite = s.writing + s.writers
      BY <1>4, <2>5, <2>7, <3>1, SMT DEF Numbers
    <3> QED
      BY <2>5, <2>7, <3>1, <3>2, SMT DEF SocketIsCounted
  <2>11. StopIsLast(s)
    BY <1>3, <2>5, SameOrder, Zenon
  <2> QED
    BY <1>1, <1>5, <2>5, <2>8, <2>9, <2>10, <2>11, OneChanges, Zenon DEF s, n, Whole
<1> QED
  BY <1>9, <1>10

\* The handler of a write is destroyed: its message is on the way back to the pool.
LEMMA DestroyWriteCounts ==
    ASSUME IInv, CountsAreKept, NEW c \in Conns, NEW i, DestroyWrite(c, i)
    PROVE  CountsAreKept'
<1> DEFINE after == Without(c, i)
           q == Summary(conn[c])
           s == Summary(after)
           k == Pending(taskList, running, events, c)
           n == Pending(taskList', running', events', c)
           f == ReleaseMessage(c)
<1>1. /\ Handles(c, i, "~onWrite")
      /\ conn' = [conn EXCEPT ![c] = after]
      /\ taskList' = f \o taskList
      /\ running' = running /\ events' = events
  BY Zenon DEF DestroyWrite, AddTaskFront
<1>2. PICK name : name = "~onWrite"
  OBVIOUS
<1>3. /\ Keeps(q, s, {"ready"}) /\ s.ready = RemoveAt(q.ready, i)
      /\ s.readers + One(name \in ReadHandlers) = q.readers
      /\ s.writers + One(name \in {"onWrite"}) = q.writers
      /\ s.messages + One(name \in {"onWrite", "~onWrite"}) = q.messages
      /\ s.stops + One(name \in {"onStop"}) = q.stops
  <2>1. TypeOK /\ Handles(c, i, name)
    BY <1>1, <1>2 DEF IInv
  <2> QED
    BY <2>1, SummaryWithout, SMT
<1>4. /\ One(name \in ReadHandlers) = 0 /\ One(name \in {"onWrite"}) = 0
      /\ One(name \in {"onWrite", "~onWrite"}) = 1 /\ One(name \in {"onStop"}) = 0
  BY <1>2 DEF One, ReadHandlers
<1>5. /\ Numbers(q) /\ Amounts(k) /\ StopIsLast(q)
      /\ MessagesAreCounted(q, k) /\ LinksAreCounted(q, k) /\ SocketIsCounted(q)
      /\ q.state = conn[c].state /\ q.socket = conn[c].socket /\ q.ready = conn[c].ready
  BY CountsBefore, Zenon
<1>6. q.state # "NONE"
  BY <1>1, HandlerBorn, Zenon
<1>7. Numbers(s)
  BY <1>1, HandlerStart, SummaryNumbers
<1>8. /\ n.close = k.close /\ n.delegate = k.delegate /\ n.message = k.message + 1
      /\ n.release = k.release
      /\ \A d \in Conns : d # c => Pending(taskList', running', events', d)
                                    = Pending(taskList, running, events, d)
  <2>1. taskList \in Seq(Task)
    BY DEF IInv, TypeOK
  <2>2. f \in Seq(Task) /\ <<>> # <<CloseTaskOf(c)>> /\ <<>> # <<DelegateTaskOf(c)>>
    BY DEF ReleaseMessage, Task, TaskNames, CloseTaskOf, DelegateTaskOf
  <2> HIDE DEF f
  <2>3. (f \o taskList) \o <<>> = f \o taskList
    BY <2>1, <2>2
  <2>4. taskList' = (f \o taskList) \o <<>> /\ f = ReleaseMessage(c)
    BY <1>1, <2>3, Zenon DEF f
  <2>5. /\ n.close = k.close + (IF <<>> = <<CloseTaskOf(c)>> THEN 1 ELSE 0)
        /\ n.delegate = k.delegate + (IF <<>> = <<DelegateTaskOf(c)>> THEN 1 ELSE 0)
        /\ n.message = k.message + (IF f = ReleaseMessage(c) THEN 1 ELSE 0)
        /\ n.release = k.release
        /\ \A d \in Conns : d # c => Pending(taskList', running', events', d)
                                      = Pending(taskList, running, events, d)
    BY <1>1, <2>4, PendingOfHandler, Zenon
  <2> HIDE DEF k, n
  <2>6. n.close = k.close + 0 /\ n.delegate = k.delegate + 0 /\ n.message = k.message + 1
    BY <2>2, <2>4, <2>5, Zenon
  <2>7. k.close \in Int /\ k.delegate \in Int
    BY <1>5, Zenon DEF Amounts
  <2>8. n.close = k.close /\ n.delegate = k.delegate
    BY <2>6, <2>7
  <2> QED
    BY <2>5, <2>6, <2>8, Zenon
<1> HIDE DEF after, q, s, k, n
<1>9. /\ s.readers = q.readers /\ s.writers = q.writers /\ s.stops = q.stops
      /\ s.messages = q.messages - 1 /\ s.messages \in Int
      /\ s.ready = RemoveAt(conn[c].ready, i)
  <2>1. /\ s.readers \in Int /\ s.writers \in Int /\ s.stops \in Int /\ s.messages \in Int
        /\ q.messages \in Int
    BY <1>5, <1>7, Zenon DEF Numbers
  <2> QED
    BY <1>3, <1>4, <1>5, <2>1
<1>10. /\ s.state = q.state /\ s.socket = q.socket /\ s.proto = q.proto
       /\ s.pendingRead = q.pendingRead /\ s.pendingWrite = q.pendingWrite
       /\ s.writing = q.writing /\ s.reading = q.reading /\ s.managed = q.managed
       /\ s.refCount = q.refCount /\ s.protoRefs = q.protoRefs /\ s.state # "NONE"
  BY <1>3, <1>6, SMT DEF Keeps
<1>11. MessagesAreCounted(s, n)
  <2>1. s.refCount = s.writing + s.messages + n.message
    BY <1>5, <1>8, <1>9, <1>10, SMT DEF MessagesAreCounted, Numbers, Amounts
  <2> QED
    BY <1>5, <1>8, <1>9, <1>10, <2>1, SMT DEF MessagesAreCounted
<1>12. LinksAreCounted(s, n)
  BY <1>5, <1>8, <1>9, <1>10, SMT DEF LinksAreCounted
<1>13. SocketIsCounted(s)
  BY <1>5, <1>9, <1>10, SMT DEF SocketIsCounted
<1>14. StopIsLast(s)
  BY <1>1, <1>5, <1>9, <1>10, StopWithout, Zenon DEF q
<1> QED
  BY <1>1, <1>8, <1>10, <1>11, <1>12, <1>13, <1>14, OneChanges, Zenon DEF s, n, Whole

\* With one thread a deleted socket leaves a connection nobody owns.
LEMMA DeletedIsDead ==
    ASSUME IInv, CountsAreKept, NEW c \in Conns, ServiceThreads = 1, conn[c].socket = "deleted"
    PROVE  ~Alive(conn[c])
<1> DEFINE q == Summary(conn[c])
           k == Pending(taskList, running, events, c)
<1>1. /\ MessagesAreCounted(q, k) /\ LinksAreCounted(q, k) /\ SocketIsCounted(q)
      /\ q.socket = conn[c].socket /\ q.proto = conn[c].proto /\ q.ready = conn[c].ready
      /\ StopIsLast(q) /\ conn[c] \in ConnType
  BY CountsBefore, Zenon
<1>2. /\ q.managed = One(conn[c].managed) /\ q.reading = One(conn[c].reading # "none")
      /\ q.writing = One(conn[c].writing) /\ q.refCount = conn[c].refCount
  BY DEF Summary
<1> HIDE DEF q, k
<1>3. /\ q.refCount = 0 /\ q.managed = 0 /\ q.reading = 0 /\ q.writing = 0
      /\ q.proto # "attached"
  <2>1. q.socket = "deleted"
    BY <1>1
  <2>2. q.reading = 0 /\ q.writing = 0 /\ q.state = "CLOSED"
    BY <1>1, <2>1, SMT DEF SocketIsCounted
  <2>3. q.managed = 0 /\ q.proto # "attached"
    BY <1>1, <2>1, <2>2, SMT DEF LinksAreCounted
  <2>4. q.refCount = 0
    BY <1>1, <2>1, SMT DEF MessagesAreCounted
  <2> QED
    BY <2>2, <2>3, <2>4
<1>4. \A b : One(b) = 0 => ~b
  BY DEF One
<1>5. ~conn[c].managed /\ conn[c].reading = "none" /\ ~conn[c].writing
  BY <1>2, <1>3, <1>4
<1>6. conn[c].proto # "attached" /\ ~(conn[c].refCount > 0)
  BY <1>1, <1>2, <1>3
<1>7. \A i \in DOMAIN conn[c].ready : conn[c].ready[i].h \in TimeoutHandlers
  BY <1>1, Zenon DEF StopIsLast, OnlyTimers
<1>8. \A h \in TimeoutHandlers : h \notin OwningHandlers
  BY DEF TimeoutHandlers, OwningHandlers, ReadHandlers
<1> QED
  BY <1>5, <1>6, <1>7, <1>8, Zenon DEF Alive

\* A step that changes neither list nor counts.
LEMMA QuietStep ==
    ASSUME IInv, CountsAreKept, NEW c \in Conns, NEW after,
           conn' = [conn EXCEPT ![c] = after],
           taskList' = taskList, running' = running, events' = events,
           LET q == Summary(conn[c])  s == Summary(after) IN
           /\ q.state # "NONE" /\ Keeps(q, s, {"ready"})
           /\ s.readers = q.readers /\ s.writers = q.writers
           /\ s.messages = q.messages /\ s.stops = q.stops
           /\ StopIsLast(s)
    PROVE  CountsAreKept'
<1> DEFINE q == Summary(conn[c])
           s == Summary(after)
           k == Pending(taskList, running, events, c)
           n == Pending(taskList', running', events', c)
<1>1. MessagesAreCounted(q, k) /\ LinksAreCounted(q, k) /\ SocketIsCounted(q)
  BY CountsBefore, Zenon
<1>2. n = k /\ \A d \in Conns : Pending(taskList', running', events', d)
                                = Pending(taskList, running, events, d)
  BY Zenon
<1>3. /\ q.state # "NONE" /\ Keeps(q, s, {"ready"})
      /\ s.readers = q.readers /\ s.writers = q.writers
      /\ s.messages = q.messages /\ s.stops = q.stops
  OBVIOUS
<1> HIDE DEF q, s, k, n
<1>4. MessagesAreCounted(s, k)
  BY <1>1, <1>3, SMT DEF MessagesAreCounted, Keeps
<1>5. LinksAreCounted(s, k)
  BY <1>1, <1>3, SMT DEF LinksAreCounted, Keeps
<1>6. SocketIsCounted(s)
  BY <1>1, <1>3, SMT DEF SocketIsCounted, Keeps
<1>7. s.state # "NONE"
  BY <1>3, SMT DEF Keeps
<1>8. Whole(s, n)
  BY <1>2, <1>4, <1>5, <1>6, Zenon DEF Whole
<1> QED
  BY <1>2, <1>7, <1>8, OneChanges, Zenon DEF s, n

\* handleReadTimeout and handleWriteTimeout are not counted.
LEMMA HandleTimeoutCounts ==
    ASSUME IInv, CountsAreKept, NEW c \in Conns, NEW i, HandleTimeout(c, i)
    PROVE  CountsAreKept'
<1>1. PICK old \in TimeoutHandlers : Handles(c, i, old)
  BY Zenon DEF HandleTimeout, TimeoutHandlers
<1> DEFINE name == IF conn[c].ready[i].h = "handleReadTimeout"
                   THEN "onReadTimeout" ELSE "onWriteTimeout"
           named == [conn[c] EXCEPT !.ready[i].h = name]
           after == IF Alive(conn[c]) THEN named ELSE Without(c, i)
           q == Summary(conn[c])
           s == Summary(after)
<1>2. /\ conn' = [conn EXCEPT ![c] = after]
      /\ taskList' = taskList /\ running' = running /\ events' = events
  BY Zenon DEF HandleTimeout
<1>3. name \in {"onReadTimeout", "onWriteTimeout"}
  OBVIOUS
<1>4. /\ name \in HandlerNames /\ name # "onStop"
      /\ old # "onStop" /\ old \notin ReadHandlers /\ old # "onWrite" /\ old # "~onWrite"
      /\ name \notin ReadHandlers /\ name # "onWrite" /\ name # "~onWrite"
  BY <1>1, <1>3 DEF HandlerNames, OwningHandlers, ReadHandlers, TimeoutHandlers
<1>5. /\ One(old \in ReadHandlers) = 0 /\ One(old \in {"onWrite"}) = 0
      /\ One(old \in {"onWrite", "~onWrite"}) = 0 /\ One(old \in {"onStop"}) = 0
      /\ One(name \in ReadHandlers) = 0 /\ One(name \in {"onWrite"}) = 0
      /\ One(name \in {"onWrite", "~onWrite"}) = 0 /\ One(name \in {"onStop"}) = 0
  BY <1>4 DEF One
<1>6. Numbers(q) /\ StopIsLast(q) /\ q.socket = conn[c].socket /\ q.ready = conn[c].ready
  BY CountsBefore, Zenon
<1>7. q.state # "NONE"
  BY <1>1, HandlerBorn, Zenon
<1>8. TypeOK
  BY DEF IInv
<1>9. named \in ConnType /\ Without(c, i) \in ConnType
  BY <1>1, <1>4, RenamedFacts, HandlerStart
<1> HIDE DEF name
<1>10. CASE Alive(conn[c])
  <2>1. after = named
    BY <1>10, Zenon
  <2> DEFINE m == Summary(named)
  <2>2. /\ Keeps(q, m, {"ready"})
        /\ m.ready = [q.ready EXCEPT ![i].h = name]
        /\ m.readers + One(old \in ReadHandlers) = q.readers + One(name \in ReadHandlers)
        /\ m.writers + One(old \in {"onWrite"}) = q.writers + One(name \in {"onWrite"})
        /\ m.messages + One(old \in {"onWrite", "~onWrite"})
             = q.messages + One(name \in {"onWrite", "~onWrite"})
        /\ m.stops + One(old \in {"onStop"}) = q.stops + One(name \in {"onStop"})
    BY <1>1, <1>4, <1>8, SummaryRenamed, SMT
  <2>3. Numbers(m)
    BY <1>9, SummaryNumbers
  <2>4. s = m
    BY <2>1, Zenon
  <2> HIDE DEF m, q, s, after, named
  <2>5. /\ m.readers = q.readers /\ m.writers = q.writers
        /\ m.messages = q.messages /\ m.stops = q.stops
    <3>1. /\ m.writers \in Int /\ m.readers \in Int /\ m.messages \in Int /\ m.stops \in Int
          /\ q.writers \in Int /\ q.readers \in Int /\ q.messages \in Int /\ q.stops \in Int
      BY <1>6, <2>3, Zenon DEF Numbers
    <3> QED
      BY <1>5, <2>2, <3>1
  <2>6. StopIsLast(m)
    <3>1. CASE ServiceThreads # 1
      BY <3>1, Zenon DEF StopIsLast
    <3>2. CASE ServiceThreads = 1
      <4> DEFINE queue == conn[c].ready
      <4>1. i = 1 /\ 1 \in DOMAIN queue /\ queue \in Seq(Handler)
        BY <1>1, <3>2, FirstInProgress
      <4>2. queue[1].h = old
        BY <1>1, <4>1, Zenon DEF Handles
      <4>3. TimersBehindStop(queue)
        BY <1>6, <3>2, Zenon DEF StopIsLast
      <4>4. m.socket # "deleted"
        <5>1. conn[c].socket # "deleted"
          BY <1>10, <3>2, DeletedIsDead
        <5>2. m.socket = q.socket
          BY <2>2, SMT DEF Keeps
        <5> QED
          BY <1>6, <5>1, <5>2, Zenon
      <4>5. m.ready = [queue EXCEPT ![1].h = name]
        BY <1>6, <2>2, <4>1, Zenon
      <4> HIDE DEF queue
      <4>6. queue[1].h # "onStop" /\ name # "onStop"
        BY <1>4, <4>2, Zenon
      <4>7. TimersBehindStop([queue EXCEPT ![1].h = name])
        BY <4>1, <4>3, <4>6, FirstRenamed, Zenon
      <4> QED
        BY <4>4, <4>5, <4>7, Zenon DEF StopIsLast
    <3> QED
      BY <3>1, <3>2
  <2> QED
    BY <1>2, <1>7, <2>2, <2>4, <2>5, <2>6, QuietStep, Zenon DEF q, s
<1>11. CASE ~Alive(conn[c])
  <2>1. after = Without(c, i)
    BY <1>11, Zenon
  <2> DEFINE m == Summary(Without(c, i))
  <2>2. /\ Keeps(q, m, {"ready"}) /\ m.ready = RemoveAt(q.ready, i)
        /\ m.readers + One(old \in ReadHandlers) = q.readers
        /\ m.writers + One(old \in {"onWrite"}) = q.writers
        /\ m.messages + One(old \in {"onWrite", "~onWrite"}) = q.messages
        /\ m.stops + One(old \in {"onStop"}) = q.stops
    BY <1>1, <1>8, SummaryWithout, SMT
  <2>3. Numbers(m)
    BY <1>9, SummaryNumbers
  <2>4. s = m
    BY <2>1, Zenon
  <2> HIDE DEF m, s, after
  <2>5. StopIsLast(m)
    <3>1. m.ready = RemoveAt(conn[c].ready, i)
      BY <1>6, <2>2, Zenon
    <3>2. m.socket = conn[c].socket
      <4> HIDE DEF q
      <4> QED
        BY <1>6, <2>2, SMT DEF Keeps
    <3> QED
      BY <1>1, <1>6, <3>1, <3>2, StopWithout, Zenon
  <2> HIDE DEF q
  <2>6. /\ m.readers = q.readers /\ m.writers = q.writers
        /\ m.messages = q.messages /\ m.stops = q.stops
    <3>1. /\ m.writers \in Int /\ m.readers \in Int /\ m.messages \in Int /\ m.stops \in Int
      BY <2>3, Zenon DEF Numbers
    <3> QED
      BY <1>5, <2>2, <3>1
  <2> QED
    BY <1>2, <1>7, <2>2, <2>4, <2>5, <2>6, QuietStep, Zenon DEF q, s
<1> QED
  BY <1>10, <1>11

\* onStop: the last link of the chain, when no message is left and the socket is closed.
LEMMA OnStopCounts ==
    ASSUME IInv, CountsAreKept, NEW c \in Conns, NEW i, OnStop(c, i)
    PROVE  CountsAreKept'
<1> DEFINE r == Without(c, i)
           ready == IF r.socket = "open" THEN r.ready \o Aborted(r) ELSE r.ready
           after == [r EXCEPT !.readTimer = FALSE, !.writeTimer = FALSE,
                              !.socket = "deleted", !.managed = FALSE,
                              !.reading = "none", !.writing = FALSE, !.ready = ready]
           q == Summary(conn[c])
           t == Summary(r)
           s == Summary(after)
           k == Pending(taskList, running, events, c)
           n == Pending(taskList', running', events', c)
<1>1. /\ Handles(c, i, "onStop")
      /\ conn' = [conn EXCEPT ![c] = after]
      /\ taskList' = taskList /\ running' = running /\ events' = events
  BY Zenon DEF OnStop
<1>2. r \in ConnType
  BY <1>1, HandlerStart, Zenon
<1>3. PICK name : name = "onStop"
  OBVIOUS
<1>4. /\ Keeps(q, t, {"ready"}) /\ t.ready = RemoveAt(q.ready, i)
      /\ t.messages + One(name \in {"onWrite", "~onWrite"}) = q.messages
      /\ t.stops + One(name \in {"onStop"}) = q.stops
  <2>1. TypeOK /\ Handles(c, i, name)
    BY <1>1, <1>3 DEF IInv
  <2> QED
    BY <2>1, SummaryWithout, SMT
<1>5. One(name \in {"onWrite", "~onWrite"}) = 0 /\ One(name \in {"onStop"}) = 1
  BY <1>3 DEF One
<1>6. /\ Numbers(q) /\ Amounts(k) /\ StopIsLast(q)
      /\ MessagesAreCounted(q, k) /\ LinksAreCounted(q, k) /\ SocketIsCounted(q)
      /\ q.state \in States /\ q.ready = conn[c].ready
  BY CountsBefore, Zenon
<1>7. Numbers(t)
  BY <1>2, SummaryNumbers
<1>8. n = k /\ \A d \in Conns : Pending(taskList', running', events', d)
                                = Pending(taskList, running, events, d)
  BY <1>1, Zenon
<1>9. t.socket = r.socket
  BY DEF Summary
<1> HIDE DEF r, q, k, n
<1>10. t.stops + 1 = q.stops /\ t.messages + 0 = q.messages /\ t.stops \in Int /\ t.stops >= 0
       /\ t.messages \in Int
  <2> HIDE DEF t
  <2> QED
    BY <1>4, <1>5, <1>7, Zenon DEF Numbers
<1>11. q.stops > 0 /\ q.stops # 0 /\ t.messages = q.messages
  <2> HIDE DEF t
  <2> QED
    BY <1>10
<1>12. q.state = "CLOSED" /\ q.socket # "deleted" /\ q.refCount = 0 /\ q.socket # "open"
       /\ k.close = 0 /\ k.release + q.stops = 1 /\ q.proto # "attached"
  <2>1. q.state # "REQUEST_CLOSE" /\ q.state # "NONE" /\ q.state # "OPEN" /\ q.state # "CLOSING"
        /\ q.socket # "deleted"
    BY <1>6, <1>11, SMT DEF LinksAreCounted
  <2>2. q.state = "CLOSED"
    BY <1>6, <2>1 DEF States
  <2>3. q.refCount = 0
    BY <1>6, <1>11, SMT DEF MessagesAreCounted
  <2>4. q.socket # "open"
    BY <1>6, <2>2, SMT DEF SocketIsCounted
  <2>5. k.close = 0 /\ k.release + q.stops = 1 /\ q.proto # "attached"
    BY <1>6, <2>1, <2>2, SMT DEF LinksAreCounted
  <2> QED
    BY <2>1, <2>2, <2>3, <2>4, <2>5
<1>13. k.release = 0 /\ t.stops = 0
  <2> HIDE DEF t
  <2> QED
    BY <1>6, <1>10, <1>11, <1>12 DEF Amounts
<1>14. /\ t.state = q.state /\ t.socket = q.socket /\ t.proto = q.proto
       /\ t.refCount = q.refCount /\ t.protoRefs = q.protoRefs
       /\ t.pendingRead = q.pendingRead /\ t.pendingWrite = q.pendingWrite
  <2> HIDE DEF t
  <2> QED
    BY <1>4, SMT DEF Keeps
<1>15. ready = r.ready
  BY <1>9, <1>12, <1>14, Zenon
<1> HIDE DEF ready
<1>16. /\ s.state = t.state /\ s.socket = "deleted" /\ s.proto = t.proto
       /\ s.ready = t.ready /\ s.messages = t.messages /\ s.stops = t.stops
       /\ s.refCount = t.refCount /\ s.protoRefs = t.protoRefs
       /\ s.pendingRead = t.pendingRead /\ s.pendingWrite = t.pendingWrite
  BY <1>2, <1>15, SMT DEF Summary, ConnType
<1>17. s.managed = 0 /\ s.reading = 0 /\ s.writing = 0
  <2>1. ~after.managed /\ after.reading = "none" /\ ~after.writing
    BY <1>2 DEF ConnType
  <2>2. /\ One(after.managed) = 0 /\ One(after.reading # "none") = 0 /\ One(after.writing) = 0
    BY <2>1 DEF One
  <2> HIDE DEF after
  <2> QED
    BY <2>2 DEF Summary
<1> HIDE DEF t, s, after
<1>18. q.pendingRead = 0 /\ q.pendingWrite = 0 /\ q.writing = 0
  BY <1>6, <1>12, SMT DEF SocketIsCounted
<1>19. MessagesAreCounted(s, k)
  <2>1. q.refCount = q.writing + q.messages + k.message /\ q.protoRefs = q.refCount
        /\ q.refCount + k.delegate <= 1
    BY <1>6, SMT DEF MessagesAreCounted
  <2>2. s.writing = q.writing /\ s.messages = q.messages /\ s.refCount = q.refCount
        /\ s.protoRefs = q.protoRefs
    BY <1>11, <1>14, <1>16, <1>17, <1>18, Zenon
  <2> QED
    BY <1>12, <2>1, <2>2, SMT DEF MessagesAreCounted
<1>20. LinksAreCounted(s, k)
  BY <1>12, <1>13, <1>14, <1>16, <1>17, SMT DEF LinksAreCounted
<1>21. SocketIsCounted(s)
  BY <1>12, <1>14, <1>16, <1>17, <1>18, SMT DEF SocketIsCounted
<1>22. StopIsLast(s)
  <2>1. s.ready = RemoveAt(conn[c].ready, i)
    BY <1>4, <1>6, <1>16, Zenon
  <2> QED
    BY <1>1, <1>6, <2>1, StopWithout, Zenon DEF q
<1>23. s.state # "NONE"
  BY <1>12, <1>14, <1>16
<1> QED
  BY <1>1, <1>8, <1>19, <1>20, <1>21, <1>22, <1>23, OneChanges, Zenon DEF s, n, Whole

\* Every handler of the service threads keeps the counts.
LEMMA ServiceStepCounts ==
    ASSUME IInv, CountsAreKept, NEW c \in Conns, ServiceStep(c)
    PROVE  CountsAreKept'
<1> PICK i \in InProgress(c) :
        \/ ParseHeader(c, i)
        \/ ParsePacketRefused(c, i)
        \/ ParsePacketNoProtocol(c, i)
        \/ ParsePacketUndecryptable(c, i)
        \/ ParsePacketDisconnect(c, i)
        \/ ParsePacketLogin(c, i)
        \/ ParsePacketLater(c, i)
        \/ OnWrite(c, i)
        \/ DestroyWrite(c, i)
        \/ HandleTimeout(c, i)
        \/ OnReadTimeout(c, i)
        \/ OnWriteTimeout(c, i)
        \/ OnStop(c, i)
  BY Zenon DEF ServiceStep
<1> QED
  BY ParseHeaderCounts, ParsePacketRefusedCounts, ParsePacketNoProtocolCounts,
     ParsePacketUndecryptableCounts, ParsePacketDisconnectCounts, ParsePacketLoginCounts,
     ParsePacketLaterCounts, OnWriteCounts, DestroyWriteCounts, HandleTimeoutCounts,
     OnReadTimeoutCounts, OnWriteTimeoutCounts, OnStopCounts, Zenon

-----------------------------------------------------------------------------
(* The peer and the kernel.                                                   *)

\* The service port accepts a connection that nothing has happened to: it is listed and
\* waits for one read.
LEMMA AcceptCounts ==
    ASSUME IInv, CountsAreKept, NEW c \in Conns, Accept(c)
    PROVE  CountsAreKept'
<1> DEFINE after == StartRead(CreateConnection(conn[c]), "parseHeader")
           q == Summary(conn[c])
           s == Summary(after)
           k == Pending(taskList, running, events, c)
           n == Pending(taskList', running', events', c)
<1>1. /\ conn[c].state = "NONE"
      /\ conn' = [conn EXCEPT ![c] = after]
      /\ taskList' = taskList /\ running' = running /\ events' = events
  BY Zenon DEF Accept
<1>2. conn[c] = NewConnection
  BY <1>1, Zenon DEF CountsAreKept, Unborn
<1>3. /\ MessagesAreCounted(q, k) /\ LinksAreCounted(q, k) /\ Amounts(k)
      /\ q.state = conn[c].state
  BY CountsBefore, Zenon
<1>4. n = k /\ \A d \in Conns : Pending(taskList', running', events', d)
                                = Pending(taskList, running, events, d)
  BY <1>1, Zenon
<1>5. \A N : Among(<<>>, N) = 0
  <2>1. ASSUME NEW N PROVE {i \in DOMAIN <<>> : <<>>[i].h \in N} = {}
    OBVIOUS
  <2> QED
    BY <2>1, FS_EmptySet DEF Among
<1>6. One(TRUE) = 1 /\ One("parseHeader" # "none") = 1 /\ One(FALSE) = 0
  BY DEF One
<1>7. after = [NewConnection EXCEPT !.state = "OPEN", !.managed = TRUE, !.pendingRead = 1,
                                    !.readTimer = TRUE, !.reading = "parseHeader"]
  BY <1>2 DEF StartRead, CreateConnection, NewConnection
<1>8. /\ after.state = "OPEN" /\ after.socket = "open" /\ after.proto = "none"
      /\ after.pendingRead = 1 /\ after.pendingWrite = 0 /\ after.refCount = 0
      /\ after.protoRefs = 0 /\ after.managed = TRUE /\ after.reading = "parseHeader"
      /\ after.writing = FALSE /\ after.ready = <<>>
  BY <1>7 DEF NewConnection
<1> HIDE DEF after
<1>9. /\ s.state = "OPEN" /\ s.socket = "open" /\ s.proto = "none" /\ s.ready = <<>>
      /\ s.pendingRead = 1 /\ s.pendingWrite = 0 /\ s.refCount = 0 /\ s.protoRefs = 0
      /\ s.managed = 1 /\ s.reading = 1 /\ s.writing = 0
      /\ s.readers = 0 /\ s.writers = 0 /\ s.messages = 0 /\ s.stops = 0
  <2>1. One(after.managed) = 1 /\ One(after.reading # "none") = 1 /\ One(after.writing) = 0
    BY <1>6, <1>8, Zenon
  <2> QED
    BY <1>5, <1>8, <2>1, Zenon DEF Summary
<1>10. q.refCount = 0 /\ q.writing = 0 /\ q.messages = 0
  <2>1. conn[c].ready = <<>> /\ conn[c].writing = FALSE /\ conn[c].refCount = 0
    BY <1>2 DEF NewConnection
  <2> QED
    BY <1>5, <1>6, <2>1, Zenon DEF Summary
<1> HIDE DEF q, s, k, n
<1>11. k.message = 0 /\ k.delegate <= 1 /\ k.delegate \in Int
  BY <1>3, <1>10, SMT DEF MessagesAreCounted, Amounts
<1>12. k.close = 0 /\ k.release = 0
  BY <1>1, <1>3, SMT DEF LinksAreCounted
<1>13. MessagesAreCounted(s, n)
  BY <1>4, <1>9, <1>11, SMT DEF MessagesAreCounted
<1>14. LinksAreCounted(s, n)
  BY <1>4, <1>9, <1>12, SMT DEF LinksAreCounted
<1>15. SocketIsCounted(s)
  BY <1>9, SMT DEF SocketIsCounted
<1>16. StopIsLast(s)
  <2>1. TimersBehindStop(<<>>)
    BY DEF TimersBehindStop
  <2>2. s.ready = <<>> /\ s.socket # "deleted"
    BY <1>9
  <2> QED
    BY <2>1, <2>2, Zenon DEF StopIsLast
<1>17. s.state # "NONE"
  BY <1>9
<1> QED
  BY <1>1, <1>4, <1>13, <1>14, <1>15, <1>16, <1>17, OneChanges, Zenon DEF s, n, Whole

\* A handler joins the queue: behind onStop only if it is a timer's.
LEMMA JoinsQueue ==
    ASSUME NEW r \in ConnType, StopIsLast(Summary(r)), NEW name \in HandlerNames,
           NEW err \in Outcomes,
           name \in TimeoutHandlers \/ (Summary(r).stops = 0 /\ Summary(r).socket # "deleted"),
           NEW s, s.ready = r.ready \o OnReady(name, err), s.socket = r.socket
    PROVE  StopIsLast(s)
<1> DEFINE queue == r.ready
           t == OnReady(name, err)
<1>1. /\ queue \in Seq(Handler) /\ t \in Seq(Handler) /\ TimersBehindStop(t)
      /\ name \in TimeoutHandlers => OnlyTimers(t)
  BY ReadyOrder DEF ConnType
<1>2. /\ Summary(r).ready = queue /\ Summary(r).socket = r.socket
      /\ Summary(r).stops = Among(queue, {"onStop"})
  BY DEF Summary
<1> HIDE DEF queue, t
<1>3. /\ /\ Among(queue, {"onStop"}) = 0 /\ TimersBehindStop(t)
         => TimersBehindStop(queue \o t)
      /\ /\ TimersBehindStop(queue) /\ OnlyTimers(t)
         => TimersBehindStop(queue \o t)
      /\ OnlyTimers(queue) /\ OnlyTimers(t) => OnlyTimers(queue \o t)
  BY <1>1, Joins
<1>4. s.ready = queue \o t
  BY DEF queue, t
<1> QED
  BY <1>1, <1>2, <1>3, <1>4, Zenon DEF StopIsLast

\* A read of the kernel becomes a read handler.
LEMMA CompleteReadCounts ==
    ASSUME IInv, CountsAreKept, NEW c \in Conns, CompleteRead(c)
    PROVE  CountsAreKept'
<1> PICK err \in {"ok", "failed"} :
        conn' = [conn EXCEPT ![c].ready = @ \o OnReady(conn[c].reading, err),
                             ![c].reading = "none"]
  BY Zenon DEF CompleteRead
<1> DEFINE name == conn[c].reading
           done == [conn[c] EXCEPT !.reading = "none"]
           after == WithReady(done, name, err)
           q == Summary(conn[c])
           t == Summary(done)
           s == Summary(after)
           k == Pending(taskList, running, events, c)
           n == Pending(taskList', running', events', c)
<1>1. /\ Numbers(q) /\ StopIsLast(q)
      /\ MessagesAreCounted(q, k) /\ LinksAreCounted(q, k) /\ SocketIsCounted(q)
      /\ q.state = conn[c].state /\ q.socket = conn[c].socket
      /\ q.ready = conn[c].ready /\ q.state \in States /\ conn[c] \in ConnType
  BY CountsBefore, Zenon
<1>2. /\ name \in HandlerNames /\ name \in ReadHandlers /\ err \in Outcomes
      /\ name # "none" /\ name # "onWrite" /\ name # "~onWrite" /\ name # "onStop"
  BY <1>1 DEF ConnType, CompleteRead, HandlerNames, OwningHandlers, Outcomes, ReadHandlers
<1>3. /\ conn' = [conn EXCEPT ![c] = after]
      /\ taskList' = taskList /\ running' = running /\ events' = events
  <2>1. taskList' = taskList /\ running' = running /\ events' = events
    BY Zenon DEF CompleteRead
  <2>2. [conn[c] EXCEPT !.ready = @ \o OnReady(name, err), !.reading = "none"] = after
    BY <1>1 DEF ConnType, WithReady
  <2>3. conn' = [conn EXCEPT ![c] = [conn[c] EXCEPT !.ready = @ \o OnReady(name, err),
                                                    !.reading = "none"]]
    BY Zenon DEF IInv, TypeOK
  <2> QED
    BY <2>1, <2>2, <2>3, Zenon
<1>4. done \in ConnType
  BY <1>1 DEF ConnType
<1>5. /\ Keeps(q, t, {"reading"}) /\ t.reading = 0 /\ q.reading = 1
      /\ t.ready = conn[c].ready /\ t.socket = conn[c].socket /\ done.ready = conn[c].ready
      /\ done.socket = conn[c].socket
  <2>1. Keeps(q, t, {"reading"}) /\ t.ready = conn[c].ready /\ t.socket = conn[c].socket
        /\ done.ready = conn[c].ready /\ done.socket = conn[c].socket
    BY <1>1, SMT DEF Summary, ConnType, Keeps
  <2>2. done.reading = "none"
    BY <1>1 DEF ConnType
  <2>3. One(done.reading # "none") = 0 /\ One(conn[c].reading # "none") = 1
    BY <1>2, <2>2 DEF One
  <2> HIDE DEF done
  <2>4. t.reading = 0 /\ q.reading = 1
    BY <2>3 DEF Summary
  <2> QED
    BY <2>1, <2>4
<1>6. n = k /\ \A d \in Conns : Pending(taskList', running', events', d)
                                = Pending(taskList, running, events, d)
  BY <1>3, Zenon
<1>7. q.state # "NONE"
  <2>1. conn[c] # NewConnection
    BY <1>2 DEF NewConnection
  <2> QED
    BY <1>1, <2>1, Zenon DEF CountsAreKept, Unborn
<1> HIDE DEF done, name
<1>8. /\ Keeps(t, s, {"ready"})
      /\ s.ready = t.ready \o OnReady(name, err)
      /\ s.readers = t.readers + One(name \in ReadHandlers)
      /\ s.writers = t.writers + One(name \in {"onWrite"})
      /\ s.messages = t.messages + One(name \in {"onWrite", "~onWrite"})
      /\ s.stops = t.stops + One(name \in {"onStop"})
  <2>1. PICK h : h = name
    BY Zenon
  <2>2. h \in HandlerNames
    BY <1>2, <2>1, Zenon
  <2>3. LET b == Summary(WithReady(done, h, err)) IN
        /\ Keeps(t, b, {"ready"})
        /\ b.ready = t.ready \o OnReady(h, err)
        /\ b.readers = t.readers + One(h \in ReadHandlers)
        /\ b.writers = t.writers + One(h \in {"onWrite"})
        /\ b.messages = t.messages + One(h \in {"onWrite", "~onWrite"})
        /\ b.stops = t.stops + One(h \in {"onStop"})
    BY <1>2, <1>4, <2>2, SummaryOfReady, SMT
  <2> QED
    BY <2>1, <2>3, Zenon
<1>9. /\ One(name \in ReadHandlers) = 1 /\ One(name \in {"onWrite"}) = 0
      /\ One(name \in {"onWrite", "~onWrite"}) = 0 /\ One(name \in {"onStop"}) = 0
  BY <1>2 DEF One
<1>10. Numbers(t)
  BY <1>4, SummaryNumbers
<1>11. StopIsLast(t)
  BY <1>1, <1>5, SameOrder, Zenon
<1> HIDE DEF q, s, k, n, after
<1>12. /\ q.socket = "open" /\ q.stops = 0
  <2>1. q.socket # "open" => q.reading = 0
    BY <1>1, SMT DEF SocketIsCounted
  <2>2. q.socket = "open"
    BY <1>5, <2>1
  <2> QED
    BY <1>1, <2>2, SocketIdle, Zenon
<1>13. t.stops = 0 /\ t.socket # "deleted"
  <2> HIDE DEF t
  <2> QED
    BY <1>5, <1>12, SMT DEF Keeps
<1>14. StopIsLast(s)
  <2>1. s.socket = done.socket /\ s.ready = done.ready \o OnReady(name, err)
    <3> HIDE DEF t
    <3> QED
      BY <1>5, <1>8, SMT DEF Keeps
  <2> QED
    BY <1>2, <1>4, <1>11, <1>13, <2>1, JoinsQueue, Zenon DEF t
<1> HIDE DEF t
<1>15. /\ s.readers = t.readers + 1 /\ s.writers = t.writers /\ s.messages = t.messages
       /\ s.stops = t.stops
  <2>1. t.writers \in Int /\ t.messages \in Int /\ t.stops \in Int
    BY <1>10, Zenon DEF Numbers
  <2> QED
    BY <1>8, <1>9, <2>1
<1>16. /\ s.state = q.state /\ s.socket = q.socket /\ s.proto = q.proto
       /\ s.pendingRead = q.pendingRead /\ s.pendingWrite = q.pendingWrite
       /\ s.writing = q.writing /\ s.managed = q.managed
       /\ s.refCount = q.refCount /\ s.protoRefs = q.protoRefs /\ s.state # "NONE"
       /\ s.writers = q.writers /\ s.messages = q.messages /\ s.stops = q.stops
       /\ s.readers = q.readers + 1 /\ s.reading = 0
  BY <1>5, <1>7, <1>8, <1>15, SMT DEF Keeps
<1>17. MessagesAreCounted(s, n)
  BY <1>1, <1>6, <1>16, SMT DEF MessagesAreCounted
<1>18. LinksAreCounted(s, n)
  BY <1>1, <1>6, <1>16, SMT DEF LinksAreCounted
<1>19. SocketIsCounted(s)
  <2>1. s.reading + s.readers = q.reading + q.readers
    <3>1. q.readers \in Int
      BY <1>1, Zenon DEF Numbers
    <3> QED
      BY <1>5, <1>16, <3>1
  <2> QED
    BY <1>1, <1>12, <1>16, <2>1, SMT DEF SocketIsCounted
<1> QED
  BY <1>3, <1>6, <1>14, <1>16, <1>17, <1>18, <1>19, OneChanges, Zenon DEF s, n, Whole

\* A write of the kernel becomes a write handler, which holds the message.
LEMMA CompleteWriteCounts ==
    ASSUME IInv, CountsAreKept, NEW c \in Conns, CompleteWrite(c)
    PROVE  CountsAreKept'
<1> PICK err \in {"ok", "failed"} :
        conn' = [conn EXCEPT ![c].ready = @ \o OnReady("onWrite", err),
                             ![c].writing = FALSE]
  BY Zenon DEF CompleteWrite
<1> DEFINE done == [conn[c] EXCEPT !.writing = FALSE]
           after == WithReady(done, "onWrite", err)
           q == Summary(conn[c])
           t == Summary(done)
           s == Summary(after)
           k == Pending(taskList, running, events, c)
           n == Pending(taskList', running', events', c)
<1>1. /\ Numbers(q) /\ StopIsLast(q)
      /\ MessagesAreCounted(q, k) /\ LinksAreCounted(q, k) /\ SocketIsCounted(q)
      /\ q.state = conn[c].state /\ q.socket = conn[c].socket
      /\ q.ready = conn[c].ready /\ q.state \in States /\ conn[c] \in ConnType
  BY CountsBefore, Zenon
<1>2. "onWrite" \in HandlerNames /\ err \in Outcomes /\ conn[c].writing
  BY DEF CompleteWrite, HandlerNames, OwningHandlers, Outcomes
<1>3. /\ conn' = [conn EXCEPT ![c] = after]
      /\ taskList' = taskList /\ running' = running /\ events' = events
  <2>1. taskList' = taskList /\ running' = running /\ events' = events
    BY Zenon DEF CompleteWrite
  <2>2. [conn[c] EXCEPT !.ready = @ \o OnReady("onWrite", err), !.writing = FALSE] = after
    BY <1>1 DEF ConnType, WithReady
  <2>3. conn' = [conn EXCEPT ![c] = [conn[c] EXCEPT !.ready = @ \o OnReady("onWrite", err),
                                                    !.writing = FALSE]]
    BY Zenon DEF IInv, TypeOK
  <2> QED
    BY <2>1, <2>2, <2>3, Zenon
<1>4. done \in ConnType
  BY <1>1 DEF ConnType
<1>5. /\ Keeps(q, t, {"writing"}) /\ t.writing = 0 /\ q.writing = 1
      /\ t.ready = conn[c].ready /\ t.socket = conn[c].socket /\ done.ready = conn[c].ready
      /\ done.socket = conn[c].socket
  <2>1. Keeps(q, t, {"writing"}) /\ t.ready = conn[c].ready /\ t.socket = conn[c].socket
        /\ done.ready = conn[c].ready /\ done.socket = conn[c].socket
    BY <1>1, SMT DEF Summary, ConnType, Keeps
  <2>2. done.writing = FALSE
    BY <1>1 DEF ConnType
  <2>3. One(done.writing) = 0 /\ One(conn[c].writing) = 1
    BY <1>2, <2>2 DEF One
  <2> HIDE DEF done
  <2>4. t.writing = 0 /\ q.writing = 1
    BY <2>3 DEF Summary
  <2> QED
    BY <2>1, <2>4
<1>6. n = k /\ \A d \in Conns : Pending(taskList', running', events', d)
                                = Pending(taskList, running, events, d)
  BY <1>3, Zenon
<1>7. q.state # "NONE"
  <2>1. conn[c] # NewConnection
    BY <1>2 DEF NewConnection
  <2> QED
    BY <1>1, <2>1, Zenon DEF CountsAreKept, Unborn
<1> HIDE DEF done
<1>8. /\ Keeps(t, s, {"ready"})
      /\ s.ready = t.ready \o OnReady("onWrite", err)
      /\ s.readers = t.readers /\ s.writers = t.writers + 1
      /\ s.messages = t.messages + 1 /\ s.stops = t.stops
  <2>1. PICK h : h = "onWrite"
    BY Zenon
  <2>2. h \in HandlerNames
    BY <1>2, <2>1, Zenon
  <2> DEFINE b == Summary(WithReady(done, h, err))
  <2>3. /\ Keeps(t, b, {"ready"})
        /\ b.ready = t.ready \o OnReady(h, err)
        /\ b.readers = t.readers + One(h \in ReadHandlers)
        /\ b.writers = t.writers + One(h \in {"onWrite"})
        /\ b.messages = t.messages + One(h \in {"onWrite", "~onWrite"})
        /\ b.stops = t.stops + One(h \in {"onStop"})
    BY <1>2, <1>4, <2>2, SummaryOfReady, SMT
  <2>4. /\ One(h \in ReadHandlers) = 0 /\ One(h \in {"onWrite"}) = 1
        /\ One(h \in {"onWrite", "~onWrite"}) = 1 /\ One(h \in {"onStop"}) = 0
    BY <2>1 DEF One, ReadHandlers
  <2>5. Numbers(t)
    BY <1>4, SummaryNumbers
  <2>6. s = b
    BY <2>1, Zenon
  <2> HIDE DEF b, t, s
  <2>7. t.readers \in Int /\ t.stops \in Int
    BY <2>5, Zenon DEF Numbers
  <2>8. /\ b.readers = t.readers /\ b.writers = t.writers + 1
        /\ b.messages = t.messages + 1 /\ b.stops = t.stops
    BY <2>3, <2>4, <2>7
  <2> QED
    BY <2>1, <2>3, <2>6, <2>8, Zenon
<1>9. StopIsLast(t)
  BY <1>1, <1>5, SameOrder, Zenon
<1> HIDE DEF q, s, k, n, after
<1>10. /\ q.socket = "open" /\ q.stops = 0
  <2>1. q.socket # "open" => q.writing = 0
    BY <1>1, SMT DEF SocketIsCounted
  <2>2. q.socket = "open"
    BY <1>5, <2>1
  <2> QED
    BY <1>1, <2>2, SocketIdle, Zenon
<1>11. t.stops = 0 /\ t.socket # "deleted"
  <2> HIDE DEF t
  <2> QED
    BY <1>5, <1>10, SMT DEF Keeps
<1>12. StopIsLast(s)
  <2>1. s.socket = done.socket /\ s.ready = done.ready \o OnReady("onWrite", err)
    <3> HIDE DEF t
    <3> QED
      BY <1>5, <1>8, SMT DEF Keeps
  <2> QED
    BY <1>2, <1>4, <1>9, <1>11, <2>1, JoinsQueue, Zenon DEF t
<1> HIDE DEF t
<1>13. /\ s.state = q.state /\ s.socket = q.socket /\ s.proto = q.proto
       /\ s.pendingRead = q.pendingRead /\ s.pendingWrite = q.pendingWrite
       /\ s.reading = q.reading /\ s.managed = q.managed
       /\ s.refCount = q.refCount /\ s.protoRefs = q.protoRefs /\ s.state # "NONE"
       /\ s.readers = q.readers /\ s.stops = q.stops
       /\ s.writers = q.writers + 1 /\ s.messages = q.messages + 1 /\ s.writing = 0
  BY <1>5, <1>7, <1>8, SMT DEF Keeps
<1>14. /\ s.writing + s.messages = q.writing + q.messages
       /\ s.writing + s.writers = q.writing + q.writers
  <2>1. q.messages \in Int /\ q.writers \in Int
    BY <1>1, Zenon DEF Numbers
  <2> QED
    BY <1>5, <1>13, <2>1
<1>15. MessagesAreCounted(s, n)
  BY <1>1, <1>6, <1>14, <1>13, SMT DEF MessagesAreCounted
<1>16. LinksAreCounted(s, n)
  BY <1>1, <1>6, <1>13, SMT DEF LinksAreCounted
<1>17. SocketIsCounted(s)
  BY <1>1, <1>10, <1>14, <1>13, SMT DEF SocketIsCounted
<1> QED
  BY <1>3, <1>6, <1>12, <1>13, <1>15, <1>16, <1>17, OneChanges, Zenon DEF s, n, Whole

\* An expired timer queues a handler that is not counted.
LEMMA TimerCounts ==
    ASSUME IInv, CountsAreKept, NEW c \in Conns, NEW stopped \in ConnType,
           Keeps(Summary(conn[c]), Summary(stopped), {}), conn[c] # NewConnection,
           NEW name \in TimeoutHandlers,
           conn' = [conn EXCEPT ![c] = WithReady(stopped, name, "ok")],
           taskList' = taskList, running' = running, events' = events
    PROVE  CountsAreKept'
<1> DEFINE q == Summary(conn[c])
           t == Summary(stopped)
           after == WithReady(stopped, name, "ok")
           s == Summary(after)
<1>1. /\ StopIsLast(q) /\ q.state = conn[c].state
  BY CountsBefore, Zenon
<1>2. /\ name \in HandlerNames /\ "ok" \in Outcomes /\ name \notin ReadHandlers
      /\ name # "onWrite" /\ name # "~onWrite" /\ name # "onStop"
  BY DEF TimeoutHandlers, HandlerNames, OwningHandlers, Outcomes, ReadHandlers
<1>3. q.state # "NONE"
  BY <1>1, Zenon DEF CountsAreKept, Unborn
<1>4. /\ Keeps(t, s, {"ready"})
      /\ s.ready = t.ready \o OnReady(name, "ok")
      /\ s.readers = t.readers + One(name \in ReadHandlers)
      /\ s.writers = t.writers + One(name \in {"onWrite"})
      /\ s.messages = t.messages + One(name \in {"onWrite", "~onWrite"})
      /\ s.stops = t.stops + One(name \in {"onStop"})
  <2>1. PICK ok : ok = "ok"
    BY Zenon
  <2>2. ok \in Outcomes
    BY <1>2, <2>1, Zenon
  <2>3. LET b == Summary(WithReady(stopped, name, ok)) IN
        /\ Keeps(t, b, {"ready"})
        /\ b.ready = t.ready \o OnReady(name, ok)
        /\ b.readers = t.readers + One(name \in ReadHandlers)
        /\ b.writers = t.writers + One(name \in {"onWrite"})
        /\ b.messages = t.messages + One(name \in {"onWrite", "~onWrite"})
        /\ b.stops = t.stops + One(name \in {"onStop"})
    BY <1>2, <2>2, SummaryOfReady, SMT
  <2> QED
    BY <2>1, <2>3, Zenon
<1>5. /\ One(name \in ReadHandlers) = 0 /\ One(name \in {"onWrite"}) = 0
      /\ One(name \in {"onWrite", "~onWrite"}) = 0 /\ One(name \in {"onStop"}) = 0
  BY <1>2 DEF One
<1>6. Numbers(t)
  BY SummaryNumbers
<1>7. t.ready = stopped.ready /\ t.socket = stopped.socket
  BY DEF Summary
<1>8. t.ready = q.ready /\ t.socket = q.socket
  <2> HIDE DEF q, t
  <2> QED
    BY SMT DEF Keeps, q, t
<1>9. StopIsLast(t)
  BY <1>1, <1>8, SameOrder, Zenon
<1>10. s.socket = t.socket
  <2> HIDE DEF t, s
  <2> QED
    BY <1>4, SMT DEF Keeps
<1>11. StopIsLast(s)
  BY <1>2, <1>4, <1>7, <1>9, <1>10, JoinsQueue, Zenon
<1>12. Keeps(q, t, {})
  OBVIOUS
<1> HIDE DEF q, t, s, after
<1>13. /\ s.readers = t.readers /\ s.writers = t.writers
       /\ s.messages = t.messages /\ s.stops = t.stops
  <2>1. t.readers \in Int /\ t.writers \in Int /\ t.messages \in Int /\ t.stops \in Int
    BY <1>6, Zenon DEF Numbers
  <2> QED
    BY <1>4, <1>5, <2>1
<1>14. /\ Keeps(q, s, {"ready"})
       /\ s.readers = q.readers /\ s.writers = q.writers
       /\ s.messages = q.messages /\ s.stops = q.stops
  BY <1>4, <1>12, <1>13, SMT DEF Keeps
<1> QED
  BY <1>3, <1>11, <1>14, QuietStep, Zenon DEF q, s, after

\* The read timer expires.
LEMMA ExpireReadTimerCounts ==
    ASSUME IInv, CountsAreKept, NEW c \in Conns, ExpireReadTimer(c)
    PROVE  CountsAreKept'
<1> DEFINE stopped == [conn[c] EXCEPT !.readTimer = FALSE]
<1>1. conn[c] \in ConnType /\ conn[c].readTimer
  BY ConnTyped DEF ExpireReadTimer
<1>2. stopped \in ConnType /\ Keeps(Summary(conn[c]), Summary(stopped), {})
  BY <1>1, SummaryOfFlags DEF ConnType
<1>3. conn[c] # NewConnection
  BY <1>1 DEF NewConnection
<1>4. [conn[c] EXCEPT !.readTimer = FALSE, !.ready = @ \o OnReady("handleReadTimeout", "ok")]
        = WithReady(stopped, "handleReadTimeout", "ok")
  BY <1>1 DEF ConnType, WithReady
<1>5. /\ conn' = [conn EXCEPT ![c] = [conn[c] EXCEPT !.readTimer = FALSE,
                                        !.ready = @ \o OnReady("handleReadTimeout", "ok")]]
      /\ taskList' = taskList /\ running' = running /\ events' = events
  BY Zenon DEF ExpireReadTimer, IInv, TypeOK
<1>6. "handleReadTimeout" \in TimeoutHandlers
  BY DEF TimeoutHandlers
<1> HIDE DEF stopped
<1> QED
  BY <1>2, <1>3, <1>4, <1>5, <1>6, TimerCounts, Zenon

\* The write timer expires.
LEMMA ExpireWriteTimerCounts ==
    ASSUME IInv, CountsAreKept, NEW c \in Conns, ExpireWriteTimer(c)
    PROVE  CountsAreKept'
<1> DEFINE stopped == [conn[c] EXCEPT !.writeTimer = FALSE]
<1>1. conn[c] \in ConnType /\ conn[c].writeTimer
  BY ConnTyped DEF ExpireWriteTimer
<1>2. stopped \in ConnType /\ Keeps(Summary(conn[c]), Summary(stopped), {})
  BY <1>1, SummaryOfFlags DEF ConnType
<1>3. conn[c] # NewConnection
  BY <1>1 DEF NewConnection
<1>4. [conn[c] EXCEPT !.writeTimer = FALSE, !.ready = @ \o OnReady("handleWriteTimeout", "ok")]
        = WithReady(stopped, "handleWriteTimeout", "ok")
  BY <1>1 DEF ConnType, WithReady
<1>5. /\ conn' = [conn EXCEPT ![c] = [conn[c] EXCEPT !.writeTimer = FALSE,
                                        !.ready = @ \o OnReady("handleWriteTimeout", "ok")]]
      /\ taskList' = taskList /\ running' = running /\ events' = events
  BY Zenon DEF ExpireWriteTimer, IInv, TypeOK
<1>6. "handleWriteTimeout" \in TimeoutHandlers
  BY DEF TimeoutHandlers
<1> HIDE DEF stopped
<1> QED
  BY <1>2, <1>3, <1>4, <1>5, <1>6, TimerCounts, Zenon

-----------------------------------------------------------------------------
(* The dispatcher.                                                            *)

RetriesOf(c) == {TaskOf("releaseConnection", c), TaskOf("releaseProtocol", c)}

\* The list without the task that was taken.
LEMMA ListTaken ==
    ASSUME IInv, NEW c \in Conns, NEW u, Takes(u, c), NEW t
    PROVE  LET rest == Tail(taskList) IN
           /\ t = u => Tasks(taskList, t, c) = Tasks(rest, t, c) + 1
           /\ t # u => Tasks(taskList, t, c) = Tasks(rest, t, c)
           /\ \A d : d # c => Tasks(taskList, t, d) = Tasks(rest, t, d)
           /\ \A d : Tasks(rest, t, d) \in Nat
<1>1. /\ taskList \in Seq(Task) /\ taskList # <<>> /\ Head(taskList) = TaskOf(u, c)
  BY Zenon DEF IInv, TypeOK, Takes, TaskOf
<1>2. PICK list \in Seq(Task) : list = taskList
  BY <1>1, Zenon
<1> DEFINE rest == Tail(list)
<1>3. ASSUME NEW d
      PROVE  /\ Tasks(list, t, d) = Tasks(rest, t, d) + (IF u = t /\ c = d THEN 1 ELSE 0)
             /\ Tasks(rest, t, d) \in Nat
  BY <1>1, <1>2, TasksTaken
<1> HIDE DEF rest
<1>4. /\ t = u => Tasks(list, t, c) = Tasks(rest, t, c) + 1
      /\ t # u => Tasks(list, t, c) = Tasks(rest, t, c)
      /\ \A d : d # c => Tasks(list, t, d) = Tasks(rest, t, d)
  BY <1>3, SMT
<1> QED
  BY <1>2, <1>3, <1>4, Zenon DEF rest

\* A task of connection c is taken and may leave retries for it.
LEMMA PendingOfTask ==
    ASSUME IInv, NEW c \in Conns, NEW u, Takes(u, c), taskList' = Tail(taskList),
           NEW again, again \subseteq RetriesOf(c), events' = events \cup again,
           running' = running \/ running' = [pc |-> "send", c |-> c]
    PROVE  LET k == Pending(taskList, running, events, c)
               n == Pending(taskList', running', events', c)
               retried == TaskOf("releaseConnection", c) \in again
           IN  /\ u = "closeConnection" => n.close + 1 = k.close
               /\ u # "closeConnection" => n.close = k.close
               /\ u = "delegate" => n.delegate + 1 = k.delegate
               /\ u # "delegate" => n.delegate = k.delegate
               /\ running' = running =>
                    /\ u = "internalReleaseMessage" => n.message + 1 = k.message
                    /\ u # "internalReleaseMessage" => n.message = k.message
               /\ running' # running /\ u = "delegate" => n.message = k.message + 1
               /\ ~retried => /\ u = "releaseConnection" => n.release + 1 = k.release
                              /\ u # "releaseConnection" => n.release = k.release
               /\ retried /\ u = "releaseConnection" /\ k.release <= 1 => n.release = 1
               /\ retried /\ u # "releaseConnection" /\ k.release = 0 => n.release = 1
               /\ n.close \in Nat /\ n.delegate \in Nat /\ n.message \in Nat /\ n.release \in Nat
               /\ \A d \in Conns : d # c => Pending(taskList', running', events', d)
                                             = Pending(taskList, running, events, d)
<1> DEFINE k == Pending(taskList, running, events, c)
           n == Pending(taskList', running', events', c)
           retry == TaskOf("releaseConnection", c)
           old == taskList
           rest == taskList'
<1>1. ASSUME NEW t
      PROVE  /\ t = u => Tasks(old, t, c) = Tasks(rest, t, c) + 1
             /\ t # u => Tasks(old, t, c) = Tasks(rest, t, c)
             /\ \A d : d # c => Tasks(old, t, d) = Tasks(rest, t, d)
             /\ \A d : Tasks(rest, t, d) \in Nat
  <2> DEFINE tail == Tail(taskList)
  <2>1. /\ t = u => Tasks(old, t, c) = Tasks(tail, t, c) + 1
        /\ t # u => Tasks(old, t, c) = Tasks(tail, t, c)
        /\ \A d : d # c => Tasks(old, t, d) = Tasks(tail, t, d)
        /\ \A d : Tasks(tail, t, d) \in Nat
    BY ListTaken
  <2>2. rest = tail
    OBVIOUS
  <2> HIDE DEF tail, rest
  <2> QED
    BY <2>1, <2>2, Zenon
<1>2. running = Idle
  BY Zenon DEF Takes
<1>3. \A d : running # [pc |-> "send", c |-> d]
  BY <1>2 DEF Idle
<1>4. \A d : d # c => running' # [pc |-> "send", c |-> d]
  BY <1>3
<1>5. \A d : d # c => (TaskOf("releaseConnection", d) \in events'
                       <=> TaskOf("releaseConnection", d) \in events)
  <2>1. \A d : d # c => TaskOf("releaseConnection", d) \notin RetriesOf(c)
    BY DEF RetriesOf, TaskOf
  <2> QED
    BY <2>1, Zenon
<1>6. ASSUME NEW d \in Conns, d # c
      PROVE  Pending(taskList', running', events', d) = Pending(taskList, running, events, d)
  <2>1. \A t : Tasks(old, t, d) = Tasks(rest, t, d)
    BY <1>1, <1>6, Zenon
  <2>2. One(running' = [pc |-> "send", c |-> d]) = 0 /\ One(running = [pc |-> "send", c |-> d]) = 0
    BY <1>3, <1>4, <1>6 DEF One
  <2>3. One([t |-> "releaseConnection", c |-> d] \in events')
          = One([t |-> "releaseConnection", c |-> d] \in events)
    BY <1>5, <1>6, Zenon DEF One, TaskOf
  <2> QED
    BY <2>1, <2>2, <2>3, Zenon DEF Pending
<1>7. /\ k.close = Tasks(old, "closeConnection", c) /\ n.close = Tasks(rest, "closeConnection", c)
      /\ k.delegate = Tasks(old, "delegate", c) /\ n.delegate = Tasks(rest, "delegate", c)
  BY DEF Pending
<1>8. /\ k.message = Tasks(old, "internalReleaseMessage", c)
      /\ running' = running => n.message = Tasks(rest, "internalReleaseMessage", c)
      /\ running' # running => n.message = Tasks(rest, "internalReleaseMessage", c) + 1
  <2>1. /\ One(running = [pc |-> "send", c |-> c]) = 0
        /\ running' = running => One(running' = [pc |-> "send", c |-> c]) = 0
        /\ running' # running => One(running' = [pc |-> "send", c |-> c]) = 1
    BY <1>3 DEF One
  <2>2. /\ k.message = Tasks(old, "internalReleaseMessage", c) + One(running = [pc |-> "send", c |-> c])
        /\ n.message = Tasks(rest, "internalReleaseMessage", c) + One(running' = [pc |-> "send", c |-> c])
    BY DEF Pending
  <2>3. Tasks(old, "internalReleaseMessage", c) \in Nat
        /\ Tasks(rest, "internalReleaseMessage", c) \in Nat
    BY <1>1, TasksTyped, Zenon DEF IInv, TypeOK
  <2> HIDE DEF k, n, old, rest
  <2> QED
    BY <2>1, <2>2, <2>3
<1>9. /\ k.release = Tasks(old, "releaseConnection", c) + One(retry \in events)
      /\ n.release = Tasks(rest, "releaseConnection", c) + One(retry \in events')
      /\ One(retry \in events) \in {0, 1}
      /\ retry \notin again => One(retry \in events') = One(retry \in events)
      /\ retry \in again => One(retry \in events') = 1
  <2>1. /\ k.release = Tasks(old, "releaseConnection", c) + One(retry \in events)
        /\ n.release = Tasks(rest, "releaseConnection", c) + One(retry \in events')
    BY DEF Pending, TaskOf
  <2>2. /\ retry \notin again => (retry \in events' <=> retry \in events)
        /\ retry \in again => retry \in events'
    BY Zenon
  <2> HIDE DEF retry, k, n, old, rest
  <2>3. One(retry \in events) \in {0, 1}
    BY DEF One
  <2>4. ASSUME retry \notin again PROVE One(retry \in events') = One(retry \in events)
    BY <2>2, <2>4, Zenon DEF One
  <2>5. ASSUME retry \in again PROVE One(retry \in events') = 1
    BY <2>2, <2>5, Zenon DEF One
  <2> QED
    BY <2>1, <2>3, <2>4, <2>5, Zenon
<1> HIDE DEF k, n, old, rest, retry
<1>10. /\ u = "closeConnection" => n.close + 1 = k.close
       /\ u # "closeConnection" => n.close = k.close
       /\ u = "delegate" => n.delegate + 1 = k.delegate
       /\ u # "delegate" => n.delegate = k.delegate
       /\ n.close \in Nat /\ n.delegate \in Nat
  BY <1>1, <1>7, SMT
<1>11. /\ running' = running =>
            /\ u = "internalReleaseMessage" => n.message + 1 = k.message
            /\ u # "internalReleaseMessage" => n.message = k.message
       /\ running' # running /\ u = "delegate" => n.message = k.message + 1
       /\ n.message \in Nat
  BY <1>1, <1>8, SMT
<1>12. PICK a, b : a = One(retry \in events) /\ b = One(retry \in events')
  BY Zenon
<1>13. /\ k.release = Tasks(old, "releaseConnection", c) + a
       /\ n.release = Tasks(rest, "releaseConnection", c) + b
       /\ a \in {0, 1} /\ (retry \notin again => b = a) /\ (retry \in again => b = 1)
  BY <1>9, <1>12, Zenon
<1>14. /\ retry \notin again => /\ u = "releaseConnection" => n.release + 1 = k.release
                                /\ u # "releaseConnection" => n.release = k.release
       /\ retry \in again /\ u = "releaseConnection" /\ k.release <= 1 => n.release = 1
       /\ retry \in again /\ u # "releaseConnection" /\ k.release = 0 => n.release = 1
       /\ n.release \in Nat
  <2>1. /\ Tasks(rest, "releaseConnection", c) \in Nat
        /\ u = "releaseConnection" =>
             Tasks(old, "releaseConnection", c) = Tasks(rest, "releaseConnection", c) + 1
        /\ u # "releaseConnection" =>
             Tasks(old, "releaseConnection", c) = Tasks(rest, "releaseConnection", c)
    BY <1>1
  <2> QED
    BY <1>13, <2>1
<1> QED
  BY <1>6, <1>10, <1>11, <1>14, Zenon DEF k, n, retry

\* delegate is about to send its message; it makes its next call.
Sending(c) == running = [pc |-> "send", c |-> c]
DelegateGoesOn(c) ==
    /\ running = [pc |-> "send", c |-> c] \/ running = [pc |-> "close", c |-> c]
    /\ running' = [pc |-> "close", c |-> c] \/ running' = Idle

\* The later steps of delegate add to the list like a handler.
LEMMA PendingOfDelegate ==
    ASSUME IInv, NEW c \in Conns, NEW f, NEW b,
           f = <<>> \/ f = ReleaseMessage(c),
           b = <<>> \/ b = <<CloseTaskOf(c)>>,
           taskList' = (f \o taskList) \o b, events' = events,
           DelegateGoesOn(c)
    PROVE  LET k == Pending(taskList, running, events, c)
               n == Pending(taskList', running', events', c)
           IN  /\ n.close = k.close + (IF b = <<CloseTaskOf(c)>> THEN 1 ELSE 0)
               /\ n.delegate = k.delegate
               /\ Sending(c) =>
                    n.message + 1 = k.message + (IF f = ReleaseMessage(c) THEN 1 ELSE 0)
               /\ ~Sending(c) =>
                    n.message = k.message + (IF f = ReleaseMessage(c) THEN 1 ELSE 0)
               /\ n.release = k.release
               /\ n.close \in Nat /\ n.message \in Nat
               /\ \A d \in Conns : d # c => Pending(taskList', running', events', d)
                                             = Pending(taskList, running, events, d)
<1>1. PICK list \in Seq(Task) : list = taskList
  BY Zenon DEF IInv, TypeOK
<1>2. PICK after : after = (f \o list) \o b
  OBVIOUS
<1>3. taskList' = after
  BY <1>1, <1>2
<1>4. ASSUME NEW d \in Conns
      PROVE  /\ Tasks(after, "closeConnection", d)
                  = Tasks(list, "closeConnection", d)
                    + (IF b = <<CloseTaskOf(c)>> /\ d = c THEN 1 ELSE 0)
             /\ Tasks(after, "delegate", d)
                  = Tasks(list, "delegate", d)
                    + (IF b = <<DelegateTaskOf(c)>> /\ d = c THEN 1 ELSE 0)
             /\ Tasks(after, "internalReleaseMessage", d)
                  = Tasks(list, "internalReleaseMessage", d)
                    + (IF f = ReleaseMessage(c) /\ d = c THEN 1 ELSE 0)
             /\ Tasks(after, "releaseConnection", d) = Tasks(list, "releaseConnection", d)
  BY <1>2, TasksOfHandler
<1>5. \A t, d : Tasks(list, t, d) \in Nat
  BY TasksTyped
<1>6. /\ \A d : d # c => running # [pc |-> "send", c |-> d]
      /\ \A d : running' # [pc |-> "send", c |-> d]
  BY DEF Idle, DelegateGoesOn
<1>7. b # <<DelegateTaskOf(c)>>
  <2>1. <<>> # <<DelegateTaskOf(c)>> /\ <<CloseTaskOf(c)>> # <<DelegateTaskOf(c)>>
    BY DEF CloseTaskOf, DelegateTaskOf
  <2> QED
    BY <2>1, Zenon
<1> DEFINE k == Pending(list, running, events, c)
           n == Pending(after, running', events, c)
<1>8. /\ One(running' = [pc |-> "send", c |-> c]) = 0
      /\ running = [pc |-> "send", c |-> c] => One(running = [pc |-> "send", c |-> c]) = 1
      /\ running # [pc |-> "send", c |-> c] => One(running = [pc |-> "send", c |-> c]) = 0
  BY <1>6 DEF One
<1>9. /\ k.close = Tasks(list, "closeConnection", c) /\ n.close = Tasks(after, "closeConnection", c)
      /\ k.delegate = Tasks(list, "delegate", c) /\ n.delegate = Tasks(after, "delegate", c)
      /\ k.message = Tasks(list, "internalReleaseMessage", c) + One(running = [pc |-> "send", c |-> c])
      /\ n.message = Tasks(after, "internalReleaseMessage", c) + One(running' = [pc |-> "send", c |-> c])
      /\ k.release = Tasks(list, "releaseConnection", c)
                     + One([t |-> "releaseConnection", c |-> c] \in events)
      /\ n.release = Tasks(after, "releaseConnection", c)
                     + One([t |-> "releaseConnection", c |-> c] \in events)
  BY DEF Pending
<1>10. ASSUME NEW d \in Conns, d # c
       PROVE  Pending(after, running', events, d) = Pending(list, running, events, d)
  <2>1. /\ Tasks(after, "closeConnection", d) = Tasks(list, "closeConnection", d)
        /\ Tasks(after, "delegate", d) = Tasks(list, "delegate", d)
        /\ Tasks(after, "internalReleaseMessage", d) = Tasks(list, "internalReleaseMessage", d)
        /\ Tasks(after, "releaseConnection", d) = Tasks(list, "releaseConnection", d)
    BY <1>4, <1>5, <1>10
  <2>2. One(running' = [pc |-> "send", c |-> d]) = 0 /\ One(running = [pc |-> "send", c |-> d]) = 0
    BY <1>6, <1>10 DEF One
  <2> QED
    BY <2>1, <2>2, Zenon DEF Pending
<1> HIDE DEF k, n
<1>11. n.close = k.close + (IF b = <<CloseTaskOf(c)>> THEN 1 ELSE 0) /\ n.close \in Nat
  BY <1>4, <1>5, <1>9
<1>12. n.delegate = k.delegate
  BY <1>4, <1>5, <1>7, <1>9
<1>13. n.release = k.release
  BY <1>4, <1>9, Zenon
<1>14. /\ running = [pc |-> "send", c |-> c] =>
            n.message + 1 = k.message + (IF f = ReleaseMessage(c) THEN 1 ELSE 0)
       /\ running # [pc |-> "send", c |-> c] =>
            n.message = k.message + (IF f = ReleaseMessage(c) THEN 1 ELSE 0)
       /\ n.message \in Nat
  <2>1. PICK a, x, y : a = One(running = [pc |-> "send", c |-> c])
          /\ x = Tasks(list, "internalReleaseMessage", c)
          /\ y = Tasks(after, "internalReleaseMessage", c)
    BY Zenon
  <2>2. /\ k.message = x + a /\ n.message = y + 0 /\ x \in Nat
        /\ running = [pc |-> "send", c |-> c] => a = 1
        /\ running # [pc |-> "send", c |-> c] => a = 0
    BY <1>5, <1>8, <1>9, <2>1, Zenon
  <2>3. y = x + (IF f = ReleaseMessage(c) THEN 1 ELSE 0)
    BY <1>4, <2>1, Zenon
  <2> QED
    BY <2>2, <2>3
<1> QED
  BY <1>1, <1>3, <1>10, <1>11, <1>12, <1>13, <1>14, Zenon DEF k, n, Sending

\* The message returns to the pool and drops both of its references.
LEMMA InternalReleaseMessageCounts ==
    ASSUME IInv, CountsAreKept, NEW c \in Conns, InternalReleaseMessage(c)
    PROVE  CountsAreKept'
<1> DEFINE after == [conn[c] EXCEPT !.protoRefs = @ - 1, !.refCount = @ - 1]
           q == Summary(conn[c])
           s == Summary(after)
           k == Pending(taskList, running, events, c)
           n == Pending(taskList', running', events', c)
<1>1. /\ Takes("internalReleaseMessage", c) /\ taskList' = Tail(taskList)
      /\ conn' = [conn EXCEPT ![c] = after]
      /\ running' = running /\ events' = events
  BY Zenon DEF InternalReleaseMessage, IInv, TypeOK
<1>2. /\ Numbers(q) /\ Amounts(k) /\ StopIsLast(q)
      /\ MessagesAreCounted(q, k) /\ LinksAreCounted(q, k) /\ SocketIsCounted(q)
      /\ q.state = conn[c].state /\ conn[c] \in ConnType
  BY CountsBefore, Zenon
<1>3. /\ n.message + 1 = k.message /\ n.close = k.close /\ n.delegate = k.delegate
      /\ n.release = k.release /\ n.message \in Nat
      /\ \A d \in Conns : d # c => Pending(taskList', running', events', d)
                                    = Pending(taskList, running, events, d)
  <2>1. PICK again : again = {}
    OBVIOUS
  <2>2. events' = events \cup again /\ again \subseteq RetriesOf(c)
        /\ TaskOf("releaseConnection", c) \notin again
    BY <1>1, <2>1, Zenon
  <2>3. PICK u : u = "internalReleaseMessage"
    OBVIOUS
  <2>4. u # "closeConnection" /\ u # "delegate" /\ u # "releaseConnection" /\ Takes(u, c)
    BY <1>1, <2>3
  <2> QED
    BY <1>1, <2>2, <2>4, <2>3, PendingOfTask, Zenon
<1>4. /\ Keeps(q, s, {"refCount", "protoRefs"})
      /\ s.refCount = q.refCount - 1 /\ s.protoRefs = q.protoRefs - 1
  BY <1>2, SMT DEF Summary, ConnType, Keeps
<1>5. q.refCount = conn[c].refCount
  BY DEF Summary
<1> HIDE DEF q, s, k, n, after
<1>6. /\ q.refCount = q.writing + q.messages + k.message /\ q.protoRefs = q.refCount
      /\ q.refCount + k.delegate <= 1
  BY <1>2, SMT DEF MessagesAreCounted
<1>7. /\ q.refCount = 1 /\ k.delegate = 0 /\ k.message = 1 /\ q.writing = 0 /\ q.messages = 0
  BY <1>2, <1>3, <1>6, SMT DEF Numbers, Amounts
<1>8. q.state # "NONE"
  <2>1. conn[c] # NewConnection
    <3>1. NewConnection.refCount = 0
      BY DEF NewConnection
    <3>2. conn[c].refCount = 1
      BY <1>5, <1>7, Zenon
    <3> QED
      BY <3>1, <3>2, SMT
  <2> QED
    BY <1>2, <2>1, Zenon DEF CountsAreKept, Unborn
<1>9. /\ s.state = q.state /\ s.socket = q.socket /\ s.proto = q.proto /\ s.ready = q.ready
      /\ s.pendingRead = q.pendingRead /\ s.pendingWrite = q.pendingWrite
      /\ s.reading = q.reading /\ s.writing = q.writing /\ s.managed = q.managed
      /\ s.readers = q.readers /\ s.writers = q.writers /\ s.messages = q.messages
      /\ s.stops = q.stops /\ s.state # "NONE"
  BY <1>4, <1>8, SMT DEF Keeps
<1>10. s.refCount = 0 /\ s.protoRefs = 0 /\ n.message = 0 /\ n.delegate = 0
  BY <1>3, <1>4, <1>6, <1>7
<1>11. MessagesAreCounted(s, n)
  BY <1>7, <1>9, <1>10, SMT DEF MessagesAreCounted
<1>12. LinksAreCounted(s, n)
  BY <1>2, <1>3, <1>9, SMT DEF LinksAreCounted
<1>13. SocketIsCounted(s)
  BY <1>2, <1>9, SMT DEF SocketIsCounted
<1>14. StopIsLast(s)
  BY <1>2, <1>9, SameOrder, Zenon
<1> QED
  BY <1>1, <1>3, <1>9, <1>11, <1>12, <1>13, <1>14, OneChanges, Zenon DEF s, n, Whole

\* A retry of the protocol's release deletes the protocol when its last message is gone.
LEMMA RetryReleaseProtocolCounts ==
    ASSUME IInv, CountsAreKept, NEW c \in Conns, RetryReleaseProtocol(c)
    PROVE  CountsAreKept'
<1> DEFINE after == [conn[c] EXCEPT !.proto = ReleaseProtocol(conn[c])]
           again == ProtocolRetry(c, conn[c])
           q == Summary(conn[c])
           s == Summary(after)
           k == Pending(taskList, running, events, c)
           n == Pending(taskList', running', events', c)
<1>1. /\ Takes("releaseProtocol", c) /\ taskList' = Tail(taskList)
      /\ conn' = [conn EXCEPT ![c] = after]
      /\ running' = running /\ events' = events \cup again
  BY Zenon DEF RetryReleaseProtocol, IInv, TypeOK
<1>2. /\ StopIsLast(q)
      /\ MessagesAreCounted(q, k) /\ LinksAreCounted(q, k) /\ SocketIsCounted(q)
      /\ q.state = conn[c].state /\ q.proto = conn[c].proto /\ conn[c] \in ConnType
  BY CountsBefore, Zenon
<1>3. q.proto = "detached" \/ q.proto = "deleted"
  <2>1. Queued("releaseProtocol", c)
    <3>1. taskList \in Seq(Task) /\ taskList # <<>> /\ Head(taskList) = [t |-> "releaseProtocol", c |-> c]
      BY <1>1, Zenon DEF IInv, TypeOK, Takes
    <3>2. 1 \in DOMAIN taskList /\ taskList[1] = [t |-> "releaseProtocol", c |-> c]
      BY <3>1
    <3> QED
      BY <3>2, Zenon DEF Queued, Positions
  <2> QED
    BY <1>2, <2>1, Zenon DEF IInv, RetriesAreDetached
<1>4. again \subseteq RetriesOf(c) /\ TaskOf("releaseConnection", c) \notin again
  <2>1. TaskOf("releaseConnection", c) # TaskOf("releaseProtocol", c)
    BY DEF TaskOf
  <2>2. again = {} \/ again = {TaskOf("releaseProtocol", c)}
    BY Zenon DEF ProtocolRetry, TaskOf
  <2> QED
    BY <2>1, <2>2, Zenon DEF RetriesOf
<1> HIDE DEF again
<1>5. /\ n.message = k.message /\ n.close = k.close /\ n.delegate = k.delegate
      /\ n.release = k.release
      /\ \A d \in Conns : d # c => Pending(taskList', running', events', d)
                                    = Pending(taskList, running, events, d)
  <2>1. PICK u : u = "releaseProtocol"
    OBVIOUS
  <2>2. u # "closeConnection" /\ u # "delegate" /\ u # "releaseConnection" /\ Takes(u, c)
        /\ u # "internalReleaseMessage"
    BY <1>1, <2>1
  <2> QED
    BY <1>1, <1>4, <2>2, PendingOfTask, Zenon
<1>6. /\ Keeps(q, s, {"proto"}) /\ s.proto = ReleaseProtocol(conn[c])
      /\ q.protoRefs = conn[c].protoRefs
  BY <1>2, SMT DEF Summary, ConnType, Keeps
<1>7. s.proto = IF q.protoRefs > 0 THEN "detached" ELSE "deleted"
  BY <1>6, Zenon DEF ReleaseProtocol
<1>8. q.state # "NONE"
  <2>1. conn[c] # NewConnection
    <3>1. NewConnection.proto = "none"
      BY DEF NewConnection
    <3> QED
      BY <1>2, <1>3, <3>1, Zenon
  <2> QED
    BY <1>2, <2>1, Zenon DEF CountsAreKept, Unborn
<1>9. Numbers(q) /\ Amounts(k)
  BY CountsBefore, Zenon
<1> HIDE DEF q, s, k, n, after
<1>10. /\ s.state = q.state /\ s.socket = q.socket /\ s.ready = q.ready
       /\ s.pendingRead = q.pendingRead /\ s.pendingWrite = q.pendingWrite
       /\ s.refCount = q.refCount /\ s.protoRefs = q.protoRefs
       /\ s.reading = q.reading /\ s.writing = q.writing /\ s.managed = q.managed
       /\ s.readers = q.readers /\ s.writers = q.writers /\ s.messages = q.messages
       /\ s.stops = q.stops /\ s.state # "NONE"
  BY <1>6, <1>8, SMT DEF Keeps
<1>11. s.proto = "deleted" => s.refCount = 0
  <2>1. ASSUME s.proto = "deleted" PROVE q.refCount = 0
    <3>1. ~(q.protoRefs > 0)
      BY <1>7, <2>1
    <3> QED
      BY <1>2, <1>9, <3>1, SMT DEF MessagesAreCounted, Numbers, Amounts
  <2> QED
    BY <1>10, <2>1, Zenon
<1>12. s.proto # "none" /\ s.proto # "attached"
  BY <1>7
<1>13. MessagesAreCounted(s, n)
  BY <1>2, <1>5, <1>10, <1>11, <1>12, SMT DEF MessagesAreCounted
<1>14. LinksAreCounted(s, n)
  BY <1>2, <1>5, <1>10, <1>12, SMT DEF LinksAreCounted
<1>15. SocketIsCounted(s)
  BY <1>2, <1>10, SMT DEF SocketIsCounted
<1>16. StopIsLast(s)
  BY <1>2, <1>10, SameOrder, Zenon
<1> QED
  BY <1>1, <1>5, <1>10, <1>13, <1>14, <1>15, <1>16, OneChanges, Zenon DEF s, n, Whole

\* delegate takes its message; it had none, and its protocol is attached.
LEMMA DelegateAnswerCounts ==
    ASSUME IInv, CountsAreKept, NEW c \in Conns, DelegateAnswer(c)
    PROVE  CountsAreKept'
<1> DEFINE after == GetOutputMessage(conn[c])
           q == Summary(conn[c])
           s == Summary(after)
           k == Pending(taskList, running, events, c)
           n == Pending(taskList', running', events', c)
<1>1. /\ Takes("delegate", c) /\ taskList' = Tail(taskList)
      /\ conn' = [conn EXCEPT ![c] = after]
      /\ running' = [pc |-> "send", c |-> c] /\ events' = events
  BY Zenon DEF DelegateAnswer
<1>2. /\ Numbers(q) /\ Amounts(k) /\ StopIsLast(q) /\ q.state \in States
      /\ MessagesAreCounted(q, k) /\ LinksAreCounted(q, k) /\ SocketIsCounted(q)
      /\ q.state = conn[c].state /\ q.proto = conn[c].proto /\ conn[c] \in ConnType
  BY CountsBefore, Zenon
<1>3. q.proto = "attached"
  <2>1. Queued("delegate", c)
    <3>1. taskList \in Seq(Task) /\ taskList # <<>> /\ Head(taskList) = [t |-> "delegate", c |-> c]
      BY <1>1, Zenon DEF IInv, TypeOK, Takes
    <3>2. 1 \in DOMAIN taskList /\ taskList[1] = [t |-> "delegate", c |-> c]
      BY <3>1
    <3> QED
      BY <3>2, Zenon DEF Queued, Positions
  <2> QED
    BY <1>2, <2>1, Zenon DEF IInv, DelegateHasConnection
<1>4. /\ n.message = k.message + 1 /\ n.close = k.close /\ n.delegate + 1 = k.delegate
      /\ n.release = k.release /\ n.delegate \in Nat
      /\ \A d \in Conns : d # c => Pending(taskList', running', events', d)
                                    = Pending(taskList, running, events, d)
  <2>1. PICK again : again = {}
    OBVIOUS
  <2>2. events' = events \cup again /\ again \subseteq RetriesOf(c)
        /\ TaskOf("releaseConnection", c) \notin again
    BY <1>1, <2>1, Zenon
  <2>3. PICK u : u = "delegate"
    OBVIOUS
  <2>4. u # "closeConnection" /\ u # "releaseConnection" /\ Takes(u, c)
    BY <1>1, <2>3
  <2>5. running' # running
    <3>1. running = Idle
      BY <1>1, Zenon DEF Takes
    <3> QED
      BY <1>1, <3>1 DEF Idle
  <2> QED
    BY <1>1, <2>2, <2>4, <2>5, <2>3, PendingOfTask, Zenon
<1>5. /\ Keeps(q, s, {"refCount", "protoRefs"})
      /\ s.refCount = q.refCount + 1 /\ s.protoRefs = q.protoRefs + 1
  BY <1>2, SummaryOfMessage
<1>6. q.state # "NONE"
  <2>1. conn[c] # NewConnection
    <3>1. NewConnection.proto = "none"
      BY DEF NewConnection
    <3> QED
      BY <1>2, <1>3, <3>1, Zenon
  <2> QED
    BY <1>2, <2>1, Zenon DEF CountsAreKept, Unborn
<1> HIDE DEF q, s, k, n, after
<1>7. /\ q.refCount = q.writing + q.messages + k.message /\ q.protoRefs = q.refCount
      /\ q.refCount + k.delegate <= 1
  BY <1>2, SMT DEF MessagesAreCounted
<1>8. /\ q.refCount = 0 /\ n.delegate = 0 /\ k.message = 0 /\ q.writing = 0 /\ q.messages = 0
  <2>1. /\ q.writing \in Int /\ q.writing >= 0 /\ q.messages \in Int /\ q.messages >= 0
        /\ k.message \in Int /\ k.message >= 0 /\ n.delegate \in Int /\ n.delegate >= 0
    BY <1>2, <1>4 DEF Numbers, Amounts
  <2>2. q.refCount + (n.delegate + 1) <= 1 /\ q.refCount = q.writing + q.messages + k.message
    BY <1>4, <1>7
  <2>3. q.writing + q.messages + k.message + n.delegate <= 0
    BY <2>1, <2>2, SMT
  <2>4. n.delegate = 0 /\ k.message = 0 /\ q.writing = 0 /\ q.messages = 0
    BY <2>1, <2>3, SMT
  <2> QED
    BY <2>2, <2>4, SMT
<1>9. /\ s.state = q.state /\ s.socket = q.socket /\ s.proto = q.proto /\ s.ready = q.ready
      /\ s.pendingRead = q.pendingRead /\ s.pendingWrite = q.pendingWrite
      /\ s.reading = q.reading /\ s.writing = q.writing /\ s.managed = q.managed
      /\ s.readers = q.readers /\ s.writers = q.writers /\ s.messages = q.messages
      /\ s.stops = q.stops /\ s.state # "NONE"
  BY <1>5, <1>6, SMT DEF Keeps
<1>10. s.refCount = 1 /\ s.protoRefs = 1 /\ n.message = 1
  BY <1>4, <1>5, <1>7, <1>8
<1>11. q.stops = 0 /\ q.socket # "deleted"
  <2>1. q.state # "CLOSED" /\ q.state # "CLOSING"
    BY <1>2, <1>3, SMT DEF LinksAreCounted
  <2>2. q.socket # "deleted"
    BY <1>2, <2>1, SMT DEF SocketIsCounted
  <2>3. q.state = "OPEN" \/ q.state = "REQUEST_CLOSE"
    BY <1>2, <1>6, <2>1 DEF States
  <2>4. q.stops = 0
    BY <1>2, <2>3, SMT DEF LinksAreCounted
  <2> QED
    BY <2>2, <2>4
<1>12. MessagesAreCounted(s, n)
  BY <1>3, <1>8, <1>9, <1>10, <1>11, SMT DEF MessagesAreCounted
<1>13. LinksAreCounted(s, n)
  BY <1>2, <1>4, <1>9, SMT DEF LinksAreCounted
<1>14. SocketIsCounted(s)
  BY <1>2, <1>9, SMT DEF SocketIsCounted
<1>15. StopIsLast(s)
  BY <1>2, <1>9, SameOrder, Zenon
<1> QED
  BY <1>1, <1>4, <1>9, <1>12, <1>13, <1>14, <1>15, OneChanges, Zenon DEF s, n, Whole

\* Releasing a closed connection: onStop is queued when no message is left, otherwise
\* there is a retry. In both cases there is one link of the chain.
LEMMA ReleaseCounts ==
    ASSUME NEW r \in ConnType, NEW n, Numbers(Summary(r)), StopIsLast(Summary(r)),
           Summary(r).state = "CLOSED", Summary(r).socket # "open", Summary(r).socket # "deleted",
           Summary(r).stops = 0, SocketIsCounted(Summary(r)), MessagesAreCounted(Summary(r), n),
           Summary(r).managed = 1, Summary(r).proto # "attached", Amounts(n),
           n.close = 0, n.release = IF r.refCount > 0 THEN 1 ELSE 0
    PROVE  LET s == Summary(ReleaseConnection(r)) IN
           Whole(s, n) /\ StopIsLast(s) /\ s.state # "NONE"
<1> DEFINE q == Summary(r)
           s == Summary(ReleaseConnection(r))
<1>1. q.refCount = r.refCount /\ q.socket = r.socket /\ q.ready = r.ready
  BY DEF Summary
<1>2. CASE r.refCount > 0
  <2>1. ReleaseConnection(r) = r
    BY <1>2, Zenon DEF ReleaseConnection
  <2>2. s = q
    BY <2>1, Zenon
  <2>3. n.release = 1
    BY <1>2, Zenon
  <2>4. /\ q.state = "CLOSED" /\ q.stops = 0 /\ q.managed = 1 /\ q.proto # "attached"
        /\ q.socket # "deleted" /\ n.close = 0
    OBVIOUS
  <2> HIDE DEF q, s
  <2>5. LinksAreCounted(q, n)
    BY <2>3, <2>4, SMT DEF LinksAreCounted
  <2>6. q.state # "NONE"
    BY <2>4
  <2> QED
    BY <2>2, <2>5, <2>6, Zenon DEF Whole, q, s
<1>3. CASE ~(r.refCount > 0)
  <2>1. ReleaseConnection(r) = WithReady(r, "onStop", "ok")
    BY <1>3, Zenon DEF ReleaseConnection, WithReady
  <2>2. PICK h, ok : h = "onStop" /\ ok = "ok"
    OBVIOUS
  <2>3. h \in HandlerNames /\ ok \in Outcomes
    BY <2>2 DEF HandlerNames, Outcomes
  <2> DEFINE b == Summary(WithReady(r, h, ok))
  <2>4. /\ Keeps(q, b, {"ready"})
        /\ b.ready = q.ready \o OnReady(h, ok)
        /\ b.readers = q.readers + One(h \in ReadHandlers)
        /\ b.writers = q.writers + One(h \in {"onWrite"})
        /\ b.messages = q.messages + One(h \in {"onWrite", "~onWrite"})
        /\ b.stops = q.stops + One(h \in {"onStop"})
    BY <2>3, SummaryOfReady, SMT
  <2>5. /\ One(h \in ReadHandlers) = 0 /\ One(h \in {"onWrite"}) = 0
        /\ One(h \in {"onWrite", "~onWrite"}) = 0 /\ One(h \in {"onStop"}) = 1
    BY <2>2 DEF One, ReadHandlers
  <2>6. s = b
    BY <2>1, <2>2, Zenon
  <2>7. n.release = 0
    BY <1>3, Zenon
  <2>8. /\ q.state = "CLOSED" /\ q.stops = 0 /\ q.managed = 1 /\ q.proto # "attached"
        /\ q.socket # "deleted" /\ q.socket # "open" /\ n.close = 0 /\ Numbers(q)
        /\ StopIsLast(q) /\ SocketIsCounted(q) /\ MessagesAreCounted(q, n)
    OBVIOUS
  <2> HIDE DEF b, s
  <2>9. b.socket = r.socket /\ b.ready = r.ready \o OnReady(h, ok)
    <3>1. b.socket = q.socket
      <4> HIDE DEF q
      <4> QED
        BY <2>4, SMT DEF Keeps
    <3> QED
      BY <1>1, <2>4, <3>1, Zenon
  <2>10. StopIsLast(b)
    BY <2>3, <2>8, <2>9, JoinsQueue, Zenon
  <2> HIDE DEF q
  <2>11. /\ b.readers = q.readers /\ b.writers = q.writers /\ b.messages = q.messages
         /\ b.stops = 1
    <3>1. q.readers \in Int /\ q.writers \in Int /\ q.messages \in Int
      BY <2>8, Zenon DEF Numbers
    <3> QED
      BY <2>4, <2>5, <2>8, <3>1
  <2>12. /\ b.state = q.state /\ b.socket = q.socket /\ b.proto = q.proto
         /\ b.pendingRead = q.pendingRead /\ b.pendingWrite = q.pendingWrite
         /\ b.refCount = q.refCount /\ b.protoRefs = q.protoRefs
         /\ b.reading = q.reading /\ b.writing = q.writing /\ b.managed = q.managed
         /\ b.state # "NONE"
    BY <2>4, <2>8, SMT DEF Keeps
  <2>13. q.refCount = 0
    <3>1. ~(q.refCount > 0)
      BY <1>1, <1>3, Zenon
    <3>2. q.refCount = q.writing + q.messages + n.message
      BY <2>8, SMT DEF MessagesAreCounted
    <3>3. /\ q.writing \in Int /\ q.writing >= 0 /\ q.messages \in Int /\ q.messages >= 0
          /\ n.message \in Int /\ n.message >= 0
      BY <2>8 DEF Numbers, Amounts
    <3> QED
      BY <3>1, <3>2, <3>3, SMT
  <2>14. MessagesAreCounted(b, n)
    BY <2>8, <2>11, <2>12, <2>13, SMT DEF MessagesAreCounted
  <2>15. LinksAreCounted(b, n)
    BY <2>7, <2>8, <2>11, <2>12, SMT DEF LinksAreCounted
  <2>16. SocketIsCounted(b)
    BY <2>8, <2>11, <2>12, SMT DEF SocketIsCounted
  <2> QED
    BY <2>6, <2>10, <2>12, <2>14, <2>15, <2>16, Zenon DEF Whole, s
<1> QED
  BY <1>2, <1>3

\* A retry of the connection's release.
LEMMA RetryReleaseConnectionCounts ==
    ASSUME IInv, CountsAreKept, NEW c \in Conns, RetryReleaseConnection(c)
    PROVE  CountsAreKept'
<1> DEFINE after == ReleaseConnection(conn[c])
           again == ConnectionRetry(c, conn[c])
           q == Summary(conn[c])
           s == Summary(after)
           k == Pending(taskList, running, events, c)
           n == Pending(taskList', running', events', c)
<1>1. /\ Takes("releaseConnection", c) /\ taskList' = Tail(taskList)
      /\ conn' = [conn EXCEPT ![c] = after]
      /\ running' = running /\ events' = events \cup again
  BY Zenon DEF RetryReleaseConnection
<1>2. /\ Numbers(q) /\ Amounts(k) /\ StopIsLast(q) /\ q.state \in States
      /\ MessagesAreCounted(q, k) /\ LinksAreCounted(q, k) /\ SocketIsCounted(q)
      /\ conn[c] \in ConnType
  BY CountsBefore, Zenon
<1>3. /\ again \subseteq RetriesOf(c)
      /\ TaskOf("releaseConnection", c) \in again <=> conn[c].refCount > 0
  <2>1. CASE conn[c].refCount > 0
    <3>1. again = {TaskOf("releaseConnection", c)}
      BY <2>1, Zenon DEF ConnectionRetry, TaskOf
    <3> QED
      BY <2>1, <3>1, Zenon DEF RetriesOf
  <2>2. CASE ~(conn[c].refCount > 0)
    <3>1. again = {}
      BY <2>2, Zenon DEF ConnectionRetry
    <3> QED
      BY <2>2, <3>1, Zenon
  <2> QED
    BY <2>1, <2>2
<1> HIDE DEF again
<1>4. /\ n.message = k.message /\ n.close = k.close /\ n.delegate = k.delegate
      /\ ~(conn[c].refCount > 0) => n.release + 1 = k.release
      /\ conn[c].refCount > 0 /\ k.release <= 1 => n.release = 1
      /\ n.close \in Nat /\ n.delegate \in Nat /\ n.message \in Nat /\ n.release \in Nat
      /\ \A d \in Conns : d # c => Pending(taskList', running', events', d)
                                    = Pending(taskList, running, events, d)
  <2>1. PICK u : u = "releaseConnection"
    OBVIOUS
  <2>2. u # "closeConnection" /\ u # "delegate" /\ Takes(u, c) /\ u # "internalReleaseMessage"
    BY <1>1, <2>1
  <2> QED
    BY <1>1, <1>3, <2>1, <2>2, PendingOfTask, Zenon
<1>5. k.release >= 1 /\ k.release \in Int
  <2>1. ASSUME NEW t, t = "releaseConnection"
        PROVE  /\ Tasks(taskList, t, c) = Tasks(Tail(taskList), t, c) + 1
               /\ Tasks(Tail(taskList), t, c) \in Nat
    BY <1>1, <2>1, ListTaken, Zenon
  <2> DEFINE x == Tasks(Tail(taskList), "releaseConnection", c)
             y == One([t |-> "releaseConnection", c |-> c] \in events)
  <2>2. k.release = Tasks(taskList, "releaseConnection", c) + y
    BY DEF Pending
  <2>3. y \in Nat
    BY DEF One
  <2>4. k.release = (x + 1) + y /\ x \in Nat
    BY <2>1, <2>2
  <2> HIDE DEF x, y, k
  <2> QED
    BY <2>3, <2>4
<1>6. q.refCount = conn[c].refCount
  BY DEF Summary
<1> HIDE DEF q, k, n, s, after
<1>7. q.state = "CLOSED" /\ q.socket # "deleted" /\ k.close = 0 /\ k.release + q.stops = 1
      /\ q.managed = 1 /\ q.proto # "attached"
  <2>1. k.release # 0
    BY <1>5
  <2>2. q.state # "REQUEST_CLOSE" /\ q.state # "NONE" /\ q.state # "OPEN" /\ q.state # "CLOSING"
        /\ q.socket # "deleted"
    BY <1>2, <2>1, SMT DEF LinksAreCounted
  <2>3. q.state = "CLOSED"
    BY <1>2, <2>2 DEF States
  <2> QED
    BY <1>2, <2>2, <2>3, SMT DEF LinksAreCounted
<1>8. k.release = 1 /\ q.stops = 0
  <2>1. q.stops \in Int /\ q.stops >= 0
    BY <1>2, Zenon DEF Numbers
  <2> QED
    BY <1>5, <1>7, <2>1, SMT
<1>9. n.release = IF conn[c].refCount > 0 THEN 1 ELSE 0
  <2>1. CASE conn[c].refCount > 0
    BY <1>4, <1>8, <2>1, SMT
  <2>2. CASE ~(conn[c].refCount > 0)
    BY <1>4, <1>8, <2>2, SMT
  <2> QED
    BY <2>1, <2>2
<1>10. q.socket # "open"
  BY <1>2, <1>7, SMT DEF SocketIsCounted
<1>11. MessagesAreCounted(q, n)
  BY <1>2, <1>4, SMT DEF MessagesAreCounted
<1>12. Amounts(n) /\ n.close = 0
  BY <1>4, <1>7 DEF Amounts
<1>13. Whole(s, n) /\ StopIsLast(s) /\ s.state # "NONE"
  BY <1>2, <1>7, <1>8, <1>9, <1>10, <1>11, <1>12, ReleaseCounts, Zenon DEF q, s, after
<1> QED
  BY <1>1, <1>4, <1>13, OneChanges, Zenon DEF s, n

\* What closeConnection makes of a connection in REQUEST_CLOSE before it releases it.
LEMMA SummaryOfDetached ==
    ASSUME NEW r \in ConnType, NEW k, Numbers(Summary(r)), Amounts(k),
           MessagesAreCounted(Summary(r), k)
    PROVE  LET q == Summary(r)
               d == [DetachProtocol(r) EXCEPT !.state = "CLOSING"]
               s == Summary(d)
           IN  /\ d \in ConnType /\ d.refCount = r.refCount
               /\ Keeps(q, s, {"proto", "state"}) /\ s.state = "CLOSING"
               /\ s.proto # "attached"
               /\ s.proto \in {"none", "deleted"} => s.refCount = 0
<1> DEFINE q == Summary(r)
           p == DetachProtocol(r)
           a == Summary(p)
           d == [p EXCEPT !.state = "CLOSING"]
           s == Summary(d)
<1>1. p \in ConnType
  BY DetachFacts, Zenon
<1>2. /\ Keeps(q, a, {"proto"})
      /\ q.proto # "attached" => a.proto = q.proto
      /\ q.proto = "attached" /\ q.protoRefs > 0 => a.proto = "detached"
      /\ q.proto = "attached" /\ ~(q.protoRefs > 0) => a.proto = "deleted"
  BY SummaryOfDetach, Zenon
<1>3. MessagesAreCounted(q, k) /\ Numbers(q)
  OBVIOUS
<1>4. q.refCount = r.refCount
  BY DEF Summary
<1> HIDE DEF p
<1>5. Keeps(a, s, {"state"}) /\ s.state = "CLOSING"
  BY <1>1, SummaryOfState
<1>6. d \in ConnType
  <2>1. "CLOSING" \in States
    BY DEF States
  <2> QED
    BY <1>1, <2>1, SetStateFacts, Zenon
<1>7. s.refCount = d.refCount
  <2> HIDE DEF d
  <2> QED
    BY DEF Summary
<1> HIDE DEF q, a, s, d
<1>8. Keeps(q, s, {"proto", "state"}) /\ s.proto = a.proto /\ s.refCount = q.refCount
  BY <1>2, <1>5, SMT DEF Keeps
<1>9. s.proto # "attached"
  BY <1>2, <1>8, SMT
<1>10. s.proto \in {"none", "deleted"} => s.refCount = 0
  <2>1. q.proto \in {"none", "deleted"} => q.refCount = 0
    BY <1>3, SMT DEF MessagesAreCounted
  <2>2. ~(q.protoRefs > 0) => q.refCount = 0
    <3>1. /\ q.writing \in Int /\ q.writing >= 0 /\ q.messages \in Int /\ q.messages >= 0
          /\ k.message \in Int /\ k.message >= 0 /\ q.refCount \in Int
      BY <1>3 DEF Numbers, Amounts
    <3>2. q.protoRefs = q.refCount /\ q.refCount = q.writing + q.messages + k.message
      BY <1>3, SMT DEF MessagesAreCounted
    <3>3. ~(q.refCount > 0) => q.refCount = 0
      BY <3>1, <3>2, SMT
    <3> QED
      BY <3>2, <3>3, Zenon
  <2>3. a.proto \in {"none", "deleted"} => q.refCount = 0
    <3>1. CASE q.proto # "attached"
      BY <1>2, <2>1, <3>1
    <3>2. CASE q.proto = "attached" /\ q.protoRefs > 0
      BY <1>2, <3>2
    <3>3. CASE q.proto = "attached" /\ ~(q.protoRefs > 0)
      BY <2>2, <3>3
    <3> QED
      BY <3>1, <3>2, <3>3
  <2> QED
    BY <1>8, <2>3, Zenon
<1>11. d.refCount = r.refCount
  BY <1>8, <1>4, <1>7, Zenon
<1> QED
  BY <1>5, <1>6, <1>8, <1>9, <1>10, <1>11, Zenon DEF q, s, d, p

\* closeConnection: the protocol is given up, and unless a write is under way the socket
\* is closed and the connection released.
LEMMA CloseConnectionCounts ==
    ASSUME IInv, CountsAreKept, NEW c \in Conns, CloseConnection(c)
    PROVE  CountsAreKept'
<1> DEFINE r == conn[c]
           d == [DetachProtocol(r) EXCEPT !.state = "CLOSING"]
           released == [ReleaseConnection(CloseSocket(d)) EXCEPT !.state = "CLOSED"]
           after == IF Finishes(r) THEN released ELSE d
           protocolRetry == IF r.proto = "attached" THEN ProtocolRetry(c, r) ELSE {}
           connectionRetry == IF Finishes(r) THEN ConnectionRetry(c, r) ELSE {}
           again == protocolRetry \cup connectionRetry
           q == Summary(r)
           k == Pending(taskList, running, events, c)
           n == Pending(taskList', running', events', c)
<1>1. /\ Takes("closeConnection", c) /\ taskList' = Tail(taskList) /\ running' = running
  BY Zenon DEF CloseConnection
<1>2. /\ Numbers(q) /\ Amounts(k) /\ StopIsLast(q) /\ q.state \in States
      /\ MessagesAreCounted(q, k) /\ LinksAreCounted(q, k) /\ SocketIsCounted(q)
      /\ q.state = r.state /\ q.socket = r.socket /\ r \in ConnType
  BY CountsBefore, Zenon
<1>3. k.close >= 1 /\ k.close \in Int
  <2>1. ASSUME NEW t, t = "closeConnection"
        PROVE  /\ Tasks(taskList, t, c) = Tasks(Tail(taskList), t, c) + 1
               /\ Tasks(Tail(taskList), t, c) \in Nat
    BY <1>1, <2>1, ListTaken, Zenon
  <2> DEFINE x == Tasks(Tail(taskList), "closeConnection", c)
  <2>2. k.close = Tasks(taskList, "closeConnection", c)
    BY DEF Pending
  <2>3. k.close = x + 1 /\ x \in Nat
    BY <2>1, <2>2
  <2> HIDE DEF x, k
  <2> QED
    BY <2>3
<1>4. q.state = "REQUEST_CLOSE" /\ k.close = 1 /\ k.release = 0 /\ q.stops = 0
      /\ q.socket # "deleted" /\ q.managed = 1
  <2> HIDE DEF q, k
  <2>1. k.close # 0
    BY <1>3
  <2>2. q.state = "REQUEST_CLOSE"
    BY <1>2, <2>1, SMT DEF LinksAreCounted
  <2>3. q.socket # "deleted"
    BY <1>2, <2>2, SMT DEF SocketIsCounted
  <2>4. k.close = 1 /\ k.release = 0 /\ q.stops = 0 /\ q.managed = 1
    BY <1>2, <2>2, <2>3, SMT DEF LinksAreCounted
  <2> QED
    BY <2>2, <2>3, <2>4
<1>5. conn' = [conn EXCEPT ![c] = after] /\ events' = events \cup again
  <2>1. r.state = "REQUEST_CLOSE"
    BY <1>2, <1>4, Zenon
  <2>2. conn' = [conn EXCEPT ![c] = after]
    BY <2>1, Zenon DEF CloseConnection
  <2>3. events' = (events \cup protocolRetry) \cup connectionRetry
    BY <2>1, Zenon DEF CloseConnection
  <2> HIDE DEF protocolRetry, connectionRetry, after
  <2> QED
    BY <2>2, <2>3, Zenon
<1>6. /\ again \subseteq RetriesOf(c)
      /\ TaskOf("releaseConnection", c) \in again <=> Finishes(r) /\ r.refCount > 0
  <2>1. TaskOf("releaseConnection", c) # TaskOf("releaseProtocol", c)
    BY DEF TaskOf
  <2>2. protocolRetry = {} \/ protocolRetry = {TaskOf("releaseProtocol", c)}
    <3> HIDE DEF r
    <3> QED
      BY Zenon DEF ProtocolRetry, TaskOf
  <2>3. /\ connectionRetry = {} \/ connectionRetry = {TaskOf("releaseConnection", c)}
        /\ TaskOf("releaseConnection", c) \in connectionRetry <=> Finishes(r) /\ r.refCount > 0
    <3> HIDE DEF r
    <3>1. CASE Finishes(r) /\ r.refCount > 0
      <4>1. connectionRetry = {TaskOf("releaseConnection", c)}
        BY <3>1, Zenon DEF ConnectionRetry, TaskOf
      <4> QED
        BY <3>1, <4>1, Zenon
    <3>2. CASE ~(Finishes(r) /\ r.refCount > 0)
      <4>1. connectionRetry = {}
        BY <3>2, Zenon DEF ConnectionRetry
      <4> QED
        BY <3>2, <4>1, Zenon
    <3> QED
      BY <3>1, <3>2
  <2> HIDE DEF protocolRetry, connectionRetry, r
  <2> QED
    BY <2>1, <2>2, <2>3, Zenon DEF RetriesOf
<1> HIDE DEF again
<1>7. /\ n.message = k.message /\ n.close + 1 = k.close /\ n.delegate = k.delegate
      /\ ~(Finishes(r) /\ r.refCount > 0) => n.release = k.release
      /\ Finishes(r) /\ r.refCount > 0 /\ k.release = 0 => n.release = 1
      /\ n.close \in Nat /\ n.delegate \in Nat /\ n.message \in Nat /\ n.release \in Nat
      /\ \A e \in Conns : e # c => Pending(taskList', running', events', e)
                                    = Pending(taskList, running, events, e)
  <2>1. PICK u : u = "closeConnection"
    OBVIOUS
  <2>2. u # "releaseConnection" /\ u # "delegate" /\ Takes(u, c) /\ u # "internalReleaseMessage"
    BY <1>1, <2>1
  <2> QED
    BY <1>1, <1>5, <1>6, <2>1, <2>2, PendingOfTask, Zenon
<1> DEFINE m == Summary(d)
<1>8. /\ d \in ConnType /\ d.refCount = r.refCount
      /\ Keeps(q, m, {"proto", "state"}) /\ m.state = "CLOSING"
      /\ m.proto # "attached"
      /\ m.proto \in {"none", "deleted"} => m.refCount = 0
  BY <1>2, SummaryOfDetached, Zenon
<1>9. StopIsLast(m)
  <2>1. m.ready = q.ready /\ m.socket = q.socket
    <3> HIDE DEF q, m
    <3> QED
      BY <1>8, SMT DEF Keeps
  <2> QED
    BY <1>2, <2>1, SameOrder, Zenon
<1>10. m.socket = d.socket
  <2> HIDE DEF d
  <2> QED
    BY DEF Summary
<1> HIDE DEF d, q, k, n, r
<1>11. n.close = 0
  BY <1>4, <1>7, SMT
<1>12. /\ m.socket = q.socket /\ m.ready = q.ready
       /\ m.pendingRead = q.pendingRead /\ m.pendingWrite = q.pendingWrite
       /\ m.refCount = q.refCount /\ m.protoRefs = q.protoRefs
       /\ m.reading = q.reading /\ m.writing = q.writing /\ m.managed = q.managed
       /\ m.readers = q.readers /\ m.writers = q.writers /\ m.messages = q.messages
       /\ m.stops = q.stops
  <2> HIDE DEF m
  <2> QED
    BY <1>8, SMT DEF Keeps
<1>13. MessagesAreCounted(m, n)
  <2> HIDE DEF m
  <2> QED
    BY <1>2, <1>4, <1>7, <1>8, <1>12, SMT DEF MessagesAreCounted
<1>14. CASE ~Finishes(r)
  <2>1. after = d
    BY <1>14, Zenon
  <2>2. n.release = 0
    BY <1>4, <1>7, <1>14, Zenon
  <2> HIDE DEF m
  <2>3. LinksAreCounted(m, n)
    BY <1>4, <1>8, <1>11, <1>12, <2>2, SMT DEF LinksAreCounted
  <2>4. SocketIsCounted(m)
    BY <1>2, <1>4, <1>8, <1>12, SMT DEF SocketIsCounted
  <2>5. m.state # "NONE"
    BY <1>8
  <2> HIDE DEF after
  <2> QED
    BY <1>5, <1>7, <1>9, <1>13, <2>1, <2>3, <2>4, <2>5, OneChanges, Zenon DEF m, n, Whole
<1>15. CASE Finishes(r)
  <2> DEFINE shut == CloseSocket(d)
             t == Summary(shut)
             closed == [shut EXCEPT !.state = "CLOSED"]
             s == Summary(closed)
  <2>1. n.release = IF r.refCount > 0 THEN 1 ELSE 0
    <3>1. CASE r.refCount > 0
      BY <1>4, <1>7, <1>15, <3>1, Zenon
    <3>2. CASE ~(r.refCount > 0)
      BY <1>4, <1>7, <3>2, Zenon
    <3> QED
      BY <3>1, <3>2
  <2>2. shut \in ConnType
    BY <1>8, CloseSocketFacts, Zenon
  <2>3. closed \in ConnType
    <3>1. "CLOSED" \in States
      BY DEF States
    <3> HIDE DEF shut
    <3> QED
      BY <2>2, <3>1, SetStateFacts, Zenon
  <2>4. StopIsLast(t)
    <3>1. d.socket = "open" => m.stops = 0
      BY <1>4, <1>12, Zenon
    <3> QED
      BY <1>8, <1>9, <3>1, ShutOrder, Zenon
  <2>5. /\ m.socket # "open" => Keeps(m, t, {})
        /\ m.socket = "open" =>
             /\ Keeps(m, t, {"socket", "pendingRead", "pendingWrite", "reading", "writing",
                             "ready"})
             /\ t.socket = "closed" /\ t.pendingRead = 0 /\ t.pendingWrite = 0
             /\ t.reading = 0 /\ t.writing = 0
             /\ t.messages = m.messages + m.writing /\ t.stops = m.stops
    BY <1>8, SummaryOfShut, Zenon
  <2> HIDE DEF shut
  <2>6. Keeps(t, s, {"state"}) /\ s.state = "CLOSED"
    BY <2>2, SummaryOfState
  <2>7. closed.refCount = shut.refCount /\ s.refCount = shut.refCount /\ t.refCount = shut.refCount
        /\ m.refCount = d.refCount
    BY <2>2, <1>8, SMT DEF ConnType, Summary
  <2>8. released = ReleaseConnection(closed)
    <3>1. released = [ReleaseConnection(shut) EXCEPT !.state = "CLOSED"]
      BY DEF shut
    <3>2. CASE shut.refCount > 0
      <4>1. ReleaseConnection(shut) = shut /\ ReleaseConnection(closed) = closed
        BY <2>7, <3>2, Zenon DEF ReleaseConnection
      <4> QED
        BY <3>1, <4>1, Zenon
    <3>3. CASE ~(shut.refCount > 0)
      <4>1. /\ ReleaseConnection(shut) = WithReady(shut, "onStop", "ok")
            /\ ReleaseConnection(closed) = WithReady(closed, "onStop", "ok")
        <5>1. ~(closed.refCount > 0)
          BY <2>7, <3>3, Zenon
        <5> HIDE DEF closed
        <5> QED
          BY <3>3, <5>1, Zenon DEF ReleaseConnection, WithReady
      <4>2. [WithReady(shut, "onStop", "ok") EXCEPT !.state = "CLOSED"]
              = WithReady(closed, "onStop", "ok")
        BY <2>2 DEF WithReady, ConnType
      <4> QED
        BY <3>1, <4>1, <4>2, Zenon
    <3> QED
      BY <3>2, <3>3
  <2>9. Numbers(s)
    BY <2>3, SummaryNumbers
  <2> HIDE DEF closed, s, t, m, released
  <2>10. /\ t.state = m.state /\ t.proto = m.proto /\ t.refCount = m.refCount
         /\ t.protoRefs = m.protoRefs /\ t.managed = m.managed /\ t.stops = m.stops
         /\ t.socket # "open" /\ t.socket # "deleted"
         /\ t.pendingRead = 0 /\ t.pendingWrite = 0 /\ t.reading = 0 /\ t.writing = 0
         /\ t.writing + t.messages = m.writing + m.messages
    <3>1. CASE m.socket # "open"
      <4>1. Keeps(m, t, {})
        BY <2>5, <3>1, Zenon
      <4>2. q.pendingRead = 0 /\ q.pendingWrite = 0 /\ q.reading = 0 /\ q.writing = 0
        BY <1>2, <1>12, <3>1, SMT DEF SocketIsCounted
      <4> QED
        BY <1>4, <1>12, <3>1, <4>1, <4>2, SMT DEF Keeps
    <3>2. CASE m.socket = "open"
      <4>1. /\ Keeps(m, t, {"socket", "pendingRead", "pendingWrite", "reading", "writing",
                            "ready"})
            /\ t.socket = "closed" /\ t.pendingRead = 0 /\ t.pendingWrite = 0
            /\ t.reading = 0 /\ t.writing = 0
            /\ t.messages = m.messages + m.writing /\ t.stops = m.stops
        BY <2>5, <3>2, Zenon
      <4>2. m.messages \in Int /\ m.writing \in Int
        BY <1>2, <1>12, Zenon DEF Numbers
      <4>3. t.writing + t.messages = m.writing + m.messages
        BY <4>1, <4>2, SMT
      <4> QED
        BY <4>1, <4>3, SMT DEF Keeps
    <3> QED
      BY <3>1, <3>2
  <2>11. /\ s.socket = t.socket /\ s.proto = t.proto /\ s.ready = t.ready
         /\ s.refCount = t.refCount /\ s.protoRefs = t.protoRefs /\ s.managed = t.managed
         /\ s.stops = t.stops /\ s.pendingRead = t.pendingRead /\ s.pendingWrite = t.pendingWrite
         /\ s.reading = t.reading /\ s.writing = t.writing /\ s.messages = t.messages
    BY <2>6, SMT DEF Keeps
  <2>12. /\ s.socket # "open" /\ s.socket # "deleted" /\ s.stops = 0 /\ s.managed = 1
         /\ s.proto # "attached" /\ s.proto = m.proto /\ s.refCount = m.refCount
         /\ s.protoRefs = m.protoRefs
    BY <1>4, <1>8, <1>12, <2>10, <2>11, Zenon
  <2>13. SocketIsCounted(s)
    BY <2>6, <2>10, <2>11, <2>12, SMT DEF SocketIsCounted
  <2>14. MessagesAreCounted(s, n)
    <3>1. s.writing + s.messages = m.writing + m.messages
      BY <2>10, <2>11, Zenon
    <3>2. s.stops > 0 \/ s.socket = "deleted" => FALSE
      BY <2>12
    <3> QED
      BY <1>13, <2>12, <3>1, <3>2, SMT DEF MessagesAreCounted
  <2>15. StopIsLast(s)
    BY <2>4, <2>11, SameOrder, Zenon
  <2>16. Amounts(n)
    BY <1>7 DEF Amounts
  <2>17. n.release = IF closed.refCount > 0 THEN 1 ELSE 0
    <3>1. closed.refCount = r.refCount
      BY <1>8, <2>7, <2>10, Zenon
    <3> QED
      BY <2>1, <3>1, Zenon
  <2> DEFINE x == ReleaseConnection(closed)
  <2>18. Whole(Summary(x), n) /\ StopIsLast(Summary(x)) /\ Summary(x).state # "NONE"
    BY <1>11, <2>3, <2>6, <2>9, <2>12, <2>13, <2>14, <2>15, <2>16, <2>17, ReleaseCounts,
       Zenon DEF s
  <2>19. after = x
    BY <1>15, <2>8, Zenon
  <2> HIDE DEF x, after
  <2> QED
    BY <1>5, <1>7, <2>18, <2>19, OneChanges, Zenon DEF n
<1> QED
  BY <1>14, <1>15

\* While delegate runs its connection has been accepted.
LEMMA DelegatingBorn ==
    ASSUME IInv, CountsAreKept, NEW c \in Conns, NEW pc \in {"send", "close"},
           running = [pc |-> pc, c |-> c]
    PROVE  conn[c].state # "NONE"
<1>1. Delegating(c)
  BY Zenon DEF Delegating
<1>2. conn[c].proto = "attached"
  BY <1>1, Zenon DEF IInv, DelegateHasConnection
<1>3. NewConnection.proto = "none"
  BY DEF NewConnection
<1>4. conn[c] # NewConnection
  BY <1>2, <1>3, Zenon
<1> QED
  BY <1>4, Zenon DEF CountsAreKept, Unborn

\* delegate hands its message to a write, or drops it when the connection is closing.
LEMMA DelegateSendCounts ==
    ASSUME IInv, CountsAreKept, NEW c \in Conns, DelegateSend(c)
    PROVE  CountsAreKept'
<1> DEFINE r == conn[c]
           after == Send(r)
           f == DropTask(c, r)
           q == Summary(r)
           s == Summary(after)
           k == Pending(taskList, running, events, c)
           n == Pending(taskList', running', events', c)
<1>1. /\ running = [pc |-> "send", c |-> c] /\ running' = [pc |-> "close", c |-> c]
      /\ conn' = [conn EXCEPT ![c] = after]
      /\ taskList' = f \o taskList
      /\ events' = events
  BY Zenon DEF DelegateSend, AddTaskFront
<1>2. /\ Numbers(q) /\ Amounts(k) /\ StopIsLast(q) /\ q.state \in States
      /\ MessagesAreCounted(q, k) /\ LinksAreCounted(q, k) /\ SocketIsCounted(q)
      /\ q.state = r.state /\ r \in ConnType
  BY CountsBefore, Zenon
<1>3. q.state # "NONE"
  BY <1>1, <1>2, DelegatingBorn, Zenon
<1>4. /\ f = <<>> \/ f = ReleaseMessage(c)
      /\ f = ReleaseMessage(c) <=> ~Sendable(r)
  <2>1. <<>> # ReleaseMessage(c)
    BY DEF ReleaseMessage
  <2> QED
    BY <2>1, Zenon DEF DropTask
<1>5. taskList' = (f \o taskList) \o <<>>
  <2>1. taskList \in Seq(Task)
    BY DEF IInv, TypeOK
  <2>2. f \in Seq(Task)
    <3>1. ReleaseMessage(c) \in Seq(Task)
      BY DEF ReleaseMessage, Task, TaskNames
    <3>2. <<>> \in Seq(Task)
      OBVIOUS
    <3> HIDE DEF f
    <3> QED
      BY <1>4, <3>1, <3>2, Zenon
  <2> HIDE DEF f
  <2>3. (f \o taskList) \o <<>> = f \o taskList
    BY <2>1, <2>2
  <2> QED
    BY <1>1, <2>3, Zenon
<1> HIDE DEF f
<1>6. /\ n.close = k.close /\ n.delegate = k.delegate /\ n.release = k.release
      /\ n.message + 1 = k.message + (IF f = ReleaseMessage(c) THEN 1 ELSE 0)
      /\ n.message \in Nat
      /\ \A d \in Conns : d # c => Pending(taskList', running', events', d)
                                    = Pending(taskList, running, events, d)
  <2>1. PICK b : b = <<>>
    OBVIOUS
  <2>2. taskList' = (f \o taskList) \o b
    BY <1>5, <2>1, Zenon
  <2>3. Sending(c) /\ DelegateGoesOn(c) /\ events' = events
    BY <1>1, Zenon DEF Sending, DelegateGoesOn
  <2>4. /\ n.close = k.close + (IF b = <<CloseTaskOf(c)>> THEN 1 ELSE 0)
        /\ n.delegate = k.delegate /\ n.release = k.release
        /\ n.message + 1 = k.message + (IF f = ReleaseMessage(c) THEN 1 ELSE 0)
        /\ n.message \in Nat
        /\ \A d \in Conns : d # c => Pending(taskList', running', events', d)
                                      = Pending(taskList, running, events, d)
    BY <1>4, <2>1, <2>2, <2>3, PendingOfDelegate, ZenonT(40)
  <2>5. b # <<CloseTaskOf(c)>>
    BY <2>1
  <2> HIDE DEF k, n
  <2>6. n.close = k.close + 0 /\ k.close \in Int
    BY <1>2, <2>4, <2>5, Zenon DEF Amounts
  <2>7. n.close = k.close
    BY <2>6
  <2> QED
    BY <2>4, <2>7, Zenon
<1>7. /\ Sendable(r) => /\ Keeps(q, s, {"pendingWrite", "writing"})
                        /\ s.pendingWrite = q.pendingWrite + 1 /\ s.writing = 1
      /\ ~Sendable(r) => Keeps(q, s, {})
  BY <1>2, SummaryOfSend, Zenon
<1>8. Sendable(r) => r.state = "OPEN"
  BY Zenon DEF Sendable
<1> HIDE DEF q, s, k, n, after, r
<1>9. /\ s.state = q.state /\ s.socket = q.socket /\ s.proto = q.proto /\ s.ready = q.ready
      /\ s.pendingRead = q.pendingRead /\ s.refCount = q.refCount
      /\ s.protoRefs = q.protoRefs /\ s.reading = q.reading /\ s.managed = q.managed
      /\ s.readers = q.readers /\ s.writers = q.writers /\ s.messages = q.messages
      /\ s.stops = q.stops /\ s.state # "NONE"
  <2>1. CASE Sendable(r)
    BY <1>3, <1>7, <2>1, SMT DEF Keeps
  <2>2. CASE ~Sendable(r)
    BY <1>3, <1>7, <2>2, SMT DEF Keeps
  <2> QED
    BY <2>1, <2>2
<1>10. /\ s.writing + n.message = q.writing + k.message
       /\ \/ s.pendingWrite = q.pendingWrite /\ s.writing = q.writing
          \/ /\ q.state = "OPEN" /\ q.socket = "open"
             /\ s.pendingWrite = q.pendingWrite + 1 /\ s.writing = 1 /\ q.writing = 0
       /\ q.writing \in Int /\ k.message \in Int /\ q.messages \in Int
       /\ s.writing \in Int /\ n.message \in Int
  <2>1. /\ q.writing \in Int /\ q.writing >= 0 /\ q.messages \in Int /\ q.messages >= 0
        /\ k.message \in Int /\ k.message >= 0 /\ k.delegate \in Int /\ k.delegate >= 0
        /\ n.message \in Int /\ n.message >= 0
    BY <1>2, <1>6 DEF Numbers, Amounts
  <2>2. CASE Sendable(r)
    <3>1. n.message + 1 = k.message + 0
      BY <1>4, <1>6, <2>2, Zenon
    <3>2. q.refCount = q.writing + q.messages + k.message /\ q.refCount + k.delegate <= 1
      BY <1>2, SMT DEF MessagesAreCounted
    <3>3. q.writing + q.messages + k.message + k.delegate <= 1 /\ k.message >= 1
      BY <2>1, <3>1, <3>2, SMT
    <3>4. q.writing = 0 /\ k.message = 1
      BY <2>1, <3>3, SMT
    <3>5. n.message = 0
      BY <2>1, <3>1, <3>4, SMT
    <3>6. q.state = "OPEN" /\ q.socket = "open"
      <4>1. q.state = "OPEN"
        BY <1>2, <1>8, <2>2, Zenon
      <4> QED
        BY <1>2, <4>1, SMT DEF SocketIsCounted
    <3>7. s.pendingWrite = q.pendingWrite + 1 /\ s.writing = 1
      BY <1>7, <2>2, Zenon
    <3> QED
      BY <2>1, <3>4, <3>6, <3>7, <3>5
  <2>3. CASE ~Sendable(r)
    <3>1. n.message + 1 = k.message + 1
      BY <1>4, <1>6, <2>3, Zenon
    <3>2. s.pendingWrite = q.pendingWrite /\ s.writing = q.writing
      BY <1>7, <2>3, SMT DEF Keeps
    <3>3. n.message = k.message
      BY <2>1, <3>1, SMT
    <3> QED
      BY <2>1, <3>2, <3>3, Zenon
  <2> QED
    BY <2>2, <2>3
<1>11. MessagesAreCounted(s, n)
  <2>1. s.refCount = s.writing + s.messages + n.message
    <3>1. q.refCount = q.writing + q.messages + k.message
      BY <1>2, SMT DEF MessagesAreCounted
    <3> QED
      BY <1>9, <1>10, <3>1, SMT
  <2> QED
    BY <1>2, <1>6, <1>9, <2>1, SMT DEF MessagesAreCounted
<1>12. LinksAreCounted(s, n)
  BY <1>2, <1>6, <1>9, SMT DEF LinksAreCounted
<1>13. SocketIsCounted(s)
  <2>1. CASE s.pendingWrite = q.pendingWrite /\ s.writing = q.writing
    BY <1>2, <1>9, <2>1, SMT DEF SocketIsCounted
  <2>2. CASE /\ q.state = "OPEN" /\ q.socket = "open"
             /\ s.pendingWrite = q.pendingWrite + 1 /\ s.writing = 1 /\ q.writing = 0
    <3>1. q.pendingRead = 1 /\ q.reading + q.readers = 1 /\ q.pendingWrite = q.writing + q.writers
      BY <1>2, <2>2, SMT DEF SocketIsCounted
    <3>2. q.writers \in Int
      BY <1>2, Zenon DEF Numbers
    <3>3. s.pendingWrite = s.writing + s.writers
      BY <1>9, <2>2, <3>1, <3>2, SMT
    <3>4. s.state = "OPEN" /\ s.socket = "open" /\ s.pendingRead = 1 /\ s.reading + s.readers = 1
      BY <1>9, <2>2, <3>1, Zenon
    <3> QED
      BY <3>3, <3>4, SMT DEF SocketIsCounted
  <2> QED
    BY <1>10, <2>1, <2>2, Zenon
<1>14. StopIsLast(s)
  BY <1>2, <1>9, SameOrder, Zenon
<1> QED
  BY <1>1, <1>6, <1>9, <1>11, <1>12, <1>13, <1>14, OneChanges, Zenon DEF s, n, Whole

\* delegate's last call asks for the close.
LEMMA DelegateCloseCounts ==
    ASSUME IInv, CountsAreKept, NEW c \in Conns, DelegateClose(c)
    PROVE  CountsAreKept'
<1> DEFINE r == conn[c]
           after == Close(r)
           b == CloseTask(c, r, after)
           q == Summary(r)
           s == Summary(after)
           k == Pending(taskList, running, events, c)
           n == Pending(taskList', running', events', c)
<1>1. /\ running = [pc |-> "close", c |-> c] /\ running' = Idle
      /\ conn' = [conn EXCEPT ![c] = after]
      /\ taskList' = taskList \o b
      /\ events' = events
  BY Zenon DEF DelegateClose, AddTask
<1>2. /\ Numbers(q) /\ Amounts(k) /\ StopIsLast(q) /\ q.state \in States
      /\ MessagesAreCounted(q, k) /\ LinksAreCounted(q, k) /\ SocketIsCounted(q)
      /\ q.state = r.state /\ r \in ConnType
  BY CountsBefore, Zenon
<1>3. q.state # "NONE"
  BY <1>1, <1>2, DelegatingBorn, Zenon
<1>4. Keeps(q, s, {"state"}) /\ s.state = IF q.state = "OPEN" THEN "REQUEST_CLOSE" ELSE q.state
  BY <1>2, SummaryOfClose, Zenon
<1>5. s.state = after.state
  <2> HIDE DEF after
  <2> QED
    BY DEF Summary
<1> HIDE DEF after
<1>6. /\ b = <<>> \/ b = <<CloseTaskOf(c)>>
      /\ b = <<CloseTaskOf(c)>> <=> q.state = "OPEN"
  <2>1. <<>> # <<CloseTaskOf(c)>>
    OBVIOUS
  <2>2. q.state = "OPEN" => after.state = "REQUEST_CLOSE"
    BY <1>4, <1>5, Zenon
  <2> HIDE DEF q, r
  <2> QED
    BY <1>2, <2>1, <2>2, Zenon DEF CloseTask, CloseTaskOf
<1>7. taskList' = (<<>> \o taskList) \o b
  <2>1. taskList \in Seq(Task)
    BY DEF IInv, TypeOK
  <2>2. <<>> \o taskList = taskList
    BY <2>1
  <2> QED
    BY <1>1, <2>2, Zenon
<1> HIDE DEF b
<1>8. /\ n.close = k.close + (IF b = <<CloseTaskOf(c)>> THEN 1 ELSE 0)
      /\ n.delegate = k.delegate /\ n.release = k.release /\ n.message = k.message
      /\ \A d \in Conns : d # c => Pending(taskList', running', events', d)
                                    = Pending(taskList, running, events, d)
  <2>1. PICK f : f = <<>>
    OBVIOUS
  <2>2. taskList' = (f \o taskList) \o b
    BY <1>7, <2>1, Zenon
  <2>3. ~Sending(c) /\ DelegateGoesOn(c) /\ events' = events
    BY <1>1 DEF Sending, DelegateGoesOn
  <2>4. /\ n.close = k.close + (IF b = <<CloseTaskOf(c)>> THEN 1 ELSE 0)
        /\ n.delegate = k.delegate /\ n.release = k.release
        /\ n.message = k.message + (IF f = ReleaseMessage(c) THEN 1 ELSE 0)
        /\ \A d \in Conns : d # c => Pending(taskList', running', events', d)
                                      = Pending(taskList, running, events, d)
    BY <1>6, <2>1, <2>2, <2>3, PendingOfDelegate, ZenonT(40)
  <2>5. f # ReleaseMessage(c)
    BY <2>1 DEF ReleaseMessage
  <2> HIDE DEF k, n
  <2>6. n.message = k.message + 0 /\ k.message \in Int
    BY <1>2, <2>4, <2>5, Zenon DEF Amounts
  <2>7. n.message = k.message
    BY <2>6
  <2> QED
    BY <2>4, <2>7, Zenon
<1> HIDE DEF q, s, k, n, r
<1>9. /\ s.socket = q.socket /\ s.proto = q.proto /\ s.ready = q.ready
      /\ s.pendingRead = q.pendingRead /\ s.pendingWrite = q.pendingWrite
      /\ s.refCount = q.refCount /\ s.protoRefs = q.protoRefs
      /\ s.reading = q.reading /\ s.writing = q.writing /\ s.managed = q.managed
      /\ s.readers = q.readers /\ s.writers = q.writers /\ s.messages = q.messages
      /\ s.stops = q.stops
  BY <1>4, SMT DEF Keeps
<1>10. MessagesAreCounted(s, n)
  BY <1>2, <1>8, <1>9, SMT DEF MessagesAreCounted
<1>11. StopIsLast(s)
  BY <1>2, <1>9, SameOrder, Zenon
<1>12. CASE q.state = "OPEN"
  <2>1. s.state = "REQUEST_CLOSE" /\ s.state # "NONE"
    BY <1>4, <1>12
  <2>2. n.close = k.close + 1
    BY <1>6, <1>8, <1>12, Zenon
  <2>3. s.socket = "open"
    BY <1>2, <1>9, <1>12, SMT DEF SocketIsCounted
  <2>4. Whole(s, n)
    BY <1>2, <1>8, <1>9, <1>10, <1>12, <2>1, <2>2, <2>3, CloseAsked, Zenon
  <2> QED
    BY <1>1, <1>8, <1>11, <2>1, <2>4, OneChanges, Zenon DEF s, n
<1>13. CASE q.state # "OPEN"
  <2>1. s.state = q.state
    BY <1>4, <1>13
  <2>2. n.close = k.close + 0 /\ k.close \in Int
    BY <1>2, <1>6, <1>8, <1>13, Zenon DEF Amounts
  <2>3. n.close = k.close
    BY <2>2
  <2>4. LinksAreCounted(s, n)
    BY <1>2, <1>8, <1>9, <2>1, <2>3, SMT DEF LinksAreCounted
  <2>5. SocketIsCounted(s)
    BY <1>2, <1>9, <2>1, SMT DEF SocketIsCounted
  <2> QED
    BY <1>1, <1>3, <1>8, <1>10, <1>11, <2>1, <2>4, <2>5, OneChanges, Zenon DEF s, n, Whole
<1> QED
  BY <1>12, <1>13

\* Every step of the dispatcher keeps the counts.
LEMMA DispatcherStepCounts ==
    ASSUME IInv, CountsAreKept, NEW c \in Conns, DispatcherStep(c)
    PROVE  CountsAreKept'
  BY CloseConnectionCounts, RetryReleaseConnectionCounts, RetryReleaseProtocolCounts,
     InternalReleaseMessageCounts, DelegateAnswerCounts, DelegateSendCounts,
     DelegateCloseCounts, Zenon DEF DispatcherStep

\* A due retry moves from the scheduler to the dispatcher's list: the same retries exist.
LEMMA SchedulerStepCounts ==
    ASSUME IInv, CountsAreKept, NEW e \in Retry, SchedulerStep(e)
    PROVE  CountsAreKept'
<1>1. /\ e \in events /\ events' = events \ {e}
      /\ taskList' = <<e>> \o taskList /\ conn' = conn /\ running' = running
  BY Zenon DEF SchedulerStep, AddTaskFront
<1>2. PICK u \in {"releaseConnection", "releaseProtocol"}, d \in Conns : e = TaskOf(u, d)
  BY DEF Retry, TaskOf
<1>3. PICK list \in Seq(Task) : list = taskList
  BY Zenon DEF IInv, TypeOK
<1>4. PICK first : first = <<TaskOf(u, d)>>
  OBVIOUS
<1>5. PICK after : after = first \o list
  OBVIOUS
<1>6. taskList' = after
  BY <1>1, <1>2, <1>3, <1>4, <1>5, Zenon
<1>7. first \in Seq(Task)
  BY <1>2, <1>4 DEF TaskOf, Task, TaskNames
<1>8. ASSUME NEW t, NEW c
      PROVE  /\ Tasks(after, t, c) = (IF u = t /\ d = c THEN 1 ELSE 0) + Tasks(list, t, c)
             /\ Tasks(list, t, c) \in Nat
  <2>1. Tasks(first, t, c) = IF u = t /\ d = c THEN 1 ELSE 0
    <3>1. Tasks(<<TaskOf(u, d)>>, t, c) = IF u = t /\ d = c THEN 1 ELSE 0
      BY OneTask
    <3> QED
      BY <1>4, <3>1, Zenon
  <2>2. Tasks(first \o list, t, c) = Tasks(first, t, c) + Tasks(list, t, c)
    BY <1>7, TasksConcat
  <2>3. Tasks(list, t, c) \in Nat
    BY TasksTyped
  <2> QED
    BY <1>5, <2>1, <2>2, <2>3, Zenon
<1>9. ASSUME NEW c \in Conns
      PROVE  Pending(taskList', running', events', c) = Pending(taskList, running, events, c)
  <2> DEFINE retry == TaskOf("releaseConnection", c)
  <2>1. /\ Tasks(after, "closeConnection", c) = Tasks(list, "closeConnection", c)
        /\ Tasks(after, "delegate", c) = Tasks(list, "delegate", c)
        /\ Tasks(after, "internalReleaseMessage", c) = Tasks(list, "internalReleaseMessage", c)
    BY <1>2, <1>8
  <2>2. Tasks(after, "releaseConnection", c) + One(retry \in events')
          = Tasks(list, "releaseConnection", c) + One(retry \in events)
    <3>1. retry = e <=> u = "releaseConnection" /\ d = c
      BY <1>2 DEF TaskOf
    <3> HIDE DEF retry
    <3>2. CASE retry = e
      <4>1. One(retry \in events') = 0 /\ One(retry \in events) = 1
        BY <1>1, <3>2, Zenon DEF One
      <4>2. Tasks(after, "releaseConnection", c) = 1 + Tasks(list, "releaseConnection", c)
        BY <1>8, <3>1, <3>2, Zenon
      <4>3. Tasks(list, "releaseConnection", c) \in Nat
        BY <1>8, Zenon
      <4> QED
        BY <4>1, <4>2, <4>3
    <3>3. CASE retry # e
      <4>1. One(retry \in events') = One(retry \in events)
        BY <1>1, <3>3, Zenon DEF One
      <4>2. Tasks(after, "releaseConnection", c) = 0 + Tasks(list, "releaseConnection", c)
        BY <1>8, <3>1, <3>3, Zenon
      <4>3. Tasks(list, "releaseConnection", c) \in Nat
        BY <1>8, Zenon
      <4> QED
        BY <4>1, <4>2, <4>3
    <3> QED
      BY <3>2, <3>3
  <2>3. retry = [t |-> "releaseConnection", c |-> c]
    BY DEF TaskOf
  <2> HIDE DEF retry
  <2> QED
    BY <1>1, <1>3, <1>6, <2>1, <2>2, <2>3, Zenon DEF Pending
<1> QED
  BY <1>1, <1>9, Zenon DEF CountsAreKept

-----------------------------------------------------------------------------
(* The theorems.                                                              *)

\* Before the first connection is accepted every count is zero ...
LEMMA InitCounts == Init => CountsAreKept
<1> SUFFICES ASSUME Init, NEW c \in Conns
             PROVE  /\ Whole(Summary(conn[c]), Pending(taskList, running, events, c))
                    /\ StopIsLast(Summary(conn[c]))
                    /\ Unborn(conn[c])
  BY Zenon DEF CountsAreKept
<1> DEFINE q == Summary(conn[c])
           k == Pending(taskList, running, events, c)
<1>1. conn[c] = NewConnection /\ taskList = <<>> /\ running = Idle /\ events = {}
  BY Zenon DEF Init
<1>2. \A N : Among(<<>>, N) = 0
  <2>1. ASSUME NEW N PROVE {i \in DOMAIN <<>> : <<>>[i].h \in N} = {}
    OBVIOUS
  <2> QED
    BY <2>1, FS_EmptySet DEF Among
<1>3. k.close = 0 /\ k.release = 0 /\ k.delegate = 0 /\ k.message = 0
  <2>1. \A t : Tasks(<<>>, t, c) = 0
    BY NoTask
  <2>2. /\ [t |-> "releaseConnection", c |-> c] \notin events
        /\ running # [pc |-> "send", c |-> c]
    BY <1>1 DEF Idle
  <2>3. /\ One([t |-> "releaseConnection", c |-> c] \in events) = 0
        /\ One(running = [pc |-> "send", c |-> c]) = 0
    BY <2>2, Zenon DEF One
  <2>4. k.close = 0 /\ k.release = 0 + 0 /\ k.delegate = 0 /\ k.message = 0 + 0
    BY <1>1, <2>1, <2>3, Zenon DEF Pending
  <2> QED
    BY <2>4
<1>4. /\ conn[c].state = "NONE" /\ conn[c].socket = "open" /\ conn[c].proto = "none"
      /\ conn[c].pendingRead = 0 /\ conn[c].pendingWrite = 0 /\ conn[c].refCount = 0
      /\ conn[c].protoRefs = 0 /\ conn[c].managed = FALSE /\ conn[c].reading = "none"
      /\ conn[c].writing = FALSE /\ conn[c].ready = <<>>
  BY <1>1 DEF NewConnection
<1>5. /\ q.state = "NONE" /\ q.socket = "open" /\ q.proto = "none" /\ q.ready = <<>>
      /\ q.pendingRead = 0 /\ q.pendingWrite = 0 /\ q.refCount = 0 /\ q.protoRefs = 0
      /\ q.managed = 0 /\ q.reading = 0 /\ q.writing = 0
      /\ q.readers = 0 /\ q.writers = 0 /\ q.messages = 0 /\ q.stops = 0
  <2>1. One(conn[c].managed) = 0 /\ One(conn[c].reading # "none") = 0 /\ One(conn[c].writing) = 0
    BY <1>4 DEF One
  <2> QED
    BY <1>2, <1>4, <2>1, Zenon DEF Summary
<1> HIDE DEF q, k
<1>6. MessagesAreCounted(q, k)
  BY <1>3, <1>5, SMT DEF MessagesAreCounted
<1>7. LinksAreCounted(q, k)
  BY <1>3, <1>5, SMT DEF LinksAreCounted
<1>8. SocketIsCounted(q)
  BY <1>5, SMT DEF SocketIsCounted
<1>9. StopIsLast(q)
  <2>1. TimersBehindStop(<<>>)
    BY DEF TimersBehindStop
  <2>2. q.ready = <<>> /\ q.socket # "deleted"
    BY <1>5
  <2> QED
    BY <2>1, <2>2, Zenon DEF StopIsLast
<1> QED
  BY <1>1, <1>6, <1>7, <1>8, <1>9, Zenon DEF q, k, Whole, Unborn

\* ... and every step of every thread keeps them.
LEMMA NextCounts == IInv /\ CountsAreKept /\ [Next]_vars => CountsAreKept'
<1> SUFFICES ASSUME IInv, CountsAreKept, [Next]_vars PROVE CountsAreKept'
  OBVIOUS
<1>1. CASE \E c \in Conns : Accept(c)
  BY <1>1, AcceptCounts, Zenon
<1>2. CASE \E c \in Conns : \/ CompleteRead(c) \/ CompleteWrite(c)
                            \/ ExpireReadTimer(c) \/ ExpireWriteTimer(c)
  BY <1>2, CompleteReadCounts, CompleteWriteCounts, ExpireReadTimerCounts,
     ExpireWriteTimerCounts, Zenon
<1>3. CASE \E c \in Conns : ServiceStep(c)
  BY <1>3, ServiceStepCounts, Zenon
<1>4. CASE \E c \in Conns : DispatcherStep(c)
  BY <1>4, DispatcherStepCounts, Zenon
<1>5. CASE \E e \in Retry : SchedulerStep(e)
  BY <1>5, SchedulerStepCounts, Zenon
<1>6. CASE UNCHANGED vars
  <2>1. conn' = conn /\ taskList' = taskList /\ running' = running /\ events' = events
    BY <1>6, Zenon DEF vars
  <2> QED
    BY <2>1, Zenon DEF CountsAreKept
<1> QED
  BY <1>1, <1>2, <1>3, <1>4, <1>5, <1>6, Zenon DEF Next

\* Every count and flag by which the threads decide whether a connection, its socket and
\* its protocol are in use agrees with the handlers, tasks and messages that exist.
THEOREM CountsInvariance == Spec => [](IInv /\ CountsAreKept)
<1>1. Init => IInv /\ CountsAreKept
  BY InitInvariant, InitCounts
<1>2. IInv /\ CountsAreKept /\ [Next]_vars => (IInv /\ CountsAreKept)'
  BY NextPreserves, NextCounts
<1> QED
  BY <1>1, <1>2, PTL DEF Spec

\* The positions of Connection's properties, counted.
LEMMA PositionsCounted ==
    ASSUME NEW c
    PROVE  /\ \A t : Cardinality(Positions(t, c)) = Tasks(taskList, t, c)
           /\ \A names : Cardinality(ReadyPositions(c, names)) = Among(conn[c].ready, names)
  BY Zenon DEF Positions, ReadyPositions, Tasks, Among

\* However many connections and service threads there are, closeConnection, the retries
\* of releaseConnection and onStop follow each other: one of them exists at a time, the
\* manager keeps the connection alive for it, and between REQUEST_CLOSE and onStop there
\* always is one, except in CLOSING.
THEOREM ConnectionReleased == Spec => []ConnectionReleasedOnce
<1>1. IInv /\ CountsAreKept => ConnectionReleasedOnce
  <2> SUFFICES ASSUME IInv, CountsAreKept, NEW c \in Conns
               PROVE  LET links == Cardinality(Positions("closeConnection", c))
                                   + Cardinality(Positions("releaseConnection", c))
                                   + One([t |-> "releaseConnection", c |-> c] \in events)
                                   + Cardinality(ReadyPositions(c, {"onStop"}))
                          state == conn[c].state
                      IN  /\ links <= 1
                          /\ links = 1 => conn[c].managed
                          /\ state \in {"REQUEST_CLOSE", "CLOSED"} /\ conn[c].managed =>
                               links = 1
    BY Zenon DEF ConnectionReleasedOnce
  <2> DEFINE q == Summary(conn[c])
             k == Pending(taskList, running, events, c)
             x == Cardinality(Positions("closeConnection", c))
             y == Cardinality(Positions("releaseConnection", c))
             z == One([t |-> "releaseConnection", c |-> c] \in events)
             w == Cardinality(ReadyPositions(c, {"onStop"}))
  <2>1. /\ Numbers(q) /\ Amounts(k) /\ q.state \in States
        /\ LinksAreCounted(q, k) /\ SocketIsCounted(q) /\ q.state = conn[c].state
    BY CountsBefore, Zenon
  <2>2. k.close = x /\ k.release = y + z /\ q.stops = w /\ q.managed = One(conn[c].managed)
    <3>1. /\ k.close = Tasks(taskList, "closeConnection", c)
          /\ k.release = Tasks(taskList, "releaseConnection", c) + z
      BY DEF Pending
    <3>2. q.stops = Among(conn[c].ready, {"onStop"}) /\ q.managed = One(conn[c].managed)
      BY DEF Summary
    <3> QED
      BY <3>1, <3>2, PositionsCounted, Zenon
  <2>3. x \in Int /\ y \in Int /\ z \in Int /\ w \in Int
    <3>1. taskList \in Seq(Task) /\ conn[c].ready \in Seq(Handler)
      BY Zenon DEF IInv, TypeOK, ConnType
    <3>2. /\ Tasks(taskList, "closeConnection", c) \in Nat
          /\ Tasks(taskList, "releaseConnection", c) \in Nat
      BY <3>1, TasksTyped
    <3>3. Among(conn[c].ready, {"onStop"}) \in Nat
      BY <3>1, AmongType
    <3>4. x \in Nat /\ y \in Nat /\ w \in Nat
      BY <3>2, <3>3, PositionsCounted, Zenon
    <3>5. z \in Nat
      BY DEF One
    <3> HIDE DEF x, y, z, w
    <3> QED
      BY <3>4, <3>5
  <2>4. /\ One(conn[c].managed) = 1 => conn[c].managed
        /\ conn[c].managed => One(conn[c].managed) = 1
    BY DEF One
  <2> HIDE DEF q, k, x, y, z, w
  <2>5. x + y + z + w = k.close + k.release + q.stops
    BY <2>2, <2>3, SMT
  <2>6. k.close + k.release + q.stops <= 1
        /\ (k.close + k.release + q.stops = 1 => q.managed = 1)
        /\ (q.state \in {"REQUEST_CLOSE", "CLOSED"} /\ q.managed = 1
              => k.close + k.release + q.stops = 1)
    <3>1. k.close \in Int /\ k.release \in Int /\ q.stops \in Int
      BY <2>1, Zenon DEF Numbers, Amounts
    <3>2. CASE q.state = "REQUEST_CLOSE"
      <4>1. q.socket # "deleted"
        BY <2>1, <3>2, SMT DEF SocketIsCounted
      <4>2. k.close = 1 /\ k.release = 0 /\ q.stops = 0 /\ q.managed = 1
        BY <2>1, <3>2, <4>1, SMT DEF LinksAreCounted
      <4> QED
        BY <4>2
    <3>3. CASE q.state = "CLOSED" /\ q.socket # "deleted"
      <4>1. k.close = 0 /\ k.release + q.stops = 1 /\ q.managed = 1
        BY <2>1, <3>3, SMT DEF LinksAreCounted
      <4> QED
        BY <3>1, <4>1
    <3>4. CASE q.state \in {"NONE", "OPEN", "CLOSING"} \/ q.socket = "deleted"
      <4>1. q.state # "REQUEST_CLOSE"
        BY <2>1, <3>4, SMT DEF SocketIsCounted
      <4>2. k.close = 0 /\ k.release = 0 /\ q.stops = 0
        BY <2>1, <3>4, <4>1, SMT DEF LinksAreCounted
      <4>3. q.state = "CLOSED" => q.managed = 0
        BY <2>1, <3>4, SMT DEF LinksAreCounted
      <4> QED
        BY <4>1, <4>2, <4>3
    <3> QED
      BY <2>1, <3>2, <3>3, <3>4 DEF States
  <2>7. /\ x + y + z + w <= 1
        /\ x + y + z + w = 1 => conn[c].managed
        /\ conn[c].state \in {"REQUEST_CLOSE", "CLOSED"} /\ conn[c].managed =>
             x + y + z + w = 1
    BY <2>1, <2>2, <2>4, <2>5, <2>6, Zenon
  <2> QED
    BY <2>7 DEF x, y, z, w
<1> QED
  BY <1>1, CountsInvariance, PTL

\* Both reference counts equal the messages in existence, of which there is at most one:
\* Connection::send never meets a busy connection.
THEOREM MessagesCounted == Spec => []OneMessage
<1>1. IInv /\ CountsAreKept => OneMessage
  <2> SUFFICES ASSUME IInv, CountsAreKept, NEW c \in Conns
               PROVE  LET inWrite == One(conn[c].writing)
                            + Cardinality(ReadyPositions(c, {"onWrite", "~onWrite"}))
                          messages == One(running = [pc |-> "send", c |-> c]) + inWrite
                            + Cardinality(Positions("internalReleaseMessage", c))
                      IN  /\ messages <= 1
                          /\ conn[c].refCount = messages
                          /\ conn[c].protoRefs = messages
    BY Zenon DEF OneMessage
  <2> DEFINE q == Summary(conn[c])
             k == Pending(taskList, running, events, c)
             x == One(conn[c].writing)
             y == Cardinality(ReadyPositions(c, {"onWrite", "~onWrite"}))
             z == One(running = [pc |-> "send", c |-> c])
             w == Cardinality(Positions("internalReleaseMessage", c))
  <2>1. Amounts(k) /\ MessagesAreCounted(q, k)
    BY CountsBefore, Zenon
  <2>2. k.message = w + z /\ q.messages = y /\ q.writing = x
        /\ q.refCount = conn[c].refCount /\ q.protoRefs = conn[c].protoRefs
    <3>1. k.message = Tasks(taskList, "internalReleaseMessage", c) + z
      BY DEF Pending
    <3>2. q.messages = Among(conn[c].ready, {"onWrite", "~onWrite"}) /\ q.writing = x
          /\ q.refCount = conn[c].refCount /\ q.protoRefs = conn[c].protoRefs
      BY DEF Summary
    <3> QED
      BY <3>1, <3>2, PositionsCounted, Zenon
  <2>3. x \in Int /\ y \in Int /\ z \in Int /\ w \in Int
    <3>1. taskList \in Seq(Task) /\ conn[c].ready \in Seq(Handler)
      BY Zenon DEF IInv, TypeOK, ConnType
    <3>2. Tasks(taskList, "internalReleaseMessage", c) \in Nat
      BY <3>1, TasksTyped
    <3>3. Among(conn[c].ready, {"onWrite", "~onWrite"}) \in Nat
      BY <3>1, AmongType
    <3>4. y \in Nat /\ w \in Nat
      BY <3>2, <3>3, PositionsCounted, Zenon
    <3>5. x \in Nat /\ z \in Nat
      BY DEF One
    <3> HIDE DEF x, y, z, w
    <3> QED
      BY <3>4, <3>5
  <2> HIDE DEF q, k, x, y, z, w
  <2>4. q.refCount = q.writing + q.messages + k.message /\ q.protoRefs = q.refCount
        /\ q.refCount + k.delegate <= 1 /\ k.delegate \in Int /\ k.delegate >= 0
    BY <2>1, SMT DEF MessagesAreCounted, Amounts
  <2>5. q.refCount = z + (x + y) + w
    BY <2>2, <2>3, <2>4, SMT
  <2>6. z + (x + y) + w <= 1
    BY <2>3, <2>4, <2>5, SMT
  <2>7. conn[c].refCount = z + (x + y) + w /\ conn[c].protoRefs = z + (x + y) + w
    BY <2>2, <2>4, <2>5, Zenon
  <2> QED
    BY <2>6, <2>7 DEF x, y, z, w
<1> QED
  BY <1>1, CountsInvariance, PTL

\* While a message exists its protocol has not been deleted and its connection has not
\* been stopped: internalReleaseMessage follows live pointers.
THEOREM MessageOwners == Spec => []MessageOwnersExist
<1>1. IInv /\ CountsAreKept => MessageOwnersExist
  <2> SUFFICES ASSUME IInv, CountsAreKept, NEW c \in Conns, conn[c].refCount > 0
               PROVE  conn[c].proto \in {"attached", "detached"} /\ conn[c].socket # "deleted"
    BY Zenon DEF MessageOwnersExist
  <2> DEFINE q == Summary(conn[c])
             k == Pending(taskList, running, events, c)
  <2>1. /\ MessagesAreCounted(q, k) /\ q.proto = conn[c].proto /\ q.socket = conn[c].socket
        /\ conn[c] \in ConnType
    BY CountsBefore, Zenon
  <2>2. q.refCount = conn[c].refCount
    BY DEF Summary
  <2>3. conn[c].proto \in {"none", "attached", "detached", "deleted"}
    BY <2>1, Zenon DEF ConnType
  <2> HIDE DEF q, k
  <2>4. q.refCount # 0
    BY <2>2
  <2>5. q.proto # "none" /\ q.proto # "deleted" /\ q.socket # "deleted"
    BY <2>1, <2>4, SMT DEF MessagesAreCounted
  <2> QED
    BY <2>1, <2>3, <2>5, Zenon
<1> QED
  BY <1>1, CountsInvariance, PTL

\* So the references of a message are counted, and what they point to exists.
THEOREM MessageOwned == Spec => []MessageIsOwned
<1>1. OneMessage /\ MessageOwnersExist => MessageIsOwned
  BY DEF MessageIsOwned
<1> QED
  BY MessagesCounted, MessageOwners, <1>1, PTL

\* An open connection waits for exactly one read on an open socket, and pendingRead and
\* pendingWrite, by which the timeouts and closeConnection decide, say so.
THEOREM OpenConsistent == Spec => []OpenIsConsistent
<1>1. IInv /\ CountsAreKept => OpenIsConsistent
  <2> SUFFICES ASSUME IInv, CountsAreKept, NEW c \in Conns, conn[c].state = "OPEN"
               PROVE  /\ conn[c].socket = "open"
                      /\ conn[c].pendingRead = 1
                      /\ One(conn[c].reading # "none")
                           + Cardinality(ReadyPositions(c, ReadHandlers)) = 1
                      /\ conn[c].pendingWrite
                           = One(conn[c].writing) + Cardinality(ReadyPositions(c, {"onWrite"}))
    BY Zenon DEF OpenIsConsistent
  <2> DEFINE q == Summary(conn[c])
             k == Pending(taskList, running, events, c)
  <2>1. SocketIsCounted(q) /\ q.state = conn[c].state /\ q.socket = conn[c].socket
    BY CountsBefore, Zenon
  <2>2. /\ q.pendingRead = conn[c].pendingRead /\ q.pendingWrite = conn[c].pendingWrite
        /\ q.reading = One(conn[c].reading # "none") /\ q.writing = One(conn[c].writing)
        /\ q.readers = Cardinality(ReadyPositions(c, ReadHandlers))
        /\ q.writers = Cardinality(ReadyPositions(c, {"onWrite"}))
    <3>1. /\ q.pendingRead = conn[c].pendingRead /\ q.pendingWrite = conn[c].pendingWrite
          /\ q.reading = One(conn[c].reading # "none") /\ q.writing = One(conn[c].writing)
          /\ q.readers = Among(conn[c].ready, ReadHandlers)
          /\ q.writers = Among(conn[c].ready, {"onWrite"})
      BY DEF Summary
    <3> QED
      BY <3>1, PositionsCounted, Zenon
  <2> HIDE DEF q, k
  <2>3. /\ q.socket = "open" /\ q.pendingRead = 1 /\ q.reading + q.readers = 1
        /\ q.pendingWrite = q.writing + q.writers
    BY <2>1, SMT DEF SocketIsCounted
  <2> QED
    BY <2>1, <2>2, <2>3, Zenon
<1> QED
  BY <1>1, CountsInvariance, PTL

\* So an open connection has all that its handlers use without a test.
THEOREM OpenUsable == Spec => []OpenIsUsable
<1>1. OpenIsConsistent /\ OpenHasProtocol => OpenIsUsable
  BY DEF OpenIsUsable
<1> QED
  BY OpenConsistent, OpenProtocol, <1>1, PTL

\* After onStop no handler writes to the deleted socket, and a timeout that expired before
\* finds nothing pending; with one service thread none is left that could use it.
THEOREM StoppedSocket == Spec => []SocketNotUsedAfterStop
<1>1. IInv /\ CountsAreKept => SocketNotUsedAfterStop
  <2> SUFFICES ASSUME IInv, CountsAreKept, NEW c \in Conns, conn[c].socket = "deleted",
                      NEW i \in DOMAIN conn[c].ready
               PROVE  /\ conn[c].ready[i].h # "onWrite"
                      /\ conn[c].ready[i].h = "onReadTimeout" =>
                           conn[c].pendingRead = 0 /\ (conn[c].readError => ServiceThreads > 1)
                      /\ conn[c].ready[i].h = "onWriteTimeout" =>
                           conn[c].pendingWrite = 0 /\ (conn[c].writeError => ServiceThreads > 1)
    BY Zenon DEF SocketNotUsedAfterStop
  <2> DEFINE q == Summary(conn[c])
             k == Pending(taskList, running, events, c)
             h == conn[c].ready[i].h
  <2>1. /\ MessagesAreCounted(q, k) /\ SocketIsCounted(q) /\ StopIsLast(q)
        /\ Numbers(q) /\ Amounts(k) /\ q.socket = conn[c].socket /\ q.ready = conn[c].ready
        /\ conn[c] \in ConnType
    BY CountsBefore, Zenon
  <2>2. /\ q.pendingRead = conn[c].pendingRead /\ q.pendingWrite = conn[c].pendingWrite
        /\ q.messages = Among(conn[c].ready, {"onWrite", "~onWrite"})
    BY DEF Summary
  <2>3. conn[c].ready \in Seq(Handler)
    BY <2>1, Zenon DEF ConnType
  <2> HIDE DEF q, k
  <2>4. q.pendingRead = 0 /\ q.pendingWrite = 0
    BY <2>1, SMT DEF SocketIsCounted
  <2>5. q.messages = 0
    <3>1. q.refCount = 0 /\ q.refCount = q.writing + q.messages + k.message
      BY <2>1, SMT DEF MessagesAreCounted
    <3>2. /\ q.writing \in Int /\ q.writing >= 0 /\ q.messages \in Int /\ q.messages >= 0
          /\ k.message \in Int /\ k.message >= 0
      BY <2>1 DEF Numbers, Amounts
    <3>3. q.writing + q.messages + k.message = 0
      BY <3>1, Zenon
    <3>4. \A a, b, d \in Int : a >= 0 /\ b >= 0 /\ d >= 0 /\ a + b + d = 0 => b = 0
      OBVIOUS
    <3> QED
      BY <3>2, <3>3, <3>4, Zenon
  <2>6. h # "onWrite"
    <3>1. h \notin {"onWrite", "~onWrite"}
      BY <2>2, <2>3, <2>5, AmongNone, Zenon
    <3> QED
      BY <3>1, Zenon
  <2>7. h \in {"onReadTimeout", "onWriteTimeout"} => ServiceThreads > 1
    <3>1. CASE ServiceThreads = 1
      <4>1. h \in TimeoutHandlers
        BY <2>1, <3>1, Zenon DEF StopIsLast, OnlyTimers
      <4> QED
        BY <4>1 DEF TimeoutHandlers
    <3>2. CASE ServiceThreads # 1
      BY <3>2, ServiceThreadsAssumption
    <3> QED
      BY <3>1, <3>2
  <2> HIDE DEF h
  <2>8. /\ h # "onWrite"
        /\ h = "onReadTimeout" => conn[c].pendingRead = 0 /\ ServiceThreads > 1
        /\ h = "onWriteTimeout" => conn[c].pendingWrite = 0 /\ ServiceThreads > 1
    BY <2>2, <2>4, <2>6, <2>7, Zenon
  <2> QED
    BY <2>8, Zenon DEF h
<1> QED
  BY <1>1, CountsInvariance, PTL

-----------------------------------------------------------------------------
(* Reference counting. What each step does to the two objects of a connection *)
(* is a step of CountedObject or none.                                        *)

\* Nothing happens to the two objects; the connection may be asked to close.
SameObjects(r, s) ==
    /\ s.managed = r.managed /\ s.refCount = r.refCount
    /\ s.proto = r.proto /\ s.protoRefs = r.protoRefs
    /\ s.state = r.state \/ (r.state = "OPEN" /\ s.state = "REQUEST_CLOSE")

\* The steps CountedObject allows an object in phase p with n users.
Advances(p, n, p1, n1) ==
    \/ p1 = p /\ n1 = n
    \/ p = "unborn" /\ p1 = "live" /\ (n1 = n \/ n1 = n + 1)
    \/ p = "live" /\ p1 = p /\ n1 = n + 1
    \/ n > 0 /\ p1 = p /\ n1 = n - 1
    \/ p = "live" /\ p1 = "retired" /\ n1 = n
    \/ p \in {"live", "retired"} /\ n = 0 /\ p1 = "freed" /\ n1 = n

ObjectsAdvance(r, s) ==
    /\ Advances(ConnectionPhase(r), r.refCount, ConnectionPhase(s), s.refCount)
    /\ Advances(ProtocolPhase(r), r.protoRefs, ProtocolPhase(s), s.protoRefs)

\* f is a function on S.
On(f, S) == f = [x \in S |-> f[x]]

\* f and g agree on S but for c.
Elsewhere(f, g, S, c) == \A d \in S : d # c => g[d] = f[d]

\* A function that differs from another at one point.
LEMMA DiffersAt ==
    ASSUME NEW S, NEW c \in S, NEW f, NEW g, NEW v,
           On(f, S), On(g, S),
           g[c] = v, Elsewhere(f, g, S, c)
    PROVE  g = [f EXCEPT ![c] = v]
  BY DEF On, Elsewhere

\* A step of CountedObject at c, or none.
ObjectStep(c, p, n, p1, n1) ==
    \/ p1 = p /\ n1 = n
    \/ p[c] = "unborn" /\ p1 = [p EXCEPT ![c] = "live"] /\ n1 = n
    \/ p[c] = "live" /\ n1 = [n EXCEPT ![c] = @ + 1] /\ p1 = p
    \/ p[c] = "unborn" /\ p1 = [p EXCEPT ![c] = "live"] /\ n1 = [n EXCEPT ![c] = @ + 1]
    \/ n[c] > 0 /\ n1 = [n EXCEPT ![c] = @ - 1] /\ p1 = p
    \/ p[c] = "live" /\ p1 = [p EXCEPT ![c] = "retired"] /\ n1 = n
    \/ /\ p[c] \in {"live", "retired"} /\ n[c] = 0
       /\ p1 = [p EXCEPT ![c] = "freed"] /\ n1 = n

\* An object that advances while the others rest takes a step of CountedObject, or none.
LEMMA OneAdvances ==
    ASSUME NEW S, NEW c \in S, NEW p, NEW n, NEW p1, NEW n1,
           On(p, S), On(n, S), On(p1, S), On(n1, S),
           Elsewhere(p, p1, S, c), Elsewhere(n, n1, S, c),
           Advances(p[c], n[c], p1[c], n1[c])
    PROVE  ObjectStep(c, p, n, p1, n1)
<1>1. p1[c] = p[c] => p1 = p
  BY DEF On, Elsewhere
<1>2. n1[c] = n[c] => n1 = n
  BY DEF On, Elsewhere
<1>3. \A v : p1[c] = v => p1 = [p EXCEPT ![c] = v]
  BY DiffersAt, ZenonT(40)
<1>4. \A v : n1[c] = v => n1 = [n EXCEPT ![c] = v]
  BY DiffersAt, ZenonT(40)
<1>5. n1[c] = n[c] + 1 => n1 = [n EXCEPT ![c] = @ + 1]
  BY <1>4, Zenon
<1>6. n1[c] = n[c] - 1 => n1 = [n EXCEPT ![c] = @ - 1]
  BY <1>4, Zenon
<1> QED
  BY <1>1, <1>2, <1>3, <1>5, <1>6, Zenon DEF Advances, ObjectStep

\* A step that advances the objects of one connection is a step of both CountedObjects.
LEMMA CountedStep ==
    ASSUME IInv, NEW c \in Conns, NEW s, conn' = [conn EXCEPT ![c] = s],
           ObjectsAdvance(conn[c], s)
    PROVE  /\ [CountedConnection!Next]_(CountedConnection!vars)
           /\ [CountedProtocol!Next]_(CountedProtocol!vars)
<1>1. DOMAIN conn = Conns
  BY DEF IInv, TypeOK
<1>2. conn'[c] = s /\ \A d \in Conns : d # c => conn'[d] = conn[d]
  BY <1>1
<1>3. [CountedConnection!Next]_(CountedConnection!vars)
  <2> DEFINE p == [d \in Conns |-> ConnectionPhase(conn[d])]
             n == [d \in Conns |-> conn[d].refCount]
  <2>1. PICK p1, n1 : p1 = p' /\ n1 = n'
    OBVIOUS
  <2>2. /\ p1 = [d \in Conns |-> ConnectionPhase(conn'[d])]
        /\ n1 = [d \in Conns |-> conn'[d].refCount]
    BY <2>1
  <2>3. PICK p0, n0 : p0 = p /\ n0 = n
    OBVIOUS
  <2>4. /\ Elsewhere(p0, p1, Conns, c) /\ Elsewhere(n0, n1, Conns, c)
        /\ Advances(p0[c], n0[c], p1[c], n1[c])
    <3>1. ASSUME NEW d \in Conns
          PROVE  /\ p0[d] = ConnectionPhase(conn[d]) /\ n0[d] = conn[d].refCount
                 /\ p1[d] = ConnectionPhase(conn'[d]) /\ n1[d] = conn'[d].refCount
      BY <2>2, <2>3, <3>1, Zenon
    <3>2. Elsewhere(p0, p1, Conns, c)
      <4> SUFFICES ASSUME NEW d \in Conns, d # c PROVE p1[d] = p0[d]
        BY DEF Elsewhere
      <4>1. conn'[d] = conn[d]
        BY <1>2, Zenon
      <4>2. ConnectionPhase(conn'[d]) = ConnectionPhase(conn[d])
        BY <4>1, Zenon
      <4> QED
        BY <3>1, <4>2, Zenon
    <3>3. Elsewhere(n0, n1, Conns, c)
      BY <1>2, <3>1, ZenonT(40) DEF Elsewhere
    <3>4. Advances(p0[c], n0[c], p1[c], n1[c])
      BY <1>2, <3>1, Zenon DEF ObjectsAdvance
    <3> QED
      BY <3>2, <3>3, <3>4
  <2>5. On(p0, Conns) /\ On(n0, Conns) /\ On(p1, Conns) /\ On(n1, Conns)
    BY <2>2, <2>3 DEF On
  <2> HIDE DEF p, n
  <2>6. ObjectStep(c, p0, n0, p1, n1)
    BY <2>4, <2>5, OneAdvances, Zenon
  <2>7. ObjectStep(c, p, n, p', n')
    BY <2>1, <2>3, <2>6, Zenon
  <2> QED
    BY <2>7, Zenon
    DEF ObjectStep, p, n, CountedConnection!Next, CountedConnection!vars,
        CountedConnection!Create, CountedConnection!Acquire, CountedConnection!CreateAcquired,
        CountedConnection!Release, CountedConnection!Retire, CountedConnection!Free
<1>4. [CountedProtocol!Next]_(CountedProtocol!vars)
  <2> DEFINE p == [d \in Conns |-> ProtocolPhase(conn[d])]
             n == [d \in Conns |-> conn[d].protoRefs]
  <2>1. PICK p1, n1 : p1 = p' /\ n1 = n'
    OBVIOUS
  <2>2. /\ p1 = [d \in Conns |-> ProtocolPhase(conn'[d])]
        /\ n1 = [d \in Conns |-> conn'[d].protoRefs]
    BY <2>1
  <2>3. PICK p0, n0 : p0 = p /\ n0 = n
    OBVIOUS
  <2>4. /\ Elsewhere(p0, p1, Conns, c) /\ Elsewhere(n0, n1, Conns, c)
        /\ Advances(p0[c], n0[c], p1[c], n1[c])
    <3>1. ASSUME NEW d \in Conns
          PROVE  /\ p0[d] = ProtocolPhase(conn[d]) /\ n0[d] = conn[d].protoRefs
                 /\ p1[d] = ProtocolPhase(conn'[d]) /\ n1[d] = conn'[d].protoRefs
      BY <2>2, <2>3, <3>1, Zenon
    <3>2. Elsewhere(p0, p1, Conns, c)
      <4> SUFFICES ASSUME NEW d \in Conns, d # c PROVE p1[d] = p0[d]
        BY DEF Elsewhere
      <4>1. conn'[d] = conn[d]
        BY <1>2, Zenon
      <4>2. ProtocolPhase(conn'[d]) = ProtocolPhase(conn[d])
        BY <4>1, Zenon
      <4> QED
        BY <3>1, <4>2, Zenon
    <3>3. Elsewhere(n0, n1, Conns, c)
      BY <1>2, <3>1, ZenonT(40) DEF Elsewhere
    <3>4. Advances(p0[c], n0[c], p1[c], n1[c])
      BY <1>2, <3>1, Zenon DEF ObjectsAdvance
    <3> QED
      BY <3>2, <3>3, <3>4
  <2>5. On(p0, Conns) /\ On(n0, Conns) /\ On(p1, Conns) /\ On(n1, Conns)
    BY <2>2, <2>3 DEF On
  <2> HIDE DEF p, n
  <2>6. ObjectStep(c, p0, n0, p1, n1)
    BY <2>4, <2>5, OneAdvances, Zenon
  <2>7. ObjectStep(c, p, n, p', n')
    BY <2>1, <2>3, <2>6, Zenon
  <2> QED
    BY <2>7, Zenon
    DEF ObjectStep, p, n, CountedProtocol!Next, CountedProtocol!vars,
        CountedProtocol!Create, CountedProtocol!Acquire, CountedProtocol!CreateAcquired,
        CountedProtocol!Release, CountedProtocol!Retire, CountedProtocol!Free
<1> QED
  BY <1>3, <1>4

\* Steps in which nothing happens to the two objects follow one another.
LEMMA SameObjectsTwice ==
    ASSUME NEW r, NEW s, NEW t, SameObjects(r, s), SameObjects(s, t)
    PROVE  SameObjects(r, t)
  BY SMT DEF SameObjects

\* When nothing happens to the objects, neither of them advances.
LEMMA SameObjectsRest ==
    ASSUME NEW r, NEW s, SameObjects(r, s)
    PROVE  ObjectsAdvance(r, s)
<1>1. ProtocolPhase(s) = ProtocolPhase(r) /\ s.protoRefs = r.protoRefs
  BY Zenon DEF SameObjects, ProtocolPhase
<1>2. ConnectionPhase(s) = ConnectionPhase(r) /\ s.refCount = r.refCount
  <2>1. CASE s.state = r.state
    BY <2>1, Zenon DEF SameObjects, ConnectionPhase
  <2>2. CASE r.state = "OPEN" /\ s.state = "REQUEST_CLOSE"
    <3>1. CASE r.managed
      BY <2>2, <3>1 DEF SameObjects, ConnectionPhase
    <3>2. CASE ~r.managed
      BY <2>2, <3>2 DEF SameObjects, ConnectionPhase
    <3> QED
      BY <3>1, <3>2
  <2> QED
    BY <2>1, <2>2, Zenon DEF SameObjects
<1> QED
  BY <1>1, <1>2, Zenon DEF ObjectsAdvance, Advances

\* close, the error handlers, closeSocket, the start of a read, a send, the release of a
\* connection and a handler that leaves its queue do nothing to the two objects.
LEMMA FunctionsRest ==
    ASSUME NEW r \in ConnType
    PROVE  /\ SameObjects(r, Close(r))
           /\ SameObjects(r, CloseSocket(r))
           /\ SameObjects(r, Send(r))
           /\ SameObjects(r, ReleaseConnection(r))
           /\ SameObjects(r, [r EXCEPT !.pendingRead = @ - 1])
           /\ SameObjects(r, [r EXCEPT !.pendingRead = @ - 1, !.receivedFirst = TRUE])
           /\ SameObjects(r, [r EXCEPT !.pendingWrite = @ - 1])
           /\ \A h : SameObjects(r, StartRead(r, h))
           /\ \A x : SameObjects(r, [r EXCEPT !.ready = x])
           /\ \A b : SameObjects(r, [r EXCEPT !.readTimer = b])
           /\ \A b : SameObjects(r, [r EXCEPT !.readError = b])
           /\ \A b : SameObjects(r, [r EXCEPT !.writeTimer = b])
           /\ \A b : SameObjects(r, [r EXCEPT !.writeError = b])
<1>1. SameObjects(r, Close(r))
  <2>1. CASE r.state = "OPEN"
    BY <2>1, Zenon DEF Close, ConnType, SameObjects
  <2>2. CASE r.state # "OPEN"
    BY <2>2, Zenon DEF Close, SameObjects
  <2> QED
    BY <2>1, <2>2
<1>2. SameObjects(r, CloseSocket(r))
  <2>1. CASE r.socket = "open"
    BY <2>1, Zenon DEF CloseSocket, ConnType, SameObjects
  <2>2. CASE r.socket # "open"
    BY <2>2, Zenon DEF CloseSocket, SameObjects
  <2> QED
    BY <2>1, <2>2
<1>3. SameObjects(r, Send(r))
  <2>1. CASE Sendable(r)
    BY <2>1, Zenon DEF Send, ConnType, SameObjects
  <2>2. CASE ~Sendable(r)
    BY <2>2, Zenon DEF Send, SameObjects
  <2> QED
    BY <2>1, <2>2
<1>4. SameObjects(r, ReleaseConnection(r))
  <2>1. CASE r.refCount > 0
    BY <2>1, Zenon DEF ReleaseConnection, SameObjects
  <2>2. CASE ~(r.refCount > 0)
    BY <2>2, Zenon DEF ReleaseConnection, ConnType, SameObjects
  <2> QED
    BY <2>1, <2>2
<1>5. /\ SameObjects(r, [r EXCEPT !.pendingRead = @ - 1])
      /\ SameObjects(r, [r EXCEPT !.pendingRead = @ - 1, !.receivedFirst = TRUE])
      /\ SameObjects(r, [r EXCEPT !.pendingWrite = @ - 1])
  BY Zenon DEF ConnType, SameObjects
<1>6. \A h : SameObjects(r, StartRead(r, h))
  BY Zenon DEF StartRead, ConnType, SameObjects
<1>7. /\ \A x : SameObjects(r, [r EXCEPT !.ready = x])
      /\ \A b : SameObjects(r, [r EXCEPT !.readTimer = b])
      /\ \A b : SameObjects(r, [r EXCEPT !.readError = b])
      /\ \A b : SameObjects(r, [r EXCEPT !.writeTimer = b])
      /\ \A b : SameObjects(r, [r EXCEPT !.writeError = b])
  BY Zenon DEF ConnType, SameObjects
<1> QED
  BY <1>1, <1>2, <1>3, <1>4, <1>5, <1>6, <1>7, Zenon

\* A read handler up to its checks does nothing to the objects.
LEMMA PacketStartRests ==
    ASSUME IInv, NEW c \in Conns, NEW i, NEW name, Handles(c, i, name)
    PROVE  SameObjects(conn[c], PacketStart(c, i)) /\ SameObjects(conn[c], Without(c, i))
<1> DEFINE err == conn[c].ready[i].err
           w == Without(c, i)
           r == [w EXCEPT !.readTimer = FALSE]
           closed == Close(r)
<1>1. conn[c] \in ConnType
  BY ConnTyped
<1>2. w \in ConnType /\ r \in ConnType
  BY HandlerStart, Zenon
<1>3. SameObjects(conn[c], w)
  BY <1>1, FunctionsRest, Zenon DEF Without
<1>4. PacketStart(c, i) = IF err = "ok" THEN r ELSE HandleReadError(r, err)
  BY Zenon DEF PacketStart
<1> HIDE DEF w, err
<1>5. SameObjects(w, r)
  BY <1>2, FunctionsRest, Zenon
<1> HIDE DEF r
<1>6. /\ closed \in ConnType /\ SameObjects(r, closed)
      /\ SameObjects(r, [r EXCEPT !.readError = TRUE])
  BY <1>2, CloseFacts, FunctionsRest, Zenon
<1> HIDE DEF closed
<1>7. SameObjects(closed, [closed EXCEPT !.readError = TRUE])
  BY <1>6, FunctionsRest, Zenon
<1>8. SameObjects(r, HandleReadError(r, err))
  <2>1. CASE err = "aborted"
    BY <1>6, <2>1, Zenon DEF HandleReadError
  <2>2. CASE err # "aborted"
    <3>1. HandleReadError(r, err) = [closed EXCEPT !.readError = TRUE]
      BY <2>2, Zenon DEF HandleReadError, closed
    <3> QED
      BY <1>6, <1>7, <3>1, SameObjectsTwice, Zenon
  <2> QED
    BY <2>1, <2>2
<1>9. SameObjects(conn[c], r)
  BY <1>3, <1>5, SameObjectsTwice, Zenon
<1>10. SameObjects(conn[c], HandleReadError(r, err))
  BY <1>8, <1>9, SameObjectsTwice, Zenon
<1> QED
  BY <1>3, <1>4, <1>9, <1>10, Zenon DEF w

\* The step changes connection c, and its objects advance.
Advancing(c) == \E s : conn' = [conn EXCEPT ![c] = s] /\ ObjectsAdvance(conn[c], s)

\* The step changes connection c, and nothing happens to its objects.
Resting(c) == \E s : conn' = [conn EXCEPT ![c] = s] /\ SameObjects(conn[c], s)

\* Objects to which nothing happens do not advance.
LEMMA RestingAdvances ==
    ASSUME NEW c, Resting(c)
    PROVE  Advancing(c)
  BY SameObjectsRest, Zenon DEF Resting, Advancing

\* The parse steps that create no protocol do nothing to the objects.
LEMMA ParsingRests ==
    ASSUME IInv, NEW c \in Conns, NEW i,
           \/ ParseHeader(c, i) \/ ParsePacketRefused(c, i)
           \/ ParsePacketNoProtocol(c, i) \/ ParsePacketLater(c, i)
    PROVE  Resting(c)
<1> DEFINE checked == PacketStart(c, i)
           done == [checked EXCEPT !.pendingRead = @ - 1]
           first == [checked EXCEPT !.pendingRead = @ - 1, !.receivedFirst = TRUE]
<1>1. PICK name : Handles(c, i, name)
  BY Zenon DEF ParseHeader, ParsePacketRefused, ParsePacketNoProtocol, ParsePacketLater
<1>2. \/ conn' = [conn EXCEPT ![c] = Close(checked)]
      \/ conn' = [conn EXCEPT ![c] = StartRead(done, "parsePacket")]
      \/ conn' = [conn EXCEPT ![c] = Close(first)]
      \/ conn' = [conn EXCEPT ![c] = StartRead(done, "parseHeader")]
  BY Zenon DEF ParseHeader, ParsePacketRefused, ParsePacketNoProtocol, ParsePacketLater,
     PacketStart
<1>3. SameObjects(conn[c], checked) /\ checked \in ConnType
  BY <1>1, PacketStartRests, HandlerStart, Zenon
<1> HIDE DEF checked
<1>4. /\ SameObjects(checked, done) /\ SameObjects(checked, first)
      /\ SameObjects(checked, Close(checked))
      /\ done \in ConnType /\ first \in ConnType
  BY <1>3, FunctionsRest, ReadDoneFacts, SummaryOfFirst, Zenon
<1> HIDE DEF done, first
<1>5. /\ \A h : SameObjects(done, StartRead(done, h))
      /\ SameObjects(first, Close(first))
  BY <1>4, FunctionsRest, Zenon
<1>6. /\ \A h : SameObjects(conn[c], StartRead(done, h))
      /\ SameObjects(conn[c], Close(first)) /\ SameObjects(conn[c], Close(checked))
  BY <1>3, <1>4, <1>5, SameObjectsTwice, Zenon
<1> QED
  BY <1>2, <1>6, Zenon DEF Resting

\* Neither does closing the socket and asking for the close.
LEMMA ShutRests ==
    ASSUME NEW r \in ConnType
    PROVE  SameObjects(r, Close(CloseSocket(r)))
<1>1. SameObjects(r, CloseSocket(r)) /\ CloseSocket(r) \in ConnType
  BY FunctionsRest, CloseSocketFacts, Zenon
<1>2. SameObjects(CloseSocket(r), Close(CloseSocket(r)))
  BY <1>1, FunctionsRest, Zenon
<1> QED
  BY <1>1, <1>2, SameObjectsTwice, Zenon

\* The timeouts and the destruction of a write's handler do nothing to the objects.
LEMMA TimingRests ==
    ASSUME IInv, NEW c \in Conns, NEW i,
           \/ DestroyWrite(c, i) \/ HandleTimeout(c, i)
           \/ OnReadTimeout(c, i) \/ OnWriteTimeout(c, i)
    PROVE  Resting(c)
<1> DEFINE r == Without(c, i)
<1>1. PICK name : Handles(c, i, name)
  BY Zenon DEF DestroyWrite, HandleTimeout, OnReadTimeout, OnWriteTimeout
<1>2. SameObjects(conn[c], r) /\ r \in ConnType /\ conn[c] \in ConnType
  BY <1>1, PacketStartRests, HandlerStart, ConnTyped, Zenon
<1>3. \/ conn' = [conn EXCEPT ![c] = r]
      \/ conn' = [conn EXCEPT ![c] = Close(CloseSocket(r))]
      \/ \E x : conn' = [conn EXCEPT ![c] = [conn[c] EXCEPT !.ready = x]]
  <2>1. CASE DestroyWrite(c, i)
    BY <2>1, Zenon DEF DestroyWrite
  <2>2. CASE OnReadTimeout(c, i) \/ OnWriteTimeout(c, i)
    BY <2>2, Zenon DEF OnReadTimeout, OnWriteTimeout
  <2>3. CASE HandleTimeout(c, i)
    <3> DEFINE t == IF conn[c].ready[i].h = "handleReadTimeout"
                    THEN "onReadTimeout" ELSE "onWriteTimeout"
               x == [conn[c].ready EXCEPT ![i].h = t]
    <3>1. conn' = [conn EXCEPT ![c] = IF Alive(conn[c]) THEN [conn[c] EXCEPT !.ready[i].h = t]
                                      ELSE r]
      BY <2>3, Zenon DEF HandleTimeout
    <3>2. [conn[c] EXCEPT !.ready[i].h = t] = [conn[c] EXCEPT !.ready = x]
      BY Zenon
    <3> QED
      BY <3>1, <3>2, Zenon
  <2> QED
    BY <2>1, <2>2, <2>3
<1> HIDE DEF r
<1>4. /\ SameObjects(r, Close(CloseSocket(r)))
      /\ \A x : SameObjects(conn[c], [conn[c] EXCEPT !.ready = x])
  BY <1>2, ShutRests, FunctionsRest, Zenon
<1>5. SameObjects(conn[c], Close(CloseSocket(r)))
  BY <1>2, <1>4, SameObjectsTwice, Zenon
<1> QED
  BY <1>2, <1>3, <1>4, <1>5, Zenon DEF Resting

\* onWrite does nothing to the objects: the message lives on in the bound handler.
LEMMA OnWriteRests ==
    ASSUME IInv, NEW c \in Conns, NEW i, OnWrite(c, i)
    PROVE  Resting(c)
<1> DEFINE err == conn[c].ready[i].err
           renamed == [conn[c] EXCEPT !.ready[i].h = "~onWrite"]
           r == [renamed EXCEPT !.writeTimer = FALSE]
           closed == Close(r)
           checked == IF err = "ok" THEN r ELSE HandleWriteError(r, err)
           done == [checked EXCEPT !.pendingWrite = @ - 1]
<1>1. /\ Handles(c, i, "onWrite")
      /\ \/ conn' = [conn EXCEPT ![c] = Close(CloseSocket(checked))]
         \/ conn' = [conn EXCEPT ![c] = done]
  BY Zenon DEF OnWrite
<1>2. conn[c] \in ConnType /\ renamed \in ConnType /\ err \in Outcomes
  BY <1>1, ConnTyped, RenamedFacts, HandlerStart, Zenon DEF HandlerNames, OwningHandlers
<1>3. SameObjects(conn[c], renamed)
  BY <1>2, Zenon DEF ConnType, SameObjects
<1> HIDE DEF renamed, err
<1>4. r \in ConnType /\ SameObjects(renamed, r)
  BY <1>2, FunctionsRest, Zenon DEF ConnType
<1> HIDE DEF r
<1>5. /\ closed \in ConnType /\ SameObjects(r, closed)
      /\ SameObjects(r, [r EXCEPT !.writeError = TRUE])
  BY <1>4, CloseFacts, FunctionsRest, Zenon
<1> HIDE DEF closed
<1>6. SameObjects(closed, [closed EXCEPT !.writeError = TRUE])
  BY <1>5, FunctionsRest, Zenon
<1>7. checked \in ConnType /\ SameObjects(r, checked)
  <2>1. CASE err = "ok"
    BY <1>4, <2>1, Zenon DEF SameObjects
  <2>2. CASE err = "aborted"
    <3>1. checked = [r EXCEPT !.writeError = TRUE]
      BY <2>2 DEF HandleWriteError
    <3> QED
      BY <1>4, <1>5, <3>1, ZenonT(40) DEF ConnType
  <2>3. CASE err # "ok" /\ err # "aborted"
    <3>1. checked = [closed EXCEPT !.writeError = TRUE]
      BY <2>3, Zenon DEF HandleWriteError, closed
    <3>2. SameObjects(r, [closed EXCEPT !.writeError = TRUE])
      BY <1>5, <1>6, SameObjectsTwice, Zenon
    <3> QED
      BY <1>5, <3>1, <3>2, Zenon DEF ConnType
  <2> QED
    BY <2>1, <2>2, <2>3
<1> HIDE DEF checked
<1>8. SameObjects(checked, done) /\ SameObjects(checked, Close(CloseSocket(checked)))
  BY <1>7, ShutRests, FunctionsRest, Zenon
<1>9. SameObjects(conn[c], checked)
  BY <1>3, <1>4, <1>7, SameObjectsTwice, Zenon
<1>10. SameObjects(conn[c], done) /\ SameObjects(conn[c], Close(CloseSocket(checked)))
  BY <1>8, <1>9, SameObjectsTwice, Zenon
<1> QED
  BY <1>1, <1>10, Zenon DEF Resting

\* The kernel and the timers do nothing to the objects.
LEMMA CompletionRests ==
    ASSUME IInv, NEW c \in Conns,
           \/ CompleteRead(c) \/ CompleteWrite(c)
           \/ ExpireReadTimer(c) \/ ExpireWriteTimer(c)
    PROVE  Resting(c)
<1>1. conn[c] \in ConnType
  BY ConnTyped
<1>2. PICK x : \/ conn' = [conn EXCEPT ![c].ready = x, ![c].reading = "none"]
               \/ conn' = [conn EXCEPT ![c].ready = x, ![c].writing = FALSE]
               \/ conn' = [conn EXCEPT ![c].readTimer = FALSE, ![c].ready = x]
               \/ conn' = [conn EXCEPT ![c].writeTimer = FALSE, ![c].ready = x]
  BY Zenon DEF CompleteRead, CompleteWrite, ExpireReadTimer, ExpireWriteTimer
<1> DEFINE a == [conn[c] EXCEPT !.ready = x, !.reading = "none"]
           b == [conn[c] EXCEPT !.ready = x, !.writing = FALSE]
           d == [conn[c] EXCEPT !.readTimer = FALSE, !.ready = x]
           e == [conn[c] EXCEPT !.writeTimer = FALSE, !.ready = x]
<1>3. \/ conn' = [conn EXCEPT ![c] = a] \/ conn' = [conn EXCEPT ![c] = b]
      \/ conn' = [conn EXCEPT ![c] = d] \/ conn' = [conn EXCEPT ![c] = e]
  BY <1>2, Zenon DEF IInv, TypeOK
<1>4. /\ SameObjects(conn[c], a) /\ SameObjects(conn[c], b)
      /\ SameObjects(conn[c], d) /\ SameObjects(conn[c], e)
  BY <1>1, Zenon DEF ConnType, SameObjects
<1> HIDE DEF a, b, d, e
<1> QED
  BY <1>3, <1>4, Zenon DEF Resting

\* delegate's send and close, and a retry of the connection's release, do nothing to
\* the objects.
LEMMA DispatchingRests ==
    ASSUME IInv, NEW c \in Conns,
           DelegateSend(c) \/ DelegateClose(c) \/ RetryReleaseConnection(c)
    PROVE  Resting(c)
<1>1. conn[c] \in ConnType
  BY ConnTyped
<1>2. \/ conn' = [conn EXCEPT ![c] = Send(conn[c])]
      \/ conn' = [conn EXCEPT ![c] = Close(conn[c])]
      \/ conn' = [conn EXCEPT ![c] = ReleaseConnection(conn[c])]
  BY Zenon DEF DelegateSend, DelegateClose, RetryReleaseConnection
<1>3. /\ SameObjects(conn[c], Send(conn[c])) /\ SameObjects(conn[c], Close(conn[c]))
      /\ SameObjects(conn[c], ReleaseConnection(conn[c]))
  BY <1>1, FunctionsRest, Zenon
<1> QED
  BY <1>2, <1>3, Zenon DEF Resting

\* The phases of the connection object.
LEMMA Phases ==
    ASSUME NEW r \in ConnType
    PROVE  /\ r.state = "NONE" => ConnectionPhase(r) = "unborn"
           /\ r.state # "NONE" /\ ~r.managed => ConnectionPhase(r) = "freed"
           /\ r.state \in {"OPEN", "REQUEST_CLOSE"} /\ r.managed => ConnectionPhase(r) = "live"
           /\ r.state \in {"CLOSING", "CLOSED"} /\ r.managed => ConnectionPhase(r) = "retired"
<1>1. CASE r.state = "NONE"
  BY <1>1 DEF ConnectionPhase
<1>2. CASE r.state # "NONE" /\ ~r.managed
  BY <1>2 DEF ConnectionPhase
<1>3. CASE r.state \in {"OPEN", "REQUEST_CLOSE"} /\ r.managed
  BY <1>3 DEF ConnectionPhase
<1>4. CASE r.state \in {"CLOSING", "CLOSED"} /\ r.managed
  BY <1>4 DEF ConnectionPhase
<1> QED
  BY <1>1, <1>2, <1>3, <1>4

\* What the counts say of the two objects before a step.
LEMMA ObjectsBefore ==
    ASSUME IInv, CountsAreKept, NEW c \in Conns
    PROVE  LET r == conn[c] IN
           /\ r.refCount \in Nat /\ r.protoRefs = r.refCount
           /\ r.proto \in {"none", "deleted"} => r.refCount = 0
           /\ r.socket = "deleted" => r.state = "CLOSED"
           /\ r.state # "NONE" /\ r.socket # "deleted" => r.managed
           /\ r.state \in {"CLOSING", "CLOSED"} => r.proto # "attached"
<1> DEFINE q == Summary(conn[c])
           k == Pending(taskList, running, events, c)
<1>1. /\ Numbers(q) /\ Amounts(k)
      /\ MessagesAreCounted(q, k) /\ LinksAreCounted(q, k) /\ SocketIsCounted(q)
      /\ q.state = conn[c].state /\ q.socket = conn[c].socket
      /\ q.proto = conn[c].proto /\ conn[c] \in ConnType
  BY CountsBefore, Zenon
<1>2. /\ q.refCount = conn[c].refCount /\ q.protoRefs = conn[c].protoRefs
      /\ q.managed = One(conn[c].managed)
  BY DEF Summary
<1> HIDE DEF q, k
<1>3. One(conn[c].managed) = 1 => conn[c].managed
  BY DEF One
<1>4. q.refCount \in Nat
  <2>1. /\ q.writing \in Int /\ q.writing >= 0 /\ q.messages \in Int /\ q.messages >= 0
        /\ k.message \in Int /\ k.message >= 0
    BY <1>1 DEF Numbers, Amounts
  <2>2. q.refCount = q.writing + q.messages + k.message
    BY <1>1, SMT DEF MessagesAreCounted
  <2>3. \A a, b, d \in Int : a >= 0 /\ b >= 0 /\ d >= 0 => a + b + d \in Nat
    OBVIOUS
  <2> QED
    BY <2>1, <2>2, <2>3, Zenon
<1>5. q.protoRefs = q.refCount /\ (q.proto \in {"none", "deleted"} => q.refCount = 0)
  BY <1>1, SMT DEF MessagesAreCounted
<1>6. q.socket = "deleted" => q.state = "CLOSED"
  BY <1>1, SMT DEF SocketIsCounted
<1>7. /\ q.state # "NONE" /\ q.socket # "deleted" => q.managed = 1
      /\ q.state \in {"CLOSING", "CLOSED"} => q.proto # "attached"
  BY <1>1, SMT DEF LinksAreCounted
<1> QED
  BY <1>1, <1>2, <1>3, <1>4, <1>5, <1>6, <1>7, Zenon

\* createConnection creates the connection object.
LEMMA AcceptAdvances ==
    ASSUME IInv, NEW c \in Conns, Accept(c)
    PROVE  Advancing(c)
<1> DEFINE r == CreateConnection(conn[c])
           s == StartRead(r, "parseHeader")
<1>1. conn[c].state = "NONE" /\ conn' = [conn EXCEPT ![c] = s] /\ conn[c] \in ConnType
  BY ConnTyped, Zenon DEF Accept
<1>2. /\ r \in ConnType /\ r.state = "OPEN" /\ r.managed /\ r.refCount = conn[c].refCount
      /\ r.proto = conn[c].proto /\ r.protoRefs = conn[c].protoRefs
  BY <1>1, Zenon DEF CreateConnection, ConnType, States
<1> HIDE DEF r
<1>3. SameObjects(r, s) /\ s \in ConnType
  BY <1>2, FunctionsRest, StartReadFacts, Zenon DEF ReadHandlers
<1> HIDE DEF s
<1>4. /\ s.state \in {"OPEN", "REQUEST_CLOSE"} /\ s.managed /\ s.refCount = conn[c].refCount
      /\ s.proto = conn[c].proto /\ s.protoRefs = conn[c].protoRefs
  BY <1>2, <1>3, Zenon DEF SameObjects
<1>5. ConnectionPhase(conn[c]) = "unborn" /\ ConnectionPhase(s) = "live"
  BY <1>1, <1>3, <1>4, Phases, Zenon
<1>6. ProtocolPhase(s) = ProtocolPhase(conn[c])
  BY <1>4, Zenon DEF ProtocolPhase
<1> QED
  BY <1>1, <1>4, <1>5, <1>6, Zenon DEF Advancing, ObjectsAdvance, Advances

\* The first packet creates the protocol of an open connection.
LEMMA FirstPacketAdvances ==
    ASSUME IInv, CountsAreKept, NEW c \in Conns, NEW i,
           \/ ParsePacketUndecryptable(c, i) \/ ParsePacketDisconnect(c, i)
           \/ ParsePacketLogin(c, i)
    PROVE  \E s : /\ conn' = [conn EXCEPT ![c] = s] /\ ObjectsAdvance(conn[c], s)
                  /\ conn[c].proto = "none" /\ s.proto = "attached"
<1> DEFINE checked == PacketStart(c, i)
           r == WithProtocol(c, i)
           held == GetOutputMessage(r)
           sent == Send(held)
<1>1. /\ Handles(c, i, "parsePacket") /\ ~Unusable(r) /\ ~PacketStart(c, i).receivedFirst
      /\ \/ conn' = [conn EXCEPT ![c] = StartRead(Close(r), "parseHeader")]
         \/ conn' = [conn EXCEPT ![c] = StartRead(Close(sent), "parseHeader")]
         \/ conn' = [conn EXCEPT ![c] = StartRead(r, "parseHeader")]
  BY Zenon DEF ParsePacketUndecryptable, ParsePacketDisconnect, ParsePacketLogin
<1>2. /\ r \in ConnType /\ r.state = "OPEN" /\ r.proto = "attached"
      /\ conn[c].state = "OPEN" /\ ~conn[c].receivedFirst
  BY <1>1, WithProtocolFacts, Zenon
<1>3. conn[c] \in ConnType /\ conn[c].proto = "none"
  BY <1>2, ConnTyped, Zenon DEF IInv, FirstPacketCreates
<1>4. conn[c].managed
  <2>1. conn[c].state # "NONE" /\ conn[c].socket # "deleted"
    BY <1>2, ObjectsBefore
  <2> QED
    BY <2>1, ObjectsBefore, Zenon
<1>5. r.managed = conn[c].managed /\ r.refCount = conn[c].refCount
      /\ r.protoRefs = conn[c].protoRefs
  <2>1. SameObjects(conn[c], checked) /\ checked \in ConnType
    BY <1>1, PacketStartRests, HandlerStart, Zenon
  <2>2. r = [checked EXCEPT !.pendingRead = @ - 1, !.receivedFirst = TRUE, !.proto = "attached"]
    BY Zenon DEF WithProtocol
  <2> HIDE DEF checked, r
  <2>3. r.managed = checked.managed /\ r.refCount = checked.refCount
        /\ r.protoRefs = checked.protoRefs
    BY <2>1, <2>2, Zenon DEF ConnType
  <2> QED
    BY <2>1, <2>3, Zenon DEF SameObjects
<1> HIDE DEF r, checked
<1>6. /\ held \in ConnType /\ held.state = "OPEN" /\ held.proto = "attached"
      /\ held.managed = r.managed
      /\ held.refCount = r.refCount + 1 /\ held.protoRefs = r.protoRefs + 1
  BY <1>2, GetOutputMessageFacts, Zenon DEF GetOutputMessage, SameLife, ConnType
<1> HIDE DEF held
<1>7. SameObjects(held, sent) /\ sent \in ConnType
  BY <1>6, FunctionsRest, SendFacts, Zenon
<1> HIDE DEF sent
<1>8. ASSUME NEW x \in ConnType
      PROVE  /\ SameObjects(x, StartRead(x, "parseHeader"))
             /\ SameObjects(x, StartRead(Close(x), "parseHeader"))
             /\ StartRead(x, "parseHeader") \in ConnType
             /\ StartRead(Close(x), "parseHeader") \in ConnType
  <2>1. Close(x) \in ConnType /\ SameObjects(x, Close(x))
    BY <1>8, CloseFacts, FunctionsRest, Zenon
  <2>2. /\ SameObjects(Close(x), StartRead(Close(x), "parseHeader"))
        /\ SameObjects(x, StartRead(x, "parseHeader"))
    BY <1>8, <2>1, FunctionsRest, Zenon
  <2>3. /\ StartRead(x, "parseHeader") \in ConnType
        /\ StartRead(Close(x), "parseHeader") \in ConnType
    BY <1>8, <2>1, StartReadFacts, Zenon DEF ReadHandlers
  <2> QED
    BY <2>1, <2>2, <2>3, SameObjectsTwice, Zenon
<1>9. PICK s \in ConnType : /\ conn' = [conn EXCEPT ![c] = s]
                            /\ SameObjects(r, s) \/ SameObjects(held, s)
  <2>1. SameObjects(held, StartRead(Close(sent), "parseHeader"))
    BY <1>7, <1>8, SameObjectsTwice, Zenon
  <2> QED
    BY <1>1, <1>2, <1>7, <1>8, <2>1, Zenon
<1>10. /\ s.state \in {"OPEN", "REQUEST_CLOSE"} /\ s.proto = "attached" /\ s.managed
       /\ \/ s.refCount = conn[c].refCount /\ s.protoRefs = conn[c].protoRefs
          \/ s.refCount = conn[c].refCount + 1 /\ s.protoRefs = conn[c].protoRefs + 1
  <2>1. CASE SameObjects(r, s)
    BY <1>2, <1>4, <1>5, <2>1, Zenon DEF SameObjects
  <2>2. CASE SameObjects(held, s)
    BY <1>4, <1>5, <1>6, <2>2, Zenon DEF SameObjects
  <2> QED
    BY <1>9, <2>1, <2>2
<1>11. ConnectionPhase(conn[c]) = "live" /\ ConnectionPhase(s) = "live"
  BY <1>2, <1>3, <1>4, <1>10, Phases, Zenon
<1>12. ProtocolPhase(conn[c]) = "unborn" /\ ProtocolPhase(s) = "live"
  BY <1>3, <1>10 DEF ProtocolPhase
<1> QED
  BY <1>3, <1>9, <1>10, <1>11, <1>12, Zenon DEF ObjectsAdvance, Advances

\* onStop frees the connection, which no message refers to.
LEMMA OnStopAdvances ==
    ASSUME IInv, CountsAreKept, NEW c \in Conns, NEW i, OnStop(c, i)
    PROVE  Advancing(c)
<1> DEFINE r == Without(c, i)
           ready == IF r.socket = "open" THEN r.ready \o Aborted(r) ELSE r.ready
           s == [r EXCEPT !.readTimer = FALSE, !.writeTimer = FALSE,
                          !.socket = "deleted", !.managed = FALSE,
                          !.reading = "none", !.writing = FALSE, !.ready = ready]
           q == Summary(conn[c])
           k == Pending(taskList, running, events, c)
<1>1. Handles(c, i, "onStop") /\ conn' = [conn EXCEPT ![c] = s]
  BY Zenon DEF OnStop
<1>2. /\ r \in ConnType /\ SameObjects(conn[c], r) /\ SameLife(conn[c], r)
      /\ conn[c] \in ConnType
  BY <1>1, HandlerStart, PacketStartRests, ConnTyped, Zenon
<1>3. /\ Numbers(q) /\ MessagesAreCounted(q, k) /\ LinksAreCounted(q, k) /\ SocketIsCounted(q)
      /\ q.state = conn[c].state /\ q.socket = conn[c].socket /\ q.state \in States
  BY CountsBefore, Zenon
<1>4. q.refCount = conn[c].refCount /\ q.stops = Among(conn[c].ready, {"onStop"})
      /\ conn[c].ready \in Seq(Handler)
  BY <1>2 DEF Summary, ConnType
<1>5. Among(conn[c].ready, {"onStop"}) # 0
  <2>1. i \in DOMAIN conn[c].ready /\ conn[c].ready[i].h \in {"onStop"}
    BY <1>1, Zenon DEF Handles, InProgress
  <2> QED
    BY <1>4, <2>1, AmongNone, Zenon
<1> HIDE DEF q, k
<1>6. q.stops \in Int /\ q.stops >= 0
  BY <1>3 DEF Numbers
<1>7. q.stops > 0 /\ q.stops # 0
  BY <1>4, <1>5, <1>6
<1>8. q.refCount = 0
  BY <1>3, <1>7, SMT DEF MessagesAreCounted
<1>9. q.state = "CLOSED" /\ q.socket # "deleted"
  BY <1>3, <1>7, SMT DEF LinksAreCounted, States
<1>10. conn[c].managed
  <2>1. conn[c].state # "NONE" /\ conn[c].socket # "deleted"
    BY <1>3, <1>9
  <2> QED
    BY <2>1, ObjectsBefore, Zenon
<1> HIDE DEF r, ready
<1>11. /\ s.managed = FALSE /\ s.state = r.state /\ s.refCount = r.refCount
       /\ s.proto = r.proto /\ s.protoRefs = r.protoRefs
  BY <1>2, Zenon DEF ConnType
<1> HIDE DEF s
<1>12. /\ ~s.managed /\ s.state = "CLOSED" /\ s.refCount = conn[c].refCount
       /\ s.proto = conn[c].proto /\ s.protoRefs = conn[c].protoRefs /\ conn[c].refCount = 0
  BY <1>2, <1>3, <1>4, <1>8, <1>9, <1>11, Zenon DEF SameObjects, SameLife
<1>13. ConnectionPhase(conn[c]) = "retired"
  BY <1>2, <1>3, <1>9, <1>10, Phases, Zenon
<1>14. ConnectionPhase(s) = "freed"
  BY <1>12 DEF ConnectionPhase
<1>15. ProtocolPhase(s) = ProtocolPhase(conn[c])
  BY <1>12, Zenon DEF ProtocolPhase
<1> QED
  BY <1>1, <1>12, <1>13, <1>14, <1>15, Zenon DEF Advancing, ObjectsAdvance, Advances

\* internalReleaseMessage drops a reference to each object: it finds both counts positive.
LEMMA InternalReleaseMessageAdvances ==
    ASSUME IInv, CountsAreKept, NEW c \in Conns, InternalReleaseMessage(c)
    PROVE  Advancing(c)
<1> DEFINE s == [conn[c] EXCEPT !.protoRefs = @ - 1, !.refCount = @ - 1]
           q == Summary(conn[c])
           k == Pending(taskList, running, events, c)
           x == Tasks(Tail(taskList), "internalReleaseMessage", c)
           z == One(running = [pc |-> "send", c |-> c])
<1>1. /\ Takes("internalReleaseMessage", c) /\ conn' = [conn EXCEPT ![c] = s]
  BY Zenon DEF InternalReleaseMessage, IInv, TypeOK
<1>2. Numbers(q) /\ MessagesAreCounted(q, k) /\ conn[c] \in ConnType
  BY CountsBefore, Zenon
<1>3. k.message = (x + 1) + z /\ x \in Nat /\ z \in Nat
  <2>1. ASSUME NEW t, t = "internalReleaseMessage"
        PROVE  /\ Tasks(taskList, t, c) = Tasks(Tail(taskList), t, c) + 1
               /\ Tasks(Tail(taskList), t, c) \in Nat
    BY <1>1, <2>1, ListTaken, Zenon
  <2>2. k.message = Tasks(taskList, "internalReleaseMessage", c) + z
    BY DEF Pending
  <2>3. z \in Nat
    BY DEF One
  <2> QED
    BY <2>1, <2>2, <2>3, Zenon
<1>4. q.refCount = conn[c].refCount
  BY DEF Summary
<1> HIDE DEF q, k, x, z
<1>5. q.refCount = q.writing + q.messages + k.message
  BY <1>2, SMT DEF MessagesAreCounted
<1>6. q.writing \in Int /\ q.writing >= 0 /\ q.messages \in Int /\ q.messages >= 0
  BY <1>2 DEF Numbers
<1>7. k.message \in Int /\ k.message > 0
  BY <1>3
<1>8. \A a, b, d \in Int : a >= 0 /\ b >= 0 /\ d > 0 => a + b + d > 0
  OBVIOUS
<1>9. conn[c].refCount > 0 /\ conn[c].protoRefs > 0
  <2>1. conn[c].refCount > 0
    BY <1>4, <1>5, <1>6, <1>7, <1>8, Zenon
  <2> QED
    BY <2>1, ObjectsBefore, Zenon
<1>10. /\ s.refCount = conn[c].refCount - 1 /\ s.protoRefs = conn[c].protoRefs - 1
       /\ s.state = conn[c].state /\ s.managed = conn[c].managed /\ s.proto = conn[c].proto
  BY <1>2, Zenon DEF ConnType
<1> HIDE DEF s
<1>11. ConnectionPhase(s) = ConnectionPhase(conn[c]) /\ ProtocolPhase(s) = ProtocolPhase(conn[c])
  BY <1>10, Zenon DEF ConnectionPhase, ProtocolPhase
<1> QED
  BY <1>1, <1>9, <1>10, <1>11, Zenon DEF Advancing, ObjectsAdvance, Advances

\* delegate takes a reference to each object: both are live.
LEMMA DelegateAnswerAdvances ==
    ASSUME IInv, CountsAreKept, NEW c \in Conns, DelegateAnswer(c)
    PROVE  Advancing(c)
<1> DEFINE s == GetOutputMessage(conn[c])
<1>1. Takes("delegate", c) /\ conn' = [conn EXCEPT ![c] = s] /\ conn[c] \in ConnType
  BY ConnTyped, Zenon DEF DelegateAnswer
<1>2. conn[c].proto = "attached"
  <2>1. taskList \in Seq(Task) /\ taskList # <<>> /\ Head(taskList) = [t |-> "delegate", c |-> c]
    BY <1>1, Zenon DEF IInv, TypeOK, Takes
  <2>2. 1 \in DOMAIN taskList /\ taskList[1] = [t |-> "delegate", c |-> c]
    BY <2>1
  <2>3. Queued("delegate", c)
    BY <2>2, Zenon DEF Queued, Positions
  <2> QED
    BY <2>3, Zenon DEF IInv, DelegateHasConnection
<1>3. conn[c].state \in {"OPEN", "REQUEST_CLOSE"} /\ conn[c].managed
  <2>1. conn[c].state \in States
    BY <1>1, Zenon DEF ConnType
  <2>2. conn[c].state # "NONE"
    <3>1. conn[c].receivedFirst
      BY <1>2 DEF IInv, FirstPacketCreates
    <3> QED
      BY <3>1, Zenon DEF IInv, FirstPacketCreates
  <2>3. conn[c].state \notin {"CLOSING", "CLOSED"}
    BY <1>2, ObjectsBefore, Zenon
  <2>4. conn[c].state \in {"OPEN", "REQUEST_CLOSE"}
    BY <2>1, <2>2, <2>3 DEF States
  <2>5. conn[c].socket # "deleted"
    BY <2>3, ObjectsBefore, Zenon
  <2> QED
    BY <2>2, <2>4, <2>5, ObjectsBefore, Zenon
<1>4. /\ s.refCount = conn[c].refCount + 1 /\ s.protoRefs = conn[c].protoRefs + 1
      /\ s.state = conn[c].state /\ s.managed = conn[c].managed /\ s.proto = conn[c].proto
  BY <1>1, Zenon DEF GetOutputMessage, ConnType
<1> HIDE DEF s
<1>5. ConnectionPhase(s) = ConnectionPhase(conn[c]) /\ ProtocolPhase(s) = ProtocolPhase(conn[c])
  BY <1>4, Zenon DEF ConnectionPhase, ProtocolPhase
<1>6. ConnectionPhase(conn[c]) = "live"
  BY <1>1, <1>3, Phases, Zenon
<1>7. ProtocolPhase(conn[c]) = "live"
  BY <1>2 DEF ProtocolPhase
<1> QED
  BY <1>1, <1>4, <1>5, <1>6, <1>7, Zenon DEF Advancing, ObjectsAdvance, Advances

\* A retry deletes the protocol when no message refers to it any more.
LEMMA RetryReleaseProtocolAdvances ==
    ASSUME IInv, CountsAreKept, NEW c \in Conns, RetryReleaseProtocol(c)
    PROVE  Advancing(c)
<1> DEFINE s == [conn[c] EXCEPT !.proto = ReleaseProtocol(conn[c])]
<1>1. /\ Takes("releaseProtocol", c) /\ conn' = [conn EXCEPT ![c] = s]
      /\ conn[c] \in ConnType
  BY ConnTyped, Zenon DEF RetryReleaseProtocol, IInv, TypeOK
<1>2. conn[c].proto \in {"detached", "deleted"}
  <2>1. taskList \in Seq(Task) /\ taskList # <<>> /\ Head(taskList) = [t |-> "releaseProtocol", c |-> c]
    BY <1>1, Zenon DEF IInv, TypeOK, Takes
  <2>2. 1 \in DOMAIN taskList /\ taskList[1] = [t |-> "releaseProtocol", c |-> c]
    BY <2>1
  <2>3. Queued("releaseProtocol", c)
    BY <2>2, Zenon DEF Queued, Positions
  <2> QED
    BY <2>3, Zenon DEF IInv, RetriesAreDetached
<1>3. /\ s.refCount = conn[c].refCount /\ s.protoRefs = conn[c].protoRefs
      /\ s.state = conn[c].state /\ s.managed = conn[c].managed
      /\ s.proto = ReleaseProtocol(conn[c])
  BY <1>1, Zenon DEF ConnType
<1>4. /\ conn[c].protoRefs \in Nat
      /\ conn[c].proto = "deleted" => conn[c].protoRefs = 0
  <2>1. /\ conn[c].refCount \in Nat /\ conn[c].protoRefs = conn[c].refCount
        /\ conn[c].proto \in {"none", "deleted"} => conn[c].refCount = 0
    BY ObjectsBefore, Zenon
  <2> QED
    BY <2>1, Zenon
<1> HIDE DEF s
<1>5. ConnectionPhase(s) = ConnectionPhase(conn[c])
  BY <1>3, Zenon DEF ConnectionPhase
<1>6. CASE conn[c].protoRefs > 0
  <2>1. s.proto = "detached" /\ conn[c].proto = "detached"
    BY <1>2, <1>3, <1>4, <1>6 DEF ReleaseProtocol
  <2>2. ProtocolPhase(s) = ProtocolPhase(conn[c])
    BY <2>1, Zenon DEF ProtocolPhase
  <2> QED
    BY <1>1, <1>3, <1>5, <2>2, Zenon DEF Advancing, ObjectsAdvance, Advances
<1>7. CASE ~(conn[c].protoRefs > 0)
  <2>1. conn[c].protoRefs = 0
    BY <1>4, <1>7
  <2>2. s.proto = "deleted"
    BY <1>3, <1>7, Zenon DEF ReleaseProtocol
  <2>3. ProtocolPhase(s) = "freed"
    BY <2>2 DEF ProtocolPhase
  <2>4. ProtocolPhase(conn[c]) \in {"retired", "freed"}
    BY <1>2 DEF ProtocolPhase
  <2> QED
    BY <1>1, <1>3, <1>5, <2>1, <2>3, <2>4, Zenon DEF Advancing, ObjectsAdvance, Advances
<1> QED
  BY <1>6, <1>7

\* closeConnection retires the connection, and retires its protocol or frees it.
LEMMA CloseConnectionAdvances ==
    ASSUME IInv, CountsAreKept, NEW c \in Conns, CloseConnection(c)
    PROVE  Advancing(c)
<1> DEFINE r == conn[c]
           p == DetachProtocol(r)
           d == [p EXCEPT !.state = "CLOSING"]
           shut == CloseSocket(d)
           kept == ReleaseConnection(shut)
           released == [kept EXCEPT !.state = "CLOSED"]
<1>1. r \in ConnType /\ Takes("closeConnection", c)
  BY ConnTyped, Zenon DEF CloseConnection
<1>2. r.state = "REQUEST_CLOSE"
  <2>1. taskList \in Seq(Task) /\ taskList # <<>> /\ Head(taskList) = [t |-> "closeConnection", c |-> c]
    BY <1>1, Zenon DEF IInv, TypeOK, Takes
  <2>2. 1 \in DOMAIN taskList /\ taskList[1] = [t |-> "closeConnection", c |-> c]
    BY <2>1
  <2>3. Queued("closeConnection", c)
    BY <2>2, Zenon DEF Queued, Positions
  <2> QED
    BY <2>3, Zenon DEF IInv, CloseRunsOnce
<1>3. conn' = [conn EXCEPT ![c] = released] \/ conn' = [conn EXCEPT ![c] = d]
  BY <1>2, Zenon DEF CloseConnection
<1>4. r.managed /\ r.protoRefs \in Nat
  <2>1. r.state # "NONE" /\ r.socket # "deleted"
    BY <1>2, ObjectsBefore
  <2>2. r.refCount \in Nat /\ r.protoRefs = r.refCount
    BY ObjectsBefore, Zenon
  <2>3. r.managed
    BY <2>1, ObjectsBefore, Zenon
  <2> QED
    BY <2>2, <2>3, Zenon
<1> HIDE DEF r
<1>5. /\ p \in ConnType /\ p.state = r.state /\ p.managed = r.managed /\ p.refCount = r.refCount
      /\ p.protoRefs = r.protoRefs
      /\ p.proto = IF r.proto = "attached" THEN ReleaseProtocol(r) ELSE r.proto
  <2>1. CASE r.proto = "attached"
    BY <1>1, <2>1, DetachFacts, Zenon DEF DetachProtocol, ConnType
  <2>2. CASE r.proto # "attached"
    BY <1>1, <2>2, Zenon DEF DetachProtocol
  <2> QED
    BY <2>1, <2>2
<1> HIDE DEF p
<1>6. /\ d \in ConnType /\ d.state = "CLOSING" /\ d.managed = p.managed
      /\ d.refCount = p.refCount /\ d.protoRefs = p.protoRefs /\ d.proto = p.proto
  BY <1>5, Zenon DEF ConnType, States
<1> HIDE DEF d
<1>7. SameObjects(d, shut) /\ shut \in ConnType
  BY <1>6, FunctionsRest, CloseSocketFacts, Zenon
<1> HIDE DEF shut
<1>8. SameObjects(shut, kept) /\ kept \in ConnType
  BY <1>7, FunctionsRest, ReleaseConnectionFacts, Zenon
<1> HIDE DEF kept
<1>9. /\ released \in ConnType /\ released.state = "CLOSED"
      /\ released.managed = kept.managed /\ released.refCount = kept.refCount
      /\ released.protoRefs = kept.protoRefs /\ released.proto = kept.proto
  BY <1>8, Zenon DEF ConnType, States
<1> HIDE DEF released
<1>10. PICK s \in ConnType : /\ conn' = [conn EXCEPT ![c] = s]
                             /\ s.state \in {"CLOSING", "CLOSED"} /\ s.managed
                             /\ s.refCount = r.refCount /\ s.protoRefs = r.protoRefs
                             /\ s.proto = p.proto
  <2>1. /\ d.managed /\ d.refCount = r.refCount /\ d.protoRefs = r.protoRefs
    BY <1>4, <1>5, <1>6, Zenon
  <2>2. /\ released.managed /\ released.refCount = r.refCount
        /\ released.protoRefs = r.protoRefs /\ released.proto = p.proto
    BY <1>6, <1>7, <1>8, <1>9, <2>1, Zenon DEF SameObjects
  <2> QED
    BY <1>3, <1>6, <1>9, <2>1, <2>2, Zenon
<1>11. ConnectionPhase(r) = "live" /\ ConnectionPhase(s) = "retired"
  BY <1>1, <1>2, <1>4, <1>10, Phases, Zenon
<1>12. Advances(ProtocolPhase(r), r.protoRefs, ProtocolPhase(s), s.protoRefs)
  <2>1. CASE r.proto # "attached"
    <3>1. ProtocolPhase(s) = ProtocolPhase(r)
      BY <1>5, <1>10, <2>1, Zenon DEF ProtocolPhase
    <3> QED
      BY <1>10, <3>1, Zenon DEF Advances
  <2>2. CASE r.proto = "attached" /\ r.protoRefs > 0
    <3>1. ProtocolPhase(r) = "live" /\ ProtocolPhase(s) = "retired"
      BY <1>5, <1>10, <2>2 DEF ProtocolPhase, ReleaseProtocol
    <3> QED
      BY <1>10, <3>1, Zenon DEF Advances
  <2>3. CASE r.proto = "attached" /\ ~(r.protoRefs > 0)
    <3>1. ProtocolPhase(r) = "live" /\ ProtocolPhase(s) = "freed"
      BY <1>5, <1>10, <2>3 DEF ProtocolPhase, ReleaseProtocol
    <3>2. r.protoRefs = 0
      BY <1>4, <2>3
    <3> QED
      BY <1>10, <3>1, <3>2, Zenon DEF Advances
  <2> QED
    BY <2>1, <2>2, <2>3
<1>13. ObjectsAdvance(r, s)
  BY <1>10, <1>11, <1>12, Zenon DEF ObjectsAdvance, Advances
<1> QED
  BY <1>10, <1>13, Zenon DEF Advancing, r

\* Every step of every thread advances the two objects of one connection, or none.
LEMMA NextAdvances ==
    ASSUME IInv, CountsAreKept, Next
    PROVE  conn' = conn \/ \E c \in Conns : Advancing(c)
<1>1. CASE \E e \in Retry : SchedulerStep(e)
  BY <1>1, Zenon DEF SchedulerStep
<1>2. ASSUME NEW c \in Conns,
             \/ Accept(c) \/ CompleteRead(c) \/ CompleteWrite(c)
             \/ ExpireReadTimer(c) \/ ExpireWriteTimer(c)
      PROVE  Advancing(c)
  BY <1>2, AcceptAdvances, CompletionRests, RestingAdvances, Zenon
<1>3. ASSUME NEW c \in Conns, ServiceStep(c)
      PROVE  Advancing(c)
  <2>1. PICK i : \/ ParseHeader(c, i) \/ ParsePacketRefused(c, i)
                 \/ ParsePacketNoProtocol(c, i) \/ ParsePacketUndecryptable(c, i)
                 \/ ParsePacketDisconnect(c, i) \/ ParsePacketLogin(c, i)
                 \/ ParsePacketLater(c, i) \/ OnWrite(c, i) \/ DestroyWrite(c, i)
                 \/ HandleTimeout(c, i) \/ OnReadTimeout(c, i) \/ OnWriteTimeout(c, i)
                 \/ OnStop(c, i)
    BY <1>3, Zenon DEF ServiceStep
  <2>2. CASE \/ ParseHeader(c, i) \/ ParsePacketRefused(c, i)
             \/ ParsePacketNoProtocol(c, i) \/ ParsePacketLater(c, i)
    BY <2>2, ParsingRests, RestingAdvances, Zenon
  <2>3. CASE \/ ParsePacketUndecryptable(c, i) \/ ParsePacketDisconnect(c, i)
             \/ ParsePacketLogin(c, i)
    BY <2>3, FirstPacketAdvances, Zenon DEF Advancing
  <2>4. CASE \/ DestroyWrite(c, i) \/ HandleTimeout(c, i)
             \/ OnReadTimeout(c, i) \/ OnWriteTimeout(c, i)
    BY <2>4, TimingRests, RestingAdvances, Zenon
  <2>5. CASE OnWrite(c, i)
    BY <2>5, OnWriteRests, RestingAdvances, Zenon
  <2>6. CASE OnStop(c, i)
    BY <2>6, OnStopAdvances, Zenon
  <2> QED
    BY <2>1, <2>2, <2>3, <2>4, <2>5, <2>6, Zenon
<1>4. ASSUME NEW c \in Conns, DispatcherStep(c)
      PROVE  Advancing(c)
  BY <1>4, CloseConnectionAdvances, RetryReleaseProtocolAdvances, DispatchingRests,
     RestingAdvances, InternalReleaseMessageAdvances, DelegateAnswerAdvances, Zenon DEF DispatcherStep
<1> QED
  BY <1>1, <1>2, <1>3, <1>4, Zenon DEF Next

\* Every step of the connections is a step of both CountedObjects, or none.
LEMMA StepsAreCounted ==
    IInv /\ CountsAreKept /\ [Next]_vars
        => /\ [CountedConnection!Next]_(CountedConnection!vars)
           /\ [CountedProtocol!Next]_(CountedProtocol!vars)
<1> SUFFICES ASSUME IInv, CountsAreKept, [Next]_vars
             PROVE  /\ [CountedConnection!Next]_(CountedConnection!vars)
                    /\ [CountedProtocol!Next]_(CountedProtocol!vars)
  OBVIOUS
<1>1. CASE conn' = conn
  BY <1>1, Zenon DEF CountedConnection!vars, CountedProtocol!vars
<1>2. CASE \E c \in Conns : Advancing(c)
  BY <1>2, CountedStep, Zenon DEF Advancing
<1> QED
  BY <1>1, <1>2, NextAdvances, Zenon DEF vars

\* At first no connection and no protocol exists and nobody refers to one.
LEMMA InitIsCounted == Init => CountedConnection!Init /\ CountedProtocol!Init
<1> SUFFICES ASSUME Init PROVE CountedConnection!Init /\ CountedProtocol!Init
  OBVIOUS
<1>1. conn = [c \in Conns |-> NewConnection]
  BY Zenon DEF Init
<1>2. /\ NewConnection.refCount = 0 /\ NewConnection.protoRefs = 0
      /\ ConnectionPhase(NewConnection) = "unborn" /\ ProtocolPhase(NewConnection) = "unborn"
  BY DEF NewConnection, ConnectionPhase, ProtocolPhase
<1>3. CountedConnection!Init
  BY <1>1, <1>2, Zenon DEF CountedConnection!Init
<1>4. CountedProtocol!Init
  BY <1>1, <1>2, Zenon DEF CountedProtocol!Init
<1> QED
  BY <1>3, <1>4

\* For every set of connections and number of service threads, Connection::m_refCount
\* keeps the promise of a counted object: no message takes a reference once
\* closeConnection has run, and onStop finds no message that refers to the connection.
THEOREM ConnectionCounted == Spec => ConnectionIsCounted
<1> QED
  BY InitIsCounted, StepsAreCounted, CountsInvariance, PTL
  DEF Spec, ConnectionIsCounted, CountedConnection!Spec

\* Protocol::m_refCount keeps it for the protocol, which closeConnection or a retry of
\* releaseProtocol deletes.
THEOREM ProtocolCounted == Spec => ProtocolIsCounted
<1> QED
  BY InitIsCounted, StepsAreCounted, CountsInvariance, PTL
  DEF Spec, ProtocolIsCounted, CountedProtocol!Spec

-----------------------------------------------------------------------------
(* The release of a protocol.                                                 *)

\* Retries of releaseProtocol, waiting in the list or in the scheduler.
Releases(list, retries, c) ==
    Tasks(list, "releaseProtocol", c) + One(TaskOf("releaseProtocol", c) \in retries)

ReleasesAreCounted ==
    \A c \in Conns : Releases(taskList, events, c) = One(conn[c].proto = "detached")

\* The retries are a natural number, and a step that leaves both places alone keeps it.
LEMMA ReleasesTyped ==
    ASSUME IInv, NEW c \in Conns
    PROVE  /\ Tasks(taskList, "releaseProtocol", c) \in Nat
           /\ One(TaskOf("releaseProtocol", c) \in events) \in {0, 1}
<1>1. taskList \in Seq(Task)
  BY Zenon DEF IInv, TypeOK
<1>2. Tasks(taskList, "releaseProtocol", c) \in Nat
  BY <1>1, TasksTyped
<1> QED
  BY <1>2 DEF One

\* The step changes connection c, but not whether its protocol is detached.
DetachedAsBefore(c) ==
    \E s : /\ conn' = [conn EXCEPT ![c] = s]
           /\ s.proto = "detached" <=> conn[c].proto = "detached"

\* The step neither adds nor takes a retry of a protocol's release.
SameReleases ==
    \A d \in Conns : Releases(taskList', events', d) = Releases(taskList, events, d)

\* Such a step keeps the count.
LEMMA ReleasesKept ==
    ASSUME IInv, ReleasesAreCounted, NEW c \in Conns, DetachedAsBefore(c), SameReleases
    PROVE  ReleasesAreCounted'
<1>1. PICK s : /\ conn' = [conn EXCEPT ![c] = s]
               /\ s.proto = "detached" <=> conn[c].proto = "detached"
  BY Zenon DEF DetachedAsBefore
<1>2. DOMAIN conn = Conns
  BY DEF IInv, TypeOK
<1>3. \A d \in Conns : conn'[d].proto = "detached" <=> conn[d].proto = "detached"
  BY <1>1, <1>2, Zenon
<1>4. \A d \in Conns : One(conn'[d].proto = "detached") = One(conn[d].proto = "detached")
  BY <1>3, Zenon DEF One
<1> QED
  BY <1>4, Zenon DEF ReleasesAreCounted, SameReleases

\* What handlers and delegate add to the list.
HandlerTasks(c) ==
    \E f, b : /\ f = <<>> \/ f = ReleaseMessage(c)
              /\ b = <<>> \/ b = <<CloseTaskOf(c)>> \/ b = <<DelegateTaskOf(c)>>
              /\ \/ taskList' = taskList
                 \/ taskList' = taskList \o b
                 \/ taskList' = f \o taskList
                 \/ taskList' = (f \o taskList) \o b

\* It is no retry of a protocol's release.
LEMMA HandlersReleaseNothing ==
    ASSUME IInv, NEW c \in Conns, HandlerTasks(c), events' = events
    PROVE  SameReleases
<1> SUFFICES ASSUME NEW d \in Conns
             PROVE  Releases(taskList', events', d) = Releases(taskList, events, d)
  BY Zenon DEF SameReleases
<1>1. PICK list \in Seq(Task) : list = taskList
  BY Zenon DEF IInv, TypeOK
<1>2. PICK f, b : /\ f = <<>> \/ f = ReleaseMessage(c)
                  /\ b = <<>> \/ b = <<CloseTaskOf(c)>> \/ b = <<DelegateTaskOf(c)>>
                  /\ \/ taskList' = list
                     \/ taskList' = list \o b
                     \/ taskList' = f \o list
                     \/ taskList' = (f \o list) \o b
  BY <1>1, Zenon DEF HandlerTasks
<1> DEFINE m == <<TaskOf("internalReleaseMessage", c)>>
           x == <<TaskOf("closeConnection", c)>>
           l == <<TaskOf("delegate", c)>>
<1>3. (f = <<>> \/ f = m) /\ (b = <<>> \/ b = x \/ b = l)
  BY <1>2, Zenon DEF ReleaseMessage, CloseTaskOf, DelegateTaskOf, TaskOf
<1>4. m \in Seq(Task) /\ x \in Seq(Task) /\ l \in Seq(Task) /\ <<>> \in Seq(Task)
  BY DEF TaskOf, Task, TaskNames
<1>5. /\ Tasks(m, "releaseProtocol", d) = 0 /\ Tasks(x, "releaseProtocol", d) = 0
      /\ Tasks(l, "releaseProtocol", d) = 0 /\ Tasks(<<>>, "releaseProtocol", d) = 0
  BY OneTask, NoTask
<1> HIDE DEF m, x, l
<1>6. /\ f \in Seq(Task) /\ b \in Seq(Task)
      /\ Tasks(f, "releaseProtocol", d) = 0 /\ Tasks(b, "releaseProtocol", d) = 0
  BY <1>3, <1>4, <1>5, Zenon
<1>7. /\ Tasks(list \o b, "releaseProtocol", d)
           = Tasks(list, "releaseProtocol", d) + Tasks(b, "releaseProtocol", d)
      /\ Tasks(f \o list, "releaseProtocol", d)
           = Tasks(f, "releaseProtocol", d) + Tasks(list, "releaseProtocol", d)
      /\ Tasks((f \o list) \o b, "releaseProtocol", d)
           = Tasks(list, "releaseProtocol", d) + Tasks(f, "releaseProtocol", d)
             + Tasks(b, "releaseProtocol", d)
  BY <1>6, TasksConcat, TasksAdded
<1>8. Tasks(list, "releaseProtocol", d) \in Nat
  BY TasksTyped
<1>9. /\ Tasks(list \o b, "releaseProtocol", d) = Tasks(list, "releaseProtocol", d)
      /\ Tasks(f \o list, "releaseProtocol", d) = Tasks(list, "releaseProtocol", d)
      /\ Tasks((f \o list) \o b, "releaseProtocol", d) = Tasks(list, "releaseProtocol", d)
  BY <1>6, <1>7, <1>8
<1>10. Tasks(taskList', "releaseProtocol", d) = Tasks(list, "releaseProtocol", d)
  BY <1>2, <1>9, Zenon
<1> QED
  BY <1>1, <1>10, Zenon DEF Releases

\* The service threads, the kernel, the timers and delegate add nothing else.
LEMMA HandlersAdd ==
    ASSUME NEW c \in Conns,
           \/ Accept(c) \/ CompleteRead(c) \/ CompleteWrite(c)
           \/ ExpireReadTimer(c) \/ ExpireWriteTimer(c)
           \/ ServiceStep(c) \/ DelegateSend(c) \/ DelegateClose(c)
    PROVE  HandlerTasks(c) /\ events' = events
<1>1. \A r, s : CloseTask(c, r, s) = <<>> \/ CloseTask(c, r, s) = <<CloseTaskOf(c)>>
  BY Zenon DEF CloseTask, CloseTaskOf
<1>2. \A r : DropTask(c, r) = <<>> \/ DropTask(c, r) = ReleaseMessage(c)
  BY Zenon DEF DropTask
<1>3. CASE \/ Accept(c) \/ CompleteRead(c) \/ CompleteWrite(c)
           \/ ExpireReadTimer(c) \/ ExpireWriteTimer(c)
  BY <1>3, Zenon DEF HandlerTasks, Accept, CompleteRead, CompleteWrite,
     ExpireReadTimer, ExpireWriteTimer
<1>4. CASE DelegateSend(c) \/ DelegateClose(c)
  BY <1>1, <1>2, <1>4, Zenon DEF HandlerTasks, DelegateSend, DelegateClose, AddTask,
     AddTaskFront
<1>5. CASE ServiceStep(c)
  <2>1. PICK i : \/ ParseHeader(c, i) \/ ParsePacketRefused(c, i)
                 \/ ParsePacketNoProtocol(c, i) \/ ParsePacketUndecryptable(c, i)
                 \/ ParsePacketDisconnect(c, i) \/ ParsePacketLogin(c, i)
                 \/ ParsePacketLater(c, i) \/ OnWrite(c, i) \/ DestroyWrite(c, i)
                 \/ HandleTimeout(c, i) \/ OnReadTimeout(c, i) \/ OnWriteTimeout(c, i)
                 \/ OnStop(c, i)
    BY <1>5, Zenon DEF ServiceStep
  <2>2. CASE ParseHeader(c, i) \/ ParsePacketRefused(c, i) \/ ParsePacketNoProtocol(c, i)
             \/ ParsePacketUndecryptable(c, i)
    BY <1>1, <2>2, Zenon DEF HandlerTasks, ParseHeader, ParsePacketRefused,
       ParsePacketNoProtocol, ParsePacketUndecryptable, AddTask
  <2>3. CASE ParsePacketDisconnect(c, i)
    BY <1>1, <1>2, <2>3, Zenon DEF HandlerTasks, ParsePacketDisconnect, AddTask, AddTaskFront
  <2>4. CASE ParsePacketLogin(c, i)
    <3>1. taskList' = taskList \o <<DelegateTaskOf(c)>> /\ events' = events
      BY <2>4, Zenon DEF ParsePacketLogin, AddTask, DelegateTaskOf
    <3> QED
      BY <3>1, Zenon DEF HandlerTasks
  <2>5. CASE OnWrite(c, i)
    <3>1. PICK after : /\ taskList' = taskList \o CloseTask(c, conn[c], after)
                       /\ events' = events
      BY <2>5, Zenon DEF OnWrite, AddTask
    <3> QED
      BY <1>1, <3>1, Zenon DEF HandlerTasks
  <2>7. CASE OnReadTimeout(c, i) \/ OnWriteTimeout(c, i)
    BY <1>1, <2>7, Zenon DEF HandlerTasks, OnReadTimeout, OnWriteTimeout, AddTask
  <2>6. CASE \/ ParsePacketLater(c, i) \/ DestroyWrite(c, i) \/ HandleTimeout(c, i)
             \/ OnStop(c, i)
    BY <2>6, Zenon DEF HandlerTasks, ParsePacketLater, DestroyWrite, HandleTimeout, OnStop,
       AddTaskFront
  <2> QED
    BY <2>1, <2>2, <2>3, <2>4, <2>5, <2>6, <2>7, Zenon
<1> QED
  BY <1>3, <1>4, <1>5

\* The steps that neither create nor release a protocol.
LEMMA RestingIsDetachedAsBefore ==
    ASSUME NEW c, Resting(c)
    PROVE  DetachedAsBefore(c)
  BY Zenon DEF Resting, SameObjects, DetachedAsBefore

\* createConnection and onStop leave the protocol alone, the dispatcher takes and returns
\* messages of it, and the first packet creates it.
LEMMA ProtocolIsUsed ==
    ASSUME IInv, CountsAreKept, NEW c \in Conns, NEW i,
           \/ Accept(c) \/ OnStop(c, i) \/ InternalReleaseMessage(c) \/ DelegateAnswer(c)
           \/ ParsePacketUndecryptable(c, i) \/ ParsePacketDisconnect(c, i)
           \/ ParsePacketLogin(c, i)
    PROVE  DetachedAsBefore(c)
<1>1. conn[c] \in ConnType
  BY ConnTyped
<1>2. CASE Accept(c)
  <2> DEFINE r == CreateConnection(conn[c])
             s == StartRead(r, "parseHeader")
  <2>1. conn' = [conn EXCEPT ![c] = s]
    BY <1>2, Zenon DEF Accept
  <2>2. r \in ConnType /\ r.proto = conn[c].proto
    BY <1>1, Zenon DEF CreateConnection, ConnType, States
  <2> HIDE DEF r
  <2>3. s.proto = r.proto
    BY <2>2, FunctionsRest, Zenon DEF SameObjects
  <2> QED
    BY <2>1, <2>2, <2>3, Zenon DEF DetachedAsBefore
<1>3. CASE OnStop(c, i)
  <2> DEFINE r == Without(c, i)
             ready == IF r.socket = "open" THEN r.ready \o Aborted(r) ELSE r.ready
             s == [r EXCEPT !.readTimer = FALSE, !.writeTimer = FALSE,
                            !.socket = "deleted", !.managed = FALSE,
                            !.reading = "none", !.writing = FALSE, !.ready = ready]
  <2>1. Handles(c, i, "onStop") /\ conn' = [conn EXCEPT ![c] = s]
    BY <1>3, Zenon DEF OnStop
  <2>2. r \in ConnType /\ r.proto = conn[c].proto
    BY <2>1, HandlerStart, Zenon DEF SameLife
  <2> HIDE DEF r, ready
  <2>3. s.proto = r.proto
    BY <2>2, Zenon DEF ConnType
  <2> QED
    BY <2>1, <2>2, <2>3, Zenon DEF DetachedAsBefore
<1>4. CASE InternalReleaseMessage(c)
  <2> DEFINE s == [conn[c] EXCEPT !.protoRefs = @ - 1, !.refCount = @ - 1]
  <2>1. conn' = [conn EXCEPT ![c] = s]
    BY <1>4, Zenon DEF InternalReleaseMessage, IInv, TypeOK
  <2>2. s.proto = conn[c].proto
    BY <1>1, Zenon DEF ConnType
  <2> QED
    BY <2>1, <2>2, Zenon DEF DetachedAsBefore
<1>5. CASE DelegateAnswer(c)
  <2>1. conn' = [conn EXCEPT ![c] = GetOutputMessage(conn[c])]
    BY <1>5, Zenon DEF DelegateAnswer
  <2>2. GetOutputMessage(conn[c]).proto = conn[c].proto
    BY <1>1, Zenon DEF GetOutputMessage, ConnType
  <2> QED
    BY <2>1, <2>2, Zenon DEF DetachedAsBefore
<1>6. CASE \/ ParsePacketUndecryptable(c, i) \/ ParsePacketDisconnect(c, i)
           \/ ParsePacketLogin(c, i)
  <2>1. PICK s : /\ conn' = [conn EXCEPT ![c] = s]
                 /\ conn[c].proto = "none" /\ s.proto = "attached"
    BY <1>6, FirstPacketAdvances, Zenon
  <2> QED
    BY <2>1 DEF DetachedAsBefore
<1> QED
  BY <1>2, <1>3, <1>4, <1>5, <1>6

\* The tasks that are no release of a protocol.
OtherTasks == TaskNames \ {"releaseProtocol"}

\* One of them is taken and leaves retries of connection c.
LEMMA ReleasesOfTask ==
    ASSUME IInv, NEW c \in Conns, NEW u \in OtherTasks, Takes(u, c),
           taskList' = Tail(taskList),
           NEW again, again \subseteq RetriesOf(c), events' = events \cup again
    PROVE  /\ \A d \in Conns : d # c =>
                Releases(taskList', events', d) = Releases(taskList, events, d)
           /\ TaskOf("releaseProtocol", c) \notin again =>
                Releases(taskList', events', c) = Releases(taskList, events, c)
           /\ TaskOf("releaseProtocol", c) \in again /\ Releases(taskList, events, c) = 0 =>
                Releases(taskList', events', c) = 1
<1> DEFINE t == "releaseProtocol"
           e == TaskOf(t, c)
<1>1. ASSUME NEW d \in Conns, d # c
      PROVE  Releases(taskList', events', d) = Releases(taskList, events, d)
  <2>1. Tasks(taskList, t, d) = Tasks(Tail(taskList), t, d)
    BY <1>1, ListTaken, Zenon
  <2>2. TaskOf(t, d) \notin RetriesOf(c)
    BY <1>1 DEF RetriesOf, TaskOf
  <2>3. TaskOf(t, d) \in events' <=> TaskOf(t, d) \in events
    BY <2>2, Zenon
  <2> QED
    BY <2>1, <2>3, Zenon DEF Releases, One
<1>2. PICK n, m, x, y : /\ n = Tasks(taskList, t, c) /\ m = Tasks(Tail(taskList), t, c)
                        /\ x = One(e \in events) /\ y = One(e \in events')
  OBVIOUS
<1>3. n \in Nat /\ m \in Nat /\ x \in {0, 1} /\ n = m
  <2>1. n \in Nat /\ m \in Nat /\ x \in {0, 1} /\ (u # t => n = m)
    BY <1>2, ListTaken, ReleasesTyped, Zenon
  <2>2. u # t
    BY DEF OtherTasks
  <2> QED
    BY <2>1, <2>2
<1>4. /\ e \in again => y = 1
      /\ e \notin again => y = x
  BY <1>2, Zenon DEF One
<1>5. Releases(taskList, events, c) = n + x /\ Releases(taskList', events', c) = m + y
  BY <1>2, Zenon DEF Releases
<1> HIDE DEF e
<1>6. /\ e \notin again => m + y = n + x
      /\ e \in again /\ n + x = 0 => m + y = 1
  BY <1>3, <1>4
<1> QED
  BY <1>1, <1>5, <1>6, Zenon DEF e

\* ... or one.
LEMMA ReleasesOfRetry ==
    ASSUME IInv, NEW c \in Conns, Takes("releaseProtocol", c), taskList' = Tail(taskList),
           NEW again, again \subseteq RetriesOf(c), events' = events \cup again
    PROVE  /\ \A d \in Conns : d # c =>
                Releases(taskList', events', d) = Releases(taskList, events, d)
           /\ Releases(taskList, events, c) >= 1
           /\ Releases(taskList, events, c) = 1 =>
                Releases(taskList', events', c) = One(TaskOf("releaseProtocol", c) \in again)
<1> DEFINE t == "releaseProtocol"
           e == TaskOf(t, c)
<1>1. ASSUME NEW d \in Conns, d # c
      PROVE  Releases(taskList', events', d) = Releases(taskList, events, d)
  <2>1. Tasks(taskList, t, d) = Tasks(Tail(taskList), t, d)
    BY <1>1, ListTaken, Zenon
  <2>2. TaskOf(t, d) \notin RetriesOf(c)
    BY <1>1 DEF RetriesOf, TaskOf
  <2>3. TaskOf(t, d) \in events' <=> TaskOf(t, d) \in events
    BY <2>2, Zenon
  <2> QED
    BY <2>1, <2>3, Zenon DEF Releases, One
<1>2. PICK n, m, x, y : /\ n = Tasks(taskList, t, c) /\ m = Tasks(Tail(taskList), t, c)
                        /\ x = One(e \in events) /\ y = One(e \in events')
  OBVIOUS
<1>3. n \in Nat /\ m \in Nat /\ x \in {0, 1} /\ n = m + 1
  BY <1>2, ListTaken, ReleasesTyped, Zenon
<1>4. /\ e \in again => y = 1
      /\ e \notin again => y = x
  BY <1>2, Zenon DEF One
<1>5. /\ Releases(taskList, events, c) = n + x /\ Releases(taskList', events', c) = m + y
      /\ One(e \in again) = IF e \in again THEN 1 ELSE 0
  BY <1>2, Zenon DEF Releases, One
<1> HIDE DEF e
<1>6. /\ n + x >= 1
      /\ n + x = 1 => m + y = IF e \in again THEN 1 ELSE 0
  BY <1>3, <1>4
<1> QED
  BY <1>1, <1>5, <1>6, Zenon DEF e

\* Tasks that release no protocol.
LEMMA TakersReleaseNothing ==
    ASSUME IInv, NEW c \in Conns,
           InternalReleaseMessage(c) \/ DelegateAnswer(c) \/ RetryReleaseConnection(c)
    PROVE  SameReleases
<1>1. PICK u, again : /\ u \in OtherTasks /\ Takes(u, c) /\ taskList' = Tail(taskList)
                      /\ events' = events \cup again
                      /\ again = {} \/ again = {TaskOf("releaseConnection", c)}
  <2>1. {"internalReleaseMessage", "delegate", "releaseConnection"} \subseteq OtherTasks
    BY DEF OtherTasks, TaskNames
  <2>2. events = events \cup {}
    OBVIOUS
  <2>3. CASE InternalReleaseMessage(c) \/ DelegateAnswer(c)
    BY <2>1, <2>2, <2>3, Zenon DEF InternalReleaseMessage, DelegateAnswer
  <2>4. CASE RetryReleaseConnection(c)
    BY <2>1, <2>4, Zenon DEF RetryReleaseConnection, ConnectionRetry, TaskOf
  <2> QED
    BY <2>3, <2>4
<1>2. again \subseteq RetriesOf(c) /\ TaskOf("releaseProtocol", c) \notin again
  BY <1>1 DEF RetriesOf, TaskOf
<1> QED
  BY <1>1, <1>2, ReleasesOfTask, Zenon DEF SameReleases

\* closeConnection releases an attached protocol: it is deleted, or detached with a retry.
LEMMA CloseConnectionReleases ==
    ASSUME IInv, CountsAreKept, ReleasesAreCounted, NEW c \in Conns, CloseConnection(c)
    PROVE  ReleasesAreCounted'
<1> DEFINE r == conn[c]
           p == DetachProtocol(r)
           d == [p EXCEPT !.state = "CLOSING"]
           shut == CloseSocket(d)
           kept == ReleaseConnection(shut)
           released == [kept EXCEPT !.state = "CLOSED"]
           mine == TaskOf("releaseProtocol", c)
           again == (IF r.proto = "attached" THEN ProtocolRetry(c, r) ELSE {})
                    \cup (IF Finishes(r) THEN ConnectionRetry(c, r) ELSE {})
<1>1. r \in ConnType /\ Takes("closeConnection", c) /\ taskList' = Tail(taskList)
  BY ConnTyped, Zenon DEF CloseConnection
<1>2. r.state = "REQUEST_CLOSE"
  <2>1. taskList \in Seq(Task) /\ taskList # <<>> /\ Head(taskList) = [t |-> "closeConnection", c |-> c]
    BY <1>1, Zenon DEF IInv, TypeOK, Takes
  <2>2. 1 \in DOMAIN taskList /\ taskList[1] = [t |-> "closeConnection", c |-> c]
    BY <2>1
  <2>3. Queued("closeConnection", c)
    BY <2>2, Zenon DEF Queued, Positions
  <2> QED
    BY <2>3, Zenon DEF IInv, CloseRunsOnce
<1>3. /\ conn' = [conn EXCEPT ![c] = released] \/ conn' = [conn EXCEPT ![c] = d]
      /\ events' = events \cup again
  BY <1>2, Zenon DEF CloseConnection
<1>4. /\ again \subseteq RetriesOf(c)
      /\ mine \in again <=> r.proto = "attached" /\ r.protoRefs > 0
  <2>1. TaskOf("releaseProtocol", c) # TaskOf("releaseConnection", c)
    BY DEF TaskOf
  <2> QED
    BY <2>1, Zenon DEF RetriesOf, ProtocolRetry, ConnectionRetry, TaskOf
<1> HIDE DEF again
<1>5. /\ p \in ConnType
      /\ p.proto = IF r.proto = "attached" THEN ReleaseProtocol(r) ELSE r.proto
  <2>1. CASE r.proto = "attached"
    BY <1>1, <2>1, DetachFacts, Zenon DEF DetachProtocol, ConnType
  <2>2. CASE r.proto # "attached"
    BY <1>1, <2>2, Zenon DEF DetachProtocol
  <2> QED
    BY <2>1, <2>2
<1> HIDE DEF p
<1>6. d \in ConnType /\ d.proto = p.proto
  BY <1>5, Zenon DEF ConnType, States
<1> HIDE DEF d
<1>7. shut.proto = d.proto /\ shut \in ConnType
  BY <1>6, FunctionsRest, CloseSocketFacts, Zenon DEF SameObjects
<1> HIDE DEF shut
<1>8. kept.proto = shut.proto /\ kept \in ConnType
  BY <1>7, FunctionsRest, ReleaseConnectionFacts, Zenon DEF SameObjects
<1> HIDE DEF kept
<1>9. released.proto = kept.proto
  BY <1>8, Zenon DEF ConnType
<1> HIDE DEF released
<1>10. DOMAIN conn = Conns
  BY DEF IInv, TypeOK
<1>11. conn'[c].proto = p.proto /\ \A b \in Conns : b # c => conn'[b] = conn[b]
  BY <1>3, <1>6, <1>7, <1>8, <1>9, <1>10, Zenon
<1>12. /\ \A b \in Conns : b # c =>
            Releases(taskList', events', b) = Releases(taskList, events, b)
       /\ mine \notin again => Releases(taskList', events', c) = Releases(taskList, events, c)
       /\ mine \in again /\ Releases(taskList, events, c) = 0 =>
            Releases(taskList', events', c) = 1
  <2>1. "closeConnection" \in OtherTasks
    BY DEF OtherTasks, TaskNames
  <2> QED
    BY <1>1, <1>3, <1>4, <2>1, ReleasesOfTask, Zenon
<1> HIDE DEF r, mine
<1>13. Releases(taskList, events, c) = One(r.proto = "detached")
  BY Zenon DEF ReleasesAreCounted, r
<1>14. Releases(taskList', events', c) = One(p.proto = "detached")
  <2>1. CASE r.proto = "attached" /\ r.protoRefs > 0
    <3>1. p.proto = "detached" /\ Releases(taskList, events, c) = 0
      BY <1>5, <1>13, <2>1 DEF ReleaseProtocol, One
    <3> QED
      BY <1>4, <1>12, <2>1, <3>1, Zenon DEF One
  <2>2. CASE r.proto = "attached" /\ ~(r.protoRefs > 0)
    <3>1. One(p.proto = "detached") = 0 /\ Releases(taskList, events, c) = 0
      BY <1>5, <1>13, <2>2 DEF ReleaseProtocol, One
    <3> QED
      BY <1>4, <1>12, <2>2, <3>1, Zenon
  <2>3. CASE r.proto # "attached"
    BY <1>4, <1>5, <1>12, <1>13, <2>3, Zenon
  <2> QED
    BY <2>1, <2>2, <2>3
<1> QED
  BY <1>11, <1>12, <1>14, Zenon DEF ReleasesAreCounted

\* The one retry deletes the protocol, or is followed by the next.
LEMMA RetryReleaseProtocolReleases ==
    ASSUME IInv, ReleasesAreCounted, NEW c \in Conns, RetryReleaseProtocol(c)
    PROVE  ReleasesAreCounted'
<1> DEFINE r == conn[c]
           s == [r EXCEPT !.proto = ReleaseProtocol(r)]
           mine == TaskOf("releaseProtocol", c)
           again == ProtocolRetry(c, r)
<1>1. /\ Takes("releaseProtocol", c) /\ conn' = [conn EXCEPT ![c] = s] /\ r \in ConnType
      /\ taskList' = Tail(taskList) /\ events' = events \cup again
  BY ConnTyped, Zenon DEF RetryReleaseProtocol, IInv, TypeOK
<1>2. again \subseteq RetriesOf(c) /\ (mine \in again <=> r.protoRefs > 0)
  BY Zenon DEF ProtocolRetry, RetriesOf, TaskOf
<1>3. s.proto = ReleaseProtocol(r)
  BY <1>1, Zenon DEF ConnType
<1>4. conn'[c] = s /\ \A b \in Conns : b # c => conn'[b] = conn[b]
  BY <1>1, Zenon DEF IInv, TypeOK
<1>5. /\ \A b \in Conns : b # c =>
           Releases(taskList', events', b) = Releases(taskList, events, b)
      /\ Releases(taskList, events, c) >= 1
      /\ Releases(taskList, events, c) = 1 =>
           Releases(taskList', events', c) = One(mine \in again)
  BY <1>1, <1>2, ReleasesOfRetry, Zenon
<1>6. Releases(taskList, events, c) = One(r.proto = "detached")
  BY Zenon DEF ReleasesAreCounted
<1> HIDE DEF r, s, mine, again
<1>7. Releases(taskList, events, c) = 1
  BY <1>5, <1>6 DEF One
<1>8. One(mine \in again) = One(s.proto = "detached")
  BY <1>2, <1>3 DEF ReleaseProtocol, One
<1> QED
  BY <1>4, <1>5, <1>7, <1>8, Zenon DEF ReleasesAreCounted

\* The scheduler moves a retry to the list.
LEMMA SchedulerStepReleases ==
    ASSUME IInv, ReleasesAreCounted, NEW e \in Retry, SchedulerStep(e)
    PROVE  ReleasesAreCounted'
<1>1. /\ e \in events /\ events' = events \ {e} /\ taskList' = <<e>> \o taskList /\ conn' = conn
  BY Zenon DEF SchedulerStep, AddTaskFront
<1>2. PICK u \in {"releaseConnection", "releaseProtocol"}, d \in Conns : e = TaskOf(u, d)
  BY DEF Retry, TaskOf
<1>3. PICK list \in Seq(Task) : list = taskList
  BY Zenon DEF IInv, TypeOK
<1>4. PICK first : first = <<TaskOf(u, d)>>
  OBVIOUS
<1>5. first \in Seq(Task) /\ taskList' = first \o list
  BY <1>1, <1>2, <1>3, <1>4 DEF TaskOf, Task, TaskNames
<1>6. ASSUME NEW c \in Conns
      PROVE  Releases(taskList', events', c) = Releases(taskList, events, c)
  <2> DEFINE mine == TaskOf("releaseProtocol", c)
  <2>1. Tasks(first, "releaseProtocol", c) = IF u = "releaseProtocol" /\ d = c THEN 1 ELSE 0
    <3>1. Tasks(<<TaskOf(u, d)>>, "releaseProtocol", c)
            = IF u = "releaseProtocol" /\ d = c THEN 1 ELSE 0
      BY OneTask
    <3> QED
      BY <1>4, <3>1, Zenon
  <2>2. Tasks(first \o list, "releaseProtocol", c)
          = Tasks(first, "releaseProtocol", c) + Tasks(list, "releaseProtocol", c)
    BY <1>5, TasksConcat
  <2>3. mine = e <=> u = "releaseProtocol" /\ d = c
    BY <1>2 DEF TaskOf
  <2>4. PICK n, m, x, y : /\ n = Tasks(list, "releaseProtocol", c)
                          /\ m = Tasks(first \o list, "releaseProtocol", c)
                          /\ x = One(mine \in events) /\ y = One(mine \in events')
    OBVIOUS
  <2>5. n \in Nat
    BY <1>3, <2>4, TasksTyped
  <2>6. Releases(taskList, events, c) = n + x /\ Releases(taskList', events', c) = m + y
    BY <1>3, <1>5, <2>4, Zenon DEF Releases
  <2> HIDE DEF mine
  <2>7. CASE mine = e
    <3>1. x = 1 /\ y = 0
      BY <1>1, <2>4, <2>7, Zenon DEF One
    <3>2. m = 1 + n
      BY <2>1, <2>2, <2>3, <2>4, <2>7, Zenon
    <3> QED
      BY <2>5, <2>6, <3>1, <3>2
  <2>8. CASE mine # e
    <3>1. y = x
      BY <1>1, <2>4, <2>8, Zenon DEF One
    <3>2. m = 0 + n
      BY <2>1, <2>2, <2>3, <2>4, <2>8, Zenon
    <3>3. m = n
      BY <2>5, <3>2
    <3> QED
      BY <2>6, <3>1, <3>3, Zenon
  <2> QED
    BY <2>7, <2>8
<1> QED
  BY <1>1, <1>6, Zenon DEF ReleasesAreCounted

\* Before the first connection is accepted no protocol is being released ...
LEMMA InitReleases == Init => ReleasesAreCounted
<1> SUFFICES ASSUME Init, NEW c \in Conns
             PROVE  Releases(taskList, events, c) = One(conn[c].proto = "detached")
  BY Zenon DEF ReleasesAreCounted
<1>1. taskList = <<>> /\ events = {} /\ conn[c] = NewConnection
  BY Zenon DEF Init
<1>2. Tasks(<<>>, "releaseProtocol", c) = 0
  BY NoTask
<1>3. Tasks(taskList, "releaseProtocol", c) = 0
  BY <1>1, <1>2, Zenon
<1>4. One(TaskOf("releaseProtocol", c) \in events) = 0
  BY <1>1, Zenon DEF One
<1>5. One(conn[c].proto = "detached") = 0
  BY <1>1 DEF NewConnection, One
<1> QED
  BY <1>3, <1>4, <1>5 DEF Releases

\* ... and every step of every thread keeps the count.
LEMMA NextReleases ==
    IInv /\ CountsAreKept /\ ReleasesAreCounted /\ [Next]_vars => ReleasesAreCounted'
<1> SUFFICES ASSUME IInv, CountsAreKept, ReleasesAreCounted, [Next]_vars
             PROVE  ReleasesAreCounted'
  OBVIOUS
<1>1. ASSUME NEW c \in Conns,
             \/ Accept(c) \/ CompleteRead(c) \/ CompleteWrite(c)
             \/ ExpireReadTimer(c) \/ ExpireWriteTimer(c)
             \/ ServiceStep(c) \/ DelegateSend(c) \/ DelegateClose(c)
      PROVE  ReleasesAreCounted'
  <2>1. SameReleases
    BY <1>1, HandlersAdd, HandlersReleaseNothing, Zenon
  <2>2. CASE \/ CompleteRead(c) \/ CompleteWrite(c)
             \/ ExpireReadTimer(c) \/ ExpireWriteTimer(c)
             \/ DelegateSend(c) \/ DelegateClose(c)
    BY <2>1, <2>2, CompletionRests, DispatchingRests, RestingIsDetachedAsBefore,
       ReleasesKept, Zenon
  <2>3. CASE ServiceStep(c)
    <3>1. PICK i : \/ ParseHeader(c, i) \/ ParsePacketRefused(c, i)
                   \/ ParsePacketNoProtocol(c, i) \/ ParsePacketUndecryptable(c, i)
                   \/ ParsePacketDisconnect(c, i) \/ ParsePacketLogin(c, i)
                   \/ ParsePacketLater(c, i) \/ OnWrite(c, i) \/ DestroyWrite(c, i)
                   \/ HandleTimeout(c, i) \/ OnReadTimeout(c, i) \/ OnWriteTimeout(c, i)
                   \/ OnStop(c, i)
      BY <2>3, Zenon DEF ServiceStep
    <3>2. DetachedAsBefore(c)
      BY <3>1, ParsingRests, TimingRests, OnWriteRests, RestingIsDetachedAsBefore,
         ProtocolIsUsed, Zenon
    <3> QED
      BY <2>1, <3>2, ReleasesKept, Zenon
  <2>4. CASE Accept(c)
    BY <2>1, <2>4, ProtocolIsUsed, ReleasesKept, Zenon
  <2> QED
    BY <1>1, <2>2, <2>3, <2>4
<1>2. ASSUME NEW c \in Conns,
             InternalReleaseMessage(c) \/ DelegateAnswer(c) \/ RetryReleaseConnection(c)
      PROVE  ReleasesAreCounted'
  <2>1. SameReleases
    BY <1>2, TakersReleaseNothing, Zenon
  <2>2. DetachedAsBefore(c)
    BY <1>2, ProtocolIsUsed, DispatchingRests, RestingIsDetachedAsBefore, Zenon
  <2> QED
    BY <2>1, <2>2, ReleasesKept, Zenon
<1>3. CASE \E e \in Retry : SchedulerStep(e)
  BY <1>3, SchedulerStepReleases, Zenon
<1>4. CASE UNCHANGED vars
  BY <1>4, Zenon DEF vars, ReleasesAreCounted
<1>5. ASSUME NEW c \in Conns, CloseConnection(c) \/ RetryReleaseProtocol(c)
      PROVE  ReleasesAreCounted'
  BY <1>5, CloseConnectionReleases, RetryReleaseProtocolReleases, Zenon
<1> QED
  BY <1>1, <1>2, <1>3, <1>4, <1>5, Zenon DEF Next, DispatcherStep

\* For every set of connections and number of service threads, a protocol that
\* closeConnection detached while a message still refers to it has exactly one
\* releaseProtocol to come, which deletes it; no other protocol has any.
THEOREM ProtocolReleased == Spec => []ProtocolReleasedOnce
<1>1. ReleasesAreCounted => ProtocolReleasedOnce
  <2> SUFFICES ASSUME ReleasesAreCounted, NEW c \in Conns
               PROVE  Cardinality(Positions("releaseProtocol", c))
                        + One([t |-> "releaseProtocol", c |-> c] \in events)
                      = One(conn[c].proto = "detached")
    BY Zenon DEF ProtocolReleasedOnce
  <2>1. Cardinality(Positions("releaseProtocol", c)) = Tasks(taskList, "releaseProtocol", c)
    BY PositionsCounted, Zenon
  <2> QED
    BY <2>1, Zenon DEF ReleasesAreCounted, Releases, TaskOf
<1> QED
  BY <1>1, InitReleases, NextReleases, CountsInvariance, PTL DEF Spec

\* So both objects are released once: the connection through closeConnection, its
\* retries and onStop, the protocol through the retries of releaseProtocol.
THEOREM ReleaseChain == Spec => []OneReleaseChain
<1>1. ConnectionReleasedOnce /\ ProtocolReleasedOnce => OneReleaseChain
  BY DEF OneReleaseChain
<1> QED
  BY ConnectionReleased, ProtocolReleased, <1>1, PTL

-----------------------------------------------------------------------------
(* The timers. The invariant: an operation in the kernel is counted and its   *)
(* timer is armed or has expired; and while a read is in the kernel no        *)
(* handler of another read is queued, which would cancel the timer.           *)

ReadTimeouts == {"handleReadTimeout", "onReadTimeout"}
WriteTimeouts == {"handleWriteTimeout", "onWriteTimeout"}

Waits(queue, names) == \E i \in DOMAIN queue : queue[i].h \in names

TimedRead(r) ==
    r.reading # "none" => /\ r.pendingRead > 0
                          /\ r.readTimer \/ Waits(r.ready, ReadTimeouts)
                          /\ ~Waits(r.ready, ReadHandlers)
TimedWrite(r) ==
    r.writing => r.pendingWrite > 0 /\ (r.writeTimer \/ Waits(r.ready, WriteTimeouts))

TimesAreKept == \A c \in Conns : TimedRead(conn[c]) /\ TimedWrite(conn[c])

\* A handler waits when it is counted.
LEMMA WaitsIsCounted ==
    ASSUME NEW queue \in Seq(Handler), NEW N
    PROVE  Waits(queue, N) <=> Among(queue, N) # 0
<1>1. ASSUME Among(queue, N) = 0 PROVE ~Waits(queue, N)
  BY <1>1, AmongNone, Zenon DEF Waits
<1>2. ASSUME ~Waits(queue, N) PROVE Among(queue, N) = 0
  <2>1. {i \in DOMAIN queue : queue[i].h \in N} = {}
    BY <1>2 DEF Waits
  <2> QED
    BY <2>1, FS_EmptySet DEF Among
<1> QED
  BY <1>1, <1>2

\* What waits in two queues joined waits in one of them.
LEMMA WaitsInJoined ==
    ASSUME NEW q \in Seq(Handler), NEW t \in Seq(Handler), NEW N
    PROVE  Waits(q \o t, N) <=> Waits(q, N) \/ Waits(t, N)
<1>1. q \o t \in Seq(Handler)
  OBVIOUS
<1>2. PICK a, b, x : a = Among(q, N) /\ b = Among(t, N) /\ x = Among(q \o t, N)
  OBVIOUS
<1>3. a \in Nat /\ b \in Nat /\ x = a + b
  BY <1>2, AmongType, AmongConcat, Zenon
<1>4. /\ Waits(q, N) <=> a # 0
      /\ Waits(t, N) <=> b # 0
      /\ Waits(q \o t, N) <=> x # 0
  BY <1>1, <1>2, WaitsIsCounted, Zenon
<1>5. x # 0 <=> a # 0 \/ b # 0
  BY <1>3
<1> QED
  BY <1>4, <1>5, Zenon

\* The handler the io_context queues waits under its own name only.
LEMMA WaitsReady ==
    ASSUME NEW name \in HandlerNames, NEW err \in Outcomes, NEW N
    PROVE  OnReady(name, err) \in Seq(Handler) /\ (Waits(OnReady(name, err), N) <=> name \in N)
<1>1. OnReady(name, err) \in Seq(Handler)
  BY DEF OnReady, Handler
<1>2. Waits(OnReady(name, err), N) <=> One(name \in N) # 0
  BY <1>1, WaitsIsCounted, AmongReady, Zenon
<1> QED
  BY <1>1, <1>2 DEF One

\* A handler that leaves the queue takes away its own name at most.
LEMMA WaitsWithout ==
    ASSUME NEW q \in Seq(Handler), NEW i \in DOMAIN q, NEW N
    PROVE  /\ RemoveAt(q, i) \in Seq(Handler)
           /\ Waits(RemoveAt(q, i), N) => Waits(q, N)
           /\ q[i].h \notin N => (Waits(RemoveAt(q, i), N) <=> Waits(q, N))
           /\ q[i].h \in N => Waits(q, N)
<1>1. "onStop" \in HandlerNames
  BY DEF HandlerNames
<1>2. PICK a, x : a = Among(q, N) /\ x = Among(RemoveAt(q, i), N)
  OBVIOUS
<1>3. RemoveAt(q, i) \in Seq(Handler) /\ a = x + One(q[i].h \in N)
  BY <1>1, <1>2, AmongReplace, Zenon
<1>4. a \in Nat /\ x \in Nat
  BY <1>2, <1>3, AmongType, Zenon
<1>5. (Waits(q, N) <=> a # 0) /\ (Waits(RemoveAt(q, i), N) <=> x # 0)
  BY <1>2, <1>3, WaitsIsCounted, Zenon
<1>6. /\ x # 0 => a # 0
      /\ q[i].h \notin N => (x # 0 <=> a # 0)
  BY <1>3, <1>4 DEF One
<1>7. q[i].h \in N => Waits(q, N)
  BY Zenon DEF Waits
<1> QED
  BY <1>3, <1>5, <1>6, <1>7, Zenon

\* A handler renamed inside a set of names still waits under it.
LEMMA WaitsRenamed ==
    ASSUME NEW q \in Seq(Handler), NEW i \in DOMAIN q, NEW name \in HandlerNames, NEW N,
           q[i].h \in N <=> name \in N
    PROVE  Waits([q EXCEPT ![i].h = name], N) <=> Waits(q, N)
<1> DEFINE p == [q EXCEPT ![i].h = name]
<1>1. PICK a, b, x : a = Among(q, N) /\ b = Among(p, N) /\ x = Among(RemoveAt(q, i), N)
  OBVIOUS
<1>2. p \in Seq(Handler) /\ a = x + One(q[i].h \in N) /\ b = x + One(name \in N)
  <2>1. /\ p \in Seq(Handler)
        /\ Among(q, N) = Among(RemoveAt(q, i), N) + One(q[i].h \in N)
        /\ Among(p, N) = Among(RemoveAt(q, i), N) + One(name \in N)
    BY AmongReplace
  <2> HIDE DEF p
  <2> QED
    BY <1>1, <2>1, Zenon
<1>3. One(q[i].h \in N) = One(name \in N)
  <2>1. CASE name \in N
    BY <2>1, Zenon DEF One
  <2>2. CASE name \notin N
    BY <2>2, Zenon DEF One
  <2> QED
    BY <2>1, <2>2
<1> HIDE DEF p
<1>4. a = b
  BY <1>2, <1>3, Zenon
<1> QED
  BY <1>1, <1>2, <1>4, WaitsIsCounted, Zenon DEF p

-----------------------------------------------------------------------------
(* What the member functions do to the times.                                 *)

SameRead(r, s) ==
    /\ s.reading = r.reading /\ s.pendingRead = r.pendingRead /\ s.readTimer = r.readTimer
    /\ Waits(s.ready, ReadTimeouts) <=> Waits(r.ready, ReadTimeouts)
    /\ Waits(s.ready, ReadHandlers) <=> Waits(r.ready, ReadHandlers)
SameWrite(r, s) ==
    /\ s.writing = r.writing /\ s.pendingWrite = r.pendingWrite /\ s.writeTimer = r.writeTimer
    /\ Waits(s.ready, WriteTimeouts) <=> Waits(r.ready, WriteTimeouts)
SameTimes(r, s) == SameRead(r, s) /\ SameWrite(r, s)

\* What is the same in two steps is timed after them as before.
LEMMA SameTimed ==
    ASSUME NEW r, NEW s
    PROVE  /\ SameRead(r, s) /\ TimedRead(r) => TimedRead(s)
           /\ SameWrite(r, s) /\ TimedWrite(r) => TimedWrite(s)
           /\ \A t : SameRead(r, s) /\ SameRead(s, t) => SameRead(r, t)
           /\ \A t : SameWrite(r, s) /\ SameWrite(s, t) => SameWrite(r, t)
<1>1. SameRead(r, s) /\ TimedRead(r) => TimedRead(s)
  BY Zenon DEF SameRead, TimedRead
<1>2. SameWrite(r, s) /\ TimedWrite(r) => TimedWrite(s)
  BY Zenon DEF SameWrite, TimedWrite
<1>3. \A t : SameRead(r, s) /\ SameRead(s, t) => SameRead(r, t)
  BY Zenon DEF SameRead
<1>4. \A t : SameWrite(r, s) /\ SameWrite(s, t) => SameWrite(r, t)
  BY Zenon DEF SameWrite
<1> QED
  BY <1>1, <1>2, <1>3, <1>4

\* close, the error flags, the state, the protocol and the references are no matter of
\* time; reads and writes do not touch each other's timers.
LEMMA FunctionsKeepTimes ==
    ASSUME NEW r \in ConnType
    PROVE  /\ SameTimes(r, Close(r))
           /\ SameTimes(r, GetOutputMessage(r))
           /\ SameTimes(r, CreateConnection(r))
           /\ \A b : SameTimes(r, [r EXCEPT !.readError = b])
           /\ \A b : SameTimes(r, [r EXCEPT !.writeError = b])
           /\ \A x : SameTimes(r, [r EXCEPT !.state = x])
           /\ \A x : SameTimes(r, [r EXCEPT !.proto = x])
           /\ SameTimes(r, [r EXCEPT !.protoRefs = @ - 1, !.refCount = @ - 1])
           /\ \A h : SameWrite(r, StartRead(r, h))
           /\ \A b : SameWrite(r, [r EXCEPT !.readTimer = b])
           /\ SameWrite(r, [r EXCEPT !.pendingRead = @ - 1])
           /\ SameWrite(r, [r EXCEPT !.pendingRead = @ - 1, !.receivedFirst = TRUE])
           /\ \A x : SameWrite(r, [r EXCEPT !.pendingRead = @ - 1, !.receivedFirst = TRUE,
                                            !.proto = x])
           /\ SameRead(r, Send(r))
           /\ \A b : SameRead(r, [r EXCEPT !.writeTimer = b])
           /\ SameRead(r, [r EXCEPT !.pendingWrite = @ - 1])
<1>1. SameTimes(r, Close(r))
  <2>1. CASE r.state = "OPEN"
    BY <2>1, Zenon DEF Close, ConnType, SameTimes, SameRead, SameWrite
  <2>2. CASE r.state # "OPEN"
    BY <2>2, Zenon DEF Close, SameTimes, SameRead, SameWrite
  <2> QED
    BY <2>1, <2>2
<1>2. SameRead(r, Send(r))
  <2>1. CASE Sendable(r)
    BY <2>1, Zenon DEF Send, ConnType, SameRead
  <2>2. CASE ~Sendable(r)
    BY <2>2, Zenon DEF Send, SameRead
  <2> QED
    BY <2>1, <2>2
<1>3. SameTimes(r, GetOutputMessage(r)) /\ SameTimes(r, CreateConnection(r))
  BY Zenon DEF GetOutputMessage, CreateConnection, ConnType, SameTimes, SameRead, SameWrite
<1>4. /\ \A b : SameTimes(r, [r EXCEPT !.readError = b])
      /\ \A b : SameTimes(r, [r EXCEPT !.writeError = b])
      /\ \A x : SameTimes(r, [r EXCEPT !.state = x])
      /\ \A x : SameTimes(r, [r EXCEPT !.proto = x])
      /\ SameTimes(r, [r EXCEPT !.protoRefs = @ - 1, !.refCount = @ - 1])
  BY Zenon DEF ConnType, SameTimes, SameRead, SameWrite
<1>5. /\ \A h : SameWrite(r, StartRead(r, h))
      /\ \A b : SameWrite(r, [r EXCEPT !.readTimer = b])
      /\ SameWrite(r, [r EXCEPT !.pendingRead = @ - 1])
      /\ SameWrite(r, [r EXCEPT !.pendingRead = @ - 1, !.receivedFirst = TRUE])
      /\ \A x : SameWrite(r, [r EXCEPT !.pendingRead = @ - 1, !.receivedFirst = TRUE,
                                       !.proto = x])
  BY Zenon DEF StartRead, ConnType, SameWrite
<1>6. /\ \A b : SameRead(r, [r EXCEPT !.writeTimer = b])
      /\ SameRead(r, [r EXCEPT !.pendingWrite = @ - 1])
  BY Zenon DEF ConnType, SameRead
<1> QED
  BY <1>1, <1>2, <1>3, <1>4, <1>5, <1>6, Zenon

\* closeSocket ends what is in the kernel, or finds the socket closed before.
LEMMA ClosedIsTimed ==
    ASSUME NEW r \in ConnType
    PROVE  LET s == CloseSocket(r) IN
           /\ TimedRead(r) => TimedRead(s)
           /\ TimedWrite(r) => TimedWrite(s)
           /\ r.reading = "none" \/ r.socket = "open" => s.reading = "none"
           /\ ~r.writing \/ r.socket = "open" => ~s.writing
<1>1. CASE r.socket = "open"
  <2>1. CloseSocket(r).reading = "none" /\ CloseSocket(r).writing = FALSE
    BY <1>1, Zenon DEF CloseSocket, ConnType
  <2> QED
    BY <2>1, Zenon DEF TimedRead, TimedWrite
<1>2. CASE r.socket # "open"
  <2>1. CloseSocket(r) = r
    BY <1>2, Zenon DEF CloseSocket
  <2> QED
    BY <1>2, <2>1, Zenon
<1> QED
  BY <1>1, <1>2

\* The onStop that releaseConnection queues is neither a read nor a timeout.
LEMMA ReleaseKeepsTimes ==
    ASSUME NEW r \in ConnType
    PROVE  SameTimes(r, ReleaseConnection(r))
<1>1. CASE r.refCount > 0
  <2>1. ReleaseConnection(r) = r
    BY <1>1, Zenon DEF ReleaseConnection
  <2> QED
    BY <2>1, Zenon DEF SameTimes, SameRead, SameWrite
<1>2. CASE ~(r.refCount > 0)
  <2> DEFINE e == OnReady("onStop", "ok")
             s == [r EXCEPT !.ready = @ \o e]
  <2>1. ReleaseConnection(r) = s
    BY <1>2, Zenon DEF ReleaseConnection
  <2>2. e \in Seq(Handler) /\ r.ready \in Seq(Handler)
        /\ \A N : "onStop" \notin N => ~Waits(e, N)
    <3>1. "onStop" \in HandlerNames /\ "ok" \in Outcomes
      BY DEF HandlerNames, Outcomes
    <3> QED
      BY <3>1, WaitsReady, Zenon DEF ConnType
  <2>3. /\ "onStop" \notin ReadTimeouts /\ "onStop" \notin WriteTimeouts
        /\ "onStop" \notin ReadHandlers
    BY DEF ReadTimeouts, WriteTimeouts, ReadHandlers
  <2> HIDE DEF e
  <2>4. /\ s.reading = r.reading /\ s.pendingRead = r.pendingRead /\ s.readTimer = r.readTimer
        /\ s.writing = r.writing /\ s.pendingWrite = r.pendingWrite
        /\ s.writeTimer = r.writeTimer /\ s.ready = r.ready \o e
    BY Zenon DEF ConnType
  <2> HIDE DEF s
  <2>5. ASSUME NEW N, "onStop" \notin N PROVE Waits(s.ready, N) <=> Waits(r.ready, N)
    <3>1. Waits(r.ready \o e, N) <=> Waits(r.ready, N) \/ Waits(e, N)
      BY <2>2, WaitsInJoined, Zenon
    <3> QED
      BY <2>2, <2>4, <2>5, <3>1, Zenon
  <2> QED
    BY <2>1, <2>3, <2>4, <2>5, Zenon DEF SameTimes, SameRead, SameWrite
<1> QED
  BY <1>1, <1>2

\* The read is over, and no other has been queued: the next one may start.
ReadOver(r) == r.reading = "none" /\ r.pendingRead = 0 /\ ~Waits(r.ready, ReadHandlers)

\* A read starts with its timer armed, and so does a write.
LEMMA StartsAreTimed ==
    ASSUME NEW r \in ConnType
    PROVE  /\ ReadOver(r) => \A h : TimedRead(StartRead(r, h))
           /\ TimedWrite(r) /\ (r.state = "OPEN" => r.pendingWrite >= 0) => TimedWrite(Send(r))
           /\ \A s : SameRead(r, s) /\ ReadOver(r) => ReadOver(s)
<1>1. ASSUME ReadOver(r), NEW h PROVE TimedRead(StartRead(r, h))
  <2>1. /\ StartRead(r, h).pendingRead = r.pendingRead + 1 /\ StartRead(r, h).readTimer = TRUE
        /\ StartRead(r, h).ready = r.ready
    BY Zenon DEF StartRead, ConnType
  <2>2. r.pendingRead + 1 > 0
    BY <1>1 DEF ReadOver
  <2> QED
    BY <1>1, <2>1, <2>2, Zenon DEF ReadOver, TimedRead
<1>2. ASSUME TimedWrite(r), r.state = "OPEN" => r.pendingWrite >= 0 PROVE TimedWrite(Send(r))
  <2>1. CASE Sendable(r)
    <3>1. Send(r).pendingWrite = r.pendingWrite + 1 /\ Send(r).writeTimer = TRUE
      BY <2>1, Zenon DEF Send, ConnType
    <3>2. r.pendingWrite \in Int /\ r.pendingWrite >= 0
      BY <1>2, <2>1, Zenon DEF Sendable, ConnType
    <3>3. r.pendingWrite + 1 > 0
      BY <3>2
    <3> QED
      BY <3>1, <3>3, Zenon DEF TimedWrite
  <2>2. CASE ~Sendable(r)
    BY <1>2, <2>2, Zenon DEF Send
  <2> QED
    BY <2>1, <2>2
<1>3. \A s : SameRead(r, s) /\ ReadOver(r) => ReadOver(s)
  BY Zenon DEF SameRead, ReadOver
<1> QED
  BY <1>1, <1>2, <1>3, Zenon

-----------------------------------------------------------------------------
(* What each step does to the times.                                          *)

\* The step changes connection c, and its operations are timed after it.
Timing(c) == \E s : conn' = [conn EXCEPT ![c] = s] /\ TimedRead(s) /\ TimedWrite(s)

\* A step of one connection does not touch the times of the others.
LEMMA TimesAfter ==
    ASSUME IInv, TimesAreKept, NEW c \in Conns, Timing(c)
    PROVE  TimesAreKept'
<1>1. PICK s : conn' = [conn EXCEPT ![c] = s] /\ TimedRead(s) /\ TimedWrite(s)
  BY Zenon DEF Timing
<1>2. DOMAIN conn = Conns
  BY DEF IInv, TypeOK
<1>3. conn'[c] = s /\ \A d \in Conns : d # c => conn'[d] = conn[d]
  BY <1>1, <1>2, Zenon
<1>4. ASSUME NEW d \in Conns PROVE TimedRead(conn'[d]) /\ TimedWrite(conn'[d])
  <2>1. CASE d = c
    BY <1>1, <1>3, <2>1, Zenon
  <2>2. CASE d # c
    BY <1>3, <2>2, Zenon DEF TimesAreKept
  <2> QED
    BY <2>1, <2>2
<1> QED
  BY <1>4, Zenon DEF TimesAreKept

\* What the counts say before a step: an open connection counts its operations, a socket
\* that was closed has none, and a write's handler comes after the write.
LEMMA OperationsBefore ==
    ASSUME IInv, CountsAreKept, NEW c \in Conns
    PROVE  LET r == conn[c] IN
           /\ r.state = "OPEN" => r.pendingRead = 1 /\ r.pendingWrite >= 0
           /\ r.socket # "open" => r.reading = "none" /\ ~r.writing
           /\ Waits(r.ready, {"onWrite"}) => ~r.writing
<1> DEFINE q == Summary(conn[c])
           k == Pending(taskList, running, events, c)
<1>1. /\ Numbers(q) /\ Amounts(k) /\ MessagesAreCounted(q, k) /\ SocketIsCounted(q)
      /\ q.state = conn[c].state /\ q.socket = conn[c].socket /\ conn[c] \in ConnType
  BY CountsBefore, Zenon
<1>2. /\ q.pendingRead = conn[c].pendingRead /\ q.pendingWrite = conn[c].pendingWrite
      /\ q.reading = One(conn[c].reading # "none") /\ q.writing = One(conn[c].writing)
      /\ q.messages = Among(conn[c].ready, {"onWrite", "~onWrite"})
  BY DEF Summary
<1>3. conn[c].ready \in Seq(Handler)
  BY <1>1, Zenon DEF ConnType
<1> HIDE DEF q, k
<1>4. ASSUME q.state = "OPEN" PROVE q.pendingRead = 1 /\ q.pendingWrite >= 0
  <2>1. q.pendingRead = 1 /\ q.pendingWrite = q.writing + q.writers
    BY <1>1, <1>4, SMT DEF SocketIsCounted
  <2>2. q.writing \in Int /\ q.writing >= 0 /\ q.writers \in Int /\ q.writers >= 0
    BY <1>1 DEF Numbers
  <2>3. \A a, b \in Int : a >= 0 /\ b >= 0 => a + b >= 0
    OBVIOUS
  <2> QED
    BY <2>1, <2>2, <2>3, Zenon
<1>5. /\ One(conn[c].reading # "none") = 0 => conn[c].reading = "none"
      /\ One(conn[c].writing) = 0 => ~conn[c].writing
  BY DEF One
<1>6. ASSUME q.socket # "open" PROVE q.reading = 0 /\ q.writing = 0
  BY <1>1, <1>6, SMT DEF SocketIsCounted
<1>7. ASSUME Waits(conn[c].ready, {"onWrite"}) PROVE q.writing = 0
  <2>1. Waits(conn[c].ready, {"onWrite", "~onWrite"})
    BY <1>7, Zenon DEF Waits
  <2>2. q.messages # 0
    BY <1>2, <1>3, <2>1, WaitsIsCounted, Zenon
  <2>3. q.refCount = q.writing + q.messages + k.message /\ q.refCount + k.delegate <= 1
    BY <1>1, SMT DEF MessagesAreCounted
  <2>4. /\ q.writing \in Int /\ q.writing >= 0 /\ q.messages \in Int /\ q.messages >= 0
        /\ k.message \in Int /\ k.message >= 0 /\ k.delegate \in Int /\ k.delegate >= 0
    BY <1>1 DEF Numbers, Amounts
  <2>5. \A a, b, d, e \in Int :
          a >= 0 /\ b >= 0 /\ d >= 0 /\ e >= 0 /\ (a + b + d) + e <= 1 /\ b # 0 => a = 0
    OBVIOUS
  <2>6. (q.writing + q.messages + k.message) + k.delegate <= 1
    BY <2>3, Zenon
  <2> QED
    BY <2>2, <2>4, <2>5, <2>6, Zenon
<1> QED
  BY <1>1, <1>2, <1>4, <1>5, <1>6, <1>7, Zenon

\* A handler leaves the queue. The timeout of the other operation is still there; and a
\* read handler finds no read in the kernel.
LEMMA HandlerTimes ==
    ASSUME IInv, TimesAreKept, NEW c \in Conns, NEW i, NEW name, Handles(c, i, name)
    PROVE  LET r == Without(c, i) IN
           /\ r \in ConnType
           /\ r.reading = conn[c].reading /\ r.pendingRead = conn[c].pendingRead
           /\ r.writing = conn[c].writing /\ r.pendingWrite = conn[c].pendingWrite
           /\ r.socket = conn[c].socket /\ r.ready = RemoveAt(conn[c].ready, i)
           /\ name \notin ReadTimeouts => TimedRead(r)
           /\ name \notin WriteTimeouts => TimedWrite(r)
           /\ name \in ReadHandlers => r.reading = "none"
           /\ Waits(conn[c].ready, {name})
<1> DEFINE q == conn[c].ready
           left == RemoveAt(q, i)
           r == [conn[c] EXCEPT !.ready = left]
<1>1. conn[c] \in ConnType /\ r \in ConnType /\ r = Without(c, i)
  BY ConnTyped, HandlerStart, Zenon DEF Without
<1>2. q \in Seq(Handler) /\ i \in DOMAIN q /\ q[i].h = name
  BY <1>1, Zenon DEF ConnType, Handles, InProgress
<1>3. ASSUME NEW N
      PROVE  /\ Waits(left, N) => Waits(q, N)
             /\ name \notin N /\ Waits(q, N) => Waits(left, N)
             /\ name \in N => Waits(q, N)
  BY <1>2, WaitsWithout, Zenon
<1>4. TimedRead(conn[c]) /\ TimedWrite(conn[c])
  BY Zenon DEF TimesAreKept
<1> HIDE DEF q, left
<1>5. /\ r.reading = conn[c].reading /\ r.pendingRead = conn[c].pendingRead
      /\ r.readTimer = conn[c].readTimer /\ r.writeTimer = conn[c].writeTimer
      /\ r.writing = conn[c].writing /\ r.pendingWrite = conn[c].pendingWrite
      /\ r.socket = conn[c].socket /\ r.ready = left
  BY <1>1, Zenon DEF ConnType
<1> HIDE DEF r
<1>6. name \notin ReadTimeouts => TimedRead(r)
  BY <1>3, <1>4, <1>5, Zenon DEF TimedRead, q
<1>7. name \notin WriteTimeouts => TimedWrite(r)
  BY <1>3, <1>4, <1>5, Zenon DEF TimedWrite, q
<1>8. name \in ReadHandlers => r.reading = "none"
  BY <1>3, <1>4, <1>5, Zenon DEF TimedRead, q
<1>9. Waits(q, {name})
  BY <1>3, Zenon
<1> QED
  BY <1>1, <1>5, <1>6, <1>7, <1>8, <1>9, Zenon DEF q, left

\* A read handler up to its checks: its read is over, and when the connection is open it
\* was the only one.
LEMMA PacketStartTimes ==
    ASSUME IInv, CountsAreKept, TimesAreKept, NEW c \in Conns, NEW i,
           NEW name \in ReadHandlers, Handles(c, i, name)
    PROVE  LET s == PacketStart(c, i) IN
           /\ s \in ConnType /\ s.reading = "none" /\ TimedWrite(s)
           /\ s.state = "OPEN" => /\ s.pendingRead = 1 /\ s.pendingWrite >= 0
                                  /\ ~Waits(s.ready, ReadHandlers)
<1> DEFINE err == conn[c].ready[i].err
           w == Without(c, i)
           r == [w EXCEPT !.readTimer = FALSE]
           closed == Close(r)
           s == PacketStart(c, i)
<1>1. /\ w \in ConnType /\ r \in ConnType /\ s \in ConnType
      /\ s.state = conn[c].state \/ (conn[c].state = "OPEN" /\ s.state = "REQUEST_CLOSE")
  BY HandlerStart, Zenon
<1>2. /\ w.reading = "none" /\ TimedWrite(w)
      /\ w.pendingRead = conn[c].pendingRead /\ w.pendingWrite = conn[c].pendingWrite
  <2>1. name \notin WriteTimeouts
    BY DEF ReadHandlers, WriteTimeouts
  <2> QED
    BY <2>1, HandlerTimes, Zenon
<1>3. s = IF err = "ok" THEN r ELSE HandleReadError(r, err)
  BY Zenon DEF PacketStart
<1>4. ASSUME s.state = "OPEN" PROVE ~Waits(s.ready, ReadHandlers)
  <2> DEFINE q == Summary(conn[c])
             k == Pending(taskList, running, events, c)
             a == Summary(s)
  <2>1. /\ Numbers(q) /\ SocketIsCounted(q) /\ q.state = conn[c].state
    BY CountsBefore, Zenon
  <2>2. a.readers + 1 = q.readers
    BY SummaryOfPacketStart, Zenon
  <2>3. Numbers(a)
    BY <1>1, SummaryNumbers, Zenon
  <2>4. a.readers = Among(s.ready, ReadHandlers)
    BY DEF Summary
  <2>5. conn[c].state = "OPEN"
    BY <1>1, <1>4
  <2> HIDE DEF q, k, a, s
  <2>6. q.reading + q.readers = 1
    BY <2>1, <2>5, SMT DEF SocketIsCounted
  <2>7. /\ q.reading \in Int /\ q.reading >= 0 /\ q.readers \in Int
        /\ a.readers \in Int /\ a.readers >= 0
    BY <2>1, <2>3 DEF Numbers
  <2>8. a.readers = 0
    BY <2>2, <2>6, <2>7
  <2>9. s.ready \in Seq(Handler)
    BY <1>1, Zenon DEF ConnType
  <2> QED
    BY <2>4, <2>8, <2>9, WaitsIsCounted, Zenon
<1> HIDE DEF w, err, s
<1>5. SameWrite(w, r) /\ r.reading = "none" /\ r.pendingRead = w.pendingRead
      /\ r.pendingWrite = w.pendingWrite
  BY <1>1, <1>2, FunctionsKeepTimes, Zenon DEF ConnType
<1> HIDE DEF r
<1>6. closed \in ConnType /\ SameTimes(r, closed) /\ SameTimes(r, [r EXCEPT !.readError = TRUE])
  BY <1>1, CloseFacts, FunctionsKeepTimes, Zenon
<1> HIDE DEF closed
<1>7. SameTimes(closed, [closed EXCEPT !.readError = TRUE])
  BY <1>6, FunctionsKeepTimes, Zenon
<1>8. SameTimes(r, s)
  <2>1. CASE err = "ok"
    BY <1>3, <2>1, Zenon DEF SameTimes, SameRead, SameWrite
  <2>2. CASE err # "ok" /\ err = "aborted"
    BY <1>3, <1>6, <2>2, Zenon DEF HandleReadError
  <2>3. CASE err # "ok" /\ err # "aborted"
    <3>1. s = [closed EXCEPT !.readError = TRUE]
      BY <1>3, <2>3, Zenon DEF HandleReadError, closed
    <3> QED
      BY <1>6, <1>7, <3>1, SameTimed, Zenon DEF SameTimes
  <2> QED
    BY <2>1, <2>2, <2>3
<1>9. SameWrite(w, s)
  BY <1>5, <1>8, SameTimed, Zenon DEF SameTimes
<1>10. TimedWrite(s)
  BY <1>2, <1>9, SameTimed, Zenon
<1>11. /\ s.reading = "none" /\ s.pendingRead = conn[c].pendingRead
       /\ s.pendingWrite = conn[c].pendingWrite
  BY <1>2, <1>5, <1>8, Zenon DEF SameTimes, SameRead, SameWrite
<1>12. s.state = "OPEN" => s.pendingRead = 1 /\ s.pendingWrite >= 0
  <2> SUFFICES ASSUME s.state = "OPEN" PROVE s.pendingRead = 1 /\ s.pendingWrite >= 0
    OBVIOUS
  <2>1. conn[c].state = "OPEN"
    BY <1>1
  <2> QED
    BY <1>11, <2>1, OperationsBefore, Zenon
<1> QED
  BY <1>1, <1>4, <1>10, <1>11, <1>12, Zenon DEF s

\* A connection without a read in the kernel asks for the close or reads on.
LEMMA ReadsOn ==
    ASSUME NEW r \in ConnType, r.reading = "none", TimedWrite(r)
    PROVE  /\ TimedRead(Close(r)) /\ TimedWrite(Close(r))
           /\ ReadOver(r) => \A h \in ReadHandlers :
                /\ TimedRead(StartRead(r, h)) /\ TimedWrite(StartRead(r, h))
                /\ TimedRead(StartRead(Close(r), h)) /\ TimedWrite(StartRead(Close(r), h))
<1> DEFINE s == Close(r)
<1>1. s \in ConnType /\ SameTimes(r, s)
  BY CloseFacts, FunctionsKeepTimes, Zenon
<1> HIDE DEF s
<1>2. s.reading = "none" /\ TimedWrite(s) /\ (ReadOver(r) => ReadOver(s))
  BY <1>1, SameTimed, StartsAreTimed, Zenon DEF SameTimes, SameRead
<1>3. TimedRead(s)
  BY <1>2, Zenon DEF TimedRead
<1>4. ASSUME NEW h \in ReadHandlers
      PROVE  TimedWrite(StartRead(r, h)) /\ TimedWrite(StartRead(s, h))
  <2>1. SameWrite(r, StartRead(r, h)) /\ SameWrite(s, StartRead(s, h))
    BY <1>1, FunctionsKeepTimes, Zenon
  <2> QED
    BY <1>2, <2>1, SameTimed, Zenon
<1>5. /\ ReadOver(r) => \A h : TimedRead(StartRead(r, h))
      /\ ReadOver(s) => \A h : TimedRead(StartRead(s, h))
  BY <1>1, StartsAreTimed, Zenon
<1> QED
  BY <1>2, <1>3, <1>4, <1>5, Zenon DEF s

\* The parse steps that create no protocol.
LEMMA ParsingTimes ==
    ASSUME IInv, CountsAreKept, TimesAreKept, NEW c \in Conns, NEW i,
           \/ ParseHeader(c, i) \/ ParsePacketRefused(c, i)
           \/ ParsePacketNoProtocol(c, i) \/ ParsePacketLater(c, i)
    PROVE  Timing(c)
<1> DEFINE checked == PacketStart(c, i)
           done == [checked EXCEPT !.pendingRead = @ - 1]
           first == [checked EXCEPT !.pendingRead = @ - 1, !.receivedFirst = TRUE]
<1>1. PICK name \in ReadHandlers : Handles(c, i, name)
  BY Zenon DEF ParseHeader, ParsePacketRefused, ParsePacketNoProtocol, ParsePacketLater,
     ReadHandlers
<1>2. \/ conn' = [conn EXCEPT ![c] = Close(checked)]
      \/ /\ ~Unusable(checked)
         /\ \/ conn' = [conn EXCEPT ![c] = StartRead(done, "parsePacket")]
            \/ conn' = [conn EXCEPT ![c] = Close(first)]
            \/ conn' = [conn EXCEPT ![c] = StartRead(done, "parseHeader")]
  BY Zenon DEF ParseHeader, ParsePacketRefused, ParsePacketNoProtocol, ParsePacketLater,
     PacketStart
<1>3. /\ checked \in ConnType /\ checked.reading = "none" /\ TimedWrite(checked)
      /\ checked.state = "OPEN" => /\ checked.pendingRead = 1
                                   /\ ~Waits(checked.ready, ReadHandlers)
  BY <1>1, PacketStartTimes, Zenon
<1> HIDE DEF checked
<1>4. CASE conn' = [conn EXCEPT ![c] = Close(checked)]
  BY <1>3, <1>4, ReadsOn, Zenon DEF Timing
<1>5. CASE ~Unusable(checked)
  <2>1. checked.pendingRead = 1 /\ ~Waits(checked.ready, ReadHandlers)
    BY <1>3, <1>5, Zenon DEF Unusable
  <2>2. done \in ConnType /\ first \in ConnType
    BY <1>3, ReadDoneFacts, SummaryOfFirst, Zenon
  <2>3. SameWrite(checked, done) /\ SameWrite(checked, first)
    BY <1>3, FunctionsKeepTimes, Zenon
  <2>4. /\ done.reading = "none" /\ done.ready = checked.ready
        /\ done.pendingRead = checked.pendingRead - 1 /\ first.reading = "none"
    BY <1>3, Zenon DEF ConnType
  <2> HIDE DEF done, first
  <2>5. checked.pendingRead - 1 = 0
    BY <2>1
  <2>6. ReadOver(done)
    BY <2>1, <2>4, <2>5, Zenon DEF ReadOver
  <2>7. TimedWrite(done) /\ TimedWrite(first)
    BY <1>3, <2>3, SameTimed, Zenon
  <2>8. /\ \A h \in ReadHandlers : TimedRead(StartRead(done, h)) /\ TimedWrite(StartRead(done, h))
        /\ TimedRead(Close(first)) /\ TimedWrite(Close(first))
    BY <2>2, <2>4, <2>6, <2>7, ReadsOn, Zenon
  <2>9. "parsePacket" \in ReadHandlers /\ "parseHeader" \in ReadHandlers
    BY DEF ReadHandlers
  <2> QED
    BY <1>2, <1>4, <2>8, <2>9, Zenon DEF Timing
<1> QED
  BY <1>2, <1>4, <1>5

\* The first packet of a protocol: the answer's write gets a timer of its own.
LEMMA FirstPacketTimes ==
    ASSUME IInv, CountsAreKept, TimesAreKept, NEW c \in Conns, NEW i,
           \/ ParsePacketUndecryptable(c, i) \/ ParsePacketDisconnect(c, i)
           \/ ParsePacketLogin(c, i)
    PROVE  Timing(c)
<1> DEFINE checked == PacketStart(c, i)
           r == WithProtocol(c, i)
           held == GetOutputMessage(r)
           sent == Send(held)
<1>1. /\ Handles(c, i, "parsePacket") /\ ~Unusable(r) /\ ~PacketStart(c, i).receivedFirst
      /\ \/ conn' = [conn EXCEPT ![c] = StartRead(Close(r), "parseHeader")]
         \/ conn' = [conn EXCEPT ![c] = StartRead(Close(sent), "parseHeader")]
         \/ conn' = [conn EXCEPT ![c] = StartRead(r, "parseHeader")]
  BY Zenon DEF ParsePacketUndecryptable, ParsePacketDisconnect, ParsePacketLogin
<1>2. r \in ConnType /\ r.state = "OPEN"
  BY <1>1, WithProtocolFacts, Zenon
<1>3. "parsePacket" \in ReadHandlers /\ "parseHeader" \in ReadHandlers
  BY DEF ReadHandlers
<1>4. /\ checked \in ConnType /\ checked.reading = "none" /\ TimedWrite(checked)
      /\ checked.state = "OPEN" => /\ checked.pendingRead = 1 /\ checked.pendingWrite >= 0
                                   /\ ~Waits(checked.ready, ReadHandlers)
  BY <1>1, <1>3, PacketStartTimes, Zenon
<1>5. r = [checked EXCEPT !.pendingRead = @ - 1, !.receivedFirst = TRUE, !.proto = "attached"]
  BY Zenon DEF WithProtocol
<1> HIDE DEF checked, r
<1>6. /\ SameWrite(checked, r) /\ r.reading = "none" /\ r.ready = checked.ready
      /\ r.pendingRead = checked.pendingRead - 1 /\ r.state = checked.state
      /\ r.pendingWrite = checked.pendingWrite
  <2>1. SameWrite(checked, r)
    BY <1>4, <1>5, FunctionsKeepTimes, Zenon
  <2> QED
    BY <1>4, <1>5, <2>1, Zenon DEF ConnType
<1>7. checked.pendingRead = 1 /\ r.pendingWrite >= 0 /\ ~Waits(r.ready, ReadHandlers)
  BY <1>2, <1>4, <1>6, Zenon
<1>8. checked.pendingRead - 1 = 0
  BY <1>7
<1>9. ReadOver(r) /\ TimedWrite(r)
  BY <1>4, <1>6, <1>7, <1>8, SameTimed, Zenon DEF ReadOver
<1>10. held \in ConnType /\ SameTimes(r, held)
  BY <1>2, GetOutputMessageFacts, FunctionsKeepTimes, Zenon
<1> HIDE DEF held
<1>11. ReadOver(held) /\ TimedWrite(held) /\ held.pendingWrite >= 0
  <2>1. ReadOver(held)
    BY <1>2, <1>9, <1>10, StartsAreTimed, Zenon DEF SameTimes
  <2>2. TimedWrite(held)
    BY <1>9, <1>10, SameTimed, Zenon DEF SameTimes
  <2> QED
    BY <1>7, <1>10, <2>1, <2>2, Zenon DEF SameTimes, SameWrite
<1>12. sent \in ConnType /\ SameRead(held, sent)
  BY <1>10, SendFacts, FunctionsKeepTimes, Zenon
<1>13. TimedWrite(sent) /\ ReadOver(sent)
  BY <1>10, <1>11, <1>12, StartsAreTimed, Zenon
<1> HIDE DEF sent
<1>14. r.reading = "none" /\ sent.reading = "none"
  BY <1>9, <1>13, Zenon DEF ReadOver
<1>15. ASSUME NEW x \in {r, sent}
       PROVE  /\ TimedRead(StartRead(x, "parseHeader")) /\ TimedWrite(StartRead(x, "parseHeader"))
              /\ TimedRead(StartRead(Close(x), "parseHeader"))
              /\ TimedWrite(StartRead(Close(x), "parseHeader"))
  <2>1. x \in ConnType /\ x.reading = "none" /\ TimedWrite(x) /\ ReadOver(x)
    BY <1>2, <1>9, <1>12, <1>13, <1>14, <1>15, Zenon
  <2> QED
    BY <1>3, <2>1, ReadsOn, Zenon
<1> QED
  BY <1>1, <1>15, Zenon DEF Timing

\* Closing the socket and asking for the close.
LEMMA ShutTimes ==
    ASSUME NEW r \in ConnType
    PROVE  LET s == Close(CloseSocket(r)) IN
           /\ TimedRead(r) => TimedRead(s)
           /\ TimedWrite(r) => TimedWrite(s)
           /\ r.reading = "none" \/ r.socket = "open" => TimedRead(s)
           /\ ~r.writing \/ r.socket = "open" => TimedWrite(s)
<1> DEFINE x == CloseSocket(r)
           s == Close(x)
<1>1. x \in ConnType
  BY CloseSocketFacts, Zenon
<1>2. /\ TimedRead(r) => TimedRead(x)
      /\ TimedWrite(r) => TimedWrite(x)
      /\ r.reading = "none" \/ r.socket = "open" => x.reading = "none"
      /\ ~r.writing \/ r.socket = "open" => ~x.writing
  BY ClosedIsTimed, Zenon
<1> HIDE DEF x
<1>3. SameTimes(x, s)
  BY <1>1, FunctionsKeepTimes, Zenon
<1> HIDE DEF s
<1>4. /\ x.reading = "none" => TimedRead(x)
      /\ ~x.writing => TimedWrite(x)
  BY Zenon DEF TimedRead, TimedWrite
<1>5. /\ TimedRead(x) => TimedRead(s)
      /\ TimedWrite(x) => TimedWrite(s)
  BY <1>3, SameTimed, Zenon DEF SameTimes
<1> QED
  BY <1>2, <1>4, <1>5, Zenon DEF s, x

\* A handler that is renamed where the timers do not look.
LEMMA RenamedTimes ==
    ASSUME IInv, NEW c \in Conns, NEW i, NEW old, Handles(c, i, old),
           NEW name \in HandlerNames,
           \A N \in {ReadTimeouts, WriteTimeouts, ReadHandlers} : old \in N <=> name \in N
    PROVE  LET s == [conn[c] EXCEPT !.ready[i].h = name]
           IN  s \in ConnType /\ SameTimes(conn[c], s)
<1> DEFINE q == conn[c].ready
           new == [q EXCEPT ![i].h = name]
           s == [conn[c] EXCEPT !.ready[i].h = name]
<1>1. conn[c] \in ConnType /\ s \in ConnType
  BY ConnTyped, RenamedFacts, Zenon
<1>2. q \in Seq(Handler) /\ i \in DOMAIN q /\ q[i].h = old
  BY <1>1, Zenon DEF ConnType, Handles, InProgress
<1>3. \A N \in {ReadTimeouts, WriteTimeouts, ReadHandlers} : Waits(new, N) <=> Waits(q, N)
  BY <1>2, WaitsRenamed, Zenon
<1>4. s = [conn[c] EXCEPT !.ready = new]
  BY Zenon
<1> HIDE DEF q, new, s
<1>5. /\ s.reading = conn[c].reading /\ s.pendingRead = conn[c].pendingRead
      /\ s.readTimer = conn[c].readTimer /\ s.writeTimer = conn[c].writeTimer
      /\ s.writing = conn[c].writing /\ s.pendingWrite = conn[c].pendingWrite
      /\ s.ready = new
  BY <1>1, <1>4, Zenon DEF ConnType
<1>6. /\ Waits(new, ReadTimeouts) <=> Waits(q, ReadTimeouts)
      /\ Waits(new, WriteTimeouts) <=> Waits(q, WriteTimeouts)
      /\ Waits(new, ReadHandlers) <=> Waits(q, ReadHandlers)
  BY <1>3, Zenon
<1> QED
  BY <1>1, <1>5, <1>6, Zenon DEF SameTimes, SameRead, SameWrite, q, s

\* onWrite cancels the timer of a write that is over.
LEMMA OnWriteTimes ==
    ASSUME IInv, CountsAreKept, TimesAreKept, NEW c \in Conns, NEW i, OnWrite(c, i)
    PROVE  Timing(c)
<1> DEFINE err == conn[c].ready[i].err
           renamed == [conn[c] EXCEPT !.ready[i].h = "~onWrite"]
           r == [renamed EXCEPT !.writeTimer = FALSE]
           closed == Close(r)
           checked == IF err = "ok" THEN r ELSE HandleWriteError(r, err)
           done == [checked EXCEPT !.pendingWrite = @ - 1]
<1>1. /\ Handles(c, i, "onWrite")
      /\ \/ conn' = [conn EXCEPT ![c] = Close(CloseSocket(checked))]
         \/ conn' = [conn EXCEPT ![c] = done]
  BY Zenon DEF OnWrite
<1>2. conn[c] \in ConnType /\ err \in Outcomes
  BY <1>1, ConnTyped, HandlerStart, Zenon
<1>3. renamed \in ConnType /\ SameTimes(conn[c], renamed)
  <2>1. "~onWrite" \in HandlerNames
    BY DEF HandlerNames, OwningHandlers
  <2>2. \A N \in {ReadTimeouts, WriteTimeouts, ReadHandlers} : "onWrite" \in N <=> "~onWrite" \in N
    BY DEF ReadTimeouts, WriteTimeouts, ReadHandlers
  <2> QED
    BY <1>1, <2>1, <2>2, RenamedTimes, Zenon
<1>4. ~conn[c].writing
  BY <1>1, HandlerTimes, OperationsBefore, Zenon
<1>5. TimedRead(conn[c])
  BY Zenon DEF TimesAreKept
<1> HIDE DEF renamed, err
<1>6. TimedRead(renamed) /\ ~renamed.writing
  BY <1>3, <1>4, <1>5, SameTimed, Zenon DEF SameTimes, SameWrite
<1>7. r \in ConnType /\ SameRead(renamed, r) /\ r.writing = renamed.writing
  BY <1>3, FunctionsKeepTimes, Zenon DEF ConnType
<1> HIDE DEF r
<1>8. TimedRead(r) /\ ~r.writing
  BY <1>6, <1>7, SameTimed, Zenon
<1>9. /\ closed \in ConnType /\ SameTimes(r, closed)
      /\ SameTimes(r, [r EXCEPT !.writeError = TRUE])
  BY <1>7, CloseFacts, FunctionsKeepTimes, Zenon
<1> HIDE DEF closed
<1>10. SameTimes(closed, [closed EXCEPT !.writeError = TRUE])
  BY <1>9, FunctionsKeepTimes, Zenon
<1>11. checked \in ConnType /\ SameTimes(r, checked)
  <2>1. CASE err = "ok"
    BY <1>7, <2>1, Zenon DEF SameTimes, SameRead, SameWrite
  <2>2. CASE err # "ok" /\ err = "aborted"
    <3>1. checked = [r EXCEPT !.writeError = TRUE]
      BY <2>2, Zenon DEF HandleWriteError
    <3> QED
      BY <1>2, <1>7, <1>9, <2>2, <3>1, WriteErrorFacts, Zenon
  <2>3. CASE err # "ok" /\ err # "aborted"
    <3>1. checked = [closed EXCEPT !.writeError = TRUE]
      BY <2>3, Zenon DEF HandleWriteError, closed
    <3>2. SameTimes(r, [closed EXCEPT !.writeError = TRUE])
      BY <1>9, <1>10, SameTimed, Zenon DEF SameTimes
    <3>3. checked \in ConnType
      BY <1>2, <1>7, <2>3, WriteErrorFacts, Zenon
    <3> QED
      BY <3>1, <3>2, <3>3, Zenon
  <2> QED
    BY <2>1, <2>2, <2>3
<1> HIDE DEF checked
<1>12. TimedRead(checked) /\ ~checked.writing
  BY <1>8, <1>11, SameTimed, Zenon DEF SameTimes, SameWrite
<1>13. SameRead(checked, done) /\ done.writing = checked.writing
  BY <1>11, FunctionsKeepTimes, Zenon DEF ConnType
<1> HIDE DEF done
<1>14. TimedRead(done) /\ TimedWrite(done)
  BY <1>12, <1>13, SameTimed, Zenon DEF TimedWrite
<1>15. TimedRead(Close(CloseSocket(checked))) /\ TimedWrite(Close(CloseSocket(checked)))
  BY <1>11, <1>12, ShutTimes, Zenon
<1> QED
  BY <1>1, <1>14, <1>15, Zenon DEF Timing

\* A timeout takes a timer away only when nothing is left to be timed: the connection is
\* gone, the operation is not pending, or the socket is closed.
LEMMA TimeoutTimes ==
    ASSUME IInv, CountsAreKept, TimesAreKept, NEW c \in Conns, NEW i,
           \/ DestroyWrite(c, i) \/ HandleTimeout(c, i)
           \/ OnReadTimeout(c, i) \/ OnWriteTimeout(c, i)
    PROVE  Timing(c)
<1> DEFINE r == Without(c, i)
<1>1. PICK name : Handles(c, i, name)
  BY Zenon DEF DestroyWrite, HandleTimeout, OnReadTimeout, OnWriteTimeout
<1>2. TimedRead(conn[c]) /\ TimedWrite(conn[c])
  BY Zenon DEF TimesAreKept
<1>3. conn[c].socket # "open" => conn[c].reading = "none" /\ ~conn[c].writing
  BY OperationsBefore, Zenon
<1>4. /\ r \in ConnType /\ r.reading = conn[c].reading /\ r.pendingRead = conn[c].pendingRead
      /\ r.writing = conn[c].writing /\ r.pendingWrite = conn[c].pendingWrite
      /\ r.socket = conn[c].socket
  BY <1>1, HandlerTimes, Zenon
<1>5. CASE DestroyWrite(c, i)
  <2>1. conn' = [conn EXCEPT ![c] = r] /\ Handles(c, i, "~onWrite")
    BY <1>5, Zenon DEF DestroyWrite
  <2>2. "~onWrite" \notin ReadTimeouts /\ "~onWrite" \notin WriteTimeouts
    BY DEF ReadTimeouts, WriteTimeouts
  <2>3. TimedRead(r) /\ TimedWrite(r)
    BY <2>1, <2>2, HandlerTimes, Zenon
  <2> QED
    BY <2>1, <2>3, Zenon DEF Timing
<1>6. CASE OnReadTimeout(c, i)
  <2>1. /\ Handles(c, i, "onReadTimeout")
        /\ \/ conn' = [conn EXCEPT ![c] = Close(CloseSocket(r))]
           \/ conn' = [conn EXCEPT ![c] = r] /\ ~(r.pendingRead > 0)
    BY <1>6, Zenon DEF OnReadTimeout
  <2>2. "onReadTimeout" \notin WriteTimeouts
    BY DEF WriteTimeouts
  <2>3. TimedWrite(r)
    BY <2>1, <2>2, HandlerTimes, Zenon
  <2> HIDE DEF r
  <2>4. TimedRead(Close(CloseSocket(r))) /\ TimedWrite(Close(CloseSocket(r)))
    BY <1>3, <1>4, <2>3, ShutTimes, Zenon
  <2>5. ~(r.pendingRead > 0) => TimedRead(r)
    BY <1>2, <1>4, Zenon DEF TimedRead
  <2> QED
    BY <2>1, <2>3, <2>4, <2>5, Zenon DEF Timing
<1>7. CASE OnWriteTimeout(c, i)
  <2>1. /\ Handles(c, i, "onWriteTimeout")
        /\ \/ conn' = [conn EXCEPT ![c] = Close(CloseSocket(r))]
           \/ conn' = [conn EXCEPT ![c] = r] /\ ~(r.pendingWrite > 0)
    BY <1>7, Zenon DEF OnWriteTimeout
  <2>2. "onWriteTimeout" \notin ReadTimeouts
    BY DEF ReadTimeouts
  <2>3. TimedRead(r)
    BY <2>1, <2>2, HandlerTimes, Zenon
  <2> HIDE DEF r
  <2>4. TimedRead(Close(CloseSocket(r))) /\ TimedWrite(Close(CloseSocket(r)))
    BY <1>3, <1>4, <2>3, ShutTimes, Zenon
  <2>5. ~(r.pendingWrite > 0) => TimedWrite(r)
    BY <1>2, <1>4, Zenon DEF TimedWrite
  <2> QED
    BY <2>1, <2>3, <2>4, <2>5, Zenon DEF Timing
<1>8. CASE HandleTimeout(c, i)
  <2> DEFINE t == IF conn[c].ready[i].h = "handleReadTimeout"
                  THEN "onReadTimeout" ELSE "onWriteTimeout"
             s == [conn[c] EXCEPT !.ready[i].h = t]
  <2>1. /\ Alive(conn[c]) => conn' = [conn EXCEPT ![c] = s]
        /\ ~Alive(conn[c]) => conn' = [conn EXCEPT ![c] = r]
    BY <1>8, Zenon DEF HandleTimeout
  <2>2. \/ Handles(c, i, "handleReadTimeout") /\ t = "onReadTimeout"
        \/ Handles(c, i, "handleWriteTimeout") /\ t = "onWriteTimeout"
    BY <1>8 DEF HandleTimeout, Handles
  <2>3. PICK old : Handles(c, i, old)
                   /\ \/ old = "handleReadTimeout" /\ t = "onReadTimeout"
                      \/ old = "handleWriteTimeout" /\ t = "onWriteTimeout"
    BY <2>2, Zenon
  <2> HIDE DEF t
  <2>4. /\ t \in HandlerNames
        /\ \A N \in {ReadTimeouts, WriteTimeouts, ReadHandlers} : old \in N <=> t \in N
    BY <2>3 DEF HandlerNames, OwningHandlers, ReadTimeouts, WriteTimeouts, ReadHandlers
  <2>5. SameTimes(conn[c], s)
    BY <2>3, <2>4, RenamedTimes, Zenon
  <2> HIDE DEF s, r
  <2>6. TimedRead(s) /\ TimedWrite(s)
    BY <1>2, <2>5, SameTimed, Zenon DEF SameTimes
  <2>7. ~Alive(conn[c]) => TimedRead(r) /\ TimedWrite(r)
    BY <1>4, Zenon DEF Alive, TimedRead, TimedWrite
  <2> QED
    BY <2>1, <2>6, <2>7, Zenon DEF Timing
<1> QED
  BY <1>5, <1>6, <1>7, <1>8

\* onStop leaves no operation.
LEMMA OnStopTimes ==
    ASSUME IInv, NEW c \in Conns, NEW i, OnStop(c, i)
    PROVE  Timing(c)
<1> DEFINE r == Without(c, i)
           ready == IF r.socket = "open" THEN r.ready \o Aborted(r) ELSE r.ready
           s == [r EXCEPT !.readTimer = FALSE, !.writeTimer = FALSE,
                          !.socket = "deleted", !.managed = FALSE,
                          !.reading = "none", !.writing = FALSE, !.ready = ready]
<1>1. Handles(c, i, "onStop") /\ conn' = [conn EXCEPT ![c] = s]
  BY Zenon DEF OnStop
<1>2. r \in ConnType
  BY <1>1, HandlerStart, Zenon
<1> HIDE DEF r, ready
<1>3. s.reading = "none" /\ s.writing = FALSE
  BY <1>2, Zenon DEF ConnType
<1> HIDE DEF s
<1>4. TimedRead(s) /\ TimedWrite(s)
  BY <1>3, Zenon DEF TimedRead, TimedWrite
<1> QED
  BY <1>1, <1>4, Zenon DEF Timing

\* An accepted connection has one read, with its timer.
LEMMA AcceptTimes ==
    ASSUME IInv, CountsAreKept, NEW c \in Conns, Accept(c)
    PROVE  Timing(c)
<1> DEFINE r == CreateConnection(conn[c])
<1>1. conn[c].state = "NONE" /\ conn' = [conn EXCEPT ![c] = StartRead(r, "parseHeader")]
  BY Zenon DEF Accept
<1>2. conn[c] \in ConnType /\ conn[c] = NewConnection
  BY <1>1, ConnTyped, Zenon DEF CountsAreKept, Unborn
<1>3. /\ conn[c].reading = "none" /\ conn[c].writing = FALSE /\ conn[c].pendingRead = 0
      /\ conn[c].ready = <<>>
  BY <1>2 DEF NewConnection
<1>4. ~Waits(<<>>, ReadHandlers)
  BY DEF Waits
<1>5. ReadOver(conn[c])
  BY <1>3, <1>4, Zenon DEF ReadOver
<1>6. r \in ConnType /\ SameTimes(conn[c], r)
  <2>1. r \in ConnType
    BY <1>2, Zenon DEF CreateConnection, ConnType, States
  <2> QED
    BY <1>2, <2>1, FunctionsKeepTimes, Zenon
<1> HIDE DEF r
<1>7. ReadOver(r) /\ r.reading = "none" /\ TimedWrite(r)
  BY <1>2, <1>3, <1>5, <1>6, StartsAreTimed, Zenon DEF SameTimes, SameRead, SameWrite, TimedWrite
<1>8. "parseHeader" \in ReadHandlers
  BY DEF ReadHandlers
<1> QED
  BY <1>1, <1>6, <1>7, <1>8, ReadsOn, Zenon DEF Timing

\* What waits when the kernel has queued one more handler.
LEMMA WaitsQueued ==
    ASSUME NEW r \in ConnType, NEW name \in HandlerNames, NEW err \in Outcomes, NEW N
    PROVE  Waits(r.ready \o OnReady(name, err), N) <=> Waits(r.ready, N) \/ name \in N
<1>1. r.ready \in Seq(Handler)
  BY Zenon DEF ConnType
<1>2. OnReady(name, err) \in Seq(Handler) /\ (Waits(OnReady(name, err), N) <=> name \in N)
  BY WaitsReady, Zenon
<1> QED
  BY <1>1, <1>2, WaitsInJoined, Zenon

\* A completed operation leaves the kernel; an expired timer's handler waits in its place.
LEMMA CompletionTimes ==
    ASSUME IInv, TimesAreKept, NEW c \in Conns,
           \/ CompleteRead(c) \/ CompleteWrite(c)
           \/ ExpireReadTimer(c) \/ ExpireWriteTimer(c)
    PROVE  Timing(c)
<1>1. conn[c] \in ConnType /\ TimedRead(conn[c]) /\ TimedWrite(conn[c])
  BY ConnTyped, Zenon DEF TimesAreKept
<1>2. "ok" \in Outcomes /\ "failed" \in Outcomes
  BY DEF Outcomes
<1>3. CASE CompleteRead(c)
  <2>1. PICK err \in Outcomes :
          conn' = [conn EXCEPT ![c].ready = @ \o OnReady(conn[c].reading, err),
                               ![c].reading = "none"]
    BY <1>2, <1>3, Zenon DEF CompleteRead
  <2> DEFINE x == conn[c].ready \o OnReady(conn[c].reading, err)
             s == [conn[c] EXCEPT !.ready = x, !.reading = "none"]
  <2>2. conn' = [conn EXCEPT ![c] = s]
    BY <2>1, Zenon DEF IInv, TypeOK
  <2>3. conn[c].reading \in HandlerNames /\ conn[c].reading \notin WriteTimeouts
    BY <1>1, <1>3 DEF CompleteRead, ConnType, HandlerNames, OwningHandlers, ReadHandlers, WriteTimeouts
  <2>4. Waits(x, WriteTimeouts) <=> Waits(conn[c].ready, WriteTimeouts)
    BY <1>1, <2>3, WaitsQueued, Zenon
  <2> HIDE DEF x
  <2>5. /\ s.reading = "none" /\ s.writing = conn[c].writing /\ s.ready = x
        /\ s.pendingWrite = conn[c].pendingWrite /\ s.writeTimer = conn[c].writeTimer
    BY <1>1, Zenon DEF ConnType
  <2> HIDE DEF s
  <2>6. TimedRead(s) /\ TimedWrite(s)
    BY <1>1, <2>4, <2>5, Zenon DEF TimedRead, TimedWrite
  <2> QED
    BY <2>2, <2>6, Zenon DEF Timing
<1>4. CASE CompleteWrite(c)
  <2>1. PICK err \in Outcomes :
          conn' = [conn EXCEPT ![c].ready = @ \o OnReady("onWrite", err), ![c].writing = FALSE]
    BY <1>2, <1>4, Zenon DEF CompleteWrite
  <2> DEFINE x == conn[c].ready \o OnReady("onWrite", err)
             s == [conn[c] EXCEPT !.ready = x, !.writing = FALSE]
  <2>2. conn' = [conn EXCEPT ![c] = s]
    BY <2>1, Zenon DEF IInv, TypeOK
  <2>3. /\ "onWrite" \in HandlerNames
        /\ "onWrite" \notin ReadTimeouts /\ "onWrite" \notin ReadHandlers
    BY DEF HandlerNames, OwningHandlers, ReadTimeouts, ReadHandlers
  <2>4. /\ Waits(x, ReadTimeouts) <=> Waits(conn[c].ready, ReadTimeouts)
        /\ Waits(x, ReadHandlers) <=> Waits(conn[c].ready, ReadHandlers)
    BY <1>1, <2>3, WaitsQueued, Zenon
  <2> HIDE DEF x
  <2>5. /\ s.writing = FALSE /\ s.reading = conn[c].reading /\ s.ready = x
        /\ s.pendingRead = conn[c].pendingRead /\ s.readTimer = conn[c].readTimer
    BY <1>1, Zenon DEF ConnType
  <2> HIDE DEF s
  <2>6. TimedRead(s) /\ TimedWrite(s)
    BY <1>1, <2>4, <2>5, Zenon DEF TimedRead, TimedWrite
  <2> QED
    BY <2>2, <2>6, Zenon DEF Timing
<1>5. CASE ExpireReadTimer(c)
  <2> DEFINE x == conn[c].ready \o OnReady("handleReadTimeout", "ok")
             s == [conn[c] EXCEPT !.readTimer = FALSE, !.ready = x]
  <2>1. conn' = [conn EXCEPT ![c] = s]
    BY <1>5, Zenon DEF ExpireReadTimer, IInv, TypeOK
  <2>2. /\ "handleReadTimeout" \in HandlerNames /\ "handleReadTimeout" \in ReadTimeouts
        /\ "handleReadTimeout" \notin ReadHandlers /\ "handleReadTimeout" \notin WriteTimeouts
    BY DEF HandlerNames, ReadTimeouts, WriteTimeouts, ReadHandlers
  <2>3. /\ Waits(x, ReadTimeouts)
        /\ Waits(x, WriteTimeouts) <=> Waits(conn[c].ready, WriteTimeouts)
        /\ Waits(x, ReadHandlers) <=> Waits(conn[c].ready, ReadHandlers)
    BY <1>1, <1>2, <2>2, WaitsQueued, Zenon
  <2> HIDE DEF x
  <2>4. /\ s.reading = conn[c].reading /\ s.writing = conn[c].writing /\ s.ready = x
        /\ s.pendingRead = conn[c].pendingRead /\ s.pendingWrite = conn[c].pendingWrite
        /\ s.writeTimer = conn[c].writeTimer
    BY <1>1, Zenon DEF ConnType
  <2> HIDE DEF s
  <2>5. TimedRead(s) /\ TimedWrite(s)
    BY <1>1, <2>3, <2>4, Zenon DEF TimedRead, TimedWrite
  <2> QED
    BY <2>1, <2>5, Zenon DEF Timing
<1>6. CASE ExpireWriteTimer(c)
  <2> DEFINE x == conn[c].ready \o OnReady("handleWriteTimeout", "ok")
             s == [conn[c] EXCEPT !.writeTimer = FALSE, !.ready = x]
  <2>1. conn' = [conn EXCEPT ![c] = s]
    BY <1>6, Zenon DEF ExpireWriteTimer, IInv, TypeOK
  <2>2. /\ "handleWriteTimeout" \in HandlerNames /\ "handleWriteTimeout" \in WriteTimeouts
        /\ "handleWriteTimeout" \notin ReadHandlers /\ "handleWriteTimeout" \notin ReadTimeouts
    BY DEF HandlerNames, ReadTimeouts, WriteTimeouts, ReadHandlers
  <2>3. /\ Waits(x, WriteTimeouts)
        /\ Waits(x, ReadTimeouts) <=> Waits(conn[c].ready, ReadTimeouts)
        /\ Waits(x, ReadHandlers) <=> Waits(conn[c].ready, ReadHandlers)
    BY <1>1, <1>2, <2>2, WaitsQueued, Zenon
  <2> HIDE DEF x
  <2>4. /\ s.reading = conn[c].reading /\ s.writing = conn[c].writing /\ s.ready = x
        /\ s.pendingRead = conn[c].pendingRead /\ s.pendingWrite = conn[c].pendingWrite
        /\ s.readTimer = conn[c].readTimer
    BY <1>1, Zenon DEF ConnType
  <2> HIDE DEF s
  <2>5. TimedRead(s) /\ TimedWrite(s)
    BY <1>1, <2>3, <2>4, Zenon DEF TimedRead, TimedWrite
  <2> QED
    BY <2>1, <2>5, Zenon DEF Timing
<1> QED
  BY <1>3, <1>4, <1>5, <1>6

\* closeConnection may end what is in the kernel, and starts nothing.
LEMMA CloseConnectionTimes ==
    ASSUME IInv, TimesAreKept, NEW c \in Conns, CloseConnection(c)
    PROVE  Timing(c)
<1> DEFINE r == conn[c]
           p == DetachProtocol(r)
           d == [p EXCEPT !.state = "CLOSING"]
           shut == CloseSocket(d)
           kept == ReleaseConnection(shut)
           released == [kept EXCEPT !.state = "CLOSED"]
<1>1. r \in ConnType /\ TimedRead(r) /\ TimedWrite(r)
  BY ConnTyped, Zenon DEF TimesAreKept
<1>2. \/ conn' = [conn EXCEPT ![c] = r]
      \/ conn' = [conn EXCEPT ![c] = released]
      \/ conn' = [conn EXCEPT ![c] = d]
  BY Zenon DEF CloseConnection, IInv, TypeOK
<1> HIDE DEF r
<1>3. p \in ConnType /\ SameTimes(r, p)
  <2>1. CASE r.proto = "attached"
    BY <1>1, <2>1, DetachFacts, FunctionsKeepTimes, Zenon DEF DetachProtocol
  <2>2. CASE r.proto # "attached"
    BY <1>1, <2>2, Zenon DEF DetachProtocol, SameTimes, SameRead, SameWrite
  <2> QED
    BY <2>1, <2>2
<1> HIDE DEF p
<1>4. d \in ConnType /\ SameTimes(p, d)
  <2>1. "CLOSING" \in States
    BY DEF States
  <2> QED
    BY <1>3, <2>1, SetStateFacts, FunctionsKeepTimes, Zenon
<1> HIDE DEF d
<1>5. TimedRead(d) /\ TimedWrite(d)
  BY <1>1, <1>3, <1>4, SameTimed, Zenon DEF SameTimes
<1>6. shut \in ConnType /\ TimedRead(shut) /\ TimedWrite(shut)
  BY <1>4, <1>5, CloseSocketFacts, ClosedIsTimed, Zenon
<1> HIDE DEF shut
<1>7. kept \in ConnType /\ SameTimes(shut, kept)
  BY <1>6, ReleaseConnectionFacts, ReleaseKeepsTimes, Zenon
<1> HIDE DEF kept
<1>8. SameTimes(kept, released)
  BY <1>7, FunctionsKeepTimes, Zenon
<1> HIDE DEF released
<1>9. TimedRead(released) /\ TimedWrite(released)
  BY <1>6, <1>7, <1>8, SameTimed, Zenon DEF SameTimes
<1> QED
  BY <1>1, <1>2, <1>5, <1>9, Zenon DEF Timing

\* The other tasks: only delegate's send starts an operation, a write on an open
\* connection.
LEMMA TaskTimes ==
    ASSUME IInv, CountsAreKept, TimesAreKept, NEW c \in Conns,
           \/ RetryReleaseConnection(c) \/ RetryReleaseProtocol(c)
           \/ InternalReleaseMessage(c) \/ DelegateAnswer(c)
           \/ DelegateSend(c) \/ DelegateClose(c)
    PROVE  Timing(c)
<1> DEFINE r == conn[c]
<1>1. r \in ConnType /\ TimedRead(r) /\ TimedWrite(r)
  BY ConnTyped, Zenon DEF TimesAreKept
<1>2. r.state = "OPEN" => r.pendingWrite >= 0
  BY OperationsBefore, Zenon
<1>3. \/ conn' = [conn EXCEPT ![c] = Send(r)]
      \/ \E s \in {ReleaseConnection(r), [r EXCEPT !.proto = ReleaseProtocol(r)],
                   [r EXCEPT !.protoRefs = @ - 1, !.refCount = @ - 1],
                   GetOutputMessage(r), Close(r)} : conn' = [conn EXCEPT ![c] = s]
  <2>1. CASE DelegateSend(c) \/ DelegateClose(c) \/ RetryReleaseConnection(c) \/ DelegateAnswer(c)
    BY <2>1, Zenon DEF DelegateSend, DelegateClose, RetryReleaseConnection, DelegateAnswer
  <2>2. CASE RetryReleaseProtocol(c)
    <3>1. conn' = [conn EXCEPT ![c] = [r EXCEPT !.proto = ReleaseProtocol(r)]]
      BY <2>2, Zenon DEF RetryReleaseProtocol, IInv, TypeOK
    <3> QED
      BY <3>1
  <2>3. CASE InternalReleaseMessage(c)
    <3>1. conn' = [conn EXCEPT ![c] = [r EXCEPT !.protoRefs = @ - 1, !.refCount = @ - 1]]
      BY <2>3, Zenon DEF InternalReleaseMessage, IInv, TypeOK
    <3> QED
      BY <3>1
  <2> QED
    BY <2>1, <2>2, <2>3
<1> HIDE DEF r
<1>4. ASSUME NEW s \in {ReleaseConnection(r), [r EXCEPT !.proto = ReleaseProtocol(r)],
                        [r EXCEPT !.protoRefs = @ - 1, !.refCount = @ - 1],
                        GetOutputMessage(r), Close(r)}
      PROVE  TimedRead(s) /\ TimedWrite(s)
  <2>1. SameTimes(r, s)
    BY <1>1, FunctionsKeepTimes, ReleaseKeepsTimes, Zenon
  <2> QED
    BY <1>1, <2>1, SameTimed, Zenon DEF SameTimes
<1>5. TimedRead(Send(r)) /\ TimedWrite(Send(r))
  <2>1. SameRead(r, Send(r))
    BY <1>1, FunctionsKeepTimes, Zenon
  <2> QED
    BY <1>1, <1>2, <2>1, SameTimed, StartsAreTimed, Zenon
<1> QED
  BY <1>3, <1>4, <1>5, Zenon DEF Timing

\* At first no connection has an operation.
LEMMA InitTimes == Init => TimesAreKept
<1> SUFFICES ASSUME Init, NEW c \in Conns PROVE TimedRead(conn[c]) /\ TimedWrite(conn[c])
  BY Zenon DEF TimesAreKept
<1>1. conn[c] = NewConnection
  BY Zenon DEF Init
<1>2. conn[c].reading = "none" /\ conn[c].writing = FALSE
  BY <1>1 DEF NewConnection
<1> QED
  BY <1>2, Zenon DEF TimedRead, TimedWrite

\* Every step keeps the times.
LEMMA NextTimes == IInv /\ CountsAreKept /\ TimesAreKept /\ [Next]_vars => TimesAreKept'
<1> SUFFICES ASSUME IInv, CountsAreKept, TimesAreKept, [Next]_vars PROVE TimesAreKept'
  OBVIOUS
<1>1. ASSUME NEW c \in Conns,
             \/ Accept(c) \/ CompleteRead(c) \/ CompleteWrite(c)
             \/ ExpireReadTimer(c) \/ ExpireWriteTimer(c)
      PROVE  TimesAreKept'
  BY <1>1, AcceptTimes, CompletionTimes, TimesAfter, Zenon
<1>2. ASSUME NEW c \in Conns, ServiceStep(c) PROVE TimesAreKept'
  <2>1. PICK i : \/ ParseHeader(c, i) \/ ParsePacketRefused(c, i)
                 \/ ParsePacketNoProtocol(c, i) \/ ParsePacketUndecryptable(c, i)
                 \/ ParsePacketDisconnect(c, i) \/ ParsePacketLogin(c, i)
                 \/ ParsePacketLater(c, i) \/ OnWrite(c, i) \/ DestroyWrite(c, i)
                 \/ HandleTimeout(c, i) \/ OnReadTimeout(c, i) \/ OnWriteTimeout(c, i)
                 \/ OnStop(c, i)
    BY <1>2, Zenon DEF ServiceStep
  <2>2. CASE \/ ParseHeader(c, i) \/ ParsePacketRefused(c, i)
             \/ ParsePacketNoProtocol(c, i) \/ ParsePacketLater(c, i)
    BY <2>2, ParsingTimes, TimesAfter, Zenon
  <2>3. CASE \/ ParsePacketUndecryptable(c, i) \/ ParsePacketDisconnect(c, i)
             \/ ParsePacketLogin(c, i)
    BY <2>3, FirstPacketTimes, TimesAfter, Zenon
  <2>4. CASE \/ DestroyWrite(c, i) \/ HandleTimeout(c, i)
             \/ OnReadTimeout(c, i) \/ OnWriteTimeout(c, i)
    BY <2>4, TimeoutTimes, TimesAfter, Zenon
  <2>5. CASE OnWrite(c, i) \/ OnStop(c, i)
    BY <2>5, OnWriteTimes, OnStopTimes, TimesAfter, Zenon
  <2> QED
    BY <2>1, <2>2, <2>3, <2>4, <2>5, Zenon
<1>3. ASSUME NEW c \in Conns, DispatcherStep(c) PROVE TimesAreKept'
  BY <1>3, CloseConnectionTimes, TaskTimes, TimesAfter, Zenon DEF DispatcherStep
<1>4. CASE conn' = conn
  BY <1>4, Zenon DEF TimesAreKept
<1>5. (\E e \in Retry : SchedulerStep(e)) \/ UNCHANGED vars => conn' = conn
  BY Zenon DEF SchedulerStep, vars
<1> QED
  BY <1>1, <1>2, <1>3, <1>4, <1>5, Zenon DEF Next

\* For every set of connections and number of service threads, an operation that waits in
\* the kernel is counted as pending and has its timer armed or its timeout queued: the
\* timers of a connection, which every read and write cancels and arms again, never
\* leave a silent client's operation unwatched.
THEOREM OperationsTimed == Spec => []OperationsAreTimed
<1>1. TimesAreKept => OperationsAreTimed
  <2> SUFFICES ASSUME TimesAreKept, NEW c \in Conns
               PROVE  LET r == conn[c] IN
                 /\ r.reading # "none" =>
                      /\ r.pendingRead > 0
                      /\ r.readTimer \/ ReadyPositions(c, {"handleReadTimeout", "onReadTimeout"}) # {}
                 /\ r.writing =>
                      /\ r.pendingWrite > 0
                      /\ \/ r.writeTimer
                         \/ ReadyPositions(c, {"handleWriteTimeout", "onWriteTimeout"}) # {}
    BY Zenon DEF OperationsAreTimed
  <2>1. TimedRead(conn[c]) /\ TimedWrite(conn[c])
    BY Zenon DEF TimesAreKept
  <2>2. /\ Waits(conn[c].ready, ReadTimeouts)
             => ReadyPositions(c, {"handleReadTimeout", "onReadTimeout"}) # {}
        /\ Waits(conn[c].ready, WriteTimeouts)
             => ReadyPositions(c, {"handleWriteTimeout", "onWriteTimeout"}) # {}
    BY Zenon DEF Waits, ReadyPositions, ReadTimeouts, WriteTimeouts
  <2> QED
    BY <2>1, <2>2, Zenon DEF TimedRead, TimedWrite
<1> QED
  BY <1>1, InitTimes, NextTimes, CountsInvariance, PTL DEF Spec
=============================================================================
