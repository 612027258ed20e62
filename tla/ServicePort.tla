---------------------------- MODULE ServicePort -----------------------------
(* The listening port: class ServicePort and ServiceManager's table of ports. *)
(* Three actors share its members without a lock: the dispatcher runs open()  *)
(* (at startup, then as a retry the scheduler releases), a service thread     *)
(* runs handle(), and the io_context stops for good once it has nothing left  *)
(* to do. Startup composes these actions with main() and otlogin().           *)
(*                                                                            *)
(* otlogin binds one address, so every address list has one element. Nothing  *)
(* calls ServiceManager::stop while the server runs.                          *)
EXTENDS Integers, Sequences

CONSTANTS
    Address,        \* the configured address, Any by default
    Any,            \* IPAddress(), the wildcard 0.0.0.0
    MaxAcceptors,   \* bound on the acceptors a behaviour creates
    MaxConnections  \* bound on the connections served together

ASSUME PortAssumption == MaxAcceptors \in Nat \ {0} /\ MaxConnections \in Nat

VARIABLES
    acceptors,    \* m_acceptors: the address of each acceptor it lists
    listening,    \* the acceptors whose socket is open and bound
    accepting,    \* the acceptors with an async_accept in the kernel
    ready,        \* completed accepts whose handle() has not run
    pendingStart, \* m_pendingStart
    logError,     \* m_logError
    opening,      \* open() in the dispatcher's thread
    added,        \* ServiceManager::m_acceptors has the port
    hasService,   \* m_services is not empty
    retries,      \* open() calls waiting in the scheduler, by their address
    created,      \* acceptors created so far; the last one's number
    threads,      \* the service threads: not started, in run(), returned from it
    connections   \* connections being served

portVars == <<acceptors, listening, accepting, ready>>
portManager == <<added, hasService>>
port == <<portVars, pendingStart, logError, opening, retries, created, threads, connections,
          portManager>>

-----------------------------------------------------------------------------
Ids == 1..MaxAcceptors
Addresses == {Address, Any}
Completion == [id : Ids, err : {"ok", "failed"}]
OpenType == [pc : {"idle", "bind", "register"}, ip : Addresses]

PortTypeOK ==
    /\ DOMAIN acceptors \subseteq Ids
    /\ \A a \in DOMAIN acceptors : acceptors[a] \in Addresses
    /\ listening \subseteq Ids /\ accepting \subseteq listening
    /\ ready \subseteq Completion
    /\ pendingStart \in BOOLEAN /\ logError \in BOOLEAN
    /\ opening \in OpenType
    /\ retries \in Seq(Addresses)
    /\ created \in 0..MaxAcceptors
    /\ threads \in {"none", "running", "ended"}
    /\ connections \in 0..MaxConnections
    /\ added \in BOOLEAN /\ hasService \in BOOLEAN

NoAcceptors == [a \in {} |-> Any]
IdleOpen == [pc |-> "idle", ip |-> Any]

PortInit ==
    /\ acceptors = NoAcceptors /\ listening = {} /\ accepting = {} /\ ready = {}
    /\ pendingStart = FALSE /\ logError = TRUE
    /\ opening = IdleOpen
    /\ retries = <<>>
    /\ created = 0
    /\ threads = "none"
    /\ connections = 0
    /\ added = FALSE /\ hasService = FALSE

-----------------------------------------------------------------------------
(* ServiceManager::add, called by otlogin with the parsed address.            *)

\* The new ServicePort's open(ips, port) is entered.
OpenPort ==
    /\ opening = IdleOpen
    /\ opening' = [pc |-> "bind", ip |-> Address]
    /\ pendingStart' = FALSE
    /\ UNCHANGED <<portVars, logError, retries, created, threads, connections, portManager>>

\* open() has returned, whether it bound the port or not.
AddPortIfBound == added' = (acceptors # NoAcceptors)
AddPort == added' = TRUE

\* ServicePort::add
AddService == hasService' = TRUE

-----------------------------------------------------------------------------
(* ServicePort::open, on the dispatcher's thread.                             *)

\* m_acceptors[a] = ip
Listed(map, a, ip) == [x \in DOMAIN map \cup {a} |-> IF x = a THEN ip ELSE map[x]]

\* The constructor of the acceptor binds and listens, and the first accept starts.
\* A port that is still listened on cannot be bound again, not even by the wildcard.
Bind ==
    /\ opening.pc = "bind"
    /\ listening = {} /\ created < MaxAcceptors
    /\ created' = created + 1
    /\ listening' = listening \cup {created'}
    /\ accepting' = accepting \cup {created'}
    /\ opening' = [opening EXCEPT !.pc = "register"]
    /\ UNCHANGED <<acceptors, ready, pendingStart, logError, retries, threads, connections, portManager>>

\* Only then is the acceptor listed.
Register ==
    /\ opening.pc = "register"
    /\ acceptors' = Listed(acceptors, created, opening.ip)
    /\ opening' = IdleOpen
    /\ UNCHANGED <<listening, accepting, ready, pendingStart, logError, retries, created,
                   threads, connections, portManager>>

\* The constructor throws. The address is kept for a retry only while m_logError is set.
BindFails ==
    /\ opening.pc = "bind"
    /\ opening' = IdleOpen
    /\ IF logError
       THEN /\ logError' = FALSE
            /\ pendingStart' = TRUE
            /\ retries' = Append(retries, opening.ip)
       ELSE UNCHANGED <<logError, pendingStart, retries>>
    /\ UNCHANGED <<portVars, created, threads, connections, portManager>>

\* m_pendingStart when open() is entered.
EnterOpenKeeps == pendingStart
EnterOpen == FALSE

\* service() and services(): the retry's five seconds are over.
RetryUnlessPending ==
    /\ retries # <<>> /\ ~pendingStart
    /\ opening.pc = "idle"
    /\ opening' = [pc |-> "bind", ip |-> Head(retries)]
    /\ retries' = Tail(retries)
    /\ pendingStart' = EnterOpen
    /\ UNCHANGED <<portVars, logError, created, threads, connections, portManager>>
Retry ==
    /\ retries # <<>>
    /\ opening.pc = "idle"
    /\ opening' = [pc |-> "bind", ip |-> Head(retries)]
    /\ retries' = Tail(retries)
    /\ pendingStart' = EnterOpen
    /\ UNCHANGED <<portVars, logError, created, threads, connections, portManager>>

-----------------------------------------------------------------------------
(* The service threads.                                                       *)

\* ServiceManager::run(): with no thread it returns at once.
RunThreads(serviceThreads) ==
    /\ threads = "none"
    /\ threads' = IF serviceThreads > 0 THEN "running" ELSE "ended"
    /\ UNCHANGED <<portVars, pendingStart, logError, opening, retries, created, connections, portManager>>

\* io_context::run() returns when no operation and no handler is outstanding.
ThreadsEnd ==
    /\ threads = "running"
    /\ accepting = {} /\ ready = {} /\ connections = 0
    /\ threads' = "ended"
    /\ UNCHANGED <<portVars, pendingStart, logError, opening, retries, created, connections, portManager>>

\* An accept completes: a client came, or accept() failed.
Complete(a) ==
    /\ a \in accepting
    /\ accepting' = accepting \ {a}
    /\ \E err \in {"ok", "failed"} : ready' = ready \cup {[id |-> a, err |-> err]}
    /\ UNCHANGED <<acceptors, listening, pendingStart, logError, opening, retries, created,
                   threads, connections, portManager>>

\* handle() without an error: the client is served or refused, and the next accept is
\* started. Only one acceptor is open at a time, so nobody else can have closed it.
\* Without a service handle() returns before that, and the acceptor falls silent.
HandleAccepted(a) ==
    /\ threads = "running"
    /\ [id |-> a, err |-> "ok"] \in ready
    /\ ready' = ready \ {[id |-> a, err |-> "ok"]}
    /\ IF hasService
       THEN /\ accepting' = accepting \cup {a}
            /\ connections' \in {connections} \cup
                 (IF connections < MaxConnections THEN {connections + 1} ELSE {})
       ELSE UNCHANGED <<accepting, connections>>
    /\ UNCHANGED <<acceptors, listening, pendingStart, logError, opening, retries,
                   created, threads, portManager>>

\* close() closes every listed acceptor. The one that is open is the one that failed:
\* no accept is outstanding, so none is aborted.
Close == listening \ DOMAIN acceptors

\* handle() with an error: close(), which clears the list, then a retry for
\* m_acceptors[acceptor]. That lists the failed acceptor anew, with the wildcard.
HandleFailed(a) ==
    /\ threads = "running"
    /\ [id |-> a, err |-> "failed"] \in ready
    /\ ready' = ready \ {[id |-> a, err |-> "failed"]}
    /\ listening' = Close
    /\ IF ~pendingStart
       THEN /\ pendingStart' = TRUE
            /\ acceptors' = Listed(NoAcceptors, a, Any)
            /\ retries' = Append(retries, Any)
       ELSE acceptors' = NoAcceptors /\ UNCHANGED <<pendingStart, retries>>
    /\ UNCHANGED <<accepting, logError, opening, created, threads, connections, portManager>>

\* A connection comes to its end, see Connection.
ConnectionEnds ==
    /\ threads = "running" /\ connections > 0
    /\ connections' = connections - 1
    /\ UNCHANGED <<portVars, pendingStart, logError, opening, retries, created, threads, portManager>>

-----------------------------------------------------------------------------
\* What open() does once it is entered.
OpenStep == Bind \/ Register \/ BindFails

\* A step of the service threads or of the kernel.
ThreadStep ==
    \/ ThreadsEnd \/ ConnectionEnds
    \/ \E a \in Ids : Complete(a) \/ HandleAccepted(a) \/ HandleFailed(a)

-----------------------------------------------------------------------------
(* Properties.                                                                *)

\* m_pendingStart is written by the dispatcher and by the service threads, yet it tells
\* exactly whether a reopening is scheduled, and there is never a second one.
OneReopening ==
    /\ Len(retries) <= 1
    /\ pendingStart <=> retries # <<>>
=============================================================================
