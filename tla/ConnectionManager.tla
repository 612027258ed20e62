-------------------------- MODULE ConnectionManager -------------------------
(* The two limits ConnectionManager keeps per client address: acceptConnection *)
(* for new connections, and isDisabled / addAttempt for logins. Both maps are  *)
(* guarded by one recursive mutex, so every call is one step. The maps are     *)
(* independent and addresses do not interact: the model follows one address.   *)
EXTENDS Integers, Sequences

CONSTANTS
    Window,        \* 1000 ms, in ticks
    BlockTime,     \* 10000 ms
    ConnectLimit,  \* 10 connections
    LoginTries,    \* LOGIN_TRIES
    LoginTimeout,  \* LOGIN_TIMEOUT / 1000
    RetryTimeout,  \* RETRY_TIMEOUT / 1000
    MaxTime,       \* bound of the clock
    MaxShift,      \* bound on what the clock is set back by
    MaxConnects,   \* bound on connections of the address
    MaxLogins      \* bound on logins under way together

ASSUME ManagerAssumption ==
    /\ Window \in Nat /\ BlockTime \in Nat /\ BlockTime > Window
    /\ ConnectLimit \in Nat \ {0}
    /\ LoginTries \in Nat \ {0} /\ LoginTimeout \in Nat /\ RetryTimeout \in Nat
    /\ MaxTime \in Nat /\ MaxShift \in Nat /\ MaxConnects \in Nat /\ MaxLogins \in Nat

VARIABLES
    now,      \* gettimeofday and time(NULL); it starts at 1, long after the epoch
    shift,    \* history: what the clock was set back by in all
    connects, \* the address's ConnectBlock in ipConnectMap, or NoBlock
    log,      \* history: every call of acceptConnection, with its answer
    logins,   \* the address's LoginBlock in ipLoginMap, or NoBlock
    judging   \* logins let through by isDisabled and not yet judged by delegate

vars == <<now, shift, connects, log, logins, judging>>

NoBlock == [none |-> TRUE]

ConnectBlock == [count : Nat, startTime : Nat, blockTime : Nat]
LoginBlock == [lastLogin : Int, lastProtocol : Int, loginsAmount : Int]
Answer == [time : Nat, clock : Nat, ok : BOOLEAN, blocks : BOOLEAN]

TypeOK ==
    /\ now \in Nat /\ shift \in Nat
    /\ connects \in ConnectBlock \cup {NoBlock}
    /\ log \in Seq(Answer)
    /\ logins \in LoginBlock \cup {NoBlock}
    /\ judging \in Nat

Init ==
    /\ now = 1 /\ shift = 0
    /\ connects = NoBlock
    /\ log = <<>>
    /\ logins = NoBlock
    /\ judging = 0

Tick ==
    /\ now + shift < MaxTime
    /\ now' = now + 1
    /\ UNCHANGED <<shift, connects, log, logins, judging>>

\* The wall clock is set back.
SetBack ==
    /\ \E d \in 1..(MaxShift - shift) :
         d < now /\ now' = now - d /\ shift' = shift + d
    /\ UNCHANGED <<connects, log, logins, judging>>

-----------------------------------------------------------------------------
(* ConnectionManager::acceptConnection                                        *)

NewConnect == [count |-> 1, startTime |-> now, blockTime |-> 0]

\* The difference is unsigned: after a step back beyond startTime the window is over.
WindowIsOver(b) == now < b.startTime \/ now - b.startTime > Window

\* More connections than allowed in the window that is over.
TooManyAllowsOneLess(count) == count >= ConnectLimit
TooManyAllowsMore(count) == count > ConnectLimit + 1
TooMany(count) == count > ConnectLimit

\* The block of an address seen before, and the answer, in the order of the tests.
Counted(b) == [b EXCEPT !.count = @ + 1]

UpdateForgetsBlock(b) ==
    IF ~WindowIsOver(b) THEN Counted(b)
    ELSE [count |-> 0, startTime |-> now,
          blockTime |-> IF TooMany(b.count + 1) THEN now + BlockTime ELSE 0]

UpdateKeepsCount(b) ==
    IF b.blockTime > now \/ ~WindowIsOver(b) THEN Counted(b)
    ELSE [count |-> IF TooMany(b.count + 1) THEN b.count ELSE 0, startTime |-> now,
          blockTime |-> IF TooMany(b.count + 1) THEN now + BlockTime ELSE 0]

Update(b) ==
    IF b.blockTime > now \/ ~WindowIsOver(b) THEN Counted(b)
    ELSE [count |-> 0, startTime |-> now,
          blockTime |-> IF TooMany(b.count + 1) THEN now + BlockTime ELSE 0]

Accepts(b) == ~(b.blockTime > now) /\ ~(WindowIsOver(b) /\ TooMany(b.count + 1))

AcceptConnection ==
    /\ Len(log) < MaxConnects
    /\ connects' = IF connects = NoBlock THEN NewConnect ELSE Update(connects)
    /\ log' = Append(log, [time |-> now + shift, clock |-> now,
                           ok |-> connects = NoBlock \/ Accepts(connects),
                           blocks |-> connects # NoBlock /\ ~(connects.blockTime > now)
                                        /\ ~Accepts(connects)])
    /\ UNCHANGED <<now, shift, logins, judging>>

-----------------------------------------------------------------------------
(* Logins: isDisabled in the service thread, addAttempt later in delegate.    *)

ProtocolId == 1   \* ProtocolLogin::protocolId, the only protocol there is

IsDisabled ==
    /\ logins # NoBlock
    /\ logins.lastProtocol # ProtocolId
    /\ logins.loginsAmount > LoginTries
    /\ now < logins.lastLogin + LoginTimeout

\* onRecvFirstMessage refuses a disabled address and else queues delegate.
BeginLogin ==
    /\ judging < MaxLogins
    /\ ~IsDisabled
    /\ judging' = judging + 1
    /\ UNCHANGED <<now, shift, connects, log, logins>>

FirstAttempt == [lastLogin |-> 0, lastProtocol |-> 0, loginsAmount |-> 0]

\* An amount above the limit starts again from zero.
StartAmount(b) == IF b.loginsAmount > LoginTries THEN 0 ELSE b.loginsAmount

AddAttempt(success) ==
    LET b == IF logins = NoBlock THEN FirstAttempt ELSE logins
        counts == ~success \/ now < b.lastLogin + RetryTimeout
    IN  logins' = [lastLogin |-> now, lastProtocol |-> ProtocolId,
                   loginsAmount |-> IF counts THEN StartAmount(b) + 1 ELSE 0]

\* delegate has judged the login.
JudgeLogin ==
    /\ judging > 0
    /\ judging' = judging - 1
    /\ \E success \in BOOLEAN : AddAttempt(success)
    /\ UNCHANGED <<now, shift, connects, log>>

\* delegate ends without an attempt: a ban, or an account without characters.
DropLogin ==
    /\ judging > 0
    /\ judging' = judging - 1
    /\ UNCHANGED <<now, shift, connects, log, logins>>

-----------------------------------------------------------------------------
Next == Tick \/ SetBack \/ AcceptConnection \/ BeginLogin \/ JudgeLogin \/ DropLogin

Spec == Init /\ [][Next]_vars

-----------------------------------------------------------------------------
(* Properties of acceptConnection, told from the history of its answers.      *)

\* The answers i..j came within one window's length, in truth or by the clock.
Within(i, j) ==
    \/ log[j].time - log[i].time <= Window
    \/ log[j].clock - log[i].clock \in -Window..Window

\* A client that makes fewer than ConnectLimit connections in any window's length is
\* never refused, wherever the fixed windows fall and whenever the clock is set back.
PatientIsAccepted ==
    (\A i \in DOMAIN log : i + ConnectLimit - 1 \in DOMAIN log => ~Within(i, i + ConnectLimit - 1))
        => \A i \in DOMAIN log : log[i].ok

\* A burst is punished although windows are fixed and not sliding: not within the
\* window, where every connection is accepted, but at the next connection. If all of 2L
\* connections within a window's length were accepted, the next one that comes more than
\* a window later is refused, unless the clock was set back in between.
BurstIsPunished ==
    LET n == 2 * ConnectLimit
    IN  \A i \in DOMAIN log :
          /\ i + n \in DOMAIN log
          /\ log[i + n].time - log[i].time = log[i + n].clock - log[i].clock
          /\ log[i + n - 1].time <= log[i].time + Window
          /\ log[i + n].time > log[i + n - 1].time + Window
          /\ \A k \in i..(i + n - 1) : log[k].ok
          => ~log[i + n].ok

\* Once refused after an accepted connection, an address stays refused for BlockTime,
\* however often it tries and whenever the clock is set back.
BlockIsHonoured ==
    \A i, j \in DOMAIN log :
        /\ i > 1 /\ log[i - 1].ok /\ ~log[i].ok
        /\ j > i /\ log[j].time < log[i].time + BlockTime
        => ~log[j].ok

\* A block ends: an address that tries fewer than ConnectLimit times while it is blocked
\* is accepted at its first try after that. (Those tries are counted; with more of them
\* the next block follows at once.)
BlockEnds ==
    \A i, j \in DOMAIN log :
        LET until == log[i].clock + BlockTime
        IN  /\ log[i].blocks /\ i < j /\ j - i - 1 < ConnectLimit
            /\ log[j].clock >= until
            /\ \A k \in (i + 1)..(j - 1) : log[k].clock < until
            => log[j].ok

\* onRecvFirstMessage answers "Too many connections attempts from your IP address,
\* please try again later.": an address with more than LOGIN_TRIES attempts is refused
\* until LOGIN_TIMEOUT has passed.
TriesAreLimited ==
    /\ logins # NoBlock
    /\ logins.loginsAmount > LoginTries
    /\ now < logins.lastLogin + LoginTimeout
    => IsDisabled
=============================================================================
