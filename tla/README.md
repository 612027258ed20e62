# TLA+ models of the login server

These modules model the login server in `src/src`: a process that accepts TCP
connections of game clients, reads one encrypted login packet from each, checks
bans, password and premium days against MySQL, answers with a character list or
an error, and closes the connection. TLC checks the models on small instances;
TLAPS proves, for every value of the constants, every safety invariant the passing
runs check, and the four refinements: the scheduler's and the workers' queues
implement `TaskQueues`, the connection and its protocol `CountedObject`.

Contents: inventory, modules and the code, runs, fairness, proofs,
disagreements with the code's own words, abstractions, plan.

## Inventory

| component | state | operations | how it interacts |
|---|---|---|---|
| `Connection` (`net/connection.*`) | state OPEN, REQUEST_CLOSE, CLOSING, CLOSED; socket; pending reads and writes; error flags; reference count; protocol pointer; two timers | `accept`, `parseHeader`, `parsePacket`, `send`, `onWrite`, the timeouts, `close`, `closeConnection`, `releaseConnection`, `onStop` | completion handlers run on service threads; `close` queues a task for the dispatcher; releases are retried through the scheduler; `onStop` is posted back to the io_context |
| `Protocol`, `ProtocolLogin` (`protocol/*`) | reference count, connection pointer, key | `onRecvFirstMessage`, `delegate`, `disconnectClient`, `releaseProtocol`, framing and decryption | created by `parsePacket` on a service thread; `delegate` runs on the dispatcher with a raw `this` |
| `OutputMessagePool`, `NetworkMessage` (`net/*message.*`) | free messages; size, position and header offset of each | `getOutputMessage`, `send`, `releaseMessage`, `internalReleaseMessage`, `get`, `put`, headers and padding | a message holds a share of its connection and a counted raw pointer to its protocol; it is released by a task at the front of the dispatcher's list |
| `Dispatcher` (`tasks.*`) | one list, a mutex, a condition variable | `addTask` (back or front), `tasksThread` | one thread; runs everything that touches the database |
| `Scheduler` (`scheduler.*`) | a priority queue of events, their ids, the last id | `addEvent`, `schedulerThread` | passes due events to the front of the dispatcher's list |
| `ConnectionManager` (`net/connection.*`) | the list of connections; per address a connection count with a block, and login attempts | `acceptConnection`, `isDisabled`, `addAttempt`, `createConnection`, `releaseConnection` | asked by the accept handler, by the first packet and by `delegate` |
| `ServicePort`, `ServiceManager` (`net/server.*`) | acceptors, two flags, the io_context | `open`, `accept`, `handle`, `close`, `run`, retries | `open` runs on the dispatcher, `handle` on a service thread |
| `IO` (`io/io.*`) | none of its own: tables of accounts, players and bans | ban checks, `loadAccount`, `saveAccount`, `updatePremium` | called by `delegate` and at startup |
| `Database` (`database.*`) | a handle per thread, its connected flag, transactions, two workers | `query`, `storeQuery`, `reconnectAndRetry`, `DBTransaction` | MySQL; other processes write the same tables |
| startup (`otlogin.cpp`) | `g_loaderSignal`, the process | configuration, fork, keys, database, worlds, premium update, port, notification | `otlogin` is the dispatcher's first task; `main` waits for its signal, then runs the service threads |
| `ConfigManager` (`configmanager.*`) | the settings, the message of the day | `load`, `reloadMotd` | read by everything; `reloadMotd` is a blocking request on the dispatcher's thread, repeated every minute |
| `Worlds` (`io/worlds.*`) | the worlds by id | `loadFromJson` | read once at startup, listed in every answer |
| logging, ciphers (`textlogger.*`, `tools.*`) | - | - | not modelled |

What is hard in this code: three kinds of thread share objects by raw pointers,
weak pointers and hand-kept counts; a connection's end has four phases on three
threads; timers, a late answer, a reset by the peer and a second packet race
with each other; notifications are sent outside the locks; the database may go
away between any two statements, and other processes write the same rows; the port
reopens itself from two threads without a lock; `main` waits for a signal that may
come too early; the process forks from a thread that is not `main`;
every write to a message tests its own room. `PROJECT.json`
lists these hazards with their lines and properties.

What makes each part right: a task never meets a deleted object, a connection
is closed once and released once, counts return to zero exactly when the owner
is gone, silent clients lose their socket, nothing handed to a queue is lost,
limits neither punish the patient nor forget the impatient, banned clients get
no list, days paid for are neither lost nor given, the server comes up complete or
not at all, and no read or write of a message leaves that message's buffer. (The
array in which `delegate` prepares the message of the day is another matter; see
Abstractions.)

## Modules and the code

* **`Connection`** - the core. `conn[c]` is the record of a connection's members
  (with its protocol and its one message), the kernel operations under way and
  `ready`, the completion handlers waiting in or running on service threads.
  `taskList` is the dispatcher's list, `events` the retries in the scheduler and
  `running` the `delegate` the dispatcher is in the middle of. Every handler
  holds `m_connectionLock` from beginning to end and is one action;
  `delegate` is an action per locked call (`DelegateAnswer`, `DelegateSend`,
  `DelegateClose`). `parsePacket` is split by its outcome (refused, no protocol,
  undecryptable, disconnect, login, later packet). Up to `ServiceThreads`
  handlers are in progress; a timeout handler that has locked its weak pointer is
  one of them (`onReadTimeout`), so `onStop` may run between its lock and its
  body; the destruction of the write handler's own reference is `~onWrite`.
* **`CountedObject`** - what a counted object promises: created, referenced,
  released when the owner has let go and the count is zero, never used later.
  `Connection` instantiates it for the connection and for the protocol.
* **`TaskQueues`** - the queues as `Connection` uses them: delayed jobs, a list,
  jobs executed once, in order but for jobs put in front.
* **`Scheduler`** - the two threads with their mutexes and condition variables:
  `addEvent` and `addTask` are a step under the lock and, if they signal, a later
  step for the notification; `timed_wait` may time out, be notified or return
  spuriously. It implements `TaskQueues`.
* **`Workers`** - the database's pool: `asyncTask`, `workerLoop` and the three
  calls that end it. A step is what happens between two operations on the mutex
  or the condition variable, so that a worker can stand between its test of
  `s_workerState` and the lock. It implements `TaskQueues` too.
* **`ConnectionManager`** - the two limits, for one address. The clock is the time of
  day and may be set back (`SetBack`); `shift` remembers by how much, so that the
  properties can tell what the clock says from what time it is.
* **`ServicePort`** - the port as a component: `open` on the dispatcher (bind, then
  register), accepts and `handle` on a service thread, retries, the end of the
  io_context. It has no specification of its own.
* **`Config`**, **`Worlds`** - operators: what `load` makes of the command line and
  `config.json`; what `loadFromJson` makes of the entries of `worlds.json`.
* **`Startup`** - composes `main` (`main`), `otlogin` and the dispatcher's later tasks
  (`dispatcher`), `Config`, `Worlds` and `ServicePort`. Every error path of `otlogin`
  is a step to `"error"`, where a key is waited for, and then `exit`.
* **`Database`**, **`Premium`** - operators: what a statement may do to a handle
  whose connection fails at any moment; the arithmetic of `updatePremium`.
* **`Login`** - the dispatcher's thread statement by statement: the premium update
  of all accounts in a transaction at startup, then `delegate` for several
  logins. `freePremium` is the option FREE_PREMIUM, which `load` reads once and under
  which the answer shows GRATIS_PREMIUM whatever the account has. Between two statements the clock may advance, the game server may ban
  or add premium days (`Pay`), the connection may fail.
* **`Packets`** - `NetworkMessage` and `OutputMessage` as sizes and positions:
  header, checksum, first message, RSA block, strings, later packets; building,
  padding, framing and reusing an answer.
* **`ConnectionProofs`**, **`ConnectionCountsProofs`** - the theorems about
  `Connection`: the order of its tasks, then its counts. **`SchedulerProofs`**, **`WorkersProofs`**,
  **`ConnectionManagerProofs`**, **`LoginProofs`**, **`PacketsProofs`**,
  **`StartupProofs`** - those about the module each is named after.
  **`MC...`** - instances for TLC.

`PROJECT.json` maps every definition to its lines.

## Runs

| run | checks | bounds, and why they are enough |
|---|---|---|
| `conn` | types; `DelegateHasConnection`, `CloseRunsOnce`, `OneReleaseChain`, `MessageIsOwned`, `OpenIsUsable`, `SocketNotUsedAfterStop`, `OperationsAreTimed`; connection and protocol implement `CountedObject`; sockets close, protocols are freed, closed connections released | one connection, two service threads. Connections share only the two queues, whose order among different connections no guard reads; two threads give every pair of handlers. The theorems cover any set of connections and any number of threads |
| `conn_aborted` (violation) | `AbortedReadIsClosed` | one connection, one service thread, which is the configured default |
| `sched` | `NoWakeupLost`, `TimeoutFindsDueEvent`, refinement of `TaskQueues`, `EventRuns` | two events, one immediate task, delays 1 and 2; the last id starts at 0 or just before its limit, so that the second event meets the wrap; spurious wake-ups on |
| `sched_waited` (violation) | `TakesDueEvent` | the same without spurious wake-ups |
| `workers` | `SleepersAreExcused`, refinement of `TaskQueues`, `AcceptedIsRun`, `JoinReturns` | two workers, as `otlogin` starts, and three tasks: more than workers |
| `manager_limits` | `PatientIsAccepted`, `BurstIsPunished`, `BlockIsHonoured`, `BlockEnds` | limit 2, window 1, block 3, seven connections over six ticks, the clock set back by up to two: two windows and their boundary, a block, its end and the first try after it. Inside a window every connection is accepted; a burst is answered at the next connection after it. There 2L is exact: after 2L-1 connections across a boundary the next may pass |
| `manager_tries` (violation) | `TriesAreLimited` | the same |
| `login_bans` | `BannedIpGetsNoList`, `BannedAccountNeedsOutage`, `DaysShownAreRight`, `OutageIsFinal`, `PaidUntilIsKept` | two accounts, one of them number 10, a name without account; days of two ticks, rows with premium out of range, not started, running and in the future; with and without the startup update and FREE_PREMIUM, then two logins, with a day paid for at any moment |
| `packets` | `StaysInBuffer`, `FrameDecodes`, `AnswerIsWhole` | a buffer of 72 bytes with the real header widths, packet sizes and string lengths below, at and above every limit, up to two characters: answers that fit with their padding, without it and not at all |
| `startup` | `OneReopening`, `NotForgotten`, `OfflineIsExplained`, `OnlineIsReady`, `FirstWorldWins`, `StartupEnds`, `ReopeningIsTried` | a plain configuration and nine others that each differ from it in one respect (file, legacy section, fork, key, host, port, no colon, no threads, message of the day), four worlds files with duplicate and wrapping ids; three acceptors and two connections: a failed bind or accept at every point, and again after the reopening |
| `port_online` (violation) | `OpenPortIsServed` | the plain configuration |
| `startup_daemon` (violation) | `DaemonServes` | a configuration that daemonizes |

Deadlock is not checked where the model may rightly stop: a connection that is
gone, a bounded clock that has run out, a server whose threads have ended.
Every passing run's property has a mutant in `PROJECT.json`: a plausible slip in
a mapped definition, under which TLC finds the property violated.

## Fairness

Every property but the liveness ones is checked of the same behaviours without
it. Service threads, dispatcher, scheduler, workers and
callers about to notify run on: each is a thread that loops for ever. Timers
expire, because `steady_timer` does. For tasks in the dispatcher's list strong
fairness is assumed per task: a task at the head of the list is executed, but
retries and message releases are pushed in front of it, and what is pushed is
bounded per connection (a retry pauses for 50 ms), so the list drains again and
again. Nothing is assumed of the peer: it may stay silent, which is what the
timers are for. In `Scheduler` time passes (`Tick`); `timed_wait` times out in the
end although spurious wake-ups send the thread back to wait again and again
(strong fairness of `SchedulerTimeout`), because the time it waits for is fixed.
In `Workers` a thread that waits for the mutex gets it; nobody has to end the pool.
In `Startup` `main` and `otlogin` go on, and a retry that is due is taken although
other tasks come first (strong fairness of `RetryOpen`); that a key is pressed, that
the request for the message of the day returns, that clients come or that accepts
fail is not assumed.

## Proofs

`ConnectionProofs`, from the assumption that `ServiceThreads` is a positive
number and for any set `Conns`:

* `Invariance`: `Spec => []IInv`;
* `TypeCorrect`, `CloseOnce`, `DelegateSafe`, and `OpenProtocol` (`OpenHasProtocol`, a
  half of `OpenIsUsable`): the parts of it the runs check as well.

`DelegateHasConnection` (a queued or running `delegate` finds its protocol
attached) is not inductive: what could detach the protocol is
`closeConnection`, and it is queued by any handler at any time. The argument is
about the order of the list: `delegate` is queued while the connection is OPEN,
`closeConnection` only in the step to REQUEST_CLOSE, and at the back; so it stands
behind the `delegate` of its connection (`DelegateBeforeClose`), and tasks put in
front, which are retries and releases, change neither (`RetriesAreDetached`: a
release of the protocol is only retried once it is detached). That
`closeConnection` is queued exactly while the state is REQUEST_CLOSE, and once
(`CloseRunsOnce`), is needed to know that no other is on its way, and
`FirstPacketCreates` ties the protocol to `m_receivedFirst`, so that only the first
packet queues a `delegate`. `IInv` is the conjunction of these. The proof has a lemma for
each member function (what it does to state, protocol and list), lemmas on
sequences (appending, prepending and removing a task), one step per action, and
`PTL` for the last step.

`ConnectionCountsProofs`, from the same assumption and with `IInv` as a part of the
invariant: `CountsInvariance` (`Spec => [](IInv /\ CountsAreKept)`), and from it

* `MessageOwned` (`MessageIsOwned`), of two halves: `MessagesCounted` (`OneMessage`) and
  `MessageOwners` (`MessageOwnersExist`);
* `OpenUsable` (`OpenIsUsable`), from `OpenConsistent` (`OpenIsConsistent`) and
  `OpenProtocol`;
* `ReleaseChain` (`OneReleaseChain`), from `ConnectionReleased` (`ConnectionReleasedOnce`)
  and `ProtocolReleased` (`ProtocolReleasedOnce`);
* `StoppedSocket` (`SocketNotUsedAfterStop`) and `OperationsTimed` (`OperationsAreTimed`);
* `ConnectionCounted` and `ProtocolCounted`, the two refinements of `CountedObject`.

None of these is inductive, because
each speaks of what is under way in four places: the socket, the io_context's queue, the
dispatcher's list and the retries. `CountsAreKept` looks at each connection through the
numbers of these (`Summary` for its record, `Pending` for the lists) and says:

* `MessagesAreCounted`: both counts are the messages being written, in a handler, in the
  dispatcher's hands or on their way back to the pool; there is at most one, counting a
  login that waits (which is why `OneMessage` survives the `delegate`); and there is none
  once the protocol is gone or `onStop` is queued;
* `LinksAreCounted`: in each state from REQUEST_CLOSE on, CLOSING apart, one link of the
  release chain; the manager's list and the protocol's detachment by state;
* `SocketIsCounted`: the pending counters of an OPEN connection are its operations, and
  a closed socket has none;
* `StopIsLast`: with one service thread only expired timers run behind `onStop`;
  `Unborn`: a connection not yet accepted is new.

The lemmas on sequences say how a count changes when a task or a handler is appended,
prepended or removed; then each member function has a lemma on `Summary` and
`Pending`, and each action a step. For the refinements each step moves the two
objects of one connection by one step of `CountedObject` or none (`ObjectsAdvance`) and
leaves the others alone (`NextAdvances`, `StepsAreCounted`): a counted object is deleted
only because the invariant knows its count to be zero.

Two more invariants stand on this one. `ReleasesAreCounted` says that the retries of
`releaseProtocol`, in the list and in the scheduler, are one for a detached protocol and
none for any other: the scheduler moves a retry, a retry that finds a reference leaves
another, and only `closeConnection` begins the chain, on a protocol that is attached.
`TimesAreKept` is `OperationsAreTimed` with one thing more, without which it is not
inductive: while a read is in the kernel no handler of another read is queued. Such a
handler would cancel the timer of the read that came after its own; there is none,
because an open connection reads once at a time (`SocketIsCounted`) and a handler that
reads on has just left the queue. A write needs no such clause: its handler and the
write share the one message. A timeout that is handled takes the last watch away only
where nothing is left to watch: the operation is not pending, the socket is closed, or
the connection is gone (`TimeoutTimes`).

`PacketsProofs`, from the assumption that the sizes are numbers and that the first
packet fits the buffer with 16 bytes to spare (it has 151 bytes, the buffer 16384):
`PacketsInvariance`, and from it `BufferSafe` (`StaysInBuffer`), `FramesDecode`
(`FrameDecodes`) and `AnswersAreWhole` (`AnswerIsWhole`). The invariant says where the position stands
when a handler ends: a first message is read at offset 7 because only a packet with
a matching checksum gets a protocol; a later one is decrypted from offset 2 or 6; a
message being built has its position behind its size by the reserved eight bytes,
and below `NETWORK_BODY_SIZE`, which is what keeps the unchecked padding of the
cipher inside the buffer; a freed message has its whole header reserved again. The
size is the sum of the fields put so far if and only if all of them fit; once a field
has been left out the sum stays ahead (`PutFieldStep`). The padding of a message
completes its last block if and only if it found room (`EncryptedFacts`), so both
properties are equivalences.

`SchedulerProofs`, for any sets of events, tasks and delays and any limit of the ids
(`SchedulerAssumption`): `SchedulerInvariance`, and from it `WakeupsArrive`
(`NoWakeupLost`), `TimeoutIsDue` (`TimeoutFindsDueEvent`) and `SchedulerImplementsQueues`
(`ImplementsQueues`). `NoWakeupLost` is inductive with the types: whoever makes a
sleeper's list non-empty, or puts an event in front of its deadline, is on its way to
notify. For the refinement every waiting event's id must be active and its own
(`EventsAreKnown`): an event is dropped when its id is not found, so two events with one
id would lose a job. Nothing that reaches the dispatcher expires (`NothingExpires`), so no
task is skipped. For the timeout, the event whose time was waited for, or an earlier
one, is still in the list (`DeadlineHasEvent`): only the sleeper itself removes events.
That a set of events has an earliest one comes from `WFMin` of the library.

`WorkersProofs`, for any set of tasks and any finite set of workers, which is not empty:
`WorkersInvariance`, `WorkersImplementQueues`, and `SleepersExcused`
(`SleepersAreExcused`), of two halves: `NoTaskIsOverslept` (`SleepersAreNotNeeded`) and
`JoinWaitsForLate` (`SleepersWereLate`). A task is in the queue or in one worker's hands
only if it was offered; each step of a worker, of `asyncTask` and of the three calls
that end the pool is a step of `TaskQueues` or none. The two halves rest on `WakeInv`: a worker
that goes to sleep finds the queue empty, a task that joins it brings a notification,
and a notification either wakes a sleeper or finds none; and, `EndIsKnown`, a worker
that comes to its lock or to sleep after the end of the pool was past its test before,
so that it is one of `late`. What remains of `JoinReturns` is that those who are not
late end, which is liveness.

`ConnectionManagerProofs`, from `ManagerAssumption` (a block is longer than the window
and the limit is positive, as the literals in `acceptConnection` are):
`ManagerInvariance`, `PatientClientsAreAccepted`, `BurstsArePunished`,
`BlocksAreHonoured`, `BlocksEnd`. None of the four properties is inductive, because
each tells of the past answers and the code keeps a count and two times. So each has a
companion that says what the entry must know: `BlockLasts` (a refusal's block ends no
earlier in true time than it must), `BlockCounts` (during a block only the count moves),
`CountIsRecent` (what is counted lies in the entry's window) and `RunIsCounted` (of calls
that came close together either all are counted, or fewer than the limit before the
window began and all since: that is why a burst needs twice the limit). `TimesGrow`
relates the clock to true time when it is set back.

`LoginProofs`, from `LoginAssumption`, `PremiumAssumption` (a day and the gratis mark are
positive) and `RowsAssumption` (the columns hold integers): `LoginInvariance`, and
from it `IpBansAreEnforced`, `AccountBansAreEnforced`, `DaysAreRight`, `OutagesAreFinal`
and, for each step, `PeriodsAreKept`. The invariant says at each statement what a
ban in force implies: a banned address is past `isIpBanished` only with a lost handle
(`IpBanStops`), which `loadAccount` then meets, a banned account past `getBanishment`
likewise (`AccountBanStops`); it needs that `checkBanishments` only deactivates what is
over (`BanIsActive`). For the premium periods it says what the session sees of the
table (`RowsAreSeen`, `TransactionEnds`) and that the account in memory is that of its
row, or what `updatePremium` made of it (`AccountIsRead`). The arithmetic is a chain of
lemmas on whole days: charging moves `lastDay` on by exactly the days taken
(`Charged`), so the end of the period stays (`UpdateKeeps`) and what is left is the rest
rounded up (`UpdateShowsDaysLeft`). That is what the account in memory has; the days in
the answer are these or the gratis mark, and nothing changes either before the task ends
(`DaysArePut`, an invariant of its own on top of the others).

`StartupProofs`, for any configuration, worlds file and bounds: `StartupInvariance`, and
from it `ReopensOnce`, `PortIsKept`, `OfflineHasReason`, `OnlineAfterStartup` and
`WorldsAreFirst` (`FirstWorldWins`).
`OneReopening` alone is not inductive: `handle` may ask for a reopening only because no
other accept is outstanding (`OneAccept`); and what `main` may conclude rests on how
far `otlogin` has come with the port (`PortIsNew`, `PortIsMade`, `MainIsTold`). The worlds
are those `loadFromJson` made from the moment it has run (`WorldsAreLoaded`); that its loop
keeps the first entry of an id is an induction over the entries of a file. `WorldList` is
a recursive function, and `FirstOnes` says without a loop what the first entries are; the
two agree, because an entry at which they part first would be one step of the loop behind
an entry where they agree, and the smallest such entry exists by `WFMin` of the
library. `InputsAssumption` says only that the entries of a file are a sequence.

Only model-checked, because it is out of the prover's reach: liveness (fairness
and ENABLED), that is `SocketCloses`, `ProtocolFreed`, `ClosedIsReleased`, `EventRuns`,
`AcceptedIsRun`, `JoinReturns`, `StartupEnds` and `ReopeningIsTried`. For most of them
a theorem states the safety half: the watch on every operation, the one retry of each
release, the chain that is not broken, the notification that is not lost, the reopening
that waits.

## Disagreements with the code's own words

* `conn_aborted`: `handleReadError` says of an aborted operation that the
  "connection will be closed", but `closeConnection` with a write pending leaves CLOSING,
  from which no path leads on: the connection object stays for ever.
* `sched_waited`: "ok we had a timeout, so there has to be an event we have to
  execute..." is true after a timeout (`TimeoutFindsDueEvent`, checked), not after
  `wait()`: an event that ends a wait on an empty list is passed on before its
  time, and a late notification or a spurious wake-up takes the top of an empty
  queue. The model calls that `"undefined"` and ends there.
* `manager_tries`: an address over its login tries is not refused.
* `port_online`: after a failure with no connection open the io_context's threads
  end, and the reopened port is served by nobody.
* `startup_daemon`: "--daemon, -d  Run as daemon." forks on the dispatcher's thread.
  The child has no `main`, nobody starts the service threads, and the daemon listens
  and never answers. (The option is also overwritten by `legacy.daemonize`,
  which is false by default, whenever the file has a legacy section; and a `fork` that fails is taken for
  the parent's side and ends the process with "succeed, bye!".)

Worth knowing, though no line of the repository speaks of it; each is an exception
that a property names, and without which TLC finds it violated:

* a banned account gets its list when the database is lost between `loadAccount` and
  `getBanishment` (`BannedAccountNeedsOutage`);
* an answer so full that its padding finds no room is encrypted and sent all the same
  and cannot be decrypted (`FrameDecodes`); one that does not fit at all is sent with
  fields missing, though its count of characters announces them (`AnswerIsWhole`);
* after one failed bind no further one is retried: the port is then given up
  (`NotForgotten`, which is stated while `m_logError` is set);
* premium days others add between the read of an account and its save are lost
  (`PaidUntilIsKept`);
* with two service threads a timeout may use a deleted socket when a handler of an
  aborted operation has set the error flag next to it (`SocketNotUsedAfterStop`);
* a spurious wake-up makes `main` give up, or serve a port without a service, which
  then falls silent (`OfflineIsExplained`, `OnlineIsReady`, `NotForgotten`);
* a worker between its test and its lock misses the end of the pool (`JoinReturns`);
* an address that keeps trying while it is blocked is blocked again at once (`BlockEnds`).

Two more things the models make plain: after one failed reconnect every login is told
that its name or password is wrong, until the process is restarted (`OutageIsFinal`
says that nothing else happens), and a configuration without a legacy section has
defaults for everything but the RSA key and ends the startup there.

## Abstractions

* Exceptions of asio calls (the `catch` branches, which log and at most close) are left out; so
  are `stopEvent`, `stop`, `shutdown`, `flush`, `ConnectionManager::shutdown`,
  and `autoSend`, none of which has a caller in this server. `asyncTask` and `stopWorkers`
  have none either, and `shutdownWorkers` is behind a join that never returns; the
  pool is modelled as the interface it offers, since its threads do run.
* The packet-rate limit of `parsePacket` is a nondeterministic refusal.
* `delegate`'s own reference to its message is dropped at the end of its block;
  the model drops it with the send. Only the order of tasks in front differs.
* `onStop` takes the connection off the manager's list after it has unlocked; nobody looks in between.
* `getIP()` is 0 when the peer is gone, and the ban check then finds nothing; there
  is nobody left to receive the list.
* An event id is taken to be reused only after the ids between have been passed.
* The port has one address, as `otlogin` binds one.
* The message of the day is written by `sprintf` into an array of 1300 bytes before it
  is put into the answer (`protocollogin.cpp:225`). Its text comes from outside and
  nothing bounds its length, so nothing in the code keeps a longer one inside the array.
  The model has the string as it is put, with any length: `StaysInBuffer` speaks of the
  buffers of the two messages and says nothing of this array.
* `Packets` follows one connection at a time; after a refusal what is still read is
  thrown away by the connection's state and not shown. Sizes a header may
  announce are a constant; beyond the buffer they are all refused alike.
* What others do to the database is external: they ban and add premium days, wait for
  the rows this server has locked, and are not seen by a transaction that has read.
* `fork` keeps the calling thread only, and the model follows the child. `exit` on the
  dispatcher's thread destroys the condition variable `main` waits on, which is
  undefined: the process ends or hangs. `Dispatcher::exit` joins a thread that never
  ends, so `main` stops there.
* The delays of retries (five seconds) and of the message of the day (a minute) are
  left out of `Startup`: both may come in any order. Its text and number are left out.

Not modelled: ciphers, hashes and checksums (library computations on wide words);
log files and the output handler, whose cache is written by several threads without a
lock (pure output); argument parsing but for `--daemon`; the return value of `addEvent`,
read after the unlock and used by no caller; the growth of the two maps of addresses;
the wildcard address a port is reopened on after an accept error (the model follows
it, no line says what it should be); a count of characters beyond one byte.

## Plan

1. Done: the connection's life and its theorems, the queues, the workers, the
   manager's limits with a clock that is set back, bans and premium at login with
   other writers, configuration, worlds, port and startup, the messages.
2. Left to model: several connections sharing the manager's list, the packet-rate
   limit of `parsePacket`, which is a nondeterministic refusal so far.
3. Proved: every safety invariant of the passing runs, the action property
   `PaidUntilIsKept` and the four refinements. What is modelled under 2 should come with
   its theorems.
