----------------------------- MODULE LoginProofs ----------------------------
(* Proofs about ProtocolLogin::delegate and IO::updatePremium for any number  *)
(* of accounts, logins and payments, any length of a day and any loss of the  *)
(* database's connection.                                                     *)
EXTENDS Login, TLAPS

-----------------------------------------------------------------------------
(* Whole days.                                                                *)

LEMMA DivMod ==
    ASSUME NEW e \in Nat, NEW d \in Nat \ {0}
    PROVE  /\ e \div d \in Nat /\ e % d \in 0..(d - 1)
           /\ e = (e \div d) * d + (e % d)
  OBVIOUS

LEMMA Product == ASSUME NEW p \in Nat, NEW d \in Nat PROVE p * d \in Nat
  OBVIOUS

LEMMA Grows == ASSUME NEW p \in Nat, NEW q \in Nat, NEW d \in Nat, p < q
               PROVE  p * d + d <= q * d
  OBVIOUS

LEMMA Difference == ASSUME NEW p \in Nat, NEW q \in Nat, NEW d \in Nat
                    PROVE  (p - q) * d = p * d - q * d
  OBVIOUS

LEMMA DivUnique ==
    ASSUME NEW q \in Nat, NEW d \in Nat \ {0}, NEW r \in 0..(d - 1)
    PROVE  (q * d + r) \div d = q
<1> DEFINE e == q * d + r
           f == e \div d
           s == e % d
<1>1. e \in Nat
  OBVIOUS
<1>2. f \in Nat /\ s \in 0..(d - 1) /\ e = f * d + s
  BY <1>1, DivMod
<1> HIDE DEF f, s
<1>3. f * d \in Nat /\ q * d \in Nat
  BY <1>2, Product
<1>4. CASE f < q
  <2>1. f * d + d <= q * d
    BY <1>2, <1>4, Grows
  <2> QED
    BY <1>2, <1>3, <2>1
<1>5. CASE q < f
  <2>1. q * d + d <= f * d
    BY <1>2, <1>5, Grows
  <2> QED
    BY <1>2, <1>3, <2>1
<1> QED
  BY <1>2, <1>4, <1>5 DEF f

-----------------------------------------------------------------------------
(* IO::updatePremium(Account&).                                               *)

\* A row that replaces another keeps the end of the premium period, or ends it when
\* it is over at time t.
Keeps(row, new, t) ==
    Counting(row) =>
        \/ Counting(new) /\ PaidUntil(new) = PaidUntil(row)
        \/ new.premium = 0 /\ PaidUntil(row) <= t

LEMMA Days == Day \in Nat \ {0} /\ Day \in Nat /\ Day >= 1 /\ Gratis \in Nat \ {0} /\ Gratis \in Nat
  BY PremiumAssumption

\* Charge takes the whole days since lastDay and moves lastDay on by them.
LEMMA Charged ==
    ASSUME NEW account \in Account, NEW t \in Nat, account.lastDay <= t,
           account.premium >= DaysSince(account, t)
    PROVE  /\ Charge(account, t) \in Account
           /\ DaysSince(account, t) \in Nat
           /\ Charge(account, t).premium = account.premium - DaysSince(account, t)
           /\ Charge(account, t).lastDay >= account.lastDay
           /\ Charge(account, t).lastDay <= t /\ t - Charge(account, t).lastDay < Day
           /\ PaidUntil(Charge(account, t)) = PaidUntil(account)
<1> DEFINE e == Elapsed(account, t)
           q == DaysSince(account, t)
           r == e % Day
           new == Charge(account, t)
<1>1. account.premium \in Nat /\ account.lastDay \in Nat
  BY DEF Account
<1>2. e \in Nat /\ e = t - account.lastDay
  BY <1>1 DEF Elapsed
<1>3. q \in Nat /\ r \in 0..(Day - 1) /\ e = q * Day + r
  BY <1>2, Days, DivMod DEF DaysSince
<1>4. new = [premium |-> account.premium - q, lastDay |-> t - r]
  BY DEF Charge
<1> HIDE DEF e, q, r, new
<1>5. q * Day \in Nat /\ account.premium * Day \in Nat
  BY <1>1, <1>3, Days, Product
<1>6. t - r \in Nat /\ t - r >= account.lastDay /\ t - r <= t /\ t - (t - r) < Day
  BY <1>1, <1>2, <1>3, <1>5, Days
<1>7. account.premium - q \in Nat
  BY <1>1, <1>3 DEF q
<1>8. new \in Account /\ new.premium = account.premium - q /\ new.lastDay = t - r
  BY <1>4, <1>6, <1>7 DEF Account
<1>9. new.premium * Day = account.premium * Day - q * Day
  BY <1>1, <1>3, <1>8, Days, Difference
<1>10. t - r + (account.premium * Day - q * Day) = account.lastDay + account.premium * Day
  BY <1>1, <1>2, <1>3, <1>5
<1>11. PaidUntil(new) = PaidUntil(account)
  BY <1>8, <1>9, <1>10 DEF PaidUntil
<1> QED
  BY <1>3, <1>6, <1>8, <1>11 DEF q, new

\* The cases of updatePremium for a running period.
LEMMA UpdateCases ==
    ASSUME NEW account \in Account, NEW t \in Nat, Counting(account)
    PROVE  \/ /\ account.lastDay > t \/ Elapsed(account, t) < Day
              /\ UpdatePremium(account, t) = account
           \/ /\ account.lastDay <= t /\ Elapsed(account, t) >= Day
              /\ account.premium >= DaysSince(account, t)
              /\ UpdatePremium(account, t) = Charge(account, t)
           \/ /\ account.lastDay <= t /\ Elapsed(account, t) >= Day
              /\ account.premium < DaysSince(account, t)
              /\ UpdatePremium(account, t) = Expired
<1>1. /\ account.premium \in Nat /\ account.lastDay \in Nat /\ account.lastDay # 0
      /\ account.premium > 0 /\ account.premium < Gratis
  BY Days DEF Account, Counting
<1>2. CASE account.lastDay > t \/ Elapsed(account, t) < Day
  BY <1>2 DEF UpdatePremium
<1>3. CASE ~(account.lastDay > t \/ Elapsed(account, t) < Day)
  <2>1. account.lastDay <= t /\ Elapsed(account, t) \in Nat /\ Elapsed(account, t) >= Day
    BY <1>1, <1>3, Days DEF Elapsed
  <2>2. DaysSince(account, t) \in Nat
    BY <2>1, Days, DivMod DEF DaysSince
  <2>3. CASE account.premium >= DaysSince(account, t)
    BY <1>1, <1>3, <2>1, <2>3 DEF UpdatePremium
  <2>4. CASE ~(account.premium >= DaysSince(account, t))
    <3>1. account.premium < DaysSince(account, t)
      BY <1>1, <2>2, <2>4
    <3>2. UpdatePremium(account, t) = Expired
      BY <1>1, <1>3, <2>4 DEF UpdatePremium
    <3> QED
      BY <2>1, <3>1, <3>2
  <2> QED
    BY <2>3, <2>4
<1> QED
  BY <1>2, <1>3

\* What is not paid for is over.
LEMMA ExpiredIsOver ==
    ASSUME NEW account \in Account, NEW t \in Nat, account.lastDay <= t,
           account.premium < DaysSince(account, t)
    PROVE  PaidUntil(account) <= t
<1> DEFINE e == Elapsed(account, t)
           q == DaysSince(account, t)
<1>1. account.premium \in Nat /\ account.lastDay \in Nat
  BY DEF Account
<1>2. e \in Nat /\ e = t - account.lastDay
  BY <1>1 DEF Elapsed
<1>3. q \in Nat /\ e % Day \in 0..(Day - 1) /\ e = q * Day + (e % Day)
  BY <1>2, Days, DivMod DEF DaysSince
<1>4. account.premium * Day + Day <= q * Day
  BY <1>1, <1>3, Days, Grows
<1>5. q * Day \in Nat /\ account.premium * Day \in Nat
  BY <1>1, <1>3, Days, Product
<1> HIDE DEF e, q
<1> QED
  BY <1>1, <1>2, <1>3, <1>4, <1>5, Days DEF PaidUntil

\* updatePremium moves the end of no running period.
LEMMA UpdateKeeps ==
    ASSUME NEW account \in Account, NEW t \in Nat
    PROVE  Keeps(account, UpdatePremium(account, t), t)
<1> SUFFICES ASSUME Counting(account)
             PROVE  LET new == UpdatePremium(account, t)
                    IN  \/ Counting(new) /\ PaidUntil(new) = PaidUntil(account)
                        \/ new.premium = 0 /\ PaidUntil(account) <= t
  BY DEF Keeps
<1>1. CASE UpdatePremium(account, t) = account
  BY <1>1
<1>2. CASE /\ account.lastDay <= t /\ account.premium >= DaysSince(account, t)
           /\ UpdatePremium(account, t) = Charge(account, t)
  <2> DEFINE new == Charge(account, t)
  <2>1. /\ new \in Account /\ DaysSince(account, t) \in Nat
        /\ new.premium = account.premium - DaysSince(account, t)
        /\ new.lastDay >= account.lastDay /\ new.lastDay <= t
        /\ PaidUntil(new) = PaidUntil(account)
    BY <1>2, Charged
  <2>2. /\ account.premium \in Nat /\ account.lastDay \in Nat /\ account.lastDay # 0
        /\ account.premium < Gratis
    BY Days DEF Account, Counting
  <2>3. new.premium \in Nat /\ new.lastDay \in Nat
    BY <2>1 DEF Account
  <2> HIDE DEF new
  <2>4. CASE new.premium = 0
    <3>1. PaidUntil(new) = new.lastDay
      BY <2>3, <2>4, Days DEF PaidUntil
    <3> QED
      BY <1>2, <2>1, <2>4, <3>1 DEF new
  <2>5. CASE new.premium # 0
    <3>1. Counting(new)
      BY <2>1, <2>2, <2>3, <2>5, Days DEF Counting
    <3> QED
      BY <1>2, <2>1, <3>1 DEF new
  <2> QED
    BY <2>4, <2>5
<1>3. CASE /\ account.lastDay <= t /\ account.premium < DaysSince(account, t)
           /\ UpdatePremium(account, t) = Expired
  BY <1>3, ExpiredIsOver DEF Expired
<1> QED
  BY <1>1, <1>2, <1>3, UpdateCases

\* The days left after updatePremium are those that remain, rounded up.
LEMMA UpdateShowsRemaining ==
    ASSUME NEW account \in Account, NEW t \in Nat, Counting(account), account.lastDay <= t
    PROVE  UpdatePremium(account, t).premium = Remaining(account, t)
<1>1. /\ account.premium \in Nat /\ account.lastDay \in Nat /\ account.premium >= 1
  BY Days DEF Account, Counting
<1>2. account.premium * Day \in Nat /\ PaidUntil(account) \in Nat
  BY <1>1, Days, Product DEF PaidUntil
\* An account that is charged up to less than a day ago, with all it has left.
<1>3. ASSUME NEW new \in Account, new.lastDay <= t, t - new.lastDay < Day,
             PaidUntil(new) = PaidUntil(account)
      PROVE  new.premium = Remaining(account, t)
  <2> DEFINE e == t - new.lastDay
             p == new.premium
  <2>1. e \in Nat /\ e < Day /\ p \in Nat /\ new.lastDay \in Nat
    BY <1>3 DEF Account
  <2>2. p * Day \in Nat /\ PaidUntil(account) - t = p * Day - e
    <3>1. p * Day \in Nat
      BY <2>1, Days, Product
    <3>2. PaidUntil(account) = new.lastDay + p * Day
      BY <1>3 DEF PaidUntil
    <3> QED
      BY <2>1, <3>1, <3>2
  <2> HIDE DEF e, p
  <2>3. CASE p = 0
    <3>1. p * Day = 0
      BY <2>3, Days
    <3>2. PaidUntil(account) <= t
      BY <1>2, <2>1, <2>2, <3>1
    <3> QED
      BY <2>3, <3>2 DEF Remaining, p
  <2>4. CASE p # 0
    <3>1. Day <= p * Day
      <4>1. 0 * Day + Day <= p * Day
        BY <2>1, <2>4, Days, Grows
      <4> QED
        BY <2>1, <2>2, <4>1, Days
    <3>2. ~(PaidUntil(account) <= t)
      BY <1>2, <2>1, <2>2, <3>1, Days
    <3>3. PaidUntil(account) - t + Day - 1 = p * Day + (Day - 1 - e) /\ Day - 1 - e \in 0..(Day - 1)
      BY <1>2, <2>1, <2>2, Days
    <3>4. (PaidUntil(account) - t + Day - 1) \div Day = p
      BY <2>1, <3>3, Days, DivUnique
    <3> QED
      BY <3>2, <3>4 DEF Remaining, p
  <2> QED
    BY <2>3, <2>4
<1>4. CASE Elapsed(account, t) < Day /\ UpdatePremium(account, t) = account
  <2>1. t - account.lastDay < Day
    BY <1>4 DEF Elapsed
  <2> QED
    BY <1>3, <1>4, <2>1
<1>5. CASE /\ account.premium >= DaysSince(account, t)
           /\ UpdatePremium(account, t) = Charge(account, t)
  BY <1>3, <1>5, Charged
<1>6. CASE /\ account.premium < DaysSince(account, t)
           /\ UpdatePremium(account, t) = Expired
  BY <1>6, ExpiredIsOver DEF Expired, Remaining
<1>7. ~(account.lastDay > t)
  BY <1>1
<1> QED
  BY <1>4, <1>5, <1>6, <1>7, UpdateCases

LEMMA UpdateType ==
    ASSUME NEW account \in Account, NEW t \in Nat
    PROVE  UpdatePremium(account, t) \in Account
<1>1. account.premium \in Nat /\ account.lastDay \in Nat
  BY DEF Account
<1>2. CASE account.lastDay > t \/ Elapsed(account, t) < Day
  BY <1>2 DEF UpdatePremium
<1>3. CASE ~(account.lastDay > t \/ Elapsed(account, t) < Day)
  <2>1. [account EXCEPT !.lastDay = t] \in Account /\ [account EXCEPT !.lastDay = 0] \in Account
        /\ Expired \in Account
    BY DEF Account, Expired
  <2>2. account.premium >= DaysSince(account, t) => Charge(account, t) \in Account
    BY <1>1, <1>3, Charged
  <2> QED
    BY <1>3, <2>1, <2>2 DEF UpdatePremium
<1> QED
  BY <1>2, <1>3

\* loadAccount reads a running period as it is.
LEMMA LoadedFacts ==
    ASSUME NEW row \in Row
    PROVE  /\ Loaded(row) \in Account
           /\ Counting(row) => Loaded(row) = row
<1>1. row.premium \in Int /\ row.lastDay \in Nat /\ row = [premium |-> row.premium, lastDay |-> row.lastDay]
  BY DEF Row
<1>2. Loaded(row) \in Account
  BY <1>1, Days DEF Loaded, Account, Row
<1>3. ASSUME Counting(row) PROVE Loaded(row) = row
  <2>1. row.premium \in 1..(Gratis - 1)
    BY <1>3 DEF Counting
  <2>2. ~(row.premium < 0) /\ ~(row.premium > Gratis)
    BY <1>1, <2>1, Days
  <2> QED
    BY <1>1, <2>2 DEF Loaded, Row
<1> QED
  BY <1>2, <1>3

LEMMA AccountIsRow == Account \subseteq Row
  BY DEF Account, Row

-----------------------------------------------------------------------------
(* The handle of the database.                                                *)

LEMMA ReconnectedFacts ==
    ASSUME NEW d \in Handle
    PROVE  /\ Reconnected(d) \in Handle
           /\ ~Reconnected(d).inTrans
           /\ Reconnected(d).connected = d.connected
           /\ Reconnected(d).table = d.table /\ Reconnected(d).work = d.table
           /\ Reconnected(d).dirty = {}
  BY DEF Reconnected, Handle

LEMMA LostFacts ==
    ASSUME NEW d \in Handle
    PROVE  /\ Lost(d) \in Handle
           /\ ~Lost(d).connected /\ ~Lost(d).inTrans
           /\ Lost(d).table = d.table /\ Lost(d).work = d.table /\ Lost(d).dirty = {}
  BY ReconnectedFacts DEF Lost, Handle

\* A statement that succeeds does so in the session as it was or in a new one.
LEMMA SessionFacts ==
    ASSUME NEW d \in Handle, NEW s \in Sessions(d)
    PROVE  /\ s \in Handle /\ d.connected /\ s.connected
           /\ s.table = d.table
           /\ s = d \/ (~s.inTrans /\ s.work = d.table /\ s.dirty = {})
<1>1. d.connected /\ s \in {d, Reconnected(d)}
  BY DEF Sessions
<1> QED
  BY <1>1, ReconnectedFacts

LEMMA WriteFacts ==
    ASSUME NEW d \in Handle, NEW a \in Accounts, NEW value \in Row
    PROVE  /\ Write(d, a, value) \in Handle
           /\ Write(d, a, value).connected = d.connected
           /\ Write(d, a, value).inTrans = d.inTrans
           /\ Write(d, a, value).work = [d.work EXCEPT ![a] = value]
           /\ d.inTrans => /\ Write(d, a, value).table = d.table
                           /\ Write(d, a, value).dirty = d.dirty \cup {a}
           /\ ~d.inTrans => /\ Write(d, a, value).table = [d.table EXCEPT ![a] = value]
                            /\ Write(d, a, value).dirty = d.dirty
  BY DEF Write, Handle, Table

\* An UPDATE has written the row in the session as it was or in a new one, with or without
\* an answer, or has left the handle lost without it.
LEMMA UpdateFacts ==
    ASSUME NEW d \in Handle, NEW a \in Accounts, NEW value \in Row,
           NEW e \in UpdateOutcomes(d, a, value)
    PROVE  /\ e \in Handle /\ (~d.connected => ~e.connected)
           /\ \/ e = Lost(d)
              \/ \E s \in Sessions(d) : e = Write(s, a, value) \/ e = Lost(Write(s, a, value))
<1>1. \/ e = Lost(d)
      \/ \E s \in Sessions(d) : e = Write(s, a, value) \/ e = Lost(Write(s, a, value))
  BY DEF UpdateOutcomes
<1>2. CASE e = Lost(d)
  BY <1>1, <1>2, LostFacts
<1>3. ASSUME NEW s \in Sessions(d), e = Write(s, a, value) \/ e = Lost(Write(s, a, value))
      PROVE  e \in Handle /\ (~d.connected => ~e.connected)
  <2>1. s \in Handle /\ d.connected
    BY SessionFacts
  <2>2. Write(s, a, value) \in Handle
    BY <2>1, WriteFacts
  <2> QED
    BY <1>3, <2>1, <2>2, LostFacts
<1> QED
  BY <1>1, <1>2, <1>3

LEMMA CommitFacts ==
    ASSUME NEW d \in Handle, NEW e \in CommitOutcomes(d)
    PROVE  /\ e \in Handle /\ e.connected = d.connected
           /\ \/ e = d /\ ~d.connected
              \/ /\ ~e.inTrans /\ e.work = e.table /\ e.dirty = {}
                 /\ \A a \in Accounts : \/ e.table[a] = d.table[a]
                                        \/ a \in d.dirty /\ e.table[a] = d.work[a]
<1>1. CASE e = d /\ ~d.connected
  BY <1>1
<1>2. CASE e = Reconnected(d)
  BY <1>2, ReconnectedFacts
<1>3. CASE e = Committed(d)
  <2> DEFINE rows == [row \in DOMAIN d.table |-> IF row \in d.dirty THEN d.work[row] ELSE d.table[row]]
  <2>1. d.table \in Table /\ d.work \in Table
    BY DEF Handle
  <2>2. rows \in Table /\ \A a \in Accounts : rows[a] = IF a \in d.dirty THEN d.work[a] ELSE d.table[a]
    BY <2>1 DEF Table
  <2>3. e = [d EXCEPT !.inTrans = FALSE, !.table = rows, !.work = rows, !.dirty = {}]
    BY <1>3 DEF Committed
  <2> HIDE DEF rows
  <2>4. e \in Handle /\ e.connected = d.connected /\ ~e.inTrans /\ e.table = rows
        /\ e.work = rows /\ e.dirty = {}
    BY <2>2, <2>3 DEF Handle
  <2> QED
    BY <2>2, <2>4
<1> QED
  BY <1>1, <1>2, <1>3 DEF CommitOutcomes

LEMMA BeginFacts ==
    ASSUME NEW d \in Handle
    PROVE  /\ Begin(d) \in Handle /\ Begin(d).connected = d.connected
           /\ Begin(d).table = d.table /\ Begin(d).work = d.work /\ Begin(d).dirty = d.dirty
  BY DEF Begin, Handle

LEMMA OtherFacts ==
    ASSUME NEW d \in Handle, NEW a \in Accounts, NEW value \in Row, NEW hasRead \in BOOLEAN
    PROVE  LET e == OtherWrites(d, a, value, hasRead)
           IN  /\ e \in Handle /\ e.connected = d.connected /\ e.inTrans = d.inTrans
               /\ e.dirty = d.dirty
               /\ e.table = [d.table EXCEPT ![a] = value]
               /\ e.work = IF d.inTrans /\ hasRead THEN d.work ELSE [d.work EXCEPT ![a] = value]
  BY DEF OtherWrites, Handle, Table

-----------------------------------------------------------------------------
(* The inductive invariant.                                                   *)

\* checkBanishments deactivates only bans that are over, and the clock goes on.
BanIsActive == \A t \in Targets : bans[t].until > now => bans[t].active

\* A ban that was in force when the login began is not replaced by another.
BanIsRemembered == \A t \in task.banned : bans[t].until > 0

\* A banned address passes isIpBanished only with a lost handle, and loadAccount then
\* ends the login.
IpStopped(t, d) ==
    /\ t.pc = "loadAccount" => ~d.connected
    /\ t.pc \notin {"loadCharacters", "getBanishment", "getNameByGuid",
                    "updatePremium", "saveAccount", "answer"}
    /\ ~(t.pc = "answered" /\ t.answer = "list")
IpBanStops == Banned("ip") => IpStopped(task, db)

\* A banned account passes getBanishment only with a lost handle.
AccountStopped(t, d) ==
    \/ t.pc \in {"updatePremium", "saveAccount", "answer"}
    \/ t.pc = "answered" /\ t.answer = "list"
    => ~d.connected
AccountBanStops == task.who \in Bannable /\ Banned(task.who) => AccountStopped(task, db)

\* A login that begins with a lost handle comes no further than loadAccount.
OutageStopped(t, d) ==
    /\ ~d.connected
    /\ \/ t.pc \in {"checkBanishments", "isIpBanished", "loadAccount"}
       \/ t.pc = "answered" /\ t.answer = "invalid"
OutageStops == task.outage => OutageStopped(task, db)

\* A transaction is open only during the premium update, and outside one the session
\* sees what is committed.
TransactionEnds ==
    /\ db.inTrans => db.connected /\ task.pc \in {"select", "load", "save", "commit"}
    /\ ~db.inTrans => db.work = db.table /\ db.dirty = {}

\* The session sees the committed rows, but for those it has written and those others
\* wrote since; what it has written and not committed keeps the end of the period.
RowsAreSeen ==
    /\ \A a \in Accounts \ (task.paid \cup db.dirty) : db.work[a] = db.table[a]
    /\ \A a \in db.dirty \ task.paid : Keeps(db.table[a], db.work[a], now)
    /\ db.dirty # {} => task.pc \in UpdatesAll
    /\ task.pc \in {"load", "save"} => db.dirty \cap task.todo = {}

\* The account in memory is the one of the row, until updatePremium, and what
\* updatePremium made of it after that.
AccountIsRead ==
    /\ task.pc \in {"save", "loadCharacters", "getBanishment", "updatePremium", "saveAccount"} =>
         /\ task.who \in Accounts
         /\ task.who \notin task.paid => task.loaded = Loaded(db.table[task.who])
    /\ At("save") => task.who \in task.todo
    /\ task.pc \in {"loadCharacters", "getBanishment", "updatePremium"} =>
         task.account = task.loaded
    /\ task.pc \in {"save", "saveAccount", "answer"} \/ Listed =>
         task.account = UpdatePremium(task.loaded, task.at)
    /\ task.pc \in {"save", "saveAccount"} => task.at <= now

IInv ==
    /\ TypeOK
    /\ BanIsActive /\ BanIsRemembered /\ IpBanStops /\ AccountBanStops /\ OutageStops
    /\ TransactionEnds /\ RowsAreSeen /\ AccountIsRead

-----------------------------------------------------------------------------
(* Types.                                                                     *)

LEMMA IdleType == Idle \in TaskType /\ Idle.pc = "idle" /\ Idle.banned = {} /\ ~Idle.outage
                  /\ Idle.paid = {} /\ Idle.answer = "none"
  BY DEF Idle, TaskType, NoAccount, Account, Statements, Answers

LEMMA TypeInit == Init => TypeOK
<1> SUFFICES ASSUME Init PROVE TypeOK
  OBVIOUS
<1>1. now \in Nat /\ served \in Nat /\ payments \in Nat /\ freePremium \in BOOLEAN
  BY LoginAssumption DEF Init
<1>2. db \in Handle
  BY RowsAssumption DEF Init, Handle
<1>3. bans \in [Targets -> [active : BOOLEAN, until : Nat]]
  BY DEF Init, NeverBanned
<1>4. task \in TaskType
  <2>1. [Idle EXCEPT !.pc = "begin"] \in TaskType
    BY IdleType DEF TaskType, Statements
  <2> QED
    BY <2>1, IdleType DEF Init
<1> QED
  BY <1>1, <1>2, <1>3, <1>4 DEF TypeOK

LEMMA TaskTypes ==
    ASSUME NEW t \in TaskType
    PROVE  /\ \A pc \in Statements \cup {"idle", "answered"} : [t EXCEPT !.pc = pc] \in TaskType
           /\ \A answer \in Answers : Answered(t, answer) \in TaskType
           /\ \A todo \in SUBSET Accounts, pc \in Statements :
                [t EXCEPT !.pc = pc, !.todo = todo] \in TaskType
           /\ \A a \in Accounts : [t EXCEPT !.paid = @ \cup {a}] \in TaskType
           /\ \A chars \in BOOLEAN :
                [t EXCEPT !.chars = chars, !.pc = "getBanishment"] \in TaskType
           /\ \A pc \in Statements, account \in Account, at \in Nat :
                [t EXCEPT !.pc = pc, !.account = account, !.at = at] \in TaskType
           /\ \A a \in Accounts, at \in Nat, loaded, account \in Account :
                [t EXCEPT !.pc = "save", !.who = a, !.at = at, !.loaded = loaded,
                          !.account = account] \in TaskType
           /\ \A account \in Account :
                [t EXCEPT !.pc = "loadCharacters", !.loaded = account, !.account = account]
                  \in TaskType
<1> USE DEF TaskType
<1>1. \A pc \in Statements \cup {"idle", "answered"} : [t EXCEPT !.pc = pc] \in TaskType
  OBVIOUS
<1>2. \A answer \in Answers : Answered(t, answer) \in TaskType
  BY DEF Answered
<1>3. \A todo \in SUBSET Accounts, pc \in Statements :
        [t EXCEPT !.pc = pc, !.todo = todo] \in TaskType
  OBVIOUS
<1>4. \A a \in Accounts : [t EXCEPT !.paid = @ \cup {a}] \in TaskType
  OBVIOUS
<1>5. \A chars \in BOOLEAN : [t EXCEPT !.chars = chars, !.pc = "getBanishment"] \in TaskType
  BY DEF Statements
<1>6. \A pc \in Statements, account \in Account, at \in Nat :
        [t EXCEPT !.pc = pc, !.account = account, !.at = at] \in TaskType
  OBVIOUS
<1>7. \A a \in Accounts, at \in Nat, loaded, account \in Account :
        [t EXCEPT !.pc = "save", !.who = a, !.at = at, !.loaded = loaded,
                  !.account = account] \in TaskType
  <2>1. "save" \in Statements
    BY DEF Statements
  <2> QED
    BY <2>1
<1>8. \A account \in Account :
        [t EXCEPT !.pc = "loadCharacters", !.loaded = account, !.account = account] \in TaskType
  BY DEF Statements
<1> HIDE DEF TaskType
<1> QED
  BY <1>1, <1>2, <1>3, <1>4, <1>5, <1>6, <1>7, <1>8

\* The step goes on in delegate with the same login.
Moves(t, u) == u.who = t.who /\ u.banned = t.banned /\ u.outage = t.outage /\ u.paid = t.paid
Works(t, u) ==
    /\ Moves(t, u)
    /\ u.loaded = t.loaded /\ u.account = t.account /\ u.at = t.at /\ u.todo = t.todo

LEMMA MoveFacts ==
    ASSUME NEW t \in TaskType
    PROVE  /\ \A pc \in STRING : LET u == [t EXCEPT !.pc = pc]
                    IN  u.pc = pc /\ u.answer = t.answer /\ Works(t, u)
           /\ \A answer \in Answers : LET u == Answered(t, answer)
                    IN  u.pc = "answered" /\ u.answer = answer /\ Works(t, u)
<1>1. ASSUME NEW pc \in STRING
      PROVE  LET u == [t EXCEPT !.pc = pc] IN u.pc = pc /\ u.answer = t.answer /\ Works(t, u)
  BY DEF TaskType, Works, Moves
<1>2. ASSUME NEW answer \in Answers
      PROVE  LET u == Answered(t, answer)
             IN  u.pc = "answered" /\ u.answer = answer /\ Works(t, u)
  BY DEF TaskType, Works, Moves, Answered
<1> QED
  BY <1>1, <1>2

-----------------------------------------------------------------------------
(* Steps that share an argument.                                              *)

\* Nothing of the session is uncommitted.
AtRest(d) == ~d.inTrans /\ d.work = d.table /\ d.dirty = {}

LEMMA RestIsSeen ==
    ASSUME AtRest(db)'
    PROVE  TransactionEnds' /\ RowsAreSeen'
  BY DEF AtRest, TransactionEnds, RowsAreSeen

\* A statement outside a transaction that reads, or fails.
LEMMA ReadFacts ==
    ASSUME IInv, task.pc \notin {"select", "load", "save", "commit"},
           NEW e \in Sessions(db) \cup {db, Lost(db)}
    PROVE  /\ AtRest(db) /\ AtRest(e) /\ e \in Handle
           /\ e.table = db.table /\ (~db.connected => ~e.connected)
<1>1. db \in Handle
  BY DEF IInv, TypeOK
<1>2. AtRest(db)
  BY DEF IInv, TransactionEnds, AtRest
<1>3. CASE e \in Sessions(db)
  BY <1>1, <1>2, <1>3, SessionFacts DEF AtRest
<1>4. CASE e = Lost(db)
  BY <1>1, <1>2, <1>4, LostFacts DEF AtRest
<1> QED
  BY <1>1, <1>2, <1>3, <1>4

LEMMA BansMove ==
    ASSUME IInv, UNCHANGED <<now, bans>>, Moves(task, task'),
           Banned("ip") => IpStopped(task', db'),
           task.who \in Bannable /\ Banned(task.who) => AccountStopped(task', db'),
           task.outage => OutageStopped(task', db')
    PROVE  BanIsActive' /\ BanIsRemembered' /\ IpBanStops' /\ AccountBanStops' /\ OutageStops'
<1>1. BanIsActive' /\ BanIsRemembered'
  BY DEF IInv, BanIsActive, BanIsRemembered, Moves
<1>2. IpBanStops'
  BY DEF IpBanStops, Banned, IpStopped, Moves
<1>3. AccountBanStops'
  BY DEF AccountBanStops, Banned, AccountStopped, Moves
<1>4. OutageStops'
  BY DEF OutageStops, OutageStopped, Moves
<1> QED
  BY <1>1, <1>2, <1>3, <1>4

\* The task ends.
LEMMA ToIdle ==
    ASSUME IInv, TypeOK', task' = Idle, UNCHANGED <<now, bans>>, AtRest(db)'
    PROVE  IInv'
<1>1. task'.pc = "idle" /\ task'.banned = {} /\ ~task'.outage /\ task'.answer = "none"
  BY IdleType
<1>2. TransactionEnds' /\ RowsAreSeen'
  BY RestIsSeen
<1>3. AccountIsRead'
  BY <1>1 DEF AccountIsRead, At, Listed
<1>4. BanIsActive' /\ BanIsRemembered' /\ IpBanStops' /\ AccountBanStops' /\ OutageStops'
  BY <1>1 DEF IInv, BanIsActive, BanIsRemembered, IpBanStops, AccountBanStops, OutageStops, Banned
<1> QED
  BY <1>2, <1>3, <1>4 DEF IInv

LEMMA FinishKeeps == ASSUME IInv, FinishLogin PROVE IInv'
<1>1. At("answered") /\ task' = Idle /\ UNCHANGED <<now, db, bans, payments, freePremium>> /\ served' = served + 1
  BY DEF FinishLogin
<1>2. AtRest(db)
  BY <1>1 DEF IInv, TransactionEnds, AtRest, At
<1>3. AtRest(db)'
  BY <1>1, <1>2 DEF AtRest
<1>4. TypeOK'
  BY <1>1, IdleType DEF IInv, TypeOK
<1> QED
  BY <1>1, <1>3, <1>4, ToIdle

-----------------------------------------------------------------------------
(* ProtocolLogin::delegate.                                                   *)

LEMMA StartKeeps == ASSUME IInv, StartLogin PROVE IInv'
<1>1. PICK who \in Accounts \cup {Unknown}, password \in BOOLEAN :
        task' = [Idle EXCEPT !.pc = "checkBanishments", !.who = who, !.password = password,
                             !.banned = {t \in Targets : bans[t].until > now},
                             !.outage = ~db.connected]
  BY DEF StartLogin
<1>2. At("idle") /\ UNCHANGED <<now, db, bans, served, payments, freePremium>>
  BY DEF StartLogin
<1>3. /\ task'.pc = "checkBanishments" /\ task'.answer = "none"
      /\ task'.banned = {t \in Targets : bans[t].until > now}
      /\ task'.outage => ~db.connected
      /\ task' \in TaskType
  <2>1. {t \in Targets : bans[t].until > now} \in SUBSET Targets /\ (~db.connected) \in BOOLEAN
    OBVIOUS
  <2> DEFINE b == {t \in Targets : bans[t].until > now}
             o == ~db.connected
  <2>2. o => ~db.connected
    OBVIOUS
  <2> HIDE DEF b, o
  <2>3. task' = [Idle EXCEPT !.pc = "checkBanishments", !.who = who, !.password = password,
                             !.banned = b, !.outage = o]
    BY <1>1 DEF b, o
  <2>4. "checkBanishments" \in Statements
    BY DEF Statements
  <2>5. b \in SUBSET Targets /\ o \in BOOLEAN
    BY <2>1 DEF b, o
  <2>6. task' \in TaskType
    BY <2>3, <2>4, <2>5, IdleType DEF TaskType
  <2>7. task'.pc = "checkBanishments" /\ task'.answer = "none" /\ task'.banned = b /\ task'.outage = o
    BY <2>3, IdleType DEF TaskType
  <2> QED
    BY <2>2, <2>6, <2>7 DEF b
<1>4. TypeOK'
  BY <1>2, <1>3 DEF IInv, TypeOK
<1>5. AtRest(db)'
  BY <1>2 DEF IInv, TransactionEnds, AtRest, At
<1>6. TransactionEnds' /\ RowsAreSeen'
  BY <1>5, RestIsSeen
<1>7. AccountIsRead'
  BY <1>3 DEF AccountIsRead, At, Listed
<1>8. BanIsActive' /\ BanIsRemembered'
  <2>1. BanIsActive'
    BY <1>2 DEF IInv, BanIsActive
  <2>2. \A t \in Targets : bans[t].until > now => bans[t].until > 0
    BY DEF IInv, TypeOK
  <2> QED
    BY <1>2, <1>3, <2>1, <2>2 DEF BanIsRemembered
<1>9. IpBanStops' /\ AccountBanStops' /\ OutageStops'
  BY <1>2, <1>3 DEF IpBanStops, AccountBanStops, OutageStops, IpStopped, AccountStopped,
                    OutageStopped
<1> QED
  BY <1>4, <1>6, <1>7, <1>8, <1>9 DEF IInv

LEMMA CheckKeeps == ASSUME IInv, CheckBanishments PROVE IInv'
<1>1. /\ task.pc = "checkBanishments" /\ task \in TaskType
      /\ task' = [task EXCEPT !.pc = "isIpBanished"]
      /\ UNCHANGED <<now, served, payments, freePremium>>
      /\ db' \in Sessions(db) \cup {db, Lost(db)}
      /\ bans' \in {bans, Deactivated}
  BY DEF CheckBanishments, At, IInv, TypeOK
<1>2. task'.pc = "isIpBanished" /\ Works(task, task')
  BY <1>1 DEF TaskType, Works, Moves
<1>3. AtRest(db)' /\ db' \in Handle /\ (~db.connected => ~db'.connected)
  BY <1>1, ReadFacts DEF AtRest
<1>4. /\ bans' \in [Targets -> [active : BOOLEAN, until : Nat]]
      /\ \A t \in Targets : bans'[t].until = bans[t].until
                            /\ (bans[t].until > now /\ bans[t].active => bans'[t].active)
  <2>1. bans \in [Targets -> [active : BOOLEAN, until : Nat]] /\ now \in Nat
    BY DEF IInv, TypeOK
  <2>2. CASE bans' = bans
    BY <2>1, <2>2
  <2>3. CASE bans' = Deactivated
    <3> DEFINE Bans == [active : BOOLEAN, until : Nat]
               over(t) == [bans[t] EXCEPT !.active = FALSE]
    <3>1. \A t \in Targets : bans[t] \in Bans /\ over(t) \in Bans /\ over(t).until = bans[t].until
      BY <2>1
    <3>2. bans' = [t \in Targets |-> IF bans[t].until <= now THEN over(t) ELSE bans[t]]
      BY <2>3 DEF Deactivated, IsOver
    <3> HIDE DEF Bans, over
    <3>3. \A t \in Targets : bans'[t] = IF bans[t].until <= now THEN over(t) ELSE bans[t]
      BY <3>2
    <3>4. bans' \in [Targets -> Bans]
      BY <3>1, <3>2
    <3>5. \A t \in Targets : bans'[t].until = bans[t].until
      BY <3>1, <3>3
    <3>6. \A t \in Targets : bans[t].until > now => bans'[t] = bans[t]
      <4>1. \A t \in Targets : bans[t].until \in Nat
        BY <2>1
      <4> QED
        BY <2>1, <3>3, <4>1
    <3> QED
      BY <3>4, <3>5, <3>6 DEF Bans
  <2> QED
    BY <1>1, <2>2, <2>3
<1>5. TypeOK'
  <2>1. task' \in TaskType
    BY <1>1, TaskTypes DEF Statements
  <2> QED
    BY <1>1, <1>3, <1>4, <2>1 DEF IInv, TypeOK
<1>6. BanIsActive' /\ BanIsRemembered'
  <2>1. task.banned \subseteq Targets
    BY <1>1 DEF TaskType
  <2> QED
    BY <1>1, <1>2, <1>4, <2>1 DEF IInv, BanIsActive, BanIsRemembered, Works, Moves
<1>7. IpBanStops' /\ AccountBanStops'
  BY <1>2 DEF IpBanStops, AccountBanStops, IpStopped, AccountStopped
<1>8. OutageStops'
  BY <1>2, <1>3 DEF IInv, OutageStops, OutageStopped, Works, Moves
<1>9. AccountIsRead'
  BY <1>2 DEF AccountIsRead, At, Listed
<1> QED
  BY <1>3, <1>5, <1>6, <1>7, <1>8, <1>9, RestIsSeen DEF IInv

LEMMA IpKeeps == ASSUME IInv, IsIpBanished PROVE IInv'
<1>1. /\ task.pc = "isIpBanished" /\ task \in TaskType
      /\ UNCHANGED <<now, bans, served, payments, freePremium>>
      /\ db' \in Sessions(db) \cup {db, Lost(db)}
      /\ \/ /\ db' \in Sessions(db)
            /\ task' = IF InForce(bans["ip"]) THEN Answered(task, "ipBanned")
                       ELSE [task EXCEPT !.pc = "loadAccount"]
         \/ db' = Lost(db) /\ task' = [task EXCEPT !.pc = "loadAccount"]
  BY DEF IsIpBanished, At, Same, IInv, TypeOK
<1>2. AtRest(db)' /\ db' \in Handle /\ (~db.connected => ~db'.connected)
  BY <1>1, ReadFacts DEF AtRest
<1>3. /\ Works(task, task') /\ task' \in TaskType
      /\ \/ /\ task' = Answered(task, "ipBanned") /\ db' \in Sessions(db)
            /\ task'.pc = "answered" /\ task'.answer = "ipBanned"
         \/ /\ task'.pc = "loadAccount"
            /\ ~InForce(bans["ip"]) \/ db' = Lost(db)
  <2>1. "ipBanned" \in Answers /\ "loadAccount" \in Statements
    BY DEF Answers, Statements
  <2>2. CASE task' = Answered(task, "ipBanned") /\ db' \in Sessions(db)
    BY <1>1, <2>1, <2>2, MoveFacts, TaskTypes
  <2>3. CASE /\ task' = [task EXCEPT !.pc = "loadAccount"]
             /\ ~InForce(bans["ip"]) \/ db' = Lost(db)
    <3>1. task' \in TaskType
      BY <1>1, <2>1, <2>3, TaskTypes
    <3>2. task'.pc = "loadAccount" /\ Works(task, task')
      BY <1>1, <2>3 DEF TaskType, Works, Moves
    <3> QED
      BY <2>3, <3>1, <3>2
  <2> QED
    BY <1>1, <2>2, <2>3
<1>4. db \in Handle
  BY DEF IInv, TypeOK
<1>5. TypeOK'
  BY <1>1, <1>2, <1>3 DEF IInv, TypeOK
<1>6. ASSUME Banned("ip") PROVE IpStopped(task', db')
  <2>1. InForce(bans["ip"])
    BY <1>6 DEF Banned, InForce, IInv, BanIsActive, Targets
  <2> QED
    BY <1>3, <1>4, <2>1, LostFacts DEF IpStopped
<1>7. AccountStopped(task', db')
  BY <1>3 DEF AccountStopped
<1>8. ASSUME task.outage PROVE OutageStopped(task', db')
  <2>1. ~db.connected
    BY <1>8 DEF IInv, OutageStops, OutageStopped
  <2>2. Sessions(db) = {}
    BY <2>1 DEF Sessions
  <2> QED
    BY <1>2, <1>3, <2>1, <2>2 DEF OutageStopped
<1>9. AccountIsRead'
  BY <1>3 DEF AccountIsRead, At, Listed
<1>10. BanIsActive' /\ BanIsRemembered' /\ IpBanStops' /\ AccountBanStops' /\ OutageStops'
  BY <1>1, <1>3, <1>6, <1>7, <1>8, BansMove DEF Works
<1> QED
  BY <1>2, <1>5, <1>9, <1>10, RestIsSeen DEF IInv

\* A lost handle runs no statement.
LEMMA NoSession == ~db.connected => Sessions(db) = {}
  BY DEF Sessions

LEMMA LoadKeeps == ASSUME IInv, LoadAccount PROVE IInv'
<1>1. /\ task.pc = "loadAccount" /\ task \in TaskType /\ db \in Handle
      /\ UNCHANGED <<now, bans, served, payments, freePremium>>
      /\ db' \in Sessions(db) \cup {db, Lost(db)}
  BY DEF LoadAccount, At, Same, IInv, TypeOK
<1>2. /\ AtRest(db) /\ AtRest(db)' /\ db' \in Handle /\ (~db.connected => ~db'.connected)
      /\ db'.table = db.table
  BY <1>1, ReadFacts DEF AtRest
<1>3. \/ task' = Answered(task, "invalid")
      \/ /\ task.who \in Accounts /\ db' \in Sessions(db)
         /\ task' = [task EXCEPT !.pc = "loadCharacters", !.loaded = Loaded(db'.work[task.who]),
                                 !.account = Loaded(db'.work[task.who])]
  BY <1>1 DEF LoadAccount, NoResult, TaskType
<1>4. CASE task' = Answered(task, "invalid")
  <2>1. task'.pc = "answered" /\ task'.answer = "invalid" /\ Works(task, task') /\ task' \in TaskType
    BY <1>1, <1>4, MoveFacts, TaskTypes DEF Answers
  <2>2. TypeOK'
    BY <1>1, <1>2, <2>1 DEF IInv, TypeOK
  <2>3. IpStopped(task', db') /\ AccountStopped(task', db')
    BY <2>1 DEF IpStopped, AccountStopped
  <2>4. task.outage => OutageStopped(task', db')
    BY <1>2, <2>1 DEF IInv, OutageStops, OutageStopped
  <2>5. AccountIsRead'
    BY <2>1 DEF AccountIsRead, At, Listed
  <2>6. BanIsActive' /\ BanIsRemembered' /\ IpBanStops' /\ AccountBanStops' /\ OutageStops'
    BY <1>1, <2>1, <2>3, <2>4, BansMove DEF Works
  <2> QED
    BY <1>2, <2>2, <2>5, <2>6, RestIsSeen DEF IInv
<1>5. CASE /\ task.who \in Accounts /\ db' \in Sessions(db)
           /\ task' = [task EXCEPT !.pc = "loadCharacters", !.loaded = Loaded(db'.work[task.who]),
                                   !.account = Loaded(db'.work[task.who])]
  <2> DEFINE account == Loaded(db'.work[task.who])
  <2>1. db'.work[task.who] = db.table[task.who] /\ db.table[task.who] \in Row
    BY <1>1, <1>2, <1>5 DEF AtRest, Handle, Table
  <2>2. account \in Account /\ account = Loaded(db'.table[task.who])
    BY <1>2, <2>1, LoadedFacts
  <2> HIDE DEF account
  <2>3. task' = [task EXCEPT !.pc = "loadCharacters", !.loaded = account, !.account = account]
    BY <1>5 DEF account
  <2>4. task' \in TaskType
    BY <1>1, <2>2, <2>3, TaskTypes
  <2>5. /\ task'.pc = "loadCharacters" /\ task'.loaded = account /\ task'.account = account
        /\ Moves(task, task')
    BY <1>1, <2>3 DEF TaskType, Moves
  <2>6. TypeOK'
    BY <1>1, <1>2, <2>4 DEF IInv, TypeOK
  <2>7. db.connected
    BY <1>5, NoSession
  <2>8. ~Banned("ip") /\ ~task.outage
    BY <1>1, <2>7 DEF IInv, IpBanStops, IpStopped, OutageStops, OutageStopped
  <2>9. AccountStopped(task', db')
    BY <2>5 DEF AccountStopped
  <2>10. BanIsActive' /\ BanIsRemembered' /\ IpBanStops' /\ AccountBanStops' /\ OutageStops'
    BY <1>1, <2>5, <2>8, <2>9, BansMove
  <2>11. AccountIsRead'
    BY <1>5, <2>2, <2>5 DEF AccountIsRead, At, Listed, Moves
  <2> QED
    BY <1>2, <2>6, <2>10, <2>11, RestIsSeen DEF IInv
<1> QED
  BY <1>3, <1>4, <1>5

LEMMA CharactersKeep == ASSUME IInv, LoadCharacters PROVE IInv'
<1>1. /\ task.pc = "loadCharacters" /\ task \in TaskType /\ db \in Handle
      /\ UNCHANGED <<now, bans, served, payments, freePremium>>
      /\ db' \in Sessions(db) \cup {db, Lost(db)}
  BY DEF LoadCharacters, At, Same, IInv, TypeOK
<1>2. PICK chars \in BOOLEAN :
        LET t == [task EXCEPT !.chars = chars, !.pc = "getBanishment"]
        IN  task' = IF IsRejected(t) THEN Answered(t, "invalid") ELSE t
  BY DEF LoadCharacters
<1>3. /\ AtRest(db)' /\ db' \in Handle /\ (~db.connected => ~db'.connected)
      /\ db'.table = db.table
  BY <1>1, ReadFacts DEF AtRest
<1>4. /\ task' \in TaskType /\ Works(task, task')
      /\ \/ task'.pc = "answered" /\ task'.answer = "invalid"
         \/ task'.pc = "getBanishment"
  <2> DEFINE t == [task EXCEPT !.chars = chars, !.pc = "getBanishment"]
  <2>1. t \in TaskType
    BY <1>1, TaskTypes
  <2>2. t.pc = "getBanishment" /\ Works(task, t)
    BY <1>1 DEF TaskType, Works, Moves
  <2>3. task' = t \/ task' = Answered(t, "invalid")
    BY <1>2
  <2> HIDE DEF t
  <2>4. LET u == Answered(t, "invalid")
        IN  u \in TaskType /\ u.pc = "answered" /\ u.answer = "invalid" /\ Works(t, u)
    BY <2>1, MoveFacts, TaskTypes DEF Answers
  <2> QED
    BY <2>1, <2>2, <2>3, <2>4 DEF Works, Moves
<1>5. TypeOK'
  BY <1>1, <1>3, <1>4 DEF IInv, TypeOK
<1>6. ~Banned("ip") /\ ~task.outage
  BY <1>1 DEF IInv, IpBanStops, IpStopped, OutageStops, OutageStopped
<1>7. AccountStopped(task', db')
  BY <1>4 DEF AccountStopped
<1>8. BanIsActive' /\ BanIsRemembered' /\ IpBanStops' /\ AccountBanStops' /\ OutageStops'
  BY <1>1, <1>4, <1>6, <1>7, BansMove DEF Works
<1>9. AccountIsRead'
  BY <1>1, <1>3, <1>4 DEF IInv, AccountIsRead, At, Listed, Works, Moves
<1> QED
  BY <1>3, <1>5, <1>8, <1>9, RestIsSeen DEF IInv

LEMMA BanishmentKeeps == ASSUME IInv, GetBanishment PROVE IInv'
<1>1. /\ task.pc = "getBanishment" /\ task \in TaskType /\ db \in Handle
      /\ UNCHANGED <<now, bans, served, payments, freePremium>>
      /\ db' \in Sessions(db) \cup {db, Lost(db)}
  BY DEF GetBanishment, At, Same, IInv, TypeOK
<1>2. /\ AtRest(db)' /\ db' \in Handle /\ (~db.connected => ~db'.connected)
      /\ db'.table = db.table
  BY <1>1, ReadFacts DEF AtRest
<1>3. \/ task' = [task EXCEPT !.pc = "getNameByGuid"]
      \/ /\ task' = [task EXCEPT !.pc = "updatePremium"]
         /\ ~InForce(AccountBan) \/ db' = Lost(db)
  BY DEF GetBanishment
<1>4. /\ task' \in TaskType /\ Works(task, task')
      /\ \/ task'.pc = "getNameByGuid"
         \/ task'.pc = "updatePremium" /\ (~InForce(AccountBan) \/ db' = Lost(db))
  <2>1. task' \in TaskType
    <3>1. "getNameByGuid" \in Statements /\ "updatePremium" \in Statements
      BY DEF Statements
    <3>2. \A pc \in Statements : [task EXCEPT !.pc = pc] \in TaskType
      BY <1>1, TaskTypes
    <3> QED
      BY <1>3, <3>1, <3>2
  <2>2. \A pc \in {"getNameByGuid", "updatePremium"} :
          LET u == [task EXCEPT !.pc = pc] IN u.pc = pc /\ Works(task, u)
    BY <1>1 DEF TaskType, Works, Moves
  <2>3. CASE task' = [task EXCEPT !.pc = "getNameByGuid"]
    BY <2>1, <2>2, <2>3
  <2>4. CASE /\ task' = [task EXCEPT !.pc = "updatePremium"]
             /\ ~InForce(AccountBan) \/ db' = Lost(db)
    BY <2>1, <2>2, <2>4
  <2> QED
    BY <1>3, <2>3, <2>4
<1>5. TypeOK'
  BY <1>1, <1>2, <1>4 DEF IInv, TypeOK
<1>6. ~Banned("ip") /\ ~task.outage
  BY <1>1 DEF IInv, IpBanStops, IpStopped, OutageStops, OutageStopped
<1>7. ASSUME task.who \in Bannable, Banned(task.who) PROVE AccountStopped(task', db')
  <2>1. InForce(AccountBan)
    BY <1>7 DEF AccountBan, Banned, InForce, IInv, BanIsActive, Targets
  <2> QED
    BY <1>1, <1>4, <2>1, LostFacts DEF AccountStopped
<1>8. BanIsActive' /\ BanIsRemembered' /\ IpBanStops' /\ AccountBanStops' /\ OutageStops'
  BY <1>1, <1>4, <1>6, <1>7, BansMove DEF Works
<1>9. AccountIsRead'
  BY <1>1, <1>2, <1>4 DEF IInv, AccountIsRead, At, Listed, Works, Moves
<1> QED
  BY <1>2, <1>5, <1>8, <1>9, RestIsSeen DEF IInv

LEMMA NameKeeps == ASSUME IInv, GetNameByGuid PROVE IInv'
<1>1. /\ task.pc = "getNameByGuid" /\ task \in TaskType /\ db \in Handle
      /\ UNCHANGED <<now, bans, served, payments, freePremium>>
      /\ db' \in Sessions(db) \cup {db, Lost(db)}
      /\ task' = Answered(task, "accountBanned")
  BY DEF GetNameByGuid, At, Same, IInv, TypeOK
<1>2. AtRest(db)' /\ db' \in Handle
  BY <1>1, ReadFacts DEF AtRest
<1>3. task' \in TaskType /\ Works(task, task') /\ task'.pc = "answered" /\ task'.answer = "accountBanned"
  BY <1>1, MoveFacts, TaskTypes DEF Answers
<1>4. TypeOK'
  BY <1>1, <1>2, <1>3 DEF IInv, TypeOK
<1>5. ~Banned("ip") /\ ~task.outage
  BY <1>1 DEF IInv, IpBanStops, IpStopped, OutageStops, OutageStopped
<1>6. AccountStopped(task', db')
  BY <1>3 DEF AccountStopped
<1>7. BanIsActive' /\ BanIsRemembered' /\ IpBanStops' /\ AccountBanStops' /\ OutageStops'
  BY <1>1, <1>3, <1>5, <1>6, BansMove DEF Works
<1>8. AccountIsRead'
  BY <1>3 DEF AccountIsRead, At, Listed
<1> QED
  BY <1>2, <1>4, <1>7, <1>8, RestIsSeen DEF IInv

LEMMA UpdateAccountKeeps == ASSUME IInv, UpdateAccount PROVE IInv'
<1> DEFINE new == UpdatePremium(task.account, now)
<1>1. /\ task.pc = "updatePremium" /\ task \in TaskType /\ now \in Nat
      /\ UNCHANGED <<now, bans, served, payments, freePremium, db>>
  BY DEF UpdateAccount, At, Same, IInv, TypeOK
<1>2. PICK pc \in {"saveAccount", "answer"} :
        task' = [task EXCEPT !.pc = pc, !.account = UpdatePremium(@, now), !.at = now]
  BY DEF UpdateAccount
<1>3. new \in Account
  BY <1>1, UpdateType DEF TaskType
<1>4. task' = [task EXCEPT !.pc = pc, !.account = new, !.at = now]
  BY <1>2
<1> HIDE DEF new
<1>5. /\ task' \in TaskType /\ Moves(task, task') /\ task'.pc = pc
      /\ task'.account = new /\ task'.at = now /\ task'.loaded = task.loaded
  <2>1. task' \in TaskType
    BY <1>1, <1>3, <1>4, TaskTypes DEF Statements
  <2> QED
    BY <1>1, <1>4, <2>1 DEF TaskType, Moves
<1>6. TypeOK'
  BY <1>1, <1>5 DEF IInv, TypeOK
<1>7. AtRest(db)'
  BY <1>1 DEF IInv, TransactionEnds, AtRest
<1>8. ~Banned("ip") /\ ~task.outage
  BY <1>1 DEF IInv, IpBanStops, IpStopped, OutageStops, OutageStopped
<1>9. task.who \in Bannable /\ Banned(task.who) => AccountStopped(task', db')
  BY <1>1 DEF IInv, AccountBanStops, AccountStopped
<1>10. BanIsActive' /\ BanIsRemembered' /\ IpBanStops' /\ AccountBanStops' /\ OutageStops'
  BY <1>1, <1>5, <1>8, <1>9, BansMove
<1>11. AccountIsRead'
  <2>1. task.account = task.loaded /\ task.who \in Accounts
        /\ (task.who \notin task.paid => task.loaded = Loaded(db.table[task.who]))
    BY <1>1 DEF IInv, AccountIsRead
  <2>2. new = UpdatePremium(task.loaded, now)
    BY <2>1 DEF new
  <2> QED
    BY <1>1, <1>5, <2>1, <2>2 DEF AccountIsRead, At, Listed, Moves
<1> QED
  BY <1>6, <1>7, <1>10, <1>11, RestIsSeen DEF IInv

\* An UPDATE outside a transaction.
LEMMA AutoCommit ==
    ASSUME NEW d \in Handle, AtRest(d), NEW a \in Accounts, NEW value \in Row,
           NEW e \in UpdateOutcomes(d, a, value)
    PROVE  /\ AtRest(e)
           /\ e.table = d.table \/ e.table = [d.table EXCEPT ![a] = value]
<1>1. CASE e = Lost(d)
  BY <1>1, LostFacts DEF AtRest
<1>2. ASSUME NEW s \in Sessions(d), e = Write(s, a, value) \/ e = Lost(Write(s, a, value))
      PROVE  /\ AtRest(e)
             /\ e.table = d.table \/ e.table = [d.table EXCEPT ![a] = value]
  <2>1. s \in Handle /\ AtRest(s) /\ s.table = d.table
    BY SessionFacts DEF AtRest
  <2>2. Write(s, a, value) \in Handle /\ AtRest(Write(s, a, value))
        /\ Write(s, a, value).table = [d.table EXCEPT ![a] = value]
    BY <2>1, WriteFacts DEF AtRest
  <2>3. /\ AtRest(Lost(Write(s, a, value)))
        /\ Lost(Write(s, a, value)).table = Write(s, a, value).table
    BY <2>2, LostFacts DEF AtRest
  <2> QED
    BY <1>2, <2>2, <2>3
<1> QED
  BY <1>1, <1>2, UpdateFacts

LEMMA SaveKeeps == ASSUME IInv, SaveAccount PROVE IInv'
<1>1. /\ task.pc = "saveAccount" /\ task \in TaskType /\ db \in Handle
      /\ UNCHANGED <<now, bans, served, payments, freePremium>>
      /\ db' \in UpdateOutcomes(db, task.who, task.account)
      /\ task' = [task EXCEPT !.pc = "answer"]
  BY DEF SaveAccount, At, Same, IInv, TypeOK
<1>2. task.who \in Accounts /\ task.account \in Row /\ AtRest(db)
  BY <1>1, AccountIsRow DEF IInv, AccountIsRead, TransactionEnds, AtRest, TaskType
<1>3. AtRest(db)' /\ db' \in Handle /\ (~db.connected => ~db'.connected)
  <2>1. AtRest(db')
    BY <1>1, <1>2, AutoCommit
  <2>2. db' \in Handle /\ (~db.connected => ~db'.connected)
    BY <1>1, <1>2, UpdateFacts
  <2> QED
    BY <2>1, <2>2 DEF AtRest
<1>4. task' \in TaskType /\ Works(task, task') /\ task'.pc = "answer"
  <2>1. task' \in TaskType
    BY <1>1, TaskTypes DEF Statements
  <2> QED
    BY <1>1, <2>1 DEF TaskType, Works, Moves
<1>5. TypeOK'
  BY <1>1, <1>3, <1>4 DEF IInv, TypeOK
<1>6. ~Banned("ip") /\ ~task.outage
  BY <1>1 DEF IInv, IpBanStops, IpStopped, OutageStops, OutageStopped
<1>7. task.who \in Bannable /\ Banned(task.who) => AccountStopped(task', db')
  BY <1>1, <1>3 DEF IInv, AccountBanStops, AccountStopped
<1>8. BanIsActive' /\ BanIsRemembered' /\ IpBanStops' /\ AccountBanStops' /\ OutageStops'
  BY <1>1, <1>4, <1>6, <1>7, BansMove DEF Works
<1>9. AccountIsRead'
  BY <1>1, <1>4 DEF IInv, AccountIsRead, At, Listed, Works, Moves
<1> QED
  BY <1>3, <1>5, <1>8, <1>9, RestIsSeen DEF IInv

LEMMA AnswerKeeps == ASSUME IInv, AnswerLogin PROVE IInv'
<1>1. /\ task.pc = "answer" /\ task \in TaskType /\ db \in Handle
      /\ UNCHANGED <<now, bans, served, payments, freePremium>>
      /\ db' \in Sessions(db) \cup {db, Lost(db)}
  BY DEF AnswerLogin, At, Same, IInv, TypeOK
<1>2. \/ task' = Answered(task, "noCharacters")
      \/ task' = [Answered(task, "list") EXCEPT !.shown = PremiumDays]
  BY DEF AnswerLogin
<1>3. AtRest(db)' /\ db' \in Handle /\ (~db.connected => ~db'.connected)
  BY <1>1, ReadFacts DEF AtRest
<1>4. task' \in TaskType /\ Works(task, task') /\ task'.pc = "answered"
  <2>1. CASE task' = Answered(task, "noCharacters")
    <3>1. "noCharacters" \in Answers
      BY DEF Answers
    <3> QED
      BY <1>1, <2>1, <3>1, MoveFacts, TaskTypes
  <2>2. CASE task' = [Answered(task, "list") EXCEPT !.shown = PremiumDays]
    <3>1. "list" \in Answers
      BY DEF Answers
    <3>2. /\ Answered(task, "list") \in TaskType /\ Answered(task, "list").pc = "answered"
          /\ Works(task, Answered(task, "list"))
      BY <1>1, <3>1, MoveFacts, TaskTypes
    <3>3. PremiumDays \in Nat
      BY <1>1, Days DEF PremiumDays, TaskType, Account
    <3> QED
      BY <2>2, <3>2, <3>3 DEF TaskType, Works, Moves
  <2> QED
    BY <1>2, <2>1, <2>2
<1>5. TypeOK'
  BY <1>1, <1>3, <1>4 DEF IInv, TypeOK
<1>6. ~Banned("ip") /\ ~task.outage
  BY <1>1 DEF IInv, IpBanStops, IpStopped, OutageStops, OutageStopped
<1>7. task.who \in Bannable /\ Banned(task.who) => AccountStopped(task', db')
  BY <1>1, <1>3 DEF IInv, AccountBanStops, AccountStopped
<1>8. BanIsActive' /\ BanIsRemembered' /\ IpBanStops' /\ AccountBanStops' /\ OutageStops'
  BY <1>1, <1>4, <1>6, <1>7, BansMove DEF Works
<1>9. AccountIsRead'
  BY <1>1, <1>4 DEF IInv, AccountIsRead, At, Listed, Works, Moves
<1> QED
  BY <1>3, <1>5, <1>8, <1>9, RestIsSeen DEF IInv

-----------------------------------------------------------------------------
(* The clock, the bans and the payments.                                      *)

\* What a row keeps it keeps as time goes on.
LEMMA KeepsLater ==
    ASSUME NEW row \in Row, NEW new, NEW t \in Nat, NEW u \in Nat, t <= u, Keeps(row, new, t)
    PROVE  Keeps(row, new, u)
<1> SUFFICES ASSUME Counting(row)
             PROVE  \/ Counting(new) /\ PaidUntil(new) = PaidUntil(row)
                    \/ new.premium = 0 /\ PaidUntil(row) <= u
  BY DEF Keeps
<1>1. row.premium \in Nat /\ row.lastDay \in Nat
  BY Days DEF Row, Counting
<1>2. PaidUntil(row) \in Nat
  BY <1>1, Days, Product DEF PaidUntil
<1> QED
  BY <1>2 DEF Keeps

LEMMA TickKeeps == ASSUME IInv, Tick PROVE IInv'
<1>1. now \in Nat /\ now' = now + 1 /\ UNCHANGED <<db, bans, task, served, payments, freePremium>>
  BY DEF Tick, IInv, TypeOK
<1>2. TypeOK'
  BY <1>1 DEF IInv, TypeOK
<1>3. \A t \in Targets : bans[t].until \in Nat
  BY DEF IInv, TypeOK
<1>4. BanIsActive' /\ BanIsRemembered'
  BY <1>1, <1>3 DEF IInv, BanIsActive, BanIsRemembered
<1>5. \A t : Banned(t)' => Banned(t)
  <2>1. \A t \in task.banned : t \in Targets
    BY DEF IInv, TypeOK, TaskType
  <2> QED
    BY <1>1, <1>3, <2>1 DEF Banned
<1>6. IpBanStops' /\ AccountBanStops' /\ OutageStops'
  <2>1. IpBanStops'
    BY <1>1, <1>5 DEF IInv, IpBanStops, IpStopped
  <2>2. AccountBanStops'
    BY <1>1, <1>5 DEF IInv, AccountBanStops, AccountStopped, Banned
  <2>3. OutageStops'
    BY <1>1 DEF IInv, OutageStops, OutageStopped
  <2> QED
    BY <2>1, <2>2, <2>3
<1>7. RowsAreSeen'
  <2>1. \A a \in db.dirty : db.table[a] \in Row
    BY DEF IInv, TypeOK, Handle, Table
  <2>2. \A a \in db.dirty \ task.paid : Keeps(db.table[a], db.work[a], now + 1)
    BY <1>1, <2>1, KeepsLater DEF IInv, RowsAreSeen
  <2> QED
    BY <1>1, <2>2 DEF IInv, RowsAreSeen
<1>8. TransactionEnds' /\ AccountIsRead'
  <2>1. task.at \in Nat
    BY DEF IInv, TypeOK, TaskType
  <2> QED
    BY <1>1, <2>1 DEF IInv, TransactionEnds, AccountIsRead, At, Listed
<1> QED
  BY <1>2, <1>4, <1>6, <1>7, <1>8 DEF IInv

LEMMA BanKeeps == ASSUME IInv, NEW u \in Targets, Ban(u) PROVE IInv'
<1>1. bans[u] = NeverBanned /\ UNCHANGED <<now, db, task, served, payments, freePremium>>
  BY DEF Ban
<1>2. now \in Nat /\ MaxTime \in Nat /\ bans \in [Targets -> [active : BOOLEAN, until : Nat]]
  BY LoginAssumption DEF IInv, TypeOK
<1>3. PICK until \in {now + 1, Forever} :
        bans' = [bans EXCEPT ![u] = [active |-> TRUE, until |-> until]]
  BY DEF Ban
<1>4. until \in Nat
  BY <1>2 DEF Forever
<1>5. /\ bans' \in [Targets -> [active : BOOLEAN, until : Nat]]
      /\ bans'[u].active
      /\ \A t \in Targets \ {u} : bans'[t] = bans[t]
  BY <1>2, <1>3, <1>4
<1>6. TypeOK'
  BY <1>1, <1>5 DEF IInv, TypeOK
<1>7. u \notin task.banned /\ task.banned \subseteq Targets
  <2>1. bans[u].until = 0
    BY <1>1 DEF NeverBanned
  <2> QED
    BY <2>1 DEF IInv, BanIsRemembered, TypeOK, TaskType
<1>8. BanIsActive' /\ BanIsRemembered'
  BY <1>1, <1>5, <1>7 DEF IInv, BanIsActive, BanIsRemembered
<1>9. \A t : Banned(t)' => Banned(t)
  BY <1>1, <1>5, <1>7 DEF Banned
<1>10. IpBanStops' /\ AccountBanStops' /\ OutageStops'
  <2>1. IpBanStops'
    BY <1>1, <1>9 DEF IInv, IpBanStops, IpStopped
  <2>2. AccountBanStops'
    BY <1>1, <1>9 DEF IInv, AccountBanStops, AccountStopped, Banned
  <2>3. OutageStops'
    BY <1>1 DEF IInv, OutageStops, OutageStopped
  <2> QED
    BY <2>1, <2>2, <2>3
<1>11. TransactionEnds' /\ RowsAreSeen' /\ AccountIsRead'
  BY <1>1 DEF IInv, TransactionEnds, RowsAreSeen, AccountIsRead, At, Listed
<1> QED
  BY <1>6, <1>8, <1>10, <1>11 DEF IInv

\* A day others add is written beside what this server has read, and remembered as
\* such in paid.
LEMMA PayKeeps == ASSUME IInv, NEW a \in Accounts, Pay(a) PROVE IInv'
<1> DEFINE value == [db.table[a] EXCEPT !.premium = @ + 1]
           hasRead == task.pc \in UpdatesAll
<1>1. /\ task \in TaskType /\ db \in Handle /\ payments \in Nat
      /\ payments' = payments + 1 /\ UNCHANGED <<now, bans, served, freePremium>>
      /\ a \notin db.dirty
      /\ db' = OtherWrites(db, a, value, hasRead)
  BY DEF Pay, MayWrite, IInv, TypeOK
<1>2. value \in Row /\ hasRead \in BOOLEAN
  BY <1>1 DEF Handle, Table, Row
<1>3. hasRead <=> task.pc \in UpdatesAll
  OBVIOUS
<1> HIDE DEF value, hasRead
<1>4. /\ db' \in Handle /\ db'.connected = db.connected /\ db'.inTrans = db.inTrans
      /\ db'.dirty = db.dirty
      /\ db'.table = [db.table EXCEPT ![a] = value]
      /\ db'.work = IF db.inTrans /\ hasRead THEN db.work ELSE [db.work EXCEPT ![a] = value]
  BY <1>1, <1>2, OtherFacts
<1>5. db.table \in Table /\ db.work \in Table /\ db.dirty \subseteq Accounts
  BY <1>1 DEF Handle
<1>6. /\ task' \in TaskType /\ task'.pc = task.pc /\ task'.who = task.who
      /\ task'.banned = task.banned /\ task'.outage = task.outage /\ task'.answer = task.answer
      /\ task'.loaded = task.loaded /\ task'.account = task.account /\ task'.at = task.at
      /\ task'.todo = task.todo
      /\ task.paid \subseteq task'.paid /\ (Holds(a) => a \in task'.paid)
  <2>1. CASE Holds(a)
    <3>1. task' = [task EXCEPT !.paid = @ \cup {a}]
      BY <2>1 DEF Pay
    <3>2. task' \in TaskType
      BY <1>1, <3>1, TaskTypes
    <3> QED
      BY <1>1, <3>1, <3>2 DEF TaskType
  <2>2. CASE ~Holds(a)
    BY <1>1, <2>2 DEF Pay
  <2> QED
    BY <2>1, <2>2
<1>7. TypeOK'
  BY <1>1, <1>4, <1>6 DEF IInv, TypeOK
<1>8. BanIsActive' /\ BanIsRemembered'
  BY <1>1, <1>6 DEF IInv, BanIsActive, BanIsRemembered
<1>9. IpBanStops' /\ AccountBanStops' /\ OutageStops'
  <2>1. IpBanStops'
    BY <1>1, <1>4, <1>6 DEF IInv, IpBanStops, IpStopped, Banned
  <2>2. AccountBanStops'
    BY <1>1, <1>4, <1>6 DEF IInv, AccountBanStops, AccountStopped, Banned
  <2>3. OutageStops'
    BY <1>1, <1>4, <1>6 DEF IInv, OutageStops, OutageStopped
  <2> QED
    BY <2>1, <2>2, <2>3
<1>10. TransactionEnds'
  <2>1. /\ db.inTrans => db.connected /\ task.pc \in {"select", "load", "save", "commit"}
        /\ ~db.inTrans => db.work = db.table /\ db.dirty = {}
    BY DEF IInv, TransactionEnds
  <2> QED
    BY <1>4, <1>6, <2>1 DEF TransactionEnds
<1>11. \A b \in Accounts : b # a => db'.table[b] = db.table[b] /\ db'.work[b] = db.work[b]
  BY <1>4, <1>5 DEF Table
<1>12. RowsAreSeen'
  <2>1. ASSUME NEW b \in Accounts \ (task'.paid \cup db'.dirty)
        PROVE  db'.work[b] = db'.table[b]
    <3>1. CASE b # a
      <4>1. b \notin task.paid \cup db.dirty
        BY <1>4, <1>6
      <4> QED
        BY <1>11, <3>1, <4>1 DEF IInv, RowsAreSeen
    <3>2. CASE b = a
      <4>1. ~hasRead
        BY <1>3, <1>6, <3>2 DEF Holds
      <4> QED
        BY <1>4, <1>5, <3>2, <4>1 DEF Table
    <3> QED
      BY <3>1, <3>2
  <2>2. ASSUME NEW b \in db'.dirty \ task'.paid PROVE Keeps(db'.table[b], db'.work[b], now')
    <3>1. b \in db.dirty \ task.paid /\ b # a /\ b \in Accounts
      BY <1>1, <1>4, <1>5, <1>6
    <3> QED
      BY <1>1, <1>11, <3>1 DEF IInv, RowsAreSeen
  <2>3. /\ db'.dirty # {} => task'.pc \in UpdatesAll
        /\ task'.pc \in {"load", "save"} => db'.dirty \cap task'.todo = {}
    BY <1>4, <1>6 DEF IInv, RowsAreSeen
  <2> QED
    BY <2>1, <2>2, <2>3 DEF RowsAreSeen, UpdatesAll
<1>13. AccountIsRead'
  <2>1. AccountIsRead
    BY DEF IInv
  <2>2. ASSUME task.pc \in {"save", "loadCharacters", "getBanishment", "updatePremium", "saveAccount"}
        PROVE  /\ task.who \in Accounts
               /\ task.who \notin task'.paid => task.loaded = Loaded(db'.table[task.who])
    <3>1. task.who = a => a \in task'.paid
      BY <1>6, <2>2 DEF Holds, UpdatesAll
    <3> QED
      BY <1>6, <1>11, <2>1, <2>2, <3>1 DEF AccountIsRead
  <2> QED
    BY <1>1, <1>6, <2>1, <2>2 DEF AccountIsRead, At, Listed
<1> QED
  BY <1>7, <1>8, <1>9, <1>10, <1>12, <1>13 DEF IInv

-----------------------------------------------------------------------------
(* IO::updatePremium(), in a transaction that may be lost half way.           *)

\* The rows of RowsAreSeen, in a session.
Seen(d, paid) ==
    /\ \A a \in Accounts \ (paid \cup d.dirty) : d.work[a] = d.table[a]
    /\ \A a \in d.dirty \ paid : Keeps(d.table[a], d.work[a], now)

LEMMA RestIsSeenBy == ASSUME NEW d, AtRest(d), NEW paid PROVE Seen(d, paid)
  BY DEF AtRest, Seen

\* A statement of the transaction that reads finds the rows as they were or, in a new
\* session, as they are committed.
LEMMA TransactionReads ==
    ASSUME IInv, NEW s \in Sessions(db)
    PROVE  /\ s \in Handle /\ s.connected /\ s.table = db.table /\ s.dirty \subseteq db.dirty
           /\ Seen(s, task.paid) /\ (~s.inTrans => AtRest(s))
<1>1. db \in Handle
  BY DEF IInv, TypeOK
<1>2. /\ s \in Handle /\ s.connected /\ s.table = db.table
      /\ s = db \/ AtRest(s)
  BY <1>1, SessionFacts DEF AtRest
<1>3. CASE s = db
  BY <1>2, <1>3 DEF IInv, RowsAreSeen, TransactionEnds, Seen, AtRest
<1>4. CASE AtRest(s)
  BY <1>2, <1>4, RestIsSeenBy DEF AtRest
<1> QED
  BY <1>2, <1>3, <1>4

\* The premium update begins before any login: no ban and no outage concerns it.
LEMMA UpdateBans ==
    ASSUME IInv, UNCHANGED <<now, bans>>, Moves(task, task'),
           task.pc \in {"begin", "select", "load", "save", "commit"},
           task'.pc \in {"select", "load", "save", "commit"}
    PROVE  BanIsActive' /\ BanIsRemembered' /\ IpBanStops' /\ AccountBanStops' /\ OutageStops'
<1>1. ~task.outage
  BY DEF IInv, OutageStops, OutageStopped
<1>2. IpStopped(task', db') /\ AccountStopped(task', db')
  BY DEF IpStopped, AccountStopped
<1>3. Moves(task, task') /\ UNCHANGED <<now, bans>>
  OBVIOUS
<1> QED
  BY <1>1, <1>2, <1>3, BansMove

LEMMA UpdateRows ==
    ASSUME task'.pc \in {"select", "load", "save", "commit"}, now' = now,
           Seen(db', task'.paid), db'.connected \/ ~db'.inTrans,
           ~db'.inTrans => AtRest(db'),
           db'.dirty # {} => task'.pc \in UpdatesAll,
           task'.pc \in {"load", "save"} => db'.dirty \cap task'.todo = {}
    PROVE  TransactionEnds' /\ RowsAreSeen'
<1>1. TransactionEnds'
  BY DEF TransactionEnds, AtRest
<1>2. RowsAreSeen'
  BY DEF RowsAreSeen, Seen, UpdatesAll
<1> QED
  BY <1>1, <1>2

LEMMA AbandonKeeps ==
    ASSUME IInv, Same, NEW d \in Handle, Abandon(d)
    PROVE  IInv'
<1>1. db' = Reconnected(d) /\ task' = Idle /\ UNCHANGED <<now, bans, served, payments, freePremium>>
  BY DEF Abandon, Rollback, Same
<1>2. db' \in Handle /\ AtRest(db)'
  BY <1>1, ReconnectedFacts DEF AtRest
<1>3. TypeOK'
  BY <1>1, <1>2, IdleType DEF IInv, TypeOK
<1> QED
  BY <1>1, <1>2, <1>3, ToIdle

LEMMA BeginKeeps == ASSUME IInv, BeginTransaction PROVE IInv'
<1>1. task.pc = "begin" /\ Same /\ task \in TaskType /\ db \in Handle
  BY DEF BeginTransaction, At, IInv, TypeOK
<1>2. CASE Abandon(Lost(db))
  <2>1. Lost(db) \in Handle
    BY <1>1, LostFacts
  <2> QED
    BY <1>1, <1>2, <2>1, AbandonKeeps
<1>3. CASE db' \in {Begin(d) : d \in Sessions(db)} /\ task' = [task EXCEPT !.pc = "select"]
  <2>1. PICK d \in Sessions(db) : db' = Begin(d)
    BY <1>3
  <2>2. AtRest(d) /\ d \in Handle /\ d.connected
    <3>1. AtRest(d) /\ d \in Handle
      BY <1>1, ReadFacts
    <3> QED
      BY <1>1, <3>1, SessionFacts
  <2>3. db' \in Handle /\ db'.connected /\ db'.work = db'.table /\ db'.dirty = {}
    BY <2>1, <2>2, BeginFacts DEF AtRest
  <2>4. task' \in TaskType /\ task'.pc = "select" /\ Works(task, task')
    <3>1. task' \in TaskType
      BY <1>1, <1>3, TaskTypes DEF Statements
    <3> QED
      BY <1>1, <1>3, <3>1 DEF TaskType, Works, Moves
  <2>5. TypeOK'
    BY <1>1, <2>3, <2>4 DEF IInv, TypeOK, Same
  <2>6. TransactionEnds' /\ RowsAreSeen'
    BY <2>3, <2>4 DEF TransactionEnds, RowsAreSeen
  <2>7. AccountIsRead'
    BY <2>4 DEF AccountIsRead, At, Listed
  <2>8. BanIsActive' /\ BanIsRemembered' /\ IpBanStops' /\ AccountBanStops' /\ OutageStops'
    BY <1>1, <2>4, UpdateBans DEF Works, Same
  <2> QED
    BY <2>5, <2>6, <2>7, <2>8 DEF IInv
<1> QED
  BY <1>2, <1>3 DEF BeginTransaction

LEMMA SelectKeeps == ASSUME IInv, SelectAccounts PROVE IInv'
<1>1. task.pc = "select" /\ Same /\ task \in TaskType /\ db \in Handle
  BY DEF SelectAccounts, At, IInv, TypeOK
<1>2. CASE Abandon(Lost(db))
  <2>1. Lost(db) \in Handle
    BY <1>1, LostFacts
  <2> QED
    BY <1>1, <1>2, <2>1, AbandonKeeps
<1>3. ASSUME NEW d \in Sessions(db), Abandon(d) PROVE IInv'
  <2>1. d \in Handle
    BY TransactionReads
  <2> QED
    BY <1>1, <1>3, <2>1, AbandonKeeps
<1>4. ASSUME NEW d \in Sessions(db), db' = d,
             NEW due \in SUBSET Accounts, task' = [task EXCEPT !.pc = "load", !.todo = due]
      PROVE  IInv'
  <2>1. task' \in TaskType
    <3>1. "load" \in Statements
      BY DEF Statements
    <3> QED
      BY <1>1, <1>4, <3>1, TaskTypes
  <2>2. task'.pc = "load" /\ Moves(task, task')
    BY <1>1, <1>4, <2>1 DEF TaskType, Moves
  <2>3. /\ db' \in Handle /\ db'.connected /\ db'.dirty \subseteq db.dirty
        /\ Seen(db', task.paid) /\ (~db'.inTrans => AtRest(db'))
    BY <1>4, TransactionReads
  <2>4. db.dirty = {}
    BY <1>1 DEF IInv, RowsAreSeen, UpdatesAll
  <2>5. TypeOK'
    BY <1>1, <2>1, <2>3 DEF IInv, TypeOK, Same
  <2>6. TransactionEnds' /\ RowsAreSeen'
    <3>1. db'.dirty = {} /\ Seen(db', task'.paid) /\ now' = now
      BY <1>1, <2>2, <2>3, <2>4 DEF Moves, Same
    <3> QED
      BY <2>2, <2>3, <3>1, UpdateRows
  <2>7. AccountIsRead'
    BY <2>2 DEF AccountIsRead, At, Listed
  <2>8. BanIsActive' /\ BanIsRemembered' /\ IpBanStops' /\ AccountBanStops' /\ OutageStops'
    BY <1>1, <2>2, UpdateBans DEF Same
  <2> QED
    BY <2>5, <2>6, <2>7, <2>8 DEF IInv
<1>5. CASE \E d \in Sessions(db) :
             LET due == {a \in Accounts : d.work[a].lastDay <= now - Day}
             IN  IF due = {} THEN Abandon(d)
                 ELSE db' = d /\ task' = [task EXCEPT !.pc = "load", !.todo = due]
  <2>1. PICK d \in Sessions(db) :
             LET due == {a \in Accounts : d.work[a].lastDay <= now - Day}
             IN  IF due = {} THEN Abandon(d)
                 ELSE db' = d /\ task' = [task EXCEPT !.pc = "load", !.todo = due]
    BY <1>5
  <2> DEFINE rows == {a \in Accounts : d.work[a].lastDay <= now - Day}
  <2>2. rows \in SUBSET Accounts
    OBVIOUS
  <2>3. CASE rows = {}
    BY <1>3, <2>1, <2>3
  <2>4. CASE rows # {}
    <3>1. db' = d /\ task' = [task EXCEPT !.pc = "load", !.todo = rows]
      BY <2>1, <2>4
    <3> HIDE DEF rows
    <3> QED
      BY <1>4, <2>2, <3>1
  <2> QED
    BY <2>3, <2>4
<1> QED
  BY <1>2, <1>5 DEF SelectAccounts

LEMMA AdvanceFacts ==
    ASSUME IInv, NEW a \in Accounts, task.pc \in UpdatesAll, task' = Advance(a)
    PROVE  /\ task' \in TaskType /\ task'.pc \in {"load", "commit"}
           /\ task'.todo = task.todo \ {a} /\ Moves(task, task')
<1>1. task \in TaskType /\ task.todo \ {a} \in SUBSET Accounts
  BY DEF IInv, TypeOK, TaskType
<1>2. PICK pc \in {"load", "commit"} : task' = [task EXCEPT !.pc = pc, !.todo = @ \ {a}]
  BY DEF Advance
<1>3. pc \in Statements
  BY DEF Statements
<1>4. task' = [task EXCEPT !.pc = pc, !.todo = task.todo \ {a}]
  BY <1>1, <1>2 DEF TaskType
<1>5. task' \in TaskType
  <2>1. PICK todo \in SUBSET Accounts : todo = task.todo \ {a}
    BY <1>1
  <2>2. task' = [task EXCEPT !.pc = pc, !.todo = todo]
    BY <1>4, <2>1
  <2> QED
    BY <1>1, <1>3, <2>2 DEF TaskType
<1>6. task'.pc = pc /\ task'.todo = task.todo \ {a}
  BY <1>1, <1>4 DEF TaskType
<1>7. Moves(task, task')
  BY <1>1, <1>4 DEF TaskType, Moves
<1> QED
  BY <1>5, <1>6, <1>7

\* Going on to the next account.
LEMMA AdvanceKeeps ==
    ASSUME IInv, Same, NEW a \in Accounts, task.pc \in {"load", "save"}, task' = Advance(a),
           db' \in Handle, Seen(db', task.paid), db'.connected \/ ~db'.inTrans,
           ~db'.inTrans => AtRest(db'),
           db'.dirty \cap (task.todo \ {a}) = {}
    PROVE  IInv'
<1>1. /\ task' \in TaskType /\ task'.pc \in {"load", "commit"}
      /\ task'.todo = task.todo \ {a} /\ Moves(task, task')
  BY AdvanceFacts DEF UpdatesAll
<1>2. TypeOK'
  BY <1>1 DEF IInv, TypeOK, Same
<1>3. Seen(db', task'.paid) /\ now' = now
  BY <1>1 DEF Moves, Same
<1>4. TransactionEnds' /\ RowsAreSeen'
  BY <1>1, <1>3, UpdateRows DEF UpdatesAll
<1>5. AccountIsRead'
  BY <1>1 DEF AccountIsRead, At, Listed
<1>6. BanIsActive' /\ BanIsRemembered' /\ IpBanStops' /\ AccountBanStops' /\ OutageStops'
  BY <1>1, UpdateBans DEF Same
<1> QED
  BY <1>2, <1>4, <1>5, <1>6 DEF IInv

LEMMA LoadNextKeeps == ASSUME IInv, LoadNext PROVE IInv'
<1>1. task.pc = "load" /\ Same /\ task \in TaskType /\ db \in Handle /\ now \in Nat
  BY DEF LoadNext, At, IInv, TypeOK
<1>2. PICK a \in task.todo :
         \/ \E d \in Sessions(db) :
              /\ db' = d
              /\ LET account == Loaded(d.work[a])
                 IN  task' = IF NeedsSave(account, now)
                             THEN [task EXCEPT !.pc = "save", !.who = a, !.at = now,
                                               !.loaded = account,
                                               !.account = UpdatePremium(account, now)]
                             ELSE Advance(a)
         \/ db' = Lost(db) /\ task' = Advance(a)
  BY DEF LoadNext
<1>3. a \in Accounts /\ db.dirty \cap task.todo = {}
  BY <1>1 DEF TaskType, IInv, RowsAreSeen
<1>4. CASE db' = Lost(db) /\ task' = Advance(a)
  <2>1. db' \in Handle /\ AtRest(db') /\ ~db'.inTrans /\ db'.dirty = {}
    BY <1>1, <1>4, LostFacts DEF AtRest
  <2>2. Seen(db', task.paid)
    BY <2>1, RestIsSeenBy
  <2> QED
    BY <1>1, <1>3, <1>4, <2>1, <2>2, AdvanceKeeps
<1>5. ASSUME NEW d \in Sessions(db), db' = d, task' = Advance(a) PROVE IInv'
  <2>1. /\ db' \in Handle /\ db'.connected /\ db'.dirty \subseteq db.dirty
        /\ Seen(db', task.paid) /\ (~db'.inTrans => AtRest(db'))
    BY <1>5, TransactionReads
  <2>2. db'.dirty \cap (task.todo \ {a}) = {}
    BY <1>3, <2>1
  <2> QED
    BY <1>1, <1>3, <1>5, <2>1, <2>2, AdvanceKeeps
<1>6. ASSUME NEW d \in Sessions(db), db' = d, NEW account, account = Loaded(d.work[a]),
             task' = [task EXCEPT !.pc = "save", !.who = a, !.at = now, !.loaded = account,
                                  !.account = UpdatePremium(account, now)]
      PROVE  IInv'
  <2>1. /\ db' \in Handle /\ db'.connected /\ db'.dirty \subseteq db.dirty
        /\ Seen(db', task.paid) /\ (~db'.inTrans => AtRest(db'))
    BY <1>6, TransactionReads
  <2>2. account \in Account
    <3>1. d.work[a] \in Row
      BY <1>3, <1>6, <2>1 DEF Handle, Table
    <3> QED
      BY <1>6, <3>1, LoadedFacts
  <2> DEFINE new == UpdatePremium(account, now)
  <2>3. new \in Account
    BY <1>1, <2>2, UpdateType
  <2>4. task' = [task EXCEPT !.pc = "save", !.who = a, !.at = now, !.loaded = account,
                             !.account = new]
    BY <1>6
  <2> HIDE DEF new
  <2>5. task' \in TaskType
    BY <1>1, <1>3, <2>2, <2>3, <2>4, TaskTypes
  <2>6. /\ task'.pc = "save" /\ task'.who = a /\ task'.at = now /\ task'.loaded = account
        /\ task'.account = new
    BY <1>1, <2>4 DEF TaskType
  <2>7. /\ task'.banned = task.banned /\ task'.outage = task.outage /\ task'.paid = task.paid
        /\ task'.todo = task.todo
    BY <1>1, <2>4 DEF TaskType
  <2>8. TypeOK'
    BY <1>1, <2>1, <2>5 DEF IInv, TypeOK, Same
  <2>9. TransactionEnds' /\ RowsAreSeen'
    <3>1. Seen(db', task'.paid) /\ now' = now /\ db'.dirty \cap task'.todo = {}
      BY <1>1, <1>3, <2>1, <2>7 DEF Same
    <3> QED
      BY <2>1, <2>6, <3>1, UpdateRows DEF UpdatesAll
  <2>10. AccountIsRead'
    <3>1. a \notin task.paid => account = Loaded(db'.table[a])
      <4>1. a \notin db'.dirty
        BY <1>3, <2>1
      <4> QED
        BY <1>3, <1>6, <2>1, <4>1 DEF Seen
    <3>2. new = UpdatePremium(account, now)
      BY DEF new
    <3>3. now' = now /\ now <= now
      BY <1>1 DEF Same
    <3> QED
      BY <1>3, <2>6, <2>7, <3>1, <3>2, <3>3 DEF AccountIsRead, At, Listed
  <2>11. BanIsActive' /\ BanIsRemembered' /\ OutageStops'
    <3>1. ~task.outage
      BY <1>1 DEF IInv, OutageStops, OutageStopped
    <3> QED
      BY <1>1, <2>7, <3>1 DEF IInv, BanIsActive, BanIsRemembered, OutageStops, Same
  <2>12. IpBanStops' /\ AccountBanStops'
    BY <2>6 DEF IpBanStops, IpStopped, AccountBanStops, AccountStopped
  <2> QED
    BY <2>8, <2>9, <2>10, <2>11, <2>12 DEF IInv
<1> QED
  BY <1>2, <1>4, <1>5, <1>6

\* What updatePremium saves keeps the period of the row that is committed.
LEMMA SavedRow ==
    ASSUME IInv, task.pc \in {"save", "saveAccount"}
    PROVE  /\ task.who \in Accounts /\ task.account \in Row
           /\ task.who \notin task.paid => Keeps(db.table[task.who], task.account, now)
<1>1. /\ task.who \in Accounts /\ task.account \in Row /\ task.loaded \in Account
      /\ task.at \in Nat /\ now \in Nat /\ db.table[task.who] \in Row
  BY AccountIsRow DEF IInv, AccountIsRead, TypeOK, TaskType, Handle, Table
<1>2. /\ task.account = UpdatePremium(task.loaded, task.at) /\ task.at <= now
      /\ task.who \notin task.paid => task.loaded = Loaded(db.table[task.who])
  BY DEF IInv, AccountIsRead
<1>3. ASSUME task.who \notin task.paid PROVE Keeps(db.table[task.who], task.account, now)
  <2> DEFINE row == db.table[task.who]
  <2>1. Keeps(task.loaded, task.account, task.at)
    BY <1>1, <1>2, UpdateKeeps
  <2>2. Counting(row) => task.loaded = row
    BY <1>1, <1>2, <1>3, LoadedFacts
  <2>3. Keeps(row, task.account, task.at)
    BY <2>1, <2>2 DEF Keeps
  <2> QED
    BY <1>1, <1>2, <2>3, KeepsLater
<1> QED
  BY <1>1, <1>3

LEMMA SaveNextKeeps == ASSUME IInv, SaveNext PROVE IInv'
<1> DEFINE a == task.who
           value == task.account
<1>1. /\ task.pc = "save" /\ Same /\ task \in TaskType /\ db \in Handle
      /\ db' \in UpdateOutcomes(db, a, value) /\ task' = Advance(a)
  BY DEF SaveNext, At, IInv, TypeOK
<1>2. a \in Accounts /\ value \in Row /\ (a \notin task.paid => Keeps(db.table[a], value, now))
  BY <1>1, SavedRow
<1>3. db.dirty \cap task.todo = {} /\ task.pc \in {"load", "save"}
  BY <1>1 DEF IInv, RowsAreSeen
<1> HIDE DEF a, value
<1>4. ASSUME db' \in Handle, AtRest(db') PROVE IInv'
  <2>1. ~db'.inTrans /\ db'.dirty \cap (task.todo \ {a}) = {}
    BY <1>4 DEF AtRest
  <2>2. Seen(db', task.paid)
    BY <1>4, RestIsSeenBy
  <2> QED
    BY <1>1, <1>2, <1>3, <1>4, <2>1, <2>2, AdvanceKeeps
<1>5. CASE db' = Lost(db)
  BY <1>1, <1>4, <1>5, LostFacts DEF AtRest
<1>6. ASSUME NEW s \in Sessions(db), db' = Lost(Write(s, a, value)) PROVE IInv'
  <2>1. s \in Handle
    BY <1>1, SessionFacts
  <2>2. Write(s, a, value) \in Handle
    BY <1>2, <2>1, WriteFacts
  <2> QED
    BY <1>4, <1>6, <2>2, LostFacts DEF AtRest
<1>7. ASSUME NEW s \in Sessions(db), db' = Write(s, a, value) PROVE IInv'
  <2>1. /\ s \in Handle /\ s.connected /\ s.table = db.table /\ s.dirty \subseteq db.dirty
        /\ Seen(s, task.paid) /\ (~s.inTrans => AtRest(s))
    BY TransactionReads
  <2>2. /\ db' \in Handle /\ db'.connected = s.connected /\ db'.inTrans = s.inTrans
        /\ db'.work = [s.work EXCEPT ![a] = value]
        /\ s.inTrans => db'.table = s.table /\ db'.dirty = s.dirty \cup {a}
        /\ ~s.inTrans => db'.table = [s.table EXCEPT ![a] = value] /\ db'.dirty = s.dirty
    <3>1. PICK r, v : r = a /\ v = value /\ r \in Accounts /\ v \in Row
      BY <1>2
    <3>2. db' = Write(s, r, v)
      BY <1>7, <3>1
    <3>3. s \in Handle
      BY <2>1
    <3>4. /\ db' \in Handle /\ db'.connected = s.connected /\ db'.inTrans = s.inTrans
          /\ db'.work = [s.work EXCEPT ![r] = v]
          /\ s.inTrans => db'.table = s.table /\ db'.dirty = s.dirty \cup {r}
          /\ ~s.inTrans => db'.table = [s.table EXCEPT ![r] = v] /\ db'.dirty = s.dirty
      BY <3>1, <3>2, <3>3 DEF Write, Handle, Table
    <3> QED
      BY <3>1, <3>4
  <2>3. CASE ~s.inTrans
    <3>1. AtRest(db')
      BY <2>1, <2>2, <2>3 DEF AtRest
    <3> QED
      BY <1>4, <2>2, <3>1
  <2>4. CASE s.inTrans
    <3>1. s.work \in Table /\ s.dirty \subseteq Accounts
      BY <2>1 DEF Handle
    <3>2. db'.work[a] = value /\ \A b \in Accounts : b # a => db'.work[b] = s.work[b]
      BY <1>2, <2>2, <3>1 DEF Table
    <3>3. Seen(db', task.paid)
      <4>1. \A b \in Accounts \ (task.paid \cup db'.dirty) : db'.work[b] = db'.table[b]
        BY <2>1, <2>2, <2>4, <3>2 DEF Seen
      <4>2. ASSUME NEW b \in db'.dirty \ task.paid PROVE Keeps(db'.table[b], db'.work[b], now)
        <5>1. CASE b = a
          BY <1>2, <2>1, <2>2, <2>4, <3>2, <5>1
        <5>2. CASE b # a
          <6>1. b \in s.dirty \ task.paid /\ b \in Accounts
            BY <2>2, <2>4, <3>1, <5>2
          <6>2. db'.work[b] = s.work[b] /\ db'.table[b] = s.table[b]
            BY <2>2, <2>4, <3>2, <5>2, <6>1
          <6> QED
            BY <2>1, <6>1, <6>2 DEF Seen
        <5> QED
          BY <5>1, <5>2
      <4> QED
        BY <4>1, <4>2 DEF Seen
    <3>4. db'.dirty \cap (task.todo \ {a}) = {}
      BY <1>3, <2>1, <2>2, <2>4
    <3>5. db'.connected /\ db'.inTrans
      BY <2>1, <2>2, <2>4
    <3> QED
      BY <1>1, <1>2, <1>3, <2>2, <3>3, <3>4, <3>5, AdvanceKeeps
  <2> QED
    BY <2>3, <2>4
<1> QED
  BY <1>1, <1>2, <1>5, <1>6, <1>7, UpdateFacts

LEMMA CommitKeeps == ASSUME IInv, CommitTransaction PROVE IInv'
<1>1. /\ task.pc = "commit" /\ db \in Handle /\ UNCHANGED <<now, bans, served, payments, freePremium>>
      /\ db' \in CommitOutcomes(db) /\ task' = Idle
  BY DEF CommitTransaction, At, Same, IInv, TypeOK
<1>2. db' \in Handle /\ ((db' = db /\ ~db.connected) \/ AtRest(db'))
  BY <1>1, CommitFacts DEF AtRest
<1>3. ~db.connected => AtRest(db)
  BY DEF IInv, TransactionEnds, AtRest
<1>4. AtRest(db)'
  BY <1>2, <1>3 DEF AtRest
<1>5. TypeOK'
  BY <1>1, <1>2, IdleType DEF IInv, TypeOK
<1> QED
  BY <1>1, <1>4, <1>5, ToIdle

-----------------------------------------------------------------------------
(* The theorems.                                                              *)

LEMMA InitHolds == Init => IInv
<1> SUFFICES ASSUME Init PROVE IInv
  OBVIOUS
<1>1. TypeOK
  BY TypeInit
<1>2. task.pc \in {"idle", "begin"} /\ task.banned = {} /\ ~task.outage
  BY IdleType DEF Init, TaskType
<1>3. ~db.inTrans /\ db.work = db.table /\ db.dirty = {}
  BY DEF Init
<1>4. BanIsActive /\ BanIsRemembered
  <2>1. \A t \in Targets : bans[t].until = 0
    BY DEF Init, NeverBanned
  <2> QED
    BY <1>1, <1>2, <2>1 DEF BanIsActive, BanIsRemembered, TypeOK
<1>5. IpBanStops /\ AccountBanStops /\ OutageStops
  BY <1>2 DEF IpBanStops, AccountBanStops, OutageStops, Banned
<1>6. TransactionEnds /\ RowsAreSeen
  BY <1>3 DEF TransactionEnds, RowsAreSeen
<1>7. AccountIsRead
  BY <1>2 DEF AccountIsRead, At, Listed
<1> QED
  BY <1>1, <1>4, <1>5, <1>6, <1>7 DEF IInv

LEMMA StutterKeeps == ASSUME IInv, UNCHANGED vars PROVE IInv'
<1>1. UNCHANGED <<now, db, bans, task, served, payments, freePremium>>
  BY DEF vars
<1>2. TypeOK' /\ BanIsActive' /\ BanIsRemembered'
  BY <1>1 DEF IInv, TypeOK, BanIsActive, BanIsRemembered
<1>3. IpBanStops' /\ AccountBanStops' /\ OutageStops'
  BY <1>1 DEF IInv, IpBanStops, AccountBanStops, OutageStops, Banned, IpStopped,
              AccountStopped, OutageStopped
<1>4. TransactionEnds' /\ RowsAreSeen' /\ AccountIsRead'
  BY <1>1 DEF IInv, TransactionEnds, RowsAreSeen, AccountIsRead, At, Listed
<1> QED
  BY <1>2, <1>3, <1>4 DEF IInv

\* delegate and updatePremium, statement by statement and whatever the clock, the bans,
\* the payments and the connection to the database do in between, keep what they know of
\* the login, of its bans and of the rows they have read.
THEOREM LoginInvariance == Spec => []IInv
<1>1. Init => IInv
  BY InitHolds
<1>2. IInv /\ [Next]_vars => IInv'
  <2> SUFFICES ASSUME IInv, [Next]_vars PROVE IInv'
    OBVIOUS
  <2>1. CASE Tick \/ (\E t \in Targets : Ban(t)) \/ (\E a \in Accounts : Pay(a))
    BY <2>1, TickKeeps, BanKeeps, PayKeeps
  <2>2. CASE BeginTransaction \/ SelectAccounts \/ LoadNext \/ SaveNext \/ CommitTransaction
    BY <2>2, BeginKeeps, SelectKeeps, LoadNextKeeps, SaveNextKeeps, CommitKeeps
  <2>3. CASE StartLogin \/ CheckBanishments \/ IsIpBanished \/ LoadAccount \/ LoadCharacters
    BY <2>3, StartKeeps, CheckKeeps, IpKeeps, LoadKeeps, CharactersKeep
  <2>4. CASE GetBanishment \/ GetNameByGuid \/ UpdateAccount \/ SaveAccount
             \/ AnswerLogin \/ FinishLogin
    BY <2>4, BanishmentKeeps, NameKeeps, UpdateAccountKeeps, SaveKeeps, AnswerKeeps, FinishKeeps
  <2>5. CASE UNCHANGED vars
    BY <2>5, StutterKeeps
  <2> QED
    BY <2>1, <2>2, <2>3, <2>4, <2>5 DEF Next
<1> QED
  BY <1>1, <1>2, PTL DEF Spec

\* isIpBanished and loadAccount: a banned address gets no character list.
THEOREM IpBansAreEnforced == Spec => []BannedIpGetsNoList
<1>1. IInv => BannedIpGetsNoList
  BY DEF IInv, IpBanStops, IpStopped, BannedIpGetsNoList, Listed, At
<1> QED
  BY <1>1, LoginInvariance, PTL

\* getBanishment: a banned account gets its list only when the database is lost.
THEOREM AccountBansAreEnforced == Spec => []BannedAccountNeedsOutage
<1>1. IInv => BannedAccountNeedsOutage
  BY DEF IInv, AccountBanStops, AccountStopped, BannedAccountNeedsOutage, Listed, At
<1> QED
  BY <1>1, LoginInvariance, PTL

\* What delegate has put in the list is what the account in memory says, or the gratis
\* mark: nothing of the login changes between the put and the end of the task.
DaysArePut ==
    Listed => task.shown = IF freePremium THEN Gratis ELSE task.account.premium

\* The step ends in no list.
NoList(t) == ~(t.pc = "answered" /\ t.answer = "list")

\* Then there are no days to be right.
LEMMA NoListKeeps == ASSUME NoList(task') PROVE DaysArePut'
  BY DEF NoList, DaysArePut, Listed, At

\* Every statement but the answer leads to another statement or to a refusal.
LEMMA StatementsGiveNoList ==
    ASSUME task \in TaskType,
           \/ BeginTransaction \/ SelectAccounts \/ LoadNext \/ SaveNext \/ CommitTransaction
           \/ StartLogin \/ CheckBanishments \/ IsIpBanished \/ LoadAccount \/ LoadCharacters
           \/ GetBanishment \/ GetNameByGuid \/ UpdateAccount \/ SaveAccount \/ FinishLogin
    PROVE  NoList(task')
<1>1. ASSUME NEW t \in TaskType, NEW answer \in Answers \ {"list"}
      PROVE  NoList(Answered(t, answer))
  BY <1>1, MoveFacts DEF NoList
<1>2. NoList(Idle)
  BY IdleType DEF NoList
<1>3. \A a : NoList(Advance(a))
  BY DEF Advance, NoList, TaskType
<1>4. CASE BeginTransaction \/ SelectAccounts \/ SaveNext \/ CommitTransaction \/ FinishLogin
  <2>1. \A todo : NoList([task EXCEPT !.pc = "load", !.todo = todo])
    BY DEF NoList, TaskType
  <2> QED
    <3>1. CASE BeginTransaction
      <4>1. task' = [task EXCEPT !.pc = "select"] \/ task' = Idle
        BY <3>1 DEF BeginTransaction, Abandon
      <4>2. CASE task' = [task EXCEPT !.pc = "select"]
        BY <4>2 DEF NoList, TaskType
      <4> QED
        BY <1>2, <4>1, <4>2
    <3>2. CASE SelectAccounts
      <4>1. task' = Idle \/ \E todo : task' = [task EXCEPT !.pc = "load", !.todo = todo]
        <5>1. CASE \E d \in Sessions(db) :
                     LET due == {a \in Accounts : d.work[a].lastDay <= now - Day}
                     IN  IF due = {} THEN Abandon(d)
                         ELSE db' = d /\ task' = [task EXCEPT !.pc = "load", !.todo = due]
          <6>1. PICK d \in Sessions(db), due \in SUBSET Accounts :
                  Abandon(d) \/ task' = [task EXCEPT !.pc = "load", !.todo = due]
            BY <5>1
          <6> QED
            BY <6>1 DEF Abandon
        <5>2. CASE Abandon(Lost(db))
          BY <5>2 DEF Abandon
        <5> QED
          BY <3>2, <5>1, <5>2 DEF SelectAccounts
      <4> QED
        BY <1>2, <2>1, <4>1
    <3>3. CASE SaveNext
      BY <1>3, <3>3 DEF SaveNext
    <3>4. CASE CommitTransaction \/ FinishLogin
      BY <1>2, <3>4 DEF CommitTransaction, FinishLogin
    <3> QED
      BY <1>4, <3>1, <3>2, <3>3, <3>4
<1>5. CASE LoadNext
  <2>1. PICK a \in task.todo :
          \/ task' = Advance(a)
          \/ \E loaded, account : task' = [task EXCEPT !.pc = "save", !.who = a, !.at = now,
                                                       !.loaded = loaded, !.account = account]
    BY <1>5 DEF LoadNext
  <2>2. CASE task' = Advance(a)
    BY <1>3, <2>2
  <2>3. ASSUME NEW loaded, NEW account,
               task' = [task EXCEPT !.pc = "save", !.who = a, !.at = now,
                                    !.loaded = loaded, !.account = account]
        PROVE  NoList(task')
    BY <2>3 DEF NoList, TaskType
  <2> QED
    BY <2>1, <2>2, <2>3
<1>6. CASE StartLogin
  <2>1. \A who, password, banned, outage :
          NoList([Idle EXCEPT !.pc = "checkBanishments", !.who = who, !.password = password,
                              !.banned = banned, !.outage = outage])
    BY IdleType DEF NoList, TaskType
  <2> QED
    <3> DEFINE banned == {t \in Targets : bans[t].until > now}
               outage == ~db.connected
    <3>1. PICK who \in Accounts \cup {Unknown}, password \in BOOLEAN :
            task' = [Idle EXCEPT !.pc = "checkBanishments", !.who = who, !.password = password,
                                 !.banned = banned, !.outage = outage]
      BY <1>6 DEF StartLogin
    <3> HIDE DEF banned, outage
    <3> QED
      BY <2>1, <3>1
<1>7. CASE CheckBanishments \/ IsIpBanished \/ GetBanishment \/ GetNameByGuid \/ SaveAccount
  <2>1. \/ \E pc \in {"isIpBanished", "loadAccount", "getNameByGuid", "updatePremium", "answer"} :
             task' = [task EXCEPT !.pc = pc]
        \/ \E answer \in {"ipBanned", "accountBanned"} : task' = Answered(task, answer)
    <3>1. CASE CheckBanishments
      BY <3>1 DEF CheckBanishments
    <3>2. CASE IsIpBanished
      BY <3>2 DEF IsIpBanished
    <3>3. CASE GetBanishment
      BY <3>3 DEF GetBanishment
    <3>4. CASE GetNameByGuid \/ SaveAccount
      BY <3>4 DEF GetNameByGuid, SaveAccount
    <3> QED
      BY <1>7, <3>1, <3>2, <3>3, <3>4
  <2> QED
    <3>1. ASSUME NEW pc \in {"isIpBanished", "loadAccount", "getNameByGuid", "updatePremium",
                             "answer"},
                 task' = [task EXCEPT !.pc = pc]
          PROVE  NoList(task')
      BY <3>1 DEF NoList, TaskType
    <3>2. ASSUME NEW answer \in {"ipBanned", "accountBanned"}, task' = Answered(task, answer)
          PROVE  NoList(task')
      <4>1. answer \in Answers \ {"list"}
        BY DEF Answers
      <4> QED
        BY <1>1, <3>2, <4>1
    <3> QED
      BY <2>1, <3>1, <3>2
<1>8. CASE LoadAccount
  <2>1. \/ task' = Answered(task, "invalid")
        \/ \E loaded, account :
             task' = [task EXCEPT !.pc = "loadCharacters", !.loaded = loaded, !.account = account]
    BY <1>8 DEF LoadAccount, NoResult
  <2>2. "invalid" \in Answers \ {"list"}
    BY DEF Answers
  <2>3. ASSUME NEW loaded, NEW account,
               task' = [task EXCEPT !.pc = "loadCharacters", !.loaded = loaded,
                                    !.account = account]
        PROVE  NoList(task')
    BY <2>3 DEF NoList, TaskType
  <2>4. CASE task' = Answered(task, "invalid")
    BY <1>1, <2>2, <2>4
  <2> QED
    BY <2>1, <2>3, <2>4
<1>9. CASE LoadCharacters
  <2>1. PICK chars \in BOOLEAN :
          LET t == [task EXCEPT !.chars = chars, !.pc = "getBanishment"]
          IN  task' = IF IsRejected(t) THEN Answered(t, "invalid") ELSE t
    BY <1>9 DEF LoadCharacters
  <2> DEFINE t == [task EXCEPT !.chars = chars, !.pc = "getBanishment"]
  <2>2. t \in TaskType /\ NoList(t)
    <3>1. t \in TaskType
      BY TaskTypes
    <3> QED
      BY <3>1 DEF NoList, TaskType
  <2>3. task' = t \/ task' = Answered(t, "invalid")
    BY <2>1
  <2> HIDE DEF t
  <2> QED
    BY <1>1, <2>2, <2>3 DEF Answers
<1>10. CASE UpdateAccount
  <2>1. \A pc \in {"saveAccount", "answer"} : \A account, at :
          NoList([task EXCEPT !.pc = pc, !.account = account, !.at = at])
    BY DEF NoList, TaskType
  <2> QED
    BY <1>10, <2>1 DEF UpdateAccount
<1> QED
  BY <1>4, <1>5, <1>6, <1>7, <1>8, <1>9, <1>10

\* A step keeps what the list says.
LEMMA DaysStayPut == ASSUME TypeOK, DaysArePut, [Next]_vars PROVE DaysArePut'
<1>1. task \in TaskType
  BY DEF TypeOK
<1>2. CASE Tick \/ (\E t \in Targets : Ban(t)) \/ UNCHANGED vars
  <2>1. UNCHANGED <<task, freePremium>>
    BY <1>2 DEF Tick, Ban, vars
  <2> QED
    BY <2>1 DEF DaysArePut, Listed, At
<1>3. ASSUME NEW a \in Accounts, Pay(a) PROVE DaysArePut'
  <2>1. freePremium' = freePremium /\ (task' = task \/ task' = [task EXCEPT !.paid = @ \cup {a}])
    BY <1>3 DEF Pay
  <2>2. /\ task'.pc = task.pc /\ task'.answer = task.answer /\ task'.shown = task.shown
        /\ task'.account = task.account
    BY <1>1, <2>1 DEF TaskType
  <2> QED
    BY <2>1, <2>2 DEF DaysArePut, Listed, At
<1>4. CASE AnswerLogin
  <2>1. freePremium' = freePremium
    BY <1>4 DEF AnswerLogin, Same
  <2>2. CASE task' = Answered(task, "noCharacters")
    <3>1. NoList(task')
      BY <1>1, <2>2, MoveFacts DEF NoList, Answers
    <3> QED
      BY <3>1, NoListKeeps
  <2>3. CASE task' = [Answered(task, "list") EXCEPT !.shown = PremiumDays]
    <3>1. Answered(task, "list") \in TaskType /\ Works(task, Answered(task, "list"))
      BY <1>1, MoveFacts, TaskTypes DEF Answers
    <3>2. task'.shown = PremiumDays /\ task'.account = task.account
      BY <2>3, <3>1 DEF TaskType, Works
    <3> QED
      BY <2>1, <3>2 DEF DaysArePut, PremiumDays
  <2> QED
    BY <1>4, <2>2, <2>3 DEF AnswerLogin
<1>5. CASE \/ BeginTransaction \/ SelectAccounts \/ LoadNext \/ SaveNext \/ CommitTransaction
           \/ StartLogin \/ CheckBanishments \/ IsIpBanished \/ LoadAccount \/ LoadCharacters
           \/ GetBanishment \/ GetNameByGuid \/ UpdateAccount \/ SaveAccount \/ FinishLogin
  BY <1>1, <1>5, StatementsGiveNoList, NoListKeeps
<1> QED
  BY <1>2, <1>3, <1>4, <1>5 DEF Next

\* updatePremium leaves the days alone where no period is running or it lies ahead.
LEMMA UpdateShowsDaysLeft ==
    ASSUME NEW account \in Account, NEW t \in Nat
    PROVE  UpdatePremium(account, t).premium = DaysLeft(account, t)
<1>1. /\ account.premium \in Nat /\ account.lastDay \in Nat /\ Gratis \in Nat
      /\ account = [premium |-> account.premium, lastDay |-> account.lastDay]
  BY Days DEF Account
<1>2. CASE Counting(account) /\ account.lastDay <= t
  BY <1>2, UpdateShowsRemaining DEF DaysLeft
<1>3. CASE account.lastDay > t
  <2>1. UpdatePremium(account, t) = account
    BY <1>3 DEF UpdatePremium
  <2>2. ~(account.lastDay <= t)
    BY <1>1, <1>3
  <2> QED
    BY <2>1, <2>2 DEF DaysLeft
<1>4. CASE ~Counting(account)
  <2>1. account.lastDay = 0 \/ ~(account.premium > 0 /\ account.premium < Gratis)
    BY <1>1, <1>4 DEF Counting
  <2>2. /\ [account EXCEPT !.lastDay = t].premium = account.premium
        /\ [account EXCEPT !.lastDay = 0].premium = account.premium
    BY <1>1
  <2>3. UpdatePremium(account, t) \in
          {account, [account EXCEPT !.lastDay = t], [account EXCEPT !.lastDay = 0]}
    BY <2>1 DEF UpdatePremium
  <2> QED
    BY <1>4, <2>2, <2>3 DEF DaysLeft
<1> QED
  BY <1>1, <1>2, <1>3, <1>4

\* updatePremium and the end of delegate: the days of a list are those the account has
\* left, rounded up, or GRATIS_PREMIUM with FREE_PREMIUM.
THEOREM DaysAreRight == Spec => []DaysShownAreRight
<1>1. ASSUME IInv, DaysArePut PROVE DaysShownAreRight
  <2> SUFFICES ASSUME Listed
               PROVE  task.shown = IF freePremium THEN Gratis
                                   ELSE DaysLeft(task.loaded, task.at)
    BY DEF DaysShownAreRight
  <2>1. task.loaded \in Account /\ task.at \in Nat
    BY <1>1 DEF IInv, TypeOK, TaskType
  <2>2. task.account = UpdatePremium(task.loaded, task.at)
    BY <1>1 DEF IInv, AccountIsRead
  <2>3. task.account.premium = DaysLeft(task.loaded, task.at)
    BY <2>1, <2>2, UpdateShowsDaysLeft
  <2> QED
    BY <1>1, <2>3 DEF DaysArePut
<1>2. Init => DaysArePut
  BY IdleType DEF Init, DaysArePut, Listed, At, TaskType
<1>3. IInv /\ DaysArePut /\ [Next]_vars => DaysArePut'
  BY DaysStayPut DEF IInv
<1> QED
  BY <1>1, <1>2, <1>3, LoginInvariance, PTL DEF Spec

\* reconnectAndRetry: a lost handle stays lost and refuses every later login.
THEOREM OutagesAreFinal == Spec => []OutageIsFinal
<1>1. IInv => OutageIsFinal
  BY DEF IInv, OutageStops, OutageStopped, OutageIsFinal, At
<1> QED
  BY <1>1, LoginInvariance, PTL

\* The committed rows of the accounts table, over one step of this server.
LEMMA RowsStep ==
    ASSUME IInv, Next, payments' = payments, NEW a \in Accounts, a \notin task.paid
    PROVE  Keeps(db.table[a], db'.table[a], now)
<1>1. db \in Handle /\ payments \in Nat /\ db.table \in Table
  BY DEF IInv, TypeOK, Handle
<1>2. ASSUME db'.table[a] = db.table[a] PROVE Keeps(db.table[a], db'.table[a], now)
  BY <1>2 DEF Keeps
<1>3. \A s \in Sessions(db) : s.table = db.table
  BY <1>1, SessionFacts
<1>4. Lost(db).table = db.table
  BY <1>1, LostFacts
<1>5. CASE Tick \/ (\E t \in Targets : Ban(t)) \/ StartLogin \/ UpdateAccount \/ FinishLogin
  BY <1>2, <1>5 DEF Tick, Ban, StartLogin, UpdateAccount, FinishLogin
<1>6. CASE \E b \in Accounts : Pay(b)
  <2>1. payments' = payments + 1
    BY <1>6 DEF Pay
  <2> QED
    BY <1>1, <2>1
<1>7. CASE CheckBanishments \/ IsIpBanished \/ LoadAccount \/ LoadCharacters
           \/ GetBanishment \/ GetNameByGuid \/ AnswerLogin
  <2>1. db' \in Sessions(db) \cup {db, Lost(db)}
    BY <1>7 DEF CheckBanishments, IsIpBanished, LoadAccount, LoadCharacters, GetBanishment,
                GetNameByGuid, AnswerLogin
  <2> QED
    BY <1>2, <1>3, <1>4, <2>1
<1>8. CASE BeginTransaction \/ SelectAccounts
  <2>1. \A d \in Handle : Abandon(d) => db'.table = d.table
    BY ReconnectedFacts DEF Abandon, Rollback
  <2>2. Lost(db) \in Handle /\ \A s \in Sessions(db) : s \in Handle /\ Begin(s).table = s.table
    BY <1>1, LostFacts, SessionFacts, BeginFacts
  <2>3. CASE BeginTransaction
    <3>1. Abandon(Lost(db)) \/ \E s \in Sessions(db) : db' = Begin(s)
      BY <2>3 DEF BeginTransaction
    <3> QED
      BY <1>2, <1>3, <1>4, <2>1, <2>2, <3>1
  <2>4. CASE SelectAccounts
    <3>1. Abandon(Lost(db)) \/ \E s \in Sessions(db) : db' = s \/ Abandon(s)
      BY <2>4 DEF SelectAccounts
    <3> QED
      BY <1>2, <1>3, <1>4, <2>1, <2>2, <3>1
  <2> QED
    BY <1>8, <2>3, <2>4
<1>9. CASE LoadNext
  <2>1. db' \in Sessions(db) \cup {Lost(db)}
    BY <1>9 DEF LoadNext
  <2> QED
    BY <1>2, <1>3, <1>4, <2>1
<1>10. CASE SaveNext \/ SaveAccount
  <2>1. task.pc \in {"save", "saveAccount"} /\ db' \in UpdateOutcomes(db, task.who, task.account)
    BY <1>10 DEF SaveNext, SaveAccount, At
  <2>2. PICK r \in Accounts, v \in Row : r = task.who /\ v = task.account
    BY <2>1, SavedRow
  <2>3. r \notin task.paid => Keeps(db.table[r], v, now)
    BY <2>1, <2>2, SavedRow
  <2>4. \A d \in Handle : d.table = db.table =>
          Write(d, r, v).table \in {db.table, [db.table EXCEPT ![r] = v]}
    BY DEF Write, Handle, Table
  <2>5. db'.table \in {db.table, [db.table EXCEPT ![r] = v]}
    <3>1. \/ db' = Lost(db)
          \/ \E s \in Sessions(db) : db' = Write(s, r, v) \/ db' = Lost(Write(s, r, v))
      BY <1>1, <2>1, <2>2, UpdateFacts
    <3>2. \A s \in Sessions(db) : s \in Handle
      BY <1>1, SessionFacts
    <3>3. \A s \in Sessions(db) : Write(s, r, v) \in Handle
      BY <3>2, WriteFacts
    <3>4. \A s \in Sessions(db) : Lost(Write(s, r, v)).table = Write(s, r, v).table
      BY <3>3, LostFacts
    <3> QED
      BY <1>1, <1>3, <1>4, <2>4, <3>1, <3>2, <3>4
  <2>6. CASE db'.table = db.table
    BY <1>2, <2>6
  <2>7. CASE db'.table = [db.table EXCEPT ![r] = v]
    <3>1. a # r => db'.table[a] = db.table[a]
      BY <1>1, <2>7 DEF Table
    <3>2. a = r => db'.table[a] = v
      BY <1>1, <2>7 DEF Table
    <3> QED
      BY <1>2, <2>3, <3>1, <3>2
  <2> QED
    BY <2>5, <2>6, <2>7
<1>11. CASE CommitTransaction
  <2>1. db' \in CommitOutcomes(db)
    BY <1>11 DEF CommitTransaction
  <2>2. db'.table[a] = db.table[a] \/ (a \in db.dirty /\ db'.table[a] = db.work[a])
    <3>1. \/ db' = db
          \/ \A b \in Accounts : \/ db'.table[b] = db.table[b]
                                 \/ b \in db.dirty /\ db'.table[b] = db.work[b]
      BY <1>1, <2>1, CommitFacts
    <3> QED
      BY <3>1
  <2>3. a \in db.dirty => Keeps(db.table[a], db.work[a], now)
    BY DEF IInv, RowsAreSeen
  <2> QED
    BY <1>2, <2>2, <2>3
<1> QED
  BY <1>5, <1>6, <1>7, <1>8, <1>9, <1>10, <1>11 DEF Next

\* updatePremium and saveAccount: no step of this server moves the end of a premium
\* period that is running in the accounts table.
THEOREM PeriodsAreKept == Spec => PaidUntilIsKept
<1> DEFINE A == payments' = payments =>
                  \A a \in Accounts \ task.paid :
                    Counting(db.table[a]) =>
                      \/ Counting(db'.table[a]) /\ PaidUntil(db'.table[a]) = PaidUntil(db.table[a])
                      \/ db'.table[a].premium = 0 /\ PaidUntil(db.table[a]) <= now
<1>1. IInv /\ [Next]_vars => [A]_vars
  <2> SUFFICES ASSUME IInv, Next PROVE A
    OBVIOUS
  <2> SUFFICES ASSUME payments' = payments, NEW a \in Accounts \ task.paid
               PROVE  Keeps(db.table[a], db'.table[a], now)
    BY DEF Keeps
  <2> QED
    BY RowsStep
<1>2. PaidUntilIsKept <=> [][A]_vars
  BY DEF PaidUntilIsKept
<1> QED
  BY <1>1, <1>2, LoginInvariance, PTL DEF Spec
=============================================================================
