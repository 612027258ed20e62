------------------------------- MODULE Login --------------------------------
(* ProtocolLogin::delegate and the IO and Database calls it makes, with the   *)
(* premium update at startup. All of it runs on the dispatcher's thread, one  *)
(* login after the other, on that thread's database handle. Each statement is *)
(* a step: the clock, the bans and the accounts (both tables are written by   *)
(* the game server as well) and the connection to the database may change     *)
(* between two of them.                                                       *)
EXTENDS Integers, Database, Premium

CONSTANTS
    Accounts,         \* rows of the accounts table
    Ten,              \* the account numbered 10: no password, lists the casters
    Unknown,          \* a name without an account
    InitialRows,      \* the accounts tables there may be at startup
    Bannable,         \* accounts that may be banned
    StartTime,        \* the clock at startup
    MaxTime,          \* bound of the clock
    MaxLogins,        \* bound on the logins of a behaviour
    MaxPayments       \* bound on the days others add to the accounts

ASSUME LoginAssumption ==
    /\ Unknown \notin Accounts /\ "ip" \notin Accounts
    /\ Bannable \subseteq Accounts
    /\ StartTime \in Nat /\ MaxTime \in Nat /\ MaxLogins \in Nat /\ MaxPayments \in Nat

VARIABLES
    now,     \* time(NULL), and NOW() of the server
    db,      \* the handle, see Database
    bans,    \* bans[t]: the ban of target t
    task,    \* what the dispatcher's thread is doing
    served,  \* logins answered so far
    payments,    \* days others have added to the accounts
    freePremium  \* FREE_PREMIUM, read once with the configuration

vars == <<now, db, bans, task, served, payments, freePremium>>

-----------------------------------------------------------------------------
Forever == MaxTime + 1                       \* expires_at IS NULL
Targets == {"ip"} \cup Bannable
NeverBanned == [active |-> FALSE, until |-> 0]

Account == [premium : Nat, lastDay : Nat]
NoAccount == [premium |-> 0, lastDay |-> 0]  \* Account()
Row == [premium : Int, lastDay : Nat]        \* premium_days, lastday
Table == [Accounts -> Row]
Handle == [connected : BOOLEAN, inTrans : BOOLEAN, table : Table, work : Table,
           dirty : SUBSET Accounts]

\* The columns hold integers, and lastday a time.
ASSUME RowsAssumption == InitialRows \subseteq Table

Statements ==
    {"begin", "select", "load", "save", "commit",
     "checkBanishments", "isIpBanished", "loadAccount", "loadCharacters",
     "getBanishment", "getNameByGuid", "updatePremium", "saveAccount", "answer"}
Answers == {"none", "ipBanned", "invalid", "accountBanned", "noCharacters", "list"}

TaskType ==
    [pc : Statements \cup {"idle", "answered"},
     who : Accounts \cup {Unknown},
     password : BOOLEAN,              \* encryptTest
     chars : BOOLEAN,                 \* charList is not empty
     loaded : Account,                \* the row as loaded
     account : Account,               \* the row in memory
     at : Nat,                        \* time(NULL) in updatePremium
     todo : SUBSET Accounts,          \* rows of the premium update still to do
     banned : SUBSET Targets,         \* history: in force when the login began
     outage : BOOLEAN,                \* history: the handle was lost before it
     paid : SUBSET Accounts,          \* history: rows others wrote since they were read
     answer : Answers,
     shown : Nat]                     \* the premium days put in the list

TypeOK ==
    /\ now \in Nat
    /\ db \in Handle
    /\ bans \in [Targets -> [active : BOOLEAN, until : Nat]]
    /\ task \in TaskType
    /\ served \in Nat /\ payments \in Nat
    /\ freePremium \in BOOLEAN

Idle ==
    [pc |-> "idle", who |-> Unknown, password |-> FALSE, chars |-> FALSE,
     loaded |-> NoAccount, account |-> NoAccount, at |-> 0, todo |-> {},
     banned |-> {}, outage |-> FALSE, paid |-> {}, answer |-> "none",
     shown |-> 0]

\* otlogin: the database answers, and the premium state is updated first if the
\* configuration says so.
Init ==
    /\ now = StartTime
    /\ \E rows \in InitialRows :
         db = [connected |-> TRUE, inTrans |-> FALSE, table |-> rows, work |-> rows,
               dirty |-> {}]
    /\ bans = [t \in Targets |-> NeverBanned]
    /\ task \in {Idle, [Idle EXCEPT !.pc = "begin"]}
    /\ served = 0 /\ payments = 0
    /\ freePremium \in BOOLEAN

-----------------------------------------------------------------------------
(* The world outside.                                                         *)

Tick == now < MaxTime /\ now' = now + 1 /\ UNCHANGED <<db, bans, task, served, payments, freePremium>>

Ban(t) ==
    /\ bans[t] = NeverBanned
    /\ \E until \in {now + 1, Forever} :
         bans' = [bans EXCEPT ![t] = [active |-> TRUE, until |-> until]]
    /\ UNCHANGED <<now, db, task, served, payments, freePremium>>

\* The condition of isIpBanished and getBanishment.
InForceTemporaryOnly(ban) == ban.active /\ ban.until # Forever /\ ban.until > now
InForce(ban) == ban.active /\ ban.until > now

\* The steps between reading a row and the last use of what was read.
UpdatesAll == {"load", "save", "commit"}
Holds(a) ==
    \/ task.pc \in UpdatesAll
    \/ task.who = a /\ task.pc \in {"loadCharacters", "getBanishment", "updatePremium", "saveAccount"}

\* The game server or the shop adds a premium day to an account.
Pay(a) ==
    /\ payments < MaxPayments /\ MayWrite(db, a)
    /\ payments' = payments + 1
    /\ db' = OtherWrites(db, a, [db.table[a] EXCEPT !.premium = @ + 1], task.pc \in UpdatesAll)
    /\ task' = IF Holds(a) THEN [task EXCEPT !.paid = @ \cup {a}] ELSE task
    /\ UNCHANGED <<now, bans, served, freePremium>>

-----------------------------------------------------------------------------
(* IO::updatePremium(), at startup.                                           *)

At(pc) == task.pc = pc
Same == UNCHANGED <<now, bans, served, payments, freePremium>>

\* Leave the transaction without a commit.
Abandon(d) == db' = Rollback(d) /\ task' = Idle

BeginTransaction ==
    /\ At("begin") /\ Same
    /\ \/ /\ db' \in {Begin(d) : d \in Sessions(db)}
          /\ task' = [task EXCEPT !.pc = "select"]
       \/ Abandon(Lost(db))

\* A storeQuery without rows is a NULL result, like a failed one.
SelectAccounts ==
    /\ At("select") /\ Same
    /\ \/ \E d \in Sessions(db) :
            LET due == {a \in Accounts : d.work[a].lastDay <= now - Day}
            IN  IF due = {} THEN Abandon(d)
                ELSE db' = d /\ task' = [task EXCEPT !.pc = "load", !.todo = due]
       \/ Abandon(Lost(db))

\* After account a: the next one or the commit.
Advance(a) ==
    [task EXCEPT !.pc = IF task.todo = {a} THEN "commit" ELSE "load",
                 !.todo = @ \ {a}]

\* loadAccount keeps the days within what an account can have.
Loaded(row) ==
    [row EXCEPT !.premium = IF @ < 0 THEN 0 ELSE IF @ > Gratis THEN Gratis ELSE @]

\* loadAccount(id); when it fails, an empty account that has nothing to save.
LoadNext ==
    /\ At("load") /\ Same
    /\ \E a \in task.todo :
         \/ \E d \in Sessions(db) :
              /\ db' = d
              /\ LET account == Loaded(d.work[a])
                 IN  task' = IF NeedsSave(account, now)
                             THEN [task EXCEPT !.pc = "save", !.who = a, !.at = now,
                                               !.loaded = account,
                                               !.account = UpdatePremium(account, now)]
                             ELSE Advance(a)
         \/ db' = Lost(db) /\ task' = Advance(a)

SaveNext ==
    /\ At("save") /\ Same
    /\ db' \in UpdateOutcomes(db, task.who, task.account)
    /\ task' = Advance(task.who)

CommitTransaction ==
    /\ At("commit") /\ Same
    /\ db' \in CommitOutcomes(db)
    /\ task' = Idle

-----------------------------------------------------------------------------
(* ProtocolLogin::delegate                                                    *)

StartLogin ==
    /\ At("idle") /\ served < MaxLogins
    /\ \E who \in Accounts \cup {Unknown}, password \in BOOLEAN :
         task' = [Idle EXCEPT !.pc = "checkBanishments", !.who = who,
                              !.password = password,
                              !.banned = {t \in Targets : bans[t].until > now},
                              !.outage = ~db.connected]
    /\ UNCHANGED <<now, db, bans, served, payments, freePremium>>

\* Deactivate the bans that have expired.
IsOver(ban) == ban.until <= now
Deactivated ==
    [t \in Targets |-> IF IsOver(bans[t]) THEN [bans[t] EXCEPT !.active = FALSE] ELSE bans[t]]

CheckBanishments ==
    /\ At("checkBanishments")
    /\ \/ db' \in Sessions(db) /\ bans' = Deactivated
       \/ /\ db' = Lost(db)
          /\ bans' \in IF db.connected THEN {bans, Deactivated} ELSE {bans}
    /\ task' = [task EXCEPT !.pc = "isIpBanished"]
    /\ UNCHANGED <<now, served, payments, freePremium>>

Answered(t, answer) == [t EXCEPT !.pc = "answered", !.answer = answer]

IsIpBanished ==
    /\ At("isIpBanished") /\ Same
    /\ \/ /\ db' \in Sessions(db)
          /\ task' = IF InForce(bans["ip"]) THEN Answered(task, "ipBanned")
                     ELSE [task EXCEPT !.pc = "loadAccount"]
       \/ db' = Lost(db) /\ task' = [task EXCEPT !.pc = "loadAccount"]

NoResultIgnored(t) == [t EXCEPT !.pc = "loadCharacters"]
NoResult(t) == Answered(t, "invalid")

LoadAccount ==
    /\ At("loadAccount") /\ Same
    /\ \/ \E d \in Sessions(db) :
            /\ db' = d
            /\ task' = IF task.who = Unknown THEN NoResult(task)
                       ELSE [task EXCEPT !.pc = "loadCharacters",
                                         !.loaded = Loaded(d.work[task.who]),
                                         !.account = Loaded(d.work[task.who])]
       \/ db' = Lost(db) /\ task' = NoResult(task)

\* The characters, then the password.
IsRejected(t) == t.who # Ten /\ ~t.password
LoadCharacters ==
    /\ At("loadCharacters") /\ Same
    /\ \E chars \in BOOLEAN :
         /\ \/ db' \in Sessions(db)
            \/ ~chars /\ db' = Lost(db)
         /\ LET t == [task EXCEPT !.chars = chars, !.pc = "getBanishment"]
            IN  task' = IF IsRejected(t) THEN Answered(t, "invalid") ELSE t

AccountBan == IF task.who \in Bannable THEN bans[task.who] ELSE NeverBanned

GetBanishment ==
    /\ At("getBanishment") /\ Same
    /\ \/ /\ db' \in Sessions(db)
          /\ task' = [task EXCEPT !.pc = IF InForce(AccountBan) THEN "getNameByGuid"
                                         ELSE "updatePremium"]
       \/ db' = Lost(db) /\ task' = [task EXCEPT !.pc = "updatePremium"]

\* Who banned the account: automatic, cached, or asked for.
GetNameByGuid ==
    /\ At("getNameByGuid") /\ Same
    /\ db' \in Sessions(db) \cup {db, Lost(db)}
    /\ task' = Answered(task, "accountBanned")

UpdateAccount ==
    /\ At("updatePremium") /\ Same
    /\ task' = [task EXCEPT !.pc = IF NeedsSave(task.account, now) THEN "saveAccount" ELSE "answer",
                            !.account = UpdatePremium(@, now), !.at = now]
    /\ UNCHANGED db

\* A save that fails is logged and the login goes on.
SaveAccount ==
    /\ At("saveAccount") /\ Same
    /\ db' \in UpdateOutcomes(db, task.who, task.account)
    /\ task' = [task EXCEPT !.pc = "answer"]

\* The days at the end of the list: with FREE_PREMIUM everybody has premium for ever.
\* The account itself is charged all the same.
PremiumDays == IF freePremium THEN Gratis ELSE task.account.premium

\* The list; the one of account 10 asks the database for the casters.
AnswerLogin ==
    /\ At("answer") /\ Same
    /\ db' \in IF task.who = Ten THEN Sessions(db) \cup {Lost(db)} ELSE {db}
    /\ task' = IF task.who # Ten /\ ~task.chars THEN Answered(task, "noCharacters")
               ELSE [Answered(task, "list") EXCEPT !.shown = PremiumDays]

FinishLogin ==
    /\ At("answered")
    /\ task' = Idle
    /\ served' = served + 1
    /\ UNCHANGED <<now, db, bans, payments, freePremium>>

-----------------------------------------------------------------------------
Next ==
    \/ Tick
    \/ \E t \in Targets : Ban(t)
    \/ \E a \in Accounts : Pay(a)
    \/ BeginTransaction \/ SelectAccounts \/ LoadNext \/ SaveNext \/ CommitTransaction
    \/ StartLogin \/ CheckBanishments \/ IsIpBanished \/ LoadAccount \/ LoadCharacters
    \/ GetBanishment \/ GetNameByGuid \/ UpdateAccount \/ SaveAccount
    \/ AnswerLogin \/ FinishLogin

Spec == Init /\ [][Next]_vars

-----------------------------------------------------------------------------
(* Properties.                                                                *)

\* The ban of target t was in force when the login began and still is.
Banned(t) == t \in task.banned /\ bans[t].until > now

Listed == At("answered") /\ task.answer = "list"

\* A banned address never gets a character list, although isIpBanished answers "no"
\* when the database does not: the handle is then lost for loadAccount too.
BannedIpGetsNoList == Listed => ~Banned("ip")

\* README: "IP and account ban enforcement". A banned account gets its character list
\* only when the database was lost during its login: getBanishment then finds no ban.
BannedAccountNeedsOutage ==
    Listed /\ task.who \in Bannable /\ Banned(task.who) => ~db.connected

\* The end of what was paid for, and the days that remain until then, rounded up.
PaidUntil(account) == account.lastDay + account.premium * Day
Counting(account) == account.lastDay # 0 /\ account.premium \in 1..(Gratis - 1)
Remaining(account, t) ==
    IF PaidUntil(account) <= t THEN 0 ELSE (PaidUntil(account) - t + Day - 1) \div Day

\* A period that has not begun, or never ends, has all its days left.
DaysLeft(account, t) ==
    IF Counting(account) /\ account.lastDay <= t THEN Remaining(account, t) ELSE account.premium

\* The days a list shows are those the account has left, however the updates and the
\* days in between fell, or GRATIS_PREMIUM where premium is free.
DaysShownAreRight ==
    Listed => task.shown = IF freePremium THEN Gratis ELSE DaysLeft(task.loaded, task.at)

\* No update of the accounts table moves the end of a premium period that is running,
\* be it at startup, at a login, in a transaction lost half way or saved late: days
\* are neither charged twice nor given, and days that others add are kept, unless they
\* add them between this server's read of the row and its save.
PaidUntilIsKept ==
    [][payments' = payments =>
         \A a \in Accounts \ task.paid :
           Counting(db.table[a]) =>
             \/ Counting(db'.table[a]) /\ PaidUntil(db'.table[a]) = PaidUntil(db.table[a])
             \/ db'.table[a].premium = 0 /\ PaidUntil(db.table[a]) <= now]_vars

\* A lost database handle is never connected again, and every login that begins after
\* that, whoever it is, is told "Invalid account name or password."
OutageIsFinal ==
    task.outage => /\ ~db.connected
                   /\ At("answered") => task.answer = "invalid"
=============================================================================
