----------------------- MODULE ConnectionManagerProofs ----------------------
(* Proofs about acceptConnection for any limit, window and block time, told   *)
(* from the history of its answers and with a clock that may be set back.     *)
EXTENDS ConnectionManager, TLAPS

-----------------------------------------------------------------------------
(* The inductive invariant.                                                   *)

\* How far the clock had been set back at the i-th call.
ShiftAt(i) == log[i].time - log[i].clock

\* True time never goes back, and the clock is only ever set back.
TimesGrow ==
    /\ \A i \in DOMAIN log : log[i].time <= now + shift /\ ShiftAt(i) <= shift
    /\ \A i, j \in DOMAIN log : i <= j => log[i].time <= log[j].time /\ ShiftAt(i) <= ShiftAt(j)

\* The entry of ipConnectMap. An entry that let its last client in holds no block: a
\* block outlasts the window that led to it.
EntryIsKept ==
    /\ connects = NoBlock <=> log = <<>>
    /\ connects # NoBlock =>
         /\ connects.blockTime \in {0, connects.startTime + BlockTime}
         /\ log[Len(log)].ok => connects.blockTime = 0

\* The first refusal after an accepted connection; its block lies in the past, or ends
\* no earlier than it has to in true time.
Refusal(i) == i > 1 /\ log[i - 1].ok /\ ~log[i].ok
BlockLasts ==
    \A i \in DOMAIN log : Refusal(i) =>
        \/ now + shift >= log[i].time + BlockTime
        \/ connects.blockTime + shift >= log[i].time + BlockTime

\* Until a block is over its entry only counts.
BlockCounts ==
    \A i \in DOMAIN log :
        /\ log[i].blocks
        /\ \A k \in (i + 1)..Len(log) : log[k].clock < log[i].clock + BlockTime
        => /\ connects.blockTime = log[i].clock + BlockTime
           /\ connects.count = Len(log) - i

\* The connections an entry counts came within its window, as long as none is refused.
AllAccepted == \A i \in DOMAIN log : log[i].ok
CountIsRecent ==
    AllAccepted /\ connects # NoBlock =>
        /\ connects.count <= Len(log)
        /\ \A i \in DOMAIN log : i > Len(log) - connects.count =>
             log[i].clock \in connects.startTime..(connects.startTime + Window)

\* From the i-th call on all came at one setting of the clock within a window's length,
\* and all were accepted. Then the entry has counted them all, or fewer than
\* ConnectLimit of them before its window began, and all since.
Run(i) ==
    /\ \A k \in i..Len(log) : log[k].ok
    /\ ShiftAt(i) = ShiftAt(Len(log))
    /\ log[Len(log)].time <= log[i].time + Window
RunIsCounted ==
    \A i \in DOMAIN log : Run(i) =>
        \/ connects.startTime <= log[i].clock /\ connects.count >= Len(log) - i + 1
        \/ \E r \in i..Len(log) :
             /\ connects.startTime = log[r].clock
             /\ connects.count >= Len(log) - r
             /\ r - i < ConnectLimit

IInv ==
    /\ TypeOK
    /\ TimesGrow
    /\ EntryIsKept
    /\ BlockLasts /\ BlockIsHonoured
    /\ BlockCounts /\ BlockEnds
    /\ CountIsRecent /\ PatientIsAccepted
    /\ RunIsCounted /\ BurstIsPunished

-----------------------------------------------------------------------------
(* What one call of acceptConnection does, case by case.                      *)

New ==
    /\ connects = NoBlock
    /\ connects'.count = 1 /\ connects'.startTime = now /\ connects'.blockTime = 0
    /\ log'[Len(log) + 1].ok /\ ~log'[Len(log) + 1].blocks

\* The block has not ended.
Blocked ==
    /\ connects # NoBlock /\ connects.blockTime > now
    /\ connects'.count = connects.count + 1
    /\ connects'.startTime = connects.startTime /\ connects'.blockTime = connects.blockTime
    /\ ~log'[Len(log) + 1].ok /\ ~log'[Len(log) + 1].blocks

\* The window is open.
Inside ==
    /\ connects # NoBlock /\ connects.blockTime <= now
    /\ connects.startTime <= now /\ now <= connects.startTime + Window
    /\ connects'.count = connects.count + 1
    /\ connects'.startTime = connects.startTime /\ connects'.blockTime = connects.blockTime
    /\ log'[Len(log) + 1].ok /\ ~log'[Len(log) + 1].blocks

\* The window is over: a block, or a new window.
Over ==
    /\ connects # NoBlock /\ connects.blockTime <= now
    /\ now < connects.startTime \/ now > connects.startTime + Window
    /\ connects'.count = 0 /\ connects'.startTime = now
Blocks ==
    /\ Over /\ connects.count >= ConnectLimit
    /\ connects'.blockTime = now + BlockTime
    /\ ~log'[Len(log) + 1].ok /\ log'[Len(log) + 1].blocks
Renews ==
    /\ Over /\ connects.count < ConnectLimit
    /\ connects'.blockTime = 0
    /\ log'[Len(log) + 1].ok /\ ~log'[Len(log) + 1].blocks

LEMMA InitHolds == Init => IInv
<1> SUFFICES ASSUME Init PROVE IInv
  OBVIOUS
<1>1. DOMAIN log = {} /\ log = <<>>
  BY DEF Init
<1>2. TypeOK /\ TimesGrow /\ EntryIsKept
  BY <1>1 DEF Init, TypeOK, TimesGrow, EntryIsKept
<1>3. /\ BlockLasts /\ BlockIsHonoured /\ BlockCounts /\ BlockEnds
      /\ CountIsRecent /\ PatientIsAccepted /\ RunIsCounted /\ BurstIsPunished
  BY <1>1 DEF Init, BlockLasts, BlockIsHonoured, BlockCounts, BlockEnds, CountIsRecent,
              PatientIsAccepted, RunIsCounted, BurstIsPunished
<1> QED
  BY <1>2, <1>3 DEF IInv

\* Everything the proofs need of the constants and of the types.
LEMMA Numbers ==
    ASSUME TypeOK
    PROVE  /\ Window \in Nat /\ BlockTime \in Nat /\ BlockTime > Window
           /\ ConnectLimit \in Nat /\ ConnectLimit >= 1
           /\ now \in Nat /\ shift \in Nat
           /\ log \in Seq(Answer) /\ Len(log) \in Nat /\ DOMAIN log = 1..Len(log)
           /\ \A i \in DOMAIN log : log[i].time \in Nat /\ log[i].clock \in Nat
                                    /\ log[i].ok \in BOOLEAN /\ log[i].blocks \in BOOLEAN
           /\ connects # NoBlock => connects \in ConnectBlock
           /\ connects # NoBlock => connects.count \in Nat /\ connects.startTime \in Nat
                                    /\ connects.blockTime \in Nat
<1>1. log \in Seq(Answer) /\ Len(log) \in Nat /\ DOMAIN log = 1..Len(log)
  BY DEF TypeOK
<1>2. \A i \in DOMAIN log : log[i] \in Answer
  BY <1>1
<1> QED
  BY <1>1, <1>2, ManagerAssumption DEF TypeOK, Answer, ConnectBlock

LEMMA AcceptFacts ==
    ASSUME TypeOK, AcceptConnection
    PROVE  /\ TypeOK' /\ connects' # NoBlock /\ connects' \in ConnectBlock
           /\ UNCHANGED <<now, shift>>
           /\ Len(log') = Len(log) + 1 /\ DOMAIN log' = 1..(Len(log) + 1)
           /\ \A i \in DOMAIN log : i \in DOMAIN log' /\ log'[i] = log[i]
           /\ log'[Len(log) + 1].time = now + shift /\ log'[Len(log) + 1].clock = now
           /\ New \/ Blocked \/ Inside \/ Blocks \/ Renews
<1> DEFINE n == Len(log) + 1
           ok == connects = NoBlock \/ Accepts(connects)
           bl == connects # NoBlock /\ ~(connects.blockTime > now) /\ ~Accepts(connects)
           e == [time |-> now + shift, clock |-> now, ok |-> ok, blocks |-> bl]
<1>1. log' = Append(log, e) /\ UNCHANGED <<now, shift, logins, judging>>
  BY DEF AcceptConnection
<1>2. /\ ok \in BOOLEAN /\ bl \in BOOLEAN
  BY DEF Accepts
<1>3. ok <=> (connects = NoBlock \/ Accepts(connects))
  OBVIOUS
<1>4. bl <=> (connects # NoBlock /\ ~(connects.blockTime > now) /\ ~Accepts(connects))
  OBVIOUS
<1> HIDE DEF ok, bl
<1>5. e \in Answer /\ e.time = now + shift /\ e.clock = now /\ (e.ok <=> ok) /\ (e.blocks <=> bl)
  <2>1. now + shift \in Nat /\ now \in Nat
    BY Numbers
  <2> QED
    BY <1>2, <2>1, Zenon DEF Answer
<1> HIDE DEF e
<1>6. /\ log' \in Seq(Answer) /\ Len(log') = n /\ DOMAIN log' = 1..n
      /\ \A i \in DOMAIN log : i \in DOMAIN log' /\ log'[i] = log[i]
      /\ log'[n] = e
  BY <1>1, <1>5, Numbers
<1>7. CASE connects = NoBlock
  <2>1. connects' = NewConnect
    BY <1>7 DEF AcceptConnection
  <2>2. connects' \in ConnectBlock /\ connects' # NoBlock
    BY <2>1, Numbers DEF NewConnect, ConnectBlock, NoBlock
  <2>3. New
    BY <1>5, <1>3, <1>4, <1>6, <1>7, <2>1 DEF New, NewConnect
  <2>4. TypeOK'
    BY <1>1, <1>6, <2>2 DEF TypeOK
  <2> QED
    BY <1>1, <1>5, <1>6, <2>2, <2>3, <2>4
<1>8. CASE connects # NoBlock
  <2>1. connects' = Update(connects) /\ connects \in ConnectBlock
    BY <1>8, Numbers DEF AcceptConnection
  <2>2. WindowIsOver(connects) <=>
          (now < connects.startTime \/ now > connects.startTime + Window)
    BY <2>1, Numbers DEF WindowIsOver, ConnectBlock
  <2>3. TooMany(connects.count + 1) <=> connects.count >= ConnectLimit
    BY <2>1, Numbers DEF TooMany, ConnectBlock
  <2>4. connects' \in ConnectBlock /\ connects' # NoBlock
    <3>1. Counted(connects) \in ConnectBlock
      BY <2>1 DEF Counted, ConnectBlock
    <3>2. /\ [count |-> 0, startTime |-> now, blockTime |-> now + BlockTime] \in ConnectBlock
          /\ [count |-> 0, startTime |-> now, blockTime |-> 0] \in ConnectBlock
      BY Numbers DEF ConnectBlock
    <3>3. connects' \in ConnectBlock
      BY <2>1, <3>1, <3>2 DEF Update
    <3> QED
      BY <3>3 DEF ConnectBlock, NoBlock
  <2>5. Blocked \/ Inside \/ Blocks \/ Renews
    <3>1. CASE connects.blockTime > now
      <4>1. connects' = Counted(connects) /\ ~ok /\ ~bl
        BY <1>3, <1>4, <1>8, <2>1, <3>1 DEF Update, Accepts
      <4> QED
        BY <1>5, <1>6, <1>8, <2>1, <3>1, <4>1 DEF Blocked, Counted, ConnectBlock
    <3>2. CASE ~(connects.blockTime > now) /\ ~WindowIsOver(connects)
      <4>1. connects' = Counted(connects) /\ ok /\ ~bl
        BY <1>3, <1>4, <1>8, <2>1, <3>2 DEF Update, Accepts
      <4>2. connects.blockTime <= now /\ connects.startTime <= now
            /\ now <= connects.startTime + Window
        BY <1>8, <2>2, <3>2, Numbers
      <4> QED
        BY <1>5, <1>6, <1>8, <2>1, <4>1, <4>2 DEF Inside, Counted, ConnectBlock
    <3>3. CASE ~(connects.blockTime > now) /\ WindowIsOver(connects)
      <4>1. connects' = [count |-> 0, startTime |-> now,
                         blockTime |-> IF TooMany(connects.count + 1) THEN now + BlockTime ELSE 0]
        BY <2>1, <3>3 DEF Update
      <4>2. Over
        BY <1>8, <2>2, <3>3, <4>1, Numbers DEF Over
      <4>3. /\ TooMany(connects.count + 1) => ~ok /\ bl
            /\ ~TooMany(connects.count + 1) => ok /\ ~bl
        BY <1>3, <1>4, <1>8, <3>3 DEF Accepts
      <4>4. connects.count < ConnectLimit \/ connects.count >= ConnectLimit
        BY <1>8, Numbers
      <4> QED
        BY <1>5, <1>6, <1>8, <2>3, <4>1, <4>2, <4>3, <4>4, Numbers DEF Blocks, Renews
    <3> QED
      BY <3>1, <3>2, <3>3
  <2>6. TypeOK'
    BY <1>1, <1>6, <2>4 DEF TypeOK
  <2> QED
    BY <1>1, <1>5, <1>6, <2>4, <2>5, <2>6
<1> QED
  BY <1>7, <1>8

-----------------------------------------------------------------------------
(* The steps that do not touch the entry of ipConnectMap.                     *)

LEMMA Later ==
    ASSUME NEW t \in Nat, NEW k \in Nat, NEW n \in Nat, NEW s \in Nat,
           NEW n1 \in Nat, NEW s1 \in Nat,
           t <= n + s, t - k <= s, n1 + s1 >= n + s, s1 >= s
    PROVE  t <= n1 + s1 /\ t - k <= s1
  OBVIOUS

LEMMA Frame ==
    ASSUME IInv, TypeOK', UNCHANGED <<connects, log>>,
           now' + shift' >= now + shift, shift' >= shift
    PROVE  IInv'
<1>1. TimesGrow'
  <2>1. now' \in Nat /\ shift' \in Nat
    BY DEF TypeOK
  <2>2. ASSUME NEW i \in DOMAIN log
        PROVE  log[i].time <= now' + shift' /\ log[i].time - log[i].clock <= shift'
    <3>1. log[i].time \in Nat /\ log[i].clock \in Nat /\ now \in Nat /\ shift \in Nat
      BY Numbers DEF IInv
    <3>2. log[i].time <= now + shift /\ log[i].time - log[i].clock <= shift
      <4>1. TimesGrow
        BY DEF IInv
      <4> QED
        BY <4>1 DEF TimesGrow, ShiftAt
    <3> QED
      BY <2>1, <3>1, <3>2, Later
  <2> QED
    BY <2>2 DEF IInv, TimesGrow, ShiftAt
<1>2. BlockLasts'
  <2> SUFFICES ASSUME NEW i \in DOMAIN log, Refusal(i)
               PROVE  \/ now' + shift' >= log[i].time + BlockTime
                      \/ connects.blockTime + shift' >= log[i].time + BlockTime
    BY DEF BlockLasts, Refusal
  <2>1. now' \in Nat /\ shift' \in Nat
    BY DEF TypeOK
  <2>2. connects.blockTime \in Nat /\ log[i].time \in Nat
    <3>1. log # <<>>
      BY Numbers DEF IInv
    <3> QED
      BY <3>1, Numbers DEF IInv, EntryIsKept
  <2>3. \/ now + shift >= log[i].time + BlockTime
        \/ connects.blockTime + shift >= log[i].time + BlockTime
    BY DEF IInv, BlockLasts
  <2>4. BlockTime \in Nat /\ now \in Nat /\ shift \in Nat
    BY Numbers DEF IInv
  <2> QED
    <3>1. CASE now + shift >= log[i].time + BlockTime
      BY <2>1, <2>2, <2>4, <3>1
    <3>2. CASE connects.blockTime + shift >= log[i].time + BlockTime
      BY <2>1, <2>2, <2>4, <3>2
    <3> QED
      BY <2>3, <3>1, <3>2
<1>3. EntryIsKept' /\ BlockIsHonoured' /\ BlockCounts' /\ BlockEnds'
  BY DEF IInv, EntryIsKept, BlockIsHonoured, BlockCounts, BlockEnds
<1>4. CountIsRecent' /\ PatientIsAccepted' /\ RunIsCounted' /\ BurstIsPunished'
  BY DEF IInv, CountIsRecent, AllAccepted, PatientIsAccepted, Within, RunIsCounted, Run, ShiftAt,
         BurstIsPunished
<1> QED
  BY <1>1, <1>2, <1>3, <1>4 DEF IInv

LEMMA ClockKeeps == ASSUME IInv, Tick \/ SetBack PROVE IInv'
<1>1. UNCHANGED <<connects, log, logins, judging>>
  BY DEF Tick, SetBack
<1>2. /\ now' \in Nat /\ shift' \in Nat
      /\ now' + shift' >= now + shift /\ shift' >= shift
  BY Numbers, ManagerAssumption DEF IInv, Tick, SetBack
<1>3. TypeOK'
  BY <1>1, <1>2 DEF IInv, TypeOK
<1> QED
  BY <1>1, <1>2, <1>3, Frame

LEMMA LoginKeeps == ASSUME IInv, BeginLogin \/ JudgeLogin \/ DropLogin PROVE IInv'
<1>1. UNCHANGED <<now, shift, connects, log>>
  BY DEF BeginLogin, JudgeLogin, DropLogin
<1>2. judging' \in Nat
  BY DEF IInv, TypeOK, BeginLogin, JudgeLogin, DropLogin
<1>3. logins' \in LoginBlock \cup {NoBlock}
  <2>1. CASE BeginLogin \/ DropLogin
    BY <2>1 DEF IInv, TypeOK, BeginLogin, DropLogin
  <2>2. CASE JudgeLogin
    <3>1. PICK success \in BOOLEAN : AddAttempt(success)
      BY <2>2 DEF JudgeLogin
    <3>2. FirstAttempt.loginsAmount = 0 /\ FirstAttempt.lastLogin = 0
      BY DEF FirstAttempt
    <3>3. logins # NoBlock => logins.loginsAmount \in Int /\ logins.lastLogin \in Int
      BY DEF IInv, TypeOK, LoginBlock
    <3>4. /\ logins'.lastLogin = now /\ logins'.lastProtocol = ProtocolId
          /\ logins'.loginsAmount \in Int
          /\ logins' = [lastLogin |-> logins'.lastLogin, lastProtocol |-> logins'.lastProtocol,
                        loginsAmount |-> logins'.loginsAmount]
      BY <3>1, <3>2, <3>3 DEF AddAttempt, StartAmount
    <3> QED
      BY <3>4, Numbers DEF IInv, LoginBlock, ProtocolId
  <2> QED
    BY <2>1, <2>2
<1>4. TypeOK'
  BY <1>1, <1>2, <1>3 DEF IInv, TypeOK
<1>5. now' + shift' >= now + shift /\ shift' >= shift
  BY <1>1, Numbers DEF IInv
<1> QED
  BY <1>1, <1>4, <1>5, Frame

-----------------------------------------------------------------------------
(* acceptConnection, part by part.                                            *)

\* How the history grows: one more entry, the others as they were.
LEMMA Grown ==
    ASSUME IInv, AcceptConnection
    PROVE  /\ Len(log) \in Nat /\ Len(log') = Len(log) + 1
           /\ DOMAIN log = 1..Len(log) /\ DOMAIN log' = 1..(Len(log) + 1)
           /\ \A i \in 1..Len(log) : log'[i] = log[i]
           /\ \A i \in 1..Len(log) : log[i].time \in Nat /\ log[i].clock \in Nat
           /\ log'[Len(log) + 1].time = now + shift /\ log'[Len(log) + 1].clock = now
<1>1. TypeOK
  BY DEF IInv
<1> QED
  BY <1>1, Numbers, AcceptFacts

LEMMA TimesStep == ASSUME IInv, AcceptConnection PROVE TimesGrow'
<1> DEFINE n == Len(log)
<1>1. /\ n \in Nat /\ DOMAIN log = 1..n /\ DOMAIN log' = 1..(n + 1)
      /\ \A i \in 1..n : log'[i] = log[i] /\ log[i].time \in Nat /\ log[i].clock \in Nat
      /\ log'[n + 1].time = now + shift /\ log'[n + 1].clock = now
  BY Grown
<1>2. now \in Nat /\ shift \in Nat /\ now' = now /\ shift' = shift
  BY Numbers, AcceptFacts DEF IInv
<1>3. /\ \A i \in 1..n : log[i].time <= now + shift /\ log[i].time - log[i].clock <= shift
      /\ \A i, j \in 1..n : i <= j =>
           log[i].time <= log[j].time /\ log[i].time - log[i].clock <= log[j].time - log[j].clock
  BY <1>1 DEF IInv, TimesGrow, ShiftAt
<1> HIDE DEF n
<1>4. \A i \in 1..(n + 1) : i \in 1..n \/ i = n + 1
  BY <1>1
<1>5. ASSUME NEW i \in 1..(n + 1)
      PROVE  log'[i].time <= now + shift /\ log'[i].time - log'[i].clock <= shift
  BY <1>1, <1>2, <1>3, <1>4
<1>6. ASSUME NEW i \in 1..(n + 1), NEW j \in 1..(n + 1), i <= j
      PROVE  /\ log'[i].time <= log'[j].time
             /\ log'[i].time - log'[i].clock <= log'[j].time - log'[j].clock
  <2>1. CASE j = n + 1
    BY <1>1, <1>2, <1>5, <2>1
  <2>2. CASE i \in 1..n /\ j \in 1..n
    BY <1>1, <1>3, <1>6, <2>2
  <2> QED
    BY <1>1, <1>4, <1>6, <2>1, <2>2
<1> QED
  BY <1>1, <1>2, <1>5, <1>6 DEF TimesGrow, ShiftAt, n

LEMMA EntryStep == ASSUME IInv, AcceptConnection PROVE EntryIsKept'
<1> USE Numbers, AcceptFacts DEF IInv
<1>1. connects' # NoBlock /\ log' # <<>> /\ Len(log') = Len(log) + 1
  OBVIOUS
<1>2. connects'.blockTime \in {0, connects'.startTime + BlockTime}
  BY DEF EntryIsKept, New, Blocked, Inside, Blocks, Renews, Over
<1>3. ASSUME log'[Len(log) + 1].ok PROVE connects'.blockTime = 0
  BY <1>3 DEF EntryIsKept, New, Blocked, Inside, Blocks, Renews
<1> QED
  BY <1>1, <1>2, <1>3 DEF EntryIsKept

\* A block lasts in true time although the clock that ends it may be set back.
LEMMA LastsStep == ASSUME IInv, AcceptConnection PROVE BlockLasts'
<1> SUFFICES ASSUME NEW i \in DOMAIN log', Refusal(i)'
             PROVE  \/ now + shift >= log'[i].time + BlockTime
                    \/ connects'.blockTime + shift >= log'[i].time + BlockTime
  BY Numbers, AcceptFacts DEF IInv, BlockLasts
<1>1. connects'.blockTime \in Nat
  BY Numbers, AcceptFacts DEF IInv, ConnectBlock
<1>2. CASE i \in DOMAIN log
  <2>1. i - 1 \in DOMAIN log /\ Refusal(i)
    BY <1>2, Numbers, AcceptFacts DEF IInv, Refusal
  <2>2. /\ log[i].time <= now + shift
        /\ \/ now + shift >= log[i].time + BlockTime
           \/ connects.blockTime + shift >= log[i].time + BlockTime
    BY <1>2, <2>1, Numbers, AcceptFacts DEF IInv, BlockLasts, TimesGrow
  <2>3. connects # NoBlock
    BY <1>2, Numbers, AcceptFacts DEF IInv, EntryIsKept
  <2>4. /\ log'[i] = log[i] /\ log[i].time \in Nat /\ now \in Nat /\ shift \in Nat
        /\ BlockTime \in Nat /\ connects.blockTime \in Nat
    BY <1>2, <2>3, Numbers, AcceptFacts DEF IInv
  <2>5. \/ connects'.blockTime >= connects.blockTime
        \/ connects.blockTime <= now
    <3>1. New \/ Blocked \/ Inside \/ Blocks \/ Renews
      BY AcceptFacts DEF IInv
    <3> QED
      BY <2>3, <2>4, <3>1 DEF New, Blocked, Inside, Blocks, Renews, Over
  <2> QED
    BY <1>1, <2>2, <2>4, <2>5
<1>3. CASE i = Len(log) + 1
  <2>1. ~log'[i].ok /\ log[Len(log)].ok
    BY <1>3, Numbers, AcceptFacts DEF IInv, Refusal
  <2>2. connects # NoBlock /\ connects.blockTime = 0
    BY <1>3, <2>1, Numbers, AcceptFacts DEF IInv, EntryIsKept, Refusal
  <2>3. Blocks
    BY <1>3, <2>1, <2>2, Numbers, AcceptFacts DEF IInv, New, Blocked, Inside, Renews
  <2> QED
    BY <1>3, <2>3, Numbers, AcceptFacts DEF IInv, Blocks
<1> QED
  BY <1>2, <1>3, Numbers, AcceptFacts DEF IInv

LEMMA HonourStep == ASSUME IInv, AcceptConnection PROVE BlockIsHonoured'
<1> USE Numbers, AcceptFacts DEF IInv
<1> SUFFICES ASSUME NEW i \in DOMAIN log', NEW j \in DOMAIN log',
                    i > 1, log'[i - 1].ok, ~log'[i].ok, j > i,
                    log'[j].time < log'[i].time + BlockTime
             PROVE  ~log'[j].ok
  BY DEF BlockIsHonoured
<1>1. i \in DOMAIN log /\ i - 1 \in DOMAIN log /\ log[i - 1].ok /\ ~log[i].ok
  OBVIOUS
<1>2. CASE j \in DOMAIN log
  BY <1>1, <1>2 DEF BlockIsHonoured
<1>3. CASE j = Len(log) + 1
  <2>1. log'[j].time = now + shift /\ log'[i].time = log[i].time
    BY <1>1, <1>3
  <2>2. connects # NoBlock
    BY <1>1 DEF EntryIsKept
  <2>3. \/ now + shift >= log[i].time + BlockTime
        \/ connects.blockTime + shift >= log[i].time + BlockTime
    BY <1>1 DEF BlockLasts, Refusal
  <2>4. connects.blockTime > now
    <3>1. log[i].time \in Nat /\ connects.blockTime \in Nat
      BY <1>1, <2>2
    <3>2. now + shift < log[i].time + BlockTime
      BY <2>1
    <3>3. connects.blockTime + shift >= log[i].time + BlockTime
      BY <2>3, <3>1, <3>2
    <3> QED
      BY <3>1, <3>2, <3>3
  <2> QED
    BY <1>3, <2>2, <2>4 DEF New, Blocked, Inside, Blocks, Renews, Over
<1> QED
  BY <1>2, <1>3

LEMMA CountsStep == ASSUME IInv, AcceptConnection PROVE BlockCounts'
<1>0. /\ Len(log) \in Nat /\ Len(log') = Len(log) + 1
      /\ DOMAIN log = 1..Len(log) /\ DOMAIN log' = 1..(Len(log) + 1)
      /\ \A k \in 1..Len(log) : log'[k] = log[k]
      /\ \A k \in 1..Len(log) : log[k].clock \in Nat
      /\ log'[Len(log) + 1].clock = now
  BY Grown
<1> SUFFICES ASSUME NEW i \in DOMAIN log', log'[i].blocks,
                    \A k \in (i + 1)..(Len(log) + 1) : log'[k].clock < log'[i].clock + BlockTime
             PROVE  /\ connects'.blockTime = log'[i].clock + BlockTime
                    /\ connects'.count = Len(log) + 1 - i
  BY <1>0 DEF BlockCounts
<1>1. CASE i = Len(log) + 1
  <2>1. Blocks
    BY <1>1, AcceptFacts DEF New, Blocked, Inside, Renews, IInv
  <2> QED
    BY <1>0, <1>1, <2>1 DEF Blocks, Over
<1>2. CASE i \in 1..Len(log)
  <2>1. ASSUME NEW k \in (i + 1)..Len(log) PROVE log[k].clock < log[i].clock + BlockTime
    <3>1. k \in (i + 1)..(Len(log) + 1) /\ k \in 1..Len(log)
      BY <1>0, <1>2
    <3>2. log'[k] = log[k] /\ log'[i] = log[i]
      BY <1>0, <1>2, <3>1
    <3> QED
      BY <3>1, <3>2
  <2>2. log[i].blocks
    BY <1>0, <1>2
  <2>3. connects.blockTime = log[i].clock + BlockTime /\ connects.count = Len(log) - i
    BY <1>0, <1>2, <2>1, <2>2 DEF BlockCounts, IInv
  <2>4. now < log[i].clock + BlockTime
    <3>1. Len(log) + 1 \in (i + 1)..(Len(log) + 1)
      BY <1>0, <1>2
    <3> QED
      BY <1>0, <1>2, <3>1
  <2>5. now \in Nat /\ connects # NoBlock
    <3>1. log # <<>>
      BY <1>0, <1>2
    <3> QED
      BY <3>1, Numbers DEF EntryIsKept, IInv
  <2>6. Blocked
    <3>1. New \/ Blocked \/ Inside \/ Blocks \/ Renews
      BY AcceptFacts DEF IInv
    <3>2. connects.blockTime > now
      BY <1>0, <1>2, <2>3, <2>4
    <3>3. connects.blockTime \in Nat
      BY <2>5, Numbers DEF IInv
    <3> QED
      BY <2>5, <3>1, <3>2, <3>3 DEF New, Inside, Blocks, Renews, Over
  <2>7. connects'.count = connects.count + 1 /\ connects'.blockTime = connects.blockTime
    BY <2>6 DEF Blocked
  <2> QED
    BY <1>0, <1>2, <2>3, <2>7
<1> QED
  BY <1>0, <1>1, <1>2

LEMMA Limits ==
    /\ Window \in Nat /\ BlockTime \in Nat /\ BlockTime > Window
    /\ ConnectLimit \in Nat /\ ConnectLimit >= 1
  BY ManagerAssumption

\* An address that has called before has an entry.
LEMMA EntryIsThere ==
    ASSUME IInv, Len(log) >= 1
    PROVE  /\ connects # NoBlock
           /\ connects.count \in Nat /\ connects.startTime \in Nat /\ connects.blockTime \in Nat
<1>1. TypeOK /\ EntryIsKept
  BY DEF IInv
<1>2. log # <<>>
  BY <1>1, Numbers
<1>3. connects # NoBlock
  BY <1>1, <1>2 DEF EntryIsKept
<1> QED
  BY <1>1, <1>3, Numbers

LEMMA EndsStep == ASSUME IInv, AcceptConnection PROVE BlockEnds'
<1> DEFINE n == Len(log)
<1>0. /\ n \in Nat /\ DOMAIN log = 1..n /\ DOMAIN log' = 1..(n + 1)
      /\ \A i \in 1..n : log'[i] = log[i]
      /\ log'[n + 1].clock = now
  BY Grown
<1> HIDE DEF n
<1> SUFFICES ASSUME NEW i \in DOMAIN log', NEW j \in DOMAIN log',
                    log'[i].blocks, i < j, j - i - 1 < ConnectLimit,
                    log'[j].clock >= log'[i].clock + BlockTime,
                    \A k \in (i + 1)..(j - 1) : log'[k].clock < log'[i].clock + BlockTime
             PROVE  log'[j].ok
  BY DEF BlockEnds
<1>1. i \in 1..n /\ log'[i] = log[i] /\ n >= 1
  BY <1>0
<1>a. \A k \in (i + 1)..(j - 1) : k \in 1..n
  BY <1>0, <1>1
<1>b. \A k \in (i + 1)..(j - 1) : log[k].clock < log[i].clock + BlockTime
  BY <1>0, <1>1, <1>a
<1>2. CASE j \in 1..n
  <2>1. log'[j] = log[j]
    BY <1>0, <1>2
  <2>2. BlockEnds
    BY DEF IInv
  <2> QED
    BY <1>0, <1>1, <1>2, <1>b, <2>1, <2>2 DEF BlockEnds
<1>3. CASE j = n + 1
  <2>1. \A k \in (i + 1)..n : log[k].clock < log[i].clock + BlockTime
    BY <1>0, <1>1, <1>3, <1>b
  <2>2. connects.blockTime = log[i].clock + BlockTime /\ connects.count = n - i
    <3>1. BlockCounts /\ log[i].blocks
      BY <1>1 DEF IInv
    <3> QED
      BY <1>0, <1>1, <2>1, <3>1 DEF BlockCounts, n
  <2>3. now >= log[i].clock + BlockTime
    BY <1>0, <1>1, <1>3
  <2>4. /\ connects # NoBlock /\ connects.count \in Nat /\ connects.blockTime \in Nat
        /\ now \in Nat /\ ConnectLimit \in Nat
    BY <1>1, EntryIsThere, Limits DEF IInv, TypeOK, n
  <2>5. connects.count < ConnectLimit /\ connects.blockTime <= now
    BY <1>0, <1>1, <1>3, <2>2, <2>3, <2>4
  <2>6. New \/ Blocked \/ Inside \/ Blocks \/ Renews
    BY AcceptFacts DEF IInv
  <2>7. ~Blocked /\ ~Blocks /\ ~New
    BY <2>4, <2>5 DEF Blocked, Blocks, New
  <2> QED
    BY <1>3, <2>6, <2>7 DEF Inside, Renews, n
<1> QED
  BY <1>0, <1>2, <1>3

LEMMA RecentStep == ASSUME IInv, AcceptConnection PROVE CountIsRecent'
<1> DEFINE n == Len(log)
<1>0. /\ n \in Nat /\ DOMAIN log = 1..n /\ DOMAIN log' = 1..(n + 1) /\ Len(log') = n + 1
      /\ \A i \in 1..n : log'[i] = log[i]
      /\ log'[n + 1].clock = now /\ now \in Nat /\ Window \in Nat
  BY Grown, Limits DEF IInv, TypeOK
<1>a. New \/ Blocked \/ Inside \/ Blocks \/ Renews
  BY AcceptFacts DEF IInv
<1>b. CountIsRecent /\ EntryIsKept
  BY DEF IInv
<1>c. connects'.count \in Nat /\ connects'.startTime \in Nat
  BY AcceptFacts DEF IInv, ConnectBlock
<1> HIDE DEF n
<1> SUFFICES ASSUME AllAccepted'
             PROVE  /\ connects'.count <= Len(log')
                    /\ \A i \in DOMAIN log' : i > Len(log') - connects'.count =>
                         log'[i].clock \in connects'.startTime..(connects'.startTime + Window)
  BY DEF CountIsRecent
<1> SUFFICES /\ connects'.count <= n + 1
             /\ \A i \in 1..(n + 1) : i > n + 1 - connects'.count =>
                  log'[i].clock \in connects'.startTime..(connects'.startTime + Window)
  BY <1>0, <1>c
<1>1. AllAccepted /\ log'[n + 1].ok
  <2>1. \A i \in 1..(n + 1) : log'[i].ok
    BY <1>0 DEF AllAccepted
  <2>2. n + 1 \in 1..(n + 1) /\ \A i \in 1..n : i \in 1..(n + 1)
    BY <1>0
  <2> QED
    BY <1>0, <2>1, <2>2 DEF AllAccepted
<1>2. CASE New
  <2>1. n = 0
    BY <1>2, <1>b DEF New, EntryIsKept, n
  <2>2. connects'.count = 1 /\ connects'.startTime = now
    BY <1>2 DEF New
  <2> QED
    BY <1>0, <2>1, <2>2
<1>3. CASE Inside
  <2>1. /\ connects.count <= n
        /\ \A i \in 1..n : i > n - connects.count =>
             log[i].clock \in connects.startTime..(connects.startTime + Window)
    BY <1>0, <1>1, <1>3, <1>b DEF Inside, CountIsRecent, n
  <2>2. /\ connects'.count = connects.count + 1 /\ connects'.startTime = connects.startTime
        /\ connects.startTime <= now /\ now <= connects.startTime + Window
    BY <1>3 DEF Inside
  <2>3. connects.count \in Nat /\ connects.startTime \in Nat
    BY <1>3, Numbers DEF Inside, IInv
  <2>4. ASSUME NEW i \in 1..(n + 1), i > n + 1 - connects'.count
        PROVE  log'[i].clock \in connects'.startTime..(connects'.startTime + Window)
    <3>1. CASE i = n + 1
      BY <1>0, <2>2, <2>3, <3>1
    <3>2. CASE i \in 1..n
      <4>1. i > n - connects.count
        BY <1>0, <2>2, <2>3, <2>4, <3>2
      <4> QED
        BY <1>0, <2>1, <2>2, <3>2, <4>1
    <3> QED
      BY <1>0, <3>1, <3>2
  <2> QED
    BY <1>0, <2>1, <2>2, <2>3, <2>4
<1>4. CASE Renews
  <2>1. connects'.count = 0
    BY <1>4 DEF Renews, Over
  <2> QED
    BY <1>0, <2>1
<1> QED
  BY <1>1, <1>2, <1>3, <1>4, <1>a DEF Blocked, Blocks, n

\* The first refusal follows ConnectLimit connections within one window.
LEMMA PatientStep == ASSUME IInv, AcceptConnection PROVE PatientIsAccepted'
<1> DEFINE n == Len(log)
           L == ConnectLimit
<1>0. /\ n \in Nat /\ DOMAIN log = 1..n /\ DOMAIN log' = 1..(n + 1)
      /\ \A i \in 1..n : log'[i] = log[i] /\ i \in 1..(n + 1)
      /\ \A i \in 1..n : log[i].clock \in Nat
      /\ Window \in Nat /\ L \in Nat /\ L >= 1
  BY Grown, Limits
<1>a. New \/ Blocked \/ Inside \/ Blocks \/ Renews
  BY AcceptFacts DEF IInv
<1>b. CountIsRecent /\ EntryIsKept /\ PatientIsAccepted
  BY DEF IInv
<1> HIDE DEF n
<1>1. CASE ~AllAccepted
  <2>1. PICK i \in DOMAIN log : i + L - 1 \in DOMAIN log /\ Within(i, i + L - 1)
    BY <1>1, <1>b DEF AllAccepted, PatientIsAccepted
  <2> DEFINE j == i + L - 1
  <2>2. i \in 1..n /\ j \in 1..n
    BY <1>0, <2>1
  <2>3. log'[i] = log[i] /\ log'[j] = log[j] /\ i \in DOMAIN log' /\ j \in DOMAIN log'
    BY <1>0, <2>2
  <2>4. Within(i, j)'
    BY <2>1, <2>3 DEF Within
  <2> QED
    BY <2>3, <2>4 DEF PatientIsAccepted
<1>2. CASE AllAccepted /\ log'[n + 1].ok
  <2>1. \A i \in DOMAIN log' : log'[i].ok
    <3>1. \A i \in 1..(n + 1) : i \in 1..n \/ i = n + 1
      BY <1>0
    <3> QED
      BY <1>0, <1>2, <3>1 DEF AllAccepted
  <2> QED
    BY <2>1 DEF PatientIsAccepted
<1>3. CASE AllAccepted /\ ~log'[n + 1].ok
  <2>1. Blocked \/ Blocks
    BY <1>3, <1>a DEF New, Inside, Renews, n
  <2>2. connects # NoBlock /\ log # <<>>
    BY <2>1, <1>b DEF Blocked, Blocks, Over, EntryIsKept
  <2>3. n \in 1..n
    <3>1. n # 0
      BY <2>2, Numbers DEF IInv, n
    <3> QED
      BY <1>0, <3>1
  <2>4. connects.blockTime = 0 /\ now \in Nat
    BY <1>0, <1>3, <1>b, <2>2, <2>3 DEF EntryIsKept, AllAccepted, n, IInv, TypeOK
  <2>5. Blocks
    BY <2>1, <2>4 DEF Blocked
  <2>6. connects.count >= L /\ connects.count <= n /\ connects.count \in Nat
        /\ connects.startTime \in Nat
    BY <1>0, <1>3, <1>b, <2>2, <2>5, Numbers DEF Blocks, CountIsRecent, n, IInv
  <2>a. PICK i \in Int : i = n - L + 1
    BY <1>0
  <2>7. i \in 1..n /\ n = i + L - 1 /\ i > n - connects.count /\ n > n - connects.count
    BY <1>0, <2>6, <2>a
  <2>8. /\ log[i].clock \in connects.startTime..(connects.startTime + Window)
        /\ log[n].clock \in connects.startTime..(connects.startTime + Window)
    BY <1>0, <1>3, <1>b, <2>2, <2>3, <2>7 DEF CountIsRecent, n
  <2>9. log[i].clock \in Nat /\ log[n].clock \in Nat
    BY <1>0, <2>3, <2>7
  <2>10. log[n].clock - log[i].clock \in -Window..Window
    BY <1>0, <2>6, <2>8, <2>9
  <2>11. log'[i] = log[i] /\ log'[n] = log[n] /\ i \in DOMAIN log' /\ n \in DOMAIN log'
    BY <1>0, <2>3, <2>7
  <2>12. i + L - 1 \in DOMAIN log' /\ Within(i, i + L - 1)'
    BY <2>7, <2>10, <2>11 DEF Within
  <2> QED
    BY <2>11, <2>12 DEF PatientIsAccepted
<1> QED
  BY <1>1, <1>2, <1>3

\* What RunIsCounted says of a run at the clock's present setting.
LEMMA Counting ==
    ASSUME IInv, NEW n \in Nat, n = Len(log), NEW i \in 1..n,
           ShiftAt(i) = shift,
           \A k \in i..n : log[k].ok,
           log[n].time <= log[i].time + Window
    PROVE  \/ connects.startTime + shift <= log[n].time /\ connects.startTime <= log[i].clock
              /\ connects.count >= n - i + 1
           \/ \E r \in i..n :
                /\ connects.startTime = log[r].clock
                /\ connects.startTime + shift <= log[n].time
                /\ connects.startTime + shift >= log[i].time
                /\ connects.count >= n - r
                /\ r - i < ConnectLimit
<1>0. /\ DOMAIN log = 1..n /\ n >= 1 /\ n \in 1..n
      /\ \A k \in 1..n : log[k].time \in Nat /\ log[k].clock \in Nat
      /\ shift \in Nat
  BY Numbers DEF IInv
<1>1. /\ connects.count \in Nat /\ connects.startTime \in Nat
  BY <1>0, EntryIsThere
<1>2. ASSUME NEW r \in i..n
      PROVE  r \in 1..n /\ log[r].time = log[r].clock + shift
             /\ log[i].time <= log[r].time /\ log[r].time <= log[n].time
  <2>1. r \in 1..n /\ i <= r /\ r <= n
    BY <1>2
  <2>2. TimesGrow
    BY DEF IInv
  <2>3. /\ log[i].time <= log[r].time /\ log[r].time <= log[n].time
        /\ ShiftAt(i) <= ShiftAt(r) /\ ShiftAt(r) <= shift
    BY <1>0, <2>1, <2>2 DEF TimesGrow
  <2>4. ShiftAt(r) = shift
    BY <1>0, <2>1, <2>3 DEF ShiftAt
  <2> QED
    BY <1>0, <2>1, <2>3, <2>4 DEF ShiftAt
<1>3. i \in i..n /\ n \in i..n
  BY <1>0
<1>4. Run(i)
  <2>1. ShiftAt(n) = shift
    BY <1>0, <1>2, <1>3 DEF ShiftAt
  <2> QED
    BY <2>1 DEF Run
<1>5. \/ connects.startTime <= log[i].clock /\ connects.count >= n - i + 1
      \/ \E r \in i..n :
           /\ connects.startTime = log[r].clock
           /\ connects.count >= n - r
           /\ r - i < ConnectLimit
  BY <1>0, <1>4 DEF IInv, RunIsCounted
<1>6. CASE connects.startTime <= log[i].clock /\ connects.count >= n - i + 1
  <2>1. log[i].time = log[i].clock + shift /\ log[i].time <= log[n].time
    BY <1>2, <1>3
  <2>2. log[i].clock \in Nat /\ log[n].time \in Nat
    BY <1>0
  <2>3. connects.startTime + shift <= log[n].time
    BY <1>0, <1>1, <1>6, <2>1, <2>2
  <2> QED
    BY <1>6, <2>3
<1>7. CASE \E r \in i..n :
             /\ connects.startTime = log[r].clock
             /\ connects.count >= n - r
             /\ r - i < ConnectLimit
  <2>1. PICK r \in i..n :
             /\ connects.startTime = log[r].clock
             /\ connects.count >= n - r
             /\ r - i < ConnectLimit
    BY <1>7
  <2>2. log[r].time = log[r].clock + shift
        /\ log[i].time <= log[r].time /\ log[r].time <= log[n].time
    BY <1>2
  <2>3. connects.startTime + shift <= log[n].time /\ connects.startTime + shift >= log[i].time
    BY <2>1, <2>2
  <2> QED
    BY <2>1, <2>3
<1> QED
  BY <1>5, <1>6, <1>7

LEMMA RunStep == ASSUME IInv, AcceptConnection PROVE RunIsCounted'
<1>0. PICK n \in Nat : n = Len(log)
  BY Grown
<1>1. /\ DOMAIN log = 1..n /\ DOMAIN log' = 1..(n + 1) /\ Len(log') = n + 1
      /\ \A i \in 1..n : log'[i] = log[i]
      /\ \A i \in 1..n : log[i].time \in Nat /\ log[i].clock \in Nat
      /\ log'[n + 1].time = now + shift /\ log'[n + 1].clock = now
      /\ now \in Nat /\ shift \in Nat /\ Window \in Nat
      /\ ConnectLimit \in Nat /\ ConnectLimit >= 1
  BY <1>0, Grown, Limits DEF IInv, TypeOK
<1>2. New \/ Blocked \/ Inside \/ Blocks \/ Renews
  BY AcceptFacts DEF IInv
<1>3. connects'.count \in Nat /\ connects'.startTime \in Nat
  BY AcceptFacts DEF IInv, ConnectBlock
<1> SUFFICES ASSUME NEW i \in DOMAIN log', Run(i)'
             PROVE  \/ connects'.startTime <= log'[i].clock /\ connects'.count >= Len(log') - i + 1
                    \/ \E r \in i..Len(log') :
                         /\ connects'.startTime = log'[r].clock
                         /\ connects'.count >= Len(log') - r
                         /\ r - i < ConnectLimit
  BY DEF RunIsCounted
<1>a. /\ i \in 1..(n + 1)
      /\ \A k \in i..(n + 1) : log'[k].ok
      /\ log'[i].time - log'[i].clock = log'[n + 1].time - log'[n + 1].clock
      /\ log'[n + 1].time <= log'[i].time + Window
  BY <1>1 DEF Run, ShiftAt
<1> USE <1>a
<1> SUFFICES \/ connects'.startTime <= log'[i].clock /\ connects'.count >= n + 1 - i + 1
             \/ \E r \in i..(n + 1) :
                  /\ connects'.startTime = log'[r].clock
                  /\ connects'.count >= n + 1 - r
                  /\ r - i < ConnectLimit
  BY <1>1, <1>3
<1>4. log'[n + 1].ok
  BY <1>1
<1>5. New \/ Inside \/ Renews
  BY <1>0, <1>2, <1>4 DEF Blocked, Blocks
<1>6. CASE i = n + 1
  <2>1. CASE New \/ Inside
    <3>1. connects'.startTime <= now /\ connects'.count >= 1
      <4>1. CASE New
        BY <1>1, <4>1 DEF New
      <4>2. CASE Inside
        BY <1>1, <4>2, Numbers DEF Inside, IInv
      <4> QED
        BY <2>1, <4>1, <4>2
    <3> QED
      BY <1>0, <1>1, <1>3, <1>6, <3>1
  <2>2. CASE Renews
    <3>1. connects'.startTime = now /\ connects'.count = 0
      BY <2>2 DEF Renews, Over
    <3>2. n + 1 \in i..(n + 1) /\ connects'.count >= n + 1 - (n + 1) /\ (n + 1) - i < ConnectLimit
      BY <1>0, <1>1, <1>6, <3>1
    <3> QED
      BY <1>1, <3>1, <3>2
  <2> QED
    BY <1>5, <2>1, <2>2
<1>7. CASE i \in 1..n
  <2>1. n \in 1..n /\ n >= 1 /\ log'[i] = log[i] /\ log'[n] = log[n]
        /\ log[i].time \in Nat /\ log[i].clock \in Nat /\ log[n].time \in Nat
    BY <1>0, <1>1, <1>7
  <2>2. connects # NoBlock /\ connects.count \in Nat /\ connects.startTime \in Nat
    BY <1>0, <2>1, EntryIsThere
  <2>3. ShiftAt(i) = shift /\ log[i].time = log[i].clock + shift
    <3>1. log[i].time - log[i].clock = shift
      BY <1>1, <2>1
    <3> QED
      BY <1>1, <2>1, <3>1 DEF ShiftAt
  <2>4. \A k \in i..n : log[k].ok
    <3>1. \A k \in i..n : k \in 1..n /\ k \in i..(n + 1)
      BY <1>0, <1>7
    <3> QED
      BY <1>1, <3>1
  <2>5. now + shift <= log[i].time + Window
    BY <1>1, <2>1
  <2>6. log[n].time <= log[i].time + Window
    <3>1. log[n].time <= now + shift
      BY <1>1, <2>1 DEF IInv, TimesGrow
    <3> QED
      BY <1>1, <2>1, <2>5, <3>1
  <2>7. \/ connects.startTime <= log[i].clock /\ connects.count >= n - i + 1
        \/ \E r \in i..n :
             /\ connects.startTime = log[r].clock
             /\ connects.startTime + shift <= log[n].time
             /\ connects.startTime + shift >= log[i].time
             /\ connects.count >= n - r
             /\ r - i < ConnectLimit
    BY <1>0, <1>7, <2>3, <2>4, <2>6, Counting
  <2>8. ~New
    BY <2>2 DEF New
  <2>9. CASE connects.startTime <= log[i].clock /\ connects.count >= n - i + 1
    <3>1. CASE Inside
      <4>1. connects'.startTime = connects.startTime /\ connects'.count = connects.count + 1
        BY <3>1 DEF Inside
      <4>2. connects'.startTime <= log'[i].clock
        BY <2>1, <2>9, <4>1
      <4>3. connects'.count >= n + 1 - i + 1
        BY <1>0, <1>7, <2>2, <2>9, <4>1
      <4> QED
        BY <4>2, <4>3
    <3>2. CASE Renews
      <4>1. connects'.startTime = now /\ connects'.count = 0 /\ connects.count < ConnectLimit
        BY <3>2 DEF Renews, Over
      <4>2. n + 1 \in i..(n + 1) /\ connects'.count >= n + 1 - (n + 1) /\ (n + 1) - i < ConnectLimit
        BY <1>0, <1>1, <1>7, <2>2, <2>9, <4>1
      <4> QED
        BY <1>1, <4>1, <4>2
    <3> QED
      BY <1>5, <2>8, <3>1, <3>2
  <2>10. CASE \E r \in i..n :
             /\ connects.startTime = log[r].clock
             /\ connects.startTime + shift <= log[n].time
             /\ connects.startTime + shift >= log[i].time
             /\ connects.count >= n - r
             /\ r - i < ConnectLimit
    <3>1. PICK r \in i..n :
             /\ connects.startTime = log[r].clock
             /\ connects.startTime + shift <= log[n].time
             /\ connects.startTime + shift >= log[i].time
             /\ connects.count >= n - r
             /\ r - i < ConnectLimit
      BY <2>10
    <3>2. connects.startTime <= now /\ now <= connects.startTime + Window
      <4>1. log[n].time <= now + shift
        BY <1>1, <2>1 DEF IInv, TimesGrow
      <4>2. connects.startTime + shift <= log[n].time /\ connects.startTime + shift >= log[i].time
        BY <3>1
      <4>3. now \in Nat /\ shift \in Nat /\ Window \in Nat
        BY <1>1
      <4> QED
        BY <2>1, <2>2, <2>5, <4>1, <4>2, <4>3
    <3>3. Inside
      <4>1. ~Over
        BY <1>1, <2>2, <3>2 DEF Over
      <4> QED
        BY <1>5, <2>8, <4>1 DEF Renews
    <3>4. connects'.startTime = connects.startTime /\ connects'.count = connects.count + 1
      BY <3>3 DEF Inside
    <3>5. r \in i..(n + 1) /\ r \in 1..n
      BY <1>0, <1>7
    <3>6. connects'.count >= n + 1 - r
      BY <1>0, <2>2, <3>1, <3>4, <3>5
    <3>7. connects'.startTime = log'[r].clock
      BY <1>1, <3>1, <3>4, <3>5
    <3> QED
      BY <3>1, <3>5, <3>6, <3>7
  <2> QED
    BY <2>7, <2>9, <2>10
<1> QED
  BY <1>0, <1>6, <1>7

LEMMA BurstStep == ASSUME IInv, AcceptConnection PROVE BurstIsPunished'
<1>0. PICK n \in Nat : n = Len(log)
  BY Grown
<1>1. /\ DOMAIN log = 1..n /\ DOMAIN log' = 1..(n + 1) /\ Len(log') = n + 1
      /\ \A i \in 1..n : log'[i] = log[i]
      /\ \A i \in 1..n : log[i].time \in Nat /\ log[i].clock \in Nat
      /\ log'[n + 1].time = now + shift /\ log'[n + 1].clock = now
      /\ now \in Nat /\ shift \in Nat /\ Window \in Nat
      /\ ConnectLimit \in Nat /\ ConnectLimit >= 1
  BY <1>0, Grown, Limits DEF IInv, TypeOK
<1>2. New \/ Blocked \/ Inside \/ Blocks \/ Renews
  BY AcceptFacts DEF IInv
<1> SUFFICES ASSUME NEW i \in 1..(n + 1),
                    NEW m \in Nat, m = 2 * ConnectLimit,
                    i + m \in 1..(n + 1),
                    log'[i + m].time - log'[i].time = log'[i + m].clock - log'[i].clock,
                    log'[i + m - 1].time <= log'[i].time + Window,
                    log'[i + m].time > log'[i + m - 1].time + Window,
                    \A k \in i..(i + m - 1) : log'[k].ok,
                    log'[i + m].ok
             PROVE  FALSE
  <2>1. 2 * ConnectLimit \in Nat
    BY <1>1
  <2> QED
    BY <1>1, <2>1 DEF BurstIsPunished
<1>3. i \in 1..n /\ i + m - 1 \in 1..n
      /\ log'[i] = log[i] /\ log'[i + m - 1] = log[i + m - 1]
  <2>1. i \in 1..n /\ i + m - 1 \in 1..n
    BY <1>1
  <2> QED
    BY <1>1, <2>1
<1>4. CASE i + m \in 1..n
  <2>1. \A k \in i..(i + m - 1) : k \in 1..n
    BY <1>3, <1>4
  <2>2. \A k \in i..(i + m - 1) : log[k].ok
    BY <1>1, <2>1
  <2>3. log'[i + m] = log[i + m]
    BY <1>1, <1>4
  <2>4. BurstIsPunished
    BY DEF IInv
  <2> QED
    BY <1>1, <1>3, <1>4, <2>2, <2>3, <2>4 DEF BurstIsPunished
<1>5. CASE i + m = n + 1
  <2>1. i + m - 1 = n /\ n \in 1..n /\ n >= 1
    BY <1>0, <1>3, <1>5
  <2>2. log[i].time \in Nat /\ log[i].clock \in Nat /\ log[n].time \in Nat
    BY <1>1, <1>3, <2>1
  <2>3. connects # NoBlock /\ connects.count \in Nat /\ connects.startTime \in Nat
    BY <1>0, <2>1, EntryIsThere
  <2>4. ShiftAt(i) = shift
    <3>1. (now + shift) - log[i].time = now - log[i].clock
      <4>1. log'[i + m].time = now + shift /\ log'[i + m].clock = now
        BY <1>1, <1>5
      <4> QED
        BY <1>3, <4>1
    <3>2. now \in Nat /\ shift \in Nat
      BY <1>1
    <3>3. log[i].time - log[i].clock = shift
      BY <2>2, <3>1, <3>2
    <3> QED
      BY <3>3 DEF ShiftAt
  <2>5. \A k \in i..n : log[k].ok
    <3>1. \A k \in i..n : k \in 1..n /\ k \in i..(i + m - 1)
      BY <1>3, <1>5
    <3> QED
      BY <1>1, <3>1
  <2>6. log[n].time <= log[i].time + Window /\ now + shift > log[n].time + Window
    BY <1>1, <1>3, <1>5, <2>1
  <2>7. \/ connects.startTime + shift <= log[n].time /\ connects.count >= n - i + 1
        \/ \E r \in i..n :
             /\ connects.startTime + shift <= log[n].time
             /\ connects.count >= n - r
             /\ r - i < ConnectLimit
    BY <1>0, <1>3, <2>4, <2>5, <2>6, Counting
  <2>8. connects.startTime + shift <= log[n].time
    BY <2>7
  <2>9. connects.count >= ConnectLimit
    <3>1. CASE connects.count >= n - i + 1
      BY <1>1, <1>5, <2>3, <3>1
    <3>2. CASE \E r \in i..n : connects.count >= n - r /\ r - i < ConnectLimit
      <4>1. PICK r \in i..n : connects.count >= n - r /\ r - i < ConnectLimit
        BY <3>2
      <4> QED
        BY <1>1, <1>5, <2>3, <4>1
    <3> QED
      BY <2>7, <3>1, <3>2
  <2>10. now > connects.startTime + Window
    BY <1>1, <2>2, <2>3, <2>6, <2>8
  <2>11. ~New /\ ~Inside /\ ~Renews
    BY <1>1, <2>3, <2>9, <2>10 DEF New, Inside, Renews
  <2>12. log'[n + 1].ok
    BY <1>3, <1>5
  <2> QED
    BY <1>0, <1>2, <2>11, <2>12 DEF Blocked, Blocks
<1>6. i + m \in 1..n \/ i + m = n + 1
  BY <1>3
<1> QED
  BY <1>4, <1>5, <1>6

LEMMA AcceptKeeps == ASSUME IInv, AcceptConnection PROVE IInv'
<1>1. TypeOK'
  BY AcceptFacts DEF IInv
<1> QED
  BY <1>1, TimesStep, EntryStep, LastsStep, HonourStep, CountsStep, EndsStep, RecentStep,
     PatientStep, RunStep, BurstStep DEF IInv

-----------------------------------------------------------------------------
(* The theorems.                                                              *)

\* ConnectionManager: every call of acceptConnection, isDisabled and addAttempt, and every
\* movement of the clock, keeps what the entry of ipConnectMap knows of the past calls.
THEOREM ManagerInvariance == Spec => []IInv
<1>1. Init => IInv
  BY InitHolds
<1>2. IInv /\ [Next]_vars => IInv'
  <2> SUFFICES ASSUME IInv, [Next]_vars PROVE IInv'
    OBVIOUS
  <2>1. CASE Tick \/ SetBack
    BY <2>1, ClockKeeps
  <2>2. CASE AcceptConnection
    BY <2>2, AcceptKeeps
  <2>3. CASE BeginLogin \/ JudgeLogin \/ DropLogin
    BY <2>3, LoginKeeps
  <2>4. CASE UNCHANGED vars
    <3>1. TypeOK' /\ UNCHANGED <<connects, log, now, shift>>
      BY <2>4 DEF vars, IInv, TypeOK
    <3>2. now' + shift' >= now + shift /\ shift' >= shift
      BY <3>1, Numbers DEF IInv
    <3> QED
      BY <3>1, <3>2, Frame
  <2> QED
    BY <2>1, <2>2, <2>3, <2>4 DEF Next
<1> QED
  BY <1>1, <1>2, PTL DEF Spec

\* acceptConnection never refuses an address that makes fewer than ConnectLimit
\* connections in any window's length.
THEOREM PatientClientsAreAccepted == Spec => []PatientIsAccepted
<1>1. IInv => PatientIsAccepted
  BY DEF IInv
<1> QED
  BY <1>1, ManagerInvariance, PTL

\* After twice the limit of connections within a window's length acceptConnection refuses
\* the first one that comes when that window's length has passed again.
THEOREM BurstsArePunished == Spec => []BurstIsPunished
<1>1. IInv => BurstIsPunished
  BY DEF IInv
<1> QED
  BY <1>1, ManagerInvariance, PTL

\* acceptConnection refuses a blocked address for the whole block, in true time.
THEOREM BlocksAreHonoured == Spec => []BlockIsHonoured
<1>1. IInv => BlockIsHonoured
  BY DEF IInv
<1> QED
  BY <1>1, ManagerInvariance, PTL

\* acceptConnection lets an address in at its first try after a block it has not
\* spent on ConnectLimit more tries.
THEOREM BlocksEnd == Spec => []BlockEnds
<1>1. IInv => BlockEnds
  BY DEF IInv
<1> QED
  BY <1>1, ManagerInvariance, PTL
=============================================================================
