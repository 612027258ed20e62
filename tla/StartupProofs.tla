---------------------------- MODULE StartupProofs ---------------------------
(* Proofs about Startup and the port it opens, for any address, configuration *)
(* files and bounds: reopenings are never doubled or forgotten, and main goes *)
(* on only when otlogin is done.                                              *)
EXTENDS Startup, WellFoundedInduction, TLAPS

-----------------------------------------------------------------------------
(* The inductive invariant.                                                   *)

\* otlogin has not come to ServiceManager::add.
Before == {"none", "error", "superuser", "config", "motd", "daemonize", "rsa", "database",
           "worlds", "schedule", "bind"}
\* otlogin has done all it does with the port.
After == {"notify", "idle", "reload"}

\* Nothing is under way on a port that was not opened.
PortIsNew ==
    dispatcher \in Before =>
        /\ opening.pc = "idle" /\ retries = <<>> /\ pendingStart = FALSE
        /\ accepting = {} /\ ready = {}

\* The port is added, then gets its service.
PortIsMade ==
    /\ added => dispatcher \in After \cup {"service"}
    /\ hasService => added /\ dispatcher \in After
    /\ dispatcher \in After /\ added => hasService
    /\ dispatcher = "service" => added
    /\ dispatcher \in After /\ ~added => BindPort(conf.listen) = 0

\* main is woken by the end of otlogin, or without a notification.
MainIsTold ==
    /\ main = "start" => dispatcher = "none"
    /\ main \in {"sleep", "run", "serve", "exit"} /\ ~woken => dispatcher \in {"idle", "reload"}
    /\ main \in {"run", "serve"} => added
    /\ threads # "none" => added /\ main \in {"serve", "exit"}
    /\ main = "serve" => threads # "none"

\* One accept is outstanding at most, in the kernel or completed, and none while
\* open() binds or a reopening waits in the scheduler.
OneAccept ==
    /\ \A a, b \in accepting : a = b
    /\ \A r, q \in ready : r = q
    /\ accepting = {} \/ ready = {}
    /\ \A r \in ready : r.id \in listening
    /\ opening.pc = "bind" \/ retries # <<>> => accepting = {} /\ ready = {}
    /\ opening.pc = "bind" => retries = <<>>
    /\ opening.pc = "register" => created >= 1

\* NotForgotten from the moment the port is opened.
StillTried ==
    logError /\ ~woken /\ opening.pc # "bind" /\ accepting = {} /\ ready = {}
        => (hasService \/ dispatcher \in {"open", "service"} => retries # <<>>)

IInv ==
    /\ TypeOK
    /\ OneReopening
    /\ OfflineIsExplained
    /\ PortIsNew
    /\ PortIsMade
    /\ MainIsTold
    /\ OneAccept
    /\ StillTried

-----------------------------------------------------------------------------
(* Steps that leave the port alone.                                           *)

LEMMA InitHolds == Init => IInv
<1> SUFFICES ASSUME Init PROVE IInv
  OBVIOUS
<1> USE DEF Init, PortInit
<1>1. IdleOpen \in OpenType /\ IdleOpen.pc = "idle"
  BY DEF IdleOpen, OpenType, Addresses
<1>2. DOMAIN NoAcceptors = {}
  BY DEF NoAcceptors
<1>3. PortTypeOK
  <2>1. DOMAIN acceptors = {} /\ opening \in OpenType
    BY <1>1, <1>2
  <2>2. created \in 0..MaxAcceptors /\ connections \in 0..MaxConnections
    BY PortAssumption
  <2>3. retries \in Seq(Addresses)
    OBVIOUS
  <2> QED
    BY <2>1, <2>2, <2>3 DEF PortTypeOK
<1>4. TypeOK
  BY <1>3 DEF TypeOK
<1>5. OneReopening /\ OfflineIsExplained /\ PortIsNew /\ PortIsMade
  BY <1>1 DEF OneReopening, OfflineIsExplained, PortIsNew, PortIsMade, After
<1>6. MainIsTold /\ OneAccept /\ StillTried
  BY <1>1 DEF MainIsTold, OneAccept, StillTried
<1> QED
  BY <1>4, <1>5, <1>6 DEF IInv

\* The part of the invariant that is about the port only.
LEMMA PortFrame ==
    ASSUME IInv, UNCHANGED port
    PROVE  PortTypeOK' /\ OneReopening' /\ OneAccept'
<1>1. UNCHANGED <<acceptors, listening, accepting, ready, pendingStart, logError, opening,
                  retries, created, threads, connections, added, hasService>>
  BY DEF port, portVars, portManager
<1>2. PortTypeOK'
  BY <1>1 DEF IInv, TypeOK, PortTypeOK
<1>3. OneReopening' /\ OneAccept'
  BY <1>1 DEF IInv, OneReopening, OneAccept
<1> QED
  BY <1>2, <1>3

\* What a step that leaves the port alone must keep to.
LEMMA KeepsPort ==
    ASSUME IInv, UNCHANGED port, TypeOK', OfflineIsExplained', PortIsMade', MainIsTold',
           dispatcher' \in Before => dispatcher \in Before,
           dispatcher' \in {"open", "service"} => dispatcher' = dispatcher,
           woken => woken'
    PROVE  IInv'
<1>1. UNCHANGED <<acceptors, listening, accepting, ready, pendingStart, logError, opening,
                  retries, created, threads, connections, added, hasService>>
  BY DEF port, portVars, portManager
<1>2. PortIsNew'
  BY <1>1 DEF IInv, PortIsNew
<1>3. StillTried'
  BY <1>1 DEF IInv, StillTried
<1> QED
  BY <1>2, <1>3, PortFrame DEF IInv

LEMMA MainKeeps ==
    ASSUME IInv, AddOtlogin \/ EnterWait \/ SpuriousWakeup \/ IsRunning \/ ServicesEnd
    PROVE  IInv'
<1>1. UNCHANGED port /\ UNCHANGED <<process, files, motdEvent>>
  BY DEF AddOtlogin, EnterWait, SpuriousWakeup, IsRunning, ServicesEnd
<1>2. UNCHANGED <<threads, added, hasService, conf>>
  BY <1>1 DEF port, portManager, files
<1>3. TypeOK'
  BY <1>1, PortFrame DEF IInv, TypeOK, OtloginSteps, AddOtlogin, EnterWait, SpuriousWakeup,
     IsRunning, ServicesEnd, Main
<1>4. /\ woken => woken'
      /\ dispatcher' = dispatcher \/ (dispatcher' = "superuser" /\ main = "start")
  BY DEF AddOtlogin, EnterWait, SpuriousWakeup, IsRunning, ServicesEnd, Main
<1>5. MainIsTold'
  BY <1>2 DEF IInv, TypeOK, PortTypeOK, MainIsTold, PortIsMade, After, AddOtlogin, EnterWait,
     SpuriousWakeup, IsRunning, ServicesEnd, Main
<1>6. PortIsMade'
  BY <1>2, <1>4 DEF IInv, PortIsMade, MainIsTold, After
<1>7. OfflineIsExplained'
  BY <1>2 DEF IInv, OfflineIsExplained, PortIsMade, MainIsTold, After, AddOtlogin, EnterWait,
     SpuriousWakeup, IsRunning, ServicesEnd, Main
<1>8. /\ dispatcher' \in Before => dispatcher \in Before
      /\ dispatcher' \in {"open", "service"} => dispatcher' = dispatcher
  BY <1>4 DEF IInv, MainIsTold, Before
<1> QED
  BY <1>1, <1>3, <1>4, <1>5, <1>6, <1>7, <1>8, KeepsPort

\* A step of otlogin before it opens the port; the fork takes main away.
LEMMA EarlyKeeps ==
    ASSUME IInv, UNCHANGED port, UNCHANGED <<motdEvent, woken>> \/ (motdEvent' /\ UNCHANGED woken),
           dispatcher \in Before \ {"none"}, dispatcher' \in Before \ {"none"},
           main' \in {main, "none"}, process' \in {"up", "exited", "hung"}
    PROVE  IInv'
<1>1. UNCHANGED <<threads, added, hasService>> /\ ~added /\ ~hasService
  BY DEF port, portManager, IInv, PortIsMade, Before, After
<1>2. TypeOK'
  <2>1. dispatcher' \in {"none", "error", "idle", "reload"} \cup OtloginSteps
    BY DEF Before, OtloginSteps
  <2>2. motdEvent' \in BOOLEAN /\ woken' \in BOOLEAN
    BY DEF IInv, TypeOK
  <2> QED
    BY <2>1, <2>2, PortFrame DEF IInv, TypeOK
<1>3. PortIsMade'
  BY <1>1 DEF PortIsMade, Before, After
<1>4. dispatcher \notin {"idle", "reload"}
  BY DEF Before
<1>5. main \in {"sleep", "run", "serve", "exit"} => woken
  BY <1>4 DEF IInv, MainIsTold
<1>6. main # "start" /\ main \notin {"run", "serve"} /\ threads = "none"
  BY <1>1 DEF IInv, MainIsTold
<1>7. MainIsTold' /\ OfflineIsExplained'
  BY <1>1, <1>5, <1>6 DEF MainIsTold, OfflineIsExplained
<1>8. dispatcher' \notin {"open", "service"}
  BY DEF Before
<1> QED
  BY <1>2, <1>3, <1>7, <1>8, KeepsPort

\* A step of otlogin, or of motdReloadTask, when nothing is left to do with the port.
LEMMA LateKeeps ==
    ASSUME IInv, UNCHANGED port, UNCHANGED <<process, files, woken>>, motdEvent' \in BOOLEAN,
           dispatcher \in After \cup {"bind"}, dispatcher' \in After,
           dispatcher \in {"idle", "reload"} => dispatcher' \in {"idle", "reload"},
           dispatcher = "bind" => BindPort(conf.listen) = 0,
           main' = main \/ (main = "wait" /\ main' = "sleep" /\ dispatcher' = "idle")
    PROVE  IInv'
<1>1. UNCHANGED <<threads, added, hasService, conf>>
  BY DEF port, portManager, files
<1>2. TypeOK'
  <2>1. dispatcher' \in {"none", "error", "idle", "reload"} \cup OtloginSteps
    BY DEF After, OtloginSteps
  <2> QED
    BY <2>1, PortFrame DEF IInv, TypeOK
<1>3. PortIsMade'
  BY <1>1 DEF IInv, PortIsMade, After
<1>4. main' = main => MainIsTold' /\ OfflineIsExplained'
  BY <1>1 DEF IInv, MainIsTold, OfflineIsExplained, After
<1>5. ASSUME main = "wait", main' = "sleep", dispatcher' = "idle"
      PROVE  MainIsTold' /\ OfflineIsExplained'
  BY <1>1, <1>5 DEF IInv, MainIsTold, OfflineIsExplained
<1>6. /\ dispatcher' \in Before => dispatcher \in Before
      /\ dispatcher' \in {"open", "service"} => dispatcher' = dispatcher
  BY DEF Before, After
<1> QED
  BY <1>2, <1>3, <1>4, <1>5, <1>6, KeepsPort

LEMMA OtloginKeeps ==
    ASSUME IInv,
           \/ CheckSuperUser \/ LoadConfig \/ FirstMotdSkipped \/ FirstMotdFetched
           \/ Daemonize \/ CheckKey \/ ConnectDatabase \/ LoadWorlds \/ ScheduleMotd
           \/ KeyPressed
    PROVE  IInv'
<1>1. /\ UNCHANGED port
      /\ UNCHANGED <<motdEvent, woken>> \/ (motdEvent' /\ UNCHANGED woken)
  BY DEF CheckSuperUser, LoadConfig, FirstMotdSkipped, FirstMotdFetched, ReloadMotd, Daemonize,
         CheckKey, ConnectDatabase, LoadWorlds, ScheduleMotd, KeyPressed, Fails
<1>2. dispatcher \in Before \ {"none"} /\ dispatcher' \in Before \ {"none"}
  BY DEF CheckSuperUser, LoadConfig, FirstMotdSkipped, FirstMotdFetched, ReloadMotd, Daemonize,
         CheckKey, ConnectDatabase, LoadWorlds, ScheduleMotd, KeyPressed, Fails, Otlogin, Before
<1>3. main' \in {main, "none"}
  BY DEF CheckSuperUser, LoadConfig, FirstMotdSkipped, FirstMotdFetched, ReloadMotd, Daemonize,
         CheckKey, ConnectDatabase, LoadWorlds, ScheduleMotd, KeyPressed, Fails
<1>4. process' \in {"up", "exited", "hung"}
  BY DEF CheckSuperUser, LoadConfig, FirstMotdSkipped, FirstMotdFetched, ReloadMotd, Daemonize,
         CheckKey, ConnectDatabase, LoadWorlds, ScheduleMotd, KeyPressed, Fails, Exit,
         IInv, TypeOK
<1> QED
  BY <1>1, <1>2, <1>3, <1>4, EarlyKeeps

LEMMA TasksKeep ==
    ASSUME IInv, NotifyMain \/ StartReload \/ ReloadSkipped \/ ReloadFetched
    PROVE  IInv'
<1>1. /\ UNCHANGED port /\ UNCHANGED <<process, files, woken>>
      /\ motdEvent' \in BOOLEAN
      /\ dispatcher \in After \cup {"bind"} /\ dispatcher' \in After
      /\ dispatcher \in {"idle", "reload"} => dispatcher' \in {"idle", "reload"}
      /\ dispatcher # "bind"
      /\ main' = main \/ (main = "wait" /\ main' = "sleep" /\ dispatcher' = "idle")
  BY DEF IInv, TypeOK, NotifyMain, Notify, StartReload, ReloadSkipped, ReloadFetched, ReloadMotd,
         Otlogin, After
<1> QED
  BY <1>1, LateKeeps

-----------------------------------------------------------------------------
(* Steps that change the port: otlogin's and main's.                          *)

\* ServiceManager::add enters open(): nothing was under way.
LEMMA OpenPortKeeps ==
    ASSUME IInv, Otlogin("bind", "open"), OpenPort,
           UNCHANGED <<process, main, files, motdEvent, woken>>
    PROVE  IInv'
<1>1. /\ dispatcher = "bind" /\ dispatcher' = "open"
      /\ opening' = [pc |-> "bind", ip |-> Address] /\ pendingStart' = FALSE
      /\ UNCHANGED <<acceptors, listening, accepting, ready, logError, retries, created, threads,
                     connections, added, hasService>>
  BY DEF Otlogin, OpenPort, portVars, portManager
<1>2. opening' \in OpenType /\ opening'.pc = "bind"
  BY <1>1 DEF OpenType, Addresses
<1>3. retries = <<>> /\ accepting = {} /\ ready = {} /\ ~added /\ ~hasService
  BY <1>1 DEF IInv, PortIsNew, PortIsMade, Before, After
<1>4. PortTypeOK'
  BY <1>1, <1>2 DEF IInv, TypeOK, PortTypeOK
<1>5. TypeOK'
  BY <1>1, <1>4 DEF IInv, TypeOK, OtloginSteps
<1>6. OneReopening' /\ OneAccept' /\ StillTried'
  BY <1>1, <1>2, <1>3 DEF OneReopening, OneAccept, StillTried
<1>7. PortIsNew' /\ PortIsMade'
  BY <1>1, <1>3 DEF PortIsNew, PortIsMade, Before, After
<1>8. MainIsTold' /\ OfflineIsExplained'
  BY <1>1, <1>3 DEF IInv, MainIsTold, OfflineIsExplained
<1> QED
  BY <1>5, <1>6, <1>7, <1>8 DEF IInv

LEMMA BindServicesKeeps == ASSUME IInv, BindServices PROVE IInv'
<1>1. CASE Fails("bind")
  <2>1. /\ UNCHANGED port /\ UNCHANGED <<motdEvent, woken>> /\ main' = main
        /\ dispatcher \in Before \ {"none"} /\ dispatcher' \in Before \ {"none"}
        /\ process' \in {"up", "exited", "hung"}
    BY <1>1 DEF Fails, Otlogin, Before, IInv, TypeOK
  <2> QED
    BY <2>1, EarlyKeeps
<1>2. CASE /\ BindPort(conf.listen) = 0 /\ Otlogin("bind", "notify")
           /\ UNCHANGED <<process, main, files, motdEvent, woken, port>>
  <2>1. dispatcher = "bind" /\ dispatcher' = "notify" /\ motdEvent' \in BOOLEAN
    BY <1>2 DEF Otlogin, IInv, TypeOK
  <2> QED
    BY <1>2, <2>1, LateKeeps DEF After
<1>3. CASE /\ Otlogin("bind", "open") /\ OpenPort
           /\ UNCHANGED <<process, main, files, motdEvent, woken>>
  BY <1>3, OpenPortKeeps
<1> QED
  BY <1>1, <1>2, <1>3 DEF BindServices

\* open() has returned: the port is added, then the service.
LEMMA AddKeeps == ASSUME IInv, AddPortToManager \/ AddServiceToPort PROVE IInv'
<1>1. UNCHANGED <<process, main, files, motdEvent, woken, acceptors, listening, accepting, ready,
                  pendingStart, logError, opening, retries, created, threads, connections>>
  BY DEF AddPortToManager, AddServiceToPort, portVars
<1>2. \/ /\ dispatcher = "open" /\ dispatcher' = "service" /\ added' = TRUE
         /\ hasService' = hasService
      \/ /\ dispatcher = "service" /\ dispatcher' = "notify" /\ added' = added
         /\ hasService' = TRUE
  BY DEF AddPortToManager, AddServiceToPort, AddPort, AddService, Otlogin
<1>3. PortTypeOK'
  BY <1>1, <1>2 DEF IInv, TypeOK, PortTypeOK
<1>4. TypeOK'
  BY <1>1, <1>2, <1>3 DEF IInv, TypeOK, OtloginSteps
<1>5. OneReopening' /\ OneAccept'
  BY <1>1 DEF IInv, OneReopening, OneAccept
<1>6. PortIsNew' /\ PortIsMade' /\ StillTried'
  BY <1>1, <1>2 DEF IInv, PortIsNew, PortIsMade, StillTried, Before, After
<1>7. MainIsTold' /\ OfflineIsExplained'
  BY <1>1, <1>2 DEF IInv, MainIsTold, OfflineIsExplained, files
<1> QED
  BY <1>4, <1>5, <1>6, <1>7 DEF IInv

LEMMA RunServicesKeeps == ASSUME IInv, RunServices PROVE IInv'
<1>1. /\ main = "run" /\ main' = "serve"
      /\ threads' \in {"running", "ended"}
      /\ UNCHANGED <<process, dispatcher, files, motdEvent, woken>>
      /\ UNCHANGED <<acceptors, listening, accepting, ready, pendingStart, logError, opening,
                     retries, created, connections, added, hasService>>
  BY DEF RunServices, Main, RunThreads, portVars, portManager
<1>2. PortTypeOK'
  BY <1>1 DEF IInv, TypeOK, PortTypeOK
<1>3. TypeOK'
  BY <1>1, <1>2 DEF IInv, TypeOK
<1>4. OneReopening' /\ OneAccept'
  BY <1>1 DEF IInv, OneReopening, OneAccept
<1>5. PortIsNew' /\ PortIsMade' /\ StillTried'
  BY <1>1 DEF IInv, PortIsNew, PortIsMade, StillTried, files
<1>6. MainIsTold' /\ OfflineIsExplained'
  BY <1>1 DEF IInv, MainIsTold, OfflineIsExplained
<1> QED
  BY <1>3, <1>4, <1>5, <1>6 DEF IInv

-----------------------------------------------------------------------------
(* Steps that change the port: open() and the service threads.                *)

LEMMA PortStep ==
    ASSUME IInv, UNCHANGED <<process, main, dispatcher, files, motdEvent, woken>>,
           UNCHANGED <<added, hasService>>,
           threads' = threads \/ (threads # "none" /\ threads' # "none"),
           PortTypeOK', OneReopening', OneAccept', PortIsNew', StillTried'
    PROVE  IInv'
<1>1. TypeOK'
  BY DEF IInv, TypeOK
<1>2. PortIsMade'
  BY DEF IInv, PortIsMade, files
<1>3. MainIsTold' /\ OfflineIsExplained'
  BY DEF IInv, MainIsTold, OfflineIsExplained, files
<1> QED
  BY <1>1, <1>2, <1>3 DEF IInv

\* The scheduler releases the reopening: it is the only one.
LEMMA RetryOpenKeeps == ASSUME IInv, RetryOpen PROVE IInv'
<1>1. /\ dispatcher = "idle" /\ retries # <<>>
      /\ opening' = [pc |-> "bind", ip |-> Head(retries)]
      /\ retries' = Tail(retries) /\ pendingStart' = FALSE
      /\ UNCHANGED <<process, main, dispatcher, files, motdEvent, woken>>
      /\ UNCHANGED <<acceptors, listening, accepting, ready, logError, created, threads,
                     connections, added, hasService>>
  BY DEF RetryOpen, Retry, EnterOpen, portVars, portManager
<1>2. retries \in Seq(Addresses) /\ Len(retries) <= 1
  BY DEF IInv, TypeOK, PortTypeOK, OneReopening
<1>3. Head(retries) \in Addresses /\ Tail(retries) = <<>>
  BY <1>1, <1>2
<1>4. opening' \in OpenType /\ opening'.pc = "bind" /\ retries' = <<>>
  BY <1>1, <1>3 DEF OpenType
<1>5. PortTypeOK'
  <2>1. retries' \in Seq(Addresses)
    BY <1>4
  <2> QED
    BY <1>1, <1>4, <2>1 DEF IInv, TypeOK, PortTypeOK
<1>6. accepting = {} /\ ready = {}
  BY <1>1 DEF IInv, OneAccept
<1>7. OneReopening' /\ OneAccept'
  BY <1>1, <1>4, <1>6 DEF IInv, OneReopening, OneAccept
<1>8. PortIsNew' /\ StillTried'
  BY <1>1, <1>4 DEF PortIsNew, StillTried, Before
<1> QED
  BY <1>1, <1>5, <1>7, <1>8, PortStep

\* Listing an acceptor keeps the table well formed.
LEMMA ListedFacts ==
    ASSUME NEW map, DOMAIN map \subseteq Ids, \A x \in DOMAIN map : map[x] \in Addresses,
           NEW a \in Ids, NEW ip \in Addresses
    PROVE  /\ DOMAIN Listed(map, a, ip) \subseteq Ids
           /\ \A x \in DOMAIN Listed(map, a, ip) : Listed(map, a, ip)[x] \in Addresses
  BY DEF Listed

LEMMA BindKeeps ==
    ASSUME IInv, Bind, UNCHANGED <<process, main, dispatcher, files, motdEvent, woken>>
    PROVE  IInv'
<1>1. /\ opening.pc = "bind" /\ listening = {} /\ created < MaxAcceptors
      /\ created' = created + 1 /\ listening' = {created'} /\ accepting' = accepting \cup {created'}
      /\ opening' = [opening EXCEPT !.pc = "register"]
      /\ UNCHANGED <<acceptors, ready, pendingStart, logError, retries, threads, connections,
                     added, hasService>>
  BY DEF Bind, portManager
<1>2. accepting = {} /\ ready = {} /\ retries = <<>> /\ dispatcher \notin Before
  BY <1>1 DEF IInv, OneAccept, PortIsNew
<1>3. created' \in Ids /\ created' \in 0..MaxAcceptors /\ created' >= 1
  BY <1>1, PortAssumption DEF IInv, TypeOK, PortTypeOK, Ids
<1>4. opening' \in OpenType /\ opening'.pc = "register"
  BY <1>1 DEF IInv, TypeOK, PortTypeOK, OpenType
<1>5. listening' \subseteq Ids /\ accepting' = listening'
  BY <1>1, <1>2, <1>3
<1>6. PortTypeOK'
  BY <1>1, <1>3, <1>4, <1>5 DEF IInv, TypeOK, PortTypeOK
<1>7. OneReopening' /\ PortIsNew' /\ StillTried'
  BY <1>1, <1>2 DEF IInv, OneReopening, PortIsNew, StillTried
<1>8. OneAccept'
  BY <1>1, <1>2, <1>3, <1>4 DEF OneAccept
<1> QED
  BY <1>1, <1>6, <1>7, <1>8, PortStep

LEMMA RegisterKeeps ==
    ASSUME IInv, Register, UNCHANGED <<process, main, dispatcher, files, motdEvent, woken>>
    PROVE  IInv'
<1>1. /\ opening.pc = "register" /\ opening' = IdleOpen
      /\ acceptors' = Listed(acceptors, created, opening.ip)
      /\ UNCHANGED <<listening, accepting, ready, pendingStart, logError, retries, created,
                     threads, connections, added, hasService>>
  BY DEF Register, portManager
<1>2. opening' \in OpenType /\ opening'.pc = "idle"
  BY <1>1 DEF IdleOpen, OpenType, Addresses
<1>3. created \in Ids /\ opening.ip \in Addresses
  BY <1>1, PortAssumption DEF IInv, TypeOK, PortTypeOK, OneAccept, OpenType, Ids
<1>4. /\ DOMAIN acceptors' \subseteq Ids
      /\ \A x \in DOMAIN acceptors' : acceptors'[x] \in Addresses
  <2>1. DOMAIN acceptors \subseteq Ids /\ \A x \in DOMAIN acceptors : acceptors[x] \in Addresses
    BY DEF IInv, TypeOK, PortTypeOK
  <2> QED
    BY <1>1, <1>3, <2>1, ListedFacts, Zenon
<1>5. PortTypeOK'
  BY <1>1, <1>2, <1>4 DEF IInv, TypeOK, PortTypeOK
<1>6. OneReopening' /\ PortIsNew' /\ StillTried'
  BY <1>1 DEF IInv, OneReopening, PortIsNew, StillTried
<1>7. OneAccept'
  BY <1>1, <1>2 DEF IInv, OneAccept
<1> QED
  BY <1>1, <1>5, <1>6, <1>7, PortStep

\* The first bind that fails schedules the reopening; later ones only return.
LEMMA BindFailsKeeps ==
    ASSUME IInv, BindFails, UNCHANGED <<process, main, dispatcher, files, motdEvent, woken>>
    PROVE  IInv'
<1>1. /\ opening.pc = "bind" /\ opening' = IdleOpen
      /\ logError => /\ logError' = FALSE /\ pendingStart' = TRUE
                     /\ retries' = Append(retries, opening.ip)
      /\ ~logError => UNCHANGED <<logError, pendingStart, retries>>
      /\ UNCHANGED <<acceptors, listening, accepting, ready, created, threads, connections,
                     added, hasService>>
  BY DEF BindFails, portVars, portManager
<1>2. accepting = {} /\ ready = {} /\ retries = <<>> /\ dispatcher \notin Before
  BY <1>1 DEF IInv, OneAccept, PortIsNew
<1>3. opening' \in OpenType /\ opening'.pc = "idle" /\ opening.ip \in Addresses
  BY <1>1 DEF IInv, TypeOK, PortTypeOK, IdleOpen, OpenType, Addresses
<1>4. /\ logError' = FALSE
      /\ \/ pendingStart' = TRUE /\ retries' = <<opening.ip>>
         \/ pendingStart' = pendingStart /\ retries' = retries
  BY <1>1, <1>2 DEF IInv, TypeOK, PortTypeOK
<1>5. /\ retries' \in Seq(Addresses) /\ Len(retries') <= 1
      /\ pendingStart' \in BOOLEAN /\ (pendingStart' <=> retries' # <<>>)
  <2>1. CASE pendingStart' = TRUE /\ retries' = <<opening.ip>>
    BY <1>3, <2>1
  <2>2. CASE pendingStart' = pendingStart /\ retries' = retries
    BY <2>2 DEF IInv, TypeOK, PortTypeOK, OneReopening
  <2> QED
    BY <1>4, <2>1, <2>2
<1>6. PortTypeOK'
  BY <1>1, <1>3, <1>4, <1>5 DEF IInv, TypeOK, PortTypeOK
<1>7. OneReopening' /\ PortIsNew' /\ StillTried'
  BY <1>2, <1>4, <1>5 DEF OneReopening, PortIsNew, StillTried
<1>8. OneAccept'
  BY <1>1, <1>2, <1>3 DEF OneAccept
<1> QED
  BY <1>1, <1>6, <1>7, <1>8, PortStep

LEMMA ThreadsEndKeeps ==
    ASSUME IInv, ThreadsEnd \/ ConnectionEnds,
           UNCHANGED <<process, main, dispatcher, files, motdEvent, woken>>
    PROVE  IInv'
<1>1. /\ threads = "running" /\ threads' \in {"running", "ended"}
      /\ connections' = connections \/ (connections > 0 /\ connections' = connections - 1)
      /\ UNCHANGED <<acceptors, listening, accepting, ready, pendingStart, logError, opening,
                     retries, created, added, hasService>>
  BY DEF ThreadsEnd, ConnectionEnds, portVars, portManager
<1>2. connections' \in 0..MaxConnections
  BY <1>1, PortAssumption DEF IInv, TypeOK, PortTypeOK
<1>3. PortTypeOK'
  BY <1>1, <1>2 DEF IInv, TypeOK, PortTypeOK
<1>4. OneReopening' /\ OneAccept' /\ PortIsNew' /\ StillTried'
  BY <1>1 DEF IInv, OneReopening, OneAccept, PortIsNew, StillTried
<1> QED
  BY <1>1, <1>3, <1>4, PortStep

LEMMA CompleteKeeps ==
    ASSUME IInv, NEW a \in Ids, Complete(a),
           UNCHANGED <<process, main, dispatcher, files, motdEvent, woken>>
    PROVE  IInv'
<1>1. PICK err \in {"ok", "failed"} : ready' = ready \cup {[id |-> a, err |-> err]}
  BY DEF Complete
<1>2. /\ a \in accepting /\ accepting' = accepting \ {a}
      /\ UNCHANGED <<acceptors, listening, pendingStart, logError, opening, retries, created,
                     threads, connections, added, hasService>>
  BY DEF Complete, portManager
<1> DEFINE r == [id |-> a, err |-> err]
<1>3. r \in Completion /\ r.id = a
  BY DEF Completion
<1>4. /\ accepting' = {} /\ ready' = {r} /\ a \in listening
      /\ opening.pc # "bind" /\ retries = <<>> /\ dispatcher \notin Before
  BY <1>1, <1>2 DEF IInv, OneAccept, PortIsNew, TypeOK, PortTypeOK
<1> HIDE DEF r
<1>5. PortTypeOK'
  <2>1. accepting' \subseteq listening' /\ ready' \subseteq Completion
    BY <1>3, <1>4
  <2> QED
    BY <1>2, <2>1 DEF IInv, TypeOK, PortTypeOK
<1>6. OneReopening' /\ PortIsNew' /\ StillTried'
  BY <1>2, <1>4 DEF IInv, OneReopening, PortIsNew, StillTried
<1>7. OneAccept'
  BY <1>2, <1>3, <1>4 DEF IInv, OneAccept
<1> QED
  BY <1>2, <1>5, <1>6, <1>7, PortStep

\* Service threads run only when the port has its service, or after a spurious wake-up.
LEMMA HandleAcceptedKeeps ==
    ASSUME IInv, NEW a \in Ids, HandleAccepted(a),
           UNCHANGED <<process, main, dispatcher, files, motdEvent, woken>>
    PROVE  IInv'
<1> DEFINE r == [id |-> a, err |-> "ok"]
<1>1. /\ threads = "running" /\ r \in ready /\ ready' = ready \ {r}
      /\ accepting' \in {accepting, accepting \cup {a}}
      /\ hasService => accepting' = accepting \cup {a}
      /\ connections' = connections \/ (connections < MaxConnections /\ connections' = connections + 1)
      /\ UNCHANGED <<acceptors, listening, pendingStart, logError, opening, retries, created,
                     threads, added, hasService>>
  BY DEF HandleAccepted, portManager
<1>2. r.id = a
  OBVIOUS
<1> HIDE DEF r
<1>3. /\ accepting = {} /\ ready' = {} /\ a \in listening
      /\ opening.pc # "bind" /\ retries = <<>> /\ dispatcher \notin Before
  BY <1>1, <1>2 DEF IInv, OneAccept, PortIsNew
<1>4. connections' \in 0..MaxConnections
  BY <1>1, PortAssumption DEF IInv, TypeOK, PortTypeOK
<1>5. PortTypeOK'
  <2>1. accepting' \subseteq listening' /\ ready' \subseteq Completion
    BY <1>1, <1>3
  <2> QED
    BY <1>1, <1>4, <2>1 DEF IInv, TypeOK, PortTypeOK
<1>6. ~ woken => hasService
  BY <1>1 DEF IInv, MainIsTold, PortIsMade, After
<1>7. OneReopening' /\ PortIsNew' /\ StillTried'
  BY <1>1, <1>3, <1>6 DEF IInv, OneReopening, PortIsNew, StillTried
<1>8. OneAccept'
  BY <1>1, <1>3 DEF IInv, OneAccept
<1> QED
  BY <1>1, <1>5, <1>7, <1>8, PortStep

\* The failed accept was the only one, so no reopening is scheduled yet.
LEMMA HandleFailedKeeps ==
    ASSUME IInv, NEW a \in Ids, HandleFailed(a),
           UNCHANGED <<process, main, dispatcher, files, motdEvent, woken>>
    PROVE  IInv'
<1> DEFINE r == [id |-> a, err |-> "failed"]
<1>1. /\ r \in ready /\ ready' = ready \ {r}
      /\ listening' = listening \ DOMAIN acceptors
      /\ ~pendingStart => /\ pendingStart' = TRUE
                          /\ acceptors' = Listed(NoAcceptors, a, Any)
                          /\ retries' = Append(retries, Any)
      /\ UNCHANGED <<accepting, logError, opening, created, threads, connections, added,
                     hasService>>
  BY DEF HandleFailed, Close, portManager
<1> HIDE DEF r
<1>2. /\ accepting = {} /\ ready' = {}
      /\ opening.pc # "bind" /\ retries = <<>> /\ dispatcher \notin Before
  BY <1>1 DEF IInv, OneAccept, PortIsNew
<1>3. ~ pendingStart
  BY <1>2 DEF IInv, OneReopening
<1>4. retries' = <<Any>> /\ pendingStart' = TRUE
  BY <1>1, <1>2, <1>3
<1>5. /\ DOMAIN acceptors' \subseteq Ids
      /\ \A x \in DOMAIN acceptors' : acceptors'[x] \in Addresses
  <2>1. DOMAIN NoAcceptors = {} /\ Any \in Addresses
    BY DEF NoAcceptors, Addresses
  <2>2. DOMAIN NoAcceptors \subseteq Ids /\ \A x \in DOMAIN NoAcceptors : NoAcceptors[x] \in Addresses
    BY <2>1
  <2>3. acceptors' = Listed(NoAcceptors, a, Any)
    BY <1>1, <1>3
  <2> QED
    BY <2>1, <2>2, <2>3, ListedFacts, Zenon
<1>6. PortTypeOK'
  <2>1. retries' \in Seq(Addresses)
    BY <1>4 DEF Addresses
  <2>2. listening' \subseteq Ids /\ accepting' \subseteq listening' /\ ready' \subseteq Completion
    BY <1>1, <1>2 DEF IInv, TypeOK, PortTypeOK
  <2> QED
    BY <1>1, <1>4, <1>5, <2>1, <2>2 DEF IInv, TypeOK, PortTypeOK
<1>7. OneReopening' /\ PortIsNew' /\ StillTried'
  BY <1>2, <1>4 DEF OneReopening, PortIsNew, StillTried
<1>8. OneAccept'
  BY <1>1, <1>2, <1>4 DEF IInv, OneAccept
<1> QED
  BY <1>1, <1>6, <1>7, <1>8, PortStep

-----------------------------------------------------------------------------
(* The invariant, and what it says of the startup.                            *)

LEMMA StepKeeps == ASSUME IInv, [Next]_vars PROVE IInv'
<1>1. CASE UNCHANGED vars
  <2>1. /\ UNCHANGED port /\ UNCHANGED <<process, main, dispatcher, files, motdEvent, woken>>
        /\ UNCHANGED <<threads, added, hasService, accepting, ready, retries, opening,
                       pendingStart, logError>>
    BY <1>1 DEF vars, port, portVars, portManager
  <2>2. PortIsNew' /\ StillTried'
    BY <2>1 DEF IInv, PortIsNew, StillTried
  <2> QED
    BY <2>1, <2>2, PortFrame, PortStep
<1>2. CASE MainStep \/ SpuriousWakeup
  BY <1>2, MainKeeps, RunServicesKeeps DEF MainStep
<1>3. CASE OtloginStep \/ FirstMotdFetched \/ KeyPressed \/ StartReload \/ ReloadSkipped
           \/ ReloadFetched
  BY <1>3, OtloginKeeps, TasksKeep, BindServicesKeeps, AddKeeps, Zenon DEF OtloginStep
<1>4. CASE Open
  BY <1>4, BindKeeps, RegisterKeeps, BindFailsKeeps DEF Open, OpenStep
<1>5. CASE Threads
  BY <1>5, ThreadsEndKeeps, CompleteKeeps, HandleAcceptedKeeps, HandleFailedKeeps
     DEF Threads, ThreadStep
<1>6. CASE RetryOpen
  BY <1>6, RetryOpenKeeps
<1> QED
  BY <1>1, <1>2, <1>3, <1>4, <1>5, <1>6 DEF Next

\* Everything the invariant says holds of every reachable state of the startup and of
\* the port.
THEOREM StartupInvariance == Spec => []IInv
<1>1. IInv /\ [Next]_vars => IInv'
  BY StepKeeps
<1> QED
  BY InitHolds, <1>1, PTL DEF Spec

\* open() on the dispatcher's thread and handle() on a service thread write
\* m_pendingStart without a lock; still it is set exactly while one reopening waits in
\* the scheduler, and there is never a second.
THEOREM ReopensOnce == Spec => []OneReopening
<1>1. IInv => OneReopening
  BY DEF IInv
<1> QED
  BY StartupInvariance, <1>1, PTL

\* As long as no bind has failed, a port with its service is accepting, has a handler
\* to run or is waiting to be reopened: handle() and open() do not lose it between them.
THEOREM PortIsKept == Spec => []NotForgotten
<1>1. IInv => NotForgotten
  BY DEF IInv, StillTried, NotForgotten
<1> QED
  BY StartupInvariance, <1>1, PTL

\* main() prints that the server is offline only when it was woken without a
\* notification or the configured port is 0.
THEOREM OfflineHasReason == Spec => []OfflineIsExplained
<1>1. IInv => OfflineIsExplained
  BY DEF IInv
<1> QED
  BY StartupInvariance, <1>1, PTL

\* The service threads start after otlogin's last step, unless main was woken without a
\* notification.
THEOREM OnlineAfterStartup == Spec => []OnlineIsReady
<1>1. IInv => OnlineIsReady
  BY DEF IInv, MainIsTold, PortIsMade, After, OnlineIsReady
<1> QED
  BY StartupInvariance, <1>1, PTL

-----------------------------------------------------------------------------
(* The list of worlds. WorldList is a loop over the entries; what it computes  *)
(* is said without a loop by FirstOnes.                                        *)

\* Entry i is a world with id k, and the first one.
HasId(entries, i, k) == i \in 1..Len(entries) /\ IsWorld(entries[i]) /\ WorldId(entries[i]) = k
IsFirst(entries, i, k) == HasId(entries, i, k) /\ \A j \in 1..(i - 1) : ~ HasId(entries, j, k)

\* The ids of the first n entries, and the first world with each of them.
IdsUpTo(entries, n) == {WorldId(entries[i]) : i \in {j \in 1..n : IsWorld(entries[j])}}
FirstWith(entries, k) == CHOOSE i \in 1..Len(entries) : IsFirst(entries, i, k)
FirstOnes(entries, n) ==
    [k \in IdsUpTo(entries, n) |-> entries[FirstWith(entries, k)].world]

Loop(entries, f) ==
    f = [n \in 0..Len(entries) |-> IF n = 0 THEN NoWorlds ELSE AddWorld(f[n - 1], entries[n])]

\* A set of positions has a smallest one.
LEMMA Smallest ==
    ASSUME NEW T, T \subseteq Nat, T # {}
    PROVE  \E m \in T : \A n \in T : m <= n
<1> DEFINE before == {p \in Nat \X Nat : p[1] < p[2]}
<1>1. IsWellFoundedOn(before, Nat)
  BY NatLessThanWellFounded, Zenon DEF OpToRel
<1> HIDE DEF before
<1>2. PICK m \in T : \A n \in T : ~ (<<n, m>> \in before)
  BY <1>1, WFMin, Zenon
<1>3. ASSUME NEW n \in T PROVE m <= n
  <2>1. m \in Nat /\ n \in Nat
    OBVIOUS
  <2>2. n < m => <<n, m>> \in before
    BY <2>1 DEF before
  <2> QED
    BY <1>2, <2>1, <2>2
<1> QED
  BY <1>3

\* An id has one first entry only.
LEMMA FirstIsUnique ==
    ASSUME NEW E, NEW entries \in Seq(E), NEW i \in 1..Len(entries), NEW k,
           IsFirst(entries, i, k)
    PROVE  FirstWith(entries, k) = i
<1>0. Len(entries) \in Nat
  OBVIOUS
<1>1. \A j \in 1..Len(entries) : IsFirst(entries, j, k) => j = i
  BY <1>0 DEF IsFirst, HasId
<1> QED
  BY <1>1 DEF FirstWith

\* The closed form keeps to the loop.
LEMMA FirstOnesLoop ==
    ASSUME NEW E, NEW entries \in Seq(E)
    PROVE  Loop(entries, [n \in 0..Len(entries) |-> FirstOnes(entries, n)])
<1>0. Len(entries) \in Nat
  OBVIOUS
<1>1. FirstOnes(entries, 0) = NoWorlds
  <2>1. IdsUpTo(entries, 0) = {}
    BY DEF IdsUpTo
  <2> QED
    BY <2>1 DEF FirstOnes, NoWorlds
<1>2. ASSUME NEW n \in 1..Len(entries)
      PROVE  FirstOnes(entries, n) = AddWorld(FirstOnes(entries, n - 1), entries[n])
  <2> DEFINE k == WorldId(entries[n])
             list == FirstOnes(entries, n - 1)
  <2>1. n \in Nat /\ n - 1 \in 0..Len(entries) /\ n \in 0..Len(entries)
    BY <1>0
  <2>2. 1..n = 1..(n - 1) \cup {n}
    BY <2>1
  <2>3. DOMAIN list = IdsUpTo(entries, n - 1)
    BY DEF FirstOnes
  <2>4. CASE ~ IsWorld(entries[n])
    <3>1. IdsUpTo(entries, n) = IdsUpTo(entries, n - 1)
      BY <2>2, <2>4 DEF IdsUpTo
    <3> QED
      BY <2>4, <3>1 DEF FirstOnes, AddWorld
  <2>5. CASE IsWorld(entries[n]) /\ k \in DOMAIN list
    <3>1. IdsUpTo(entries, n) = IdsUpTo(entries, n - 1)
      BY <2>2, <2>3, <2>5 DEF IdsUpTo
    <3> QED
      BY <2>5, <3>1 DEF FirstOnes, AddWorld
  <2>6. CASE IsWorld(entries[n]) /\ k \notin DOMAIN list
    <3>1. IdsUpTo(entries, n) = IdsUpTo(entries, n - 1) \cup {k}
      BY <2>2, <2>6 DEF IdsUpTo
    <3>2. \A j \in 1..(n - 1) : ~ HasId(entries, j, k)
      BY <2>3, <2>6 DEF HasId, IdsUpTo
    <3>3. IsFirst(entries, n, k)
      BY <2>6, <3>2 DEF IsFirst, HasId
    <3>4. FirstWith(entries, k) = n
      BY <3>3, FirstIsUnique
    <3>5. WithWorld(list, entries[n]) = FirstOnes(entries, n)
      BY <2>3, <3>1, <3>4 DEF WithWorld, FirstOnes
    <3> QED
      BY <2>6, <3>5 DEF AddWorld
  <2> QED
    BY <2>4, <2>5, <2>6
<1> DEFINE f == [n \in 0..Len(entries) |-> FirstOnes(entries, n)]
<1>3. ASSUME NEW n \in 0..Len(entries)
      PROVE  f[n] = IF n = 0 THEN NoWorlds ELSE AddWorld(f[n - 1], entries[n])
  <2>1. n # 0 => n \in 1..Len(entries) /\ n - 1 \in 0..Len(entries)
    BY <1>0
  <2>2. f[n] = FirstOnes(entries, n) /\ (n # 0 => f[n - 1] = FirstOnes(entries, n - 1))
    BY <2>1
  <2>3. FirstOnes(entries, n) =
          IF n = 0 THEN NoWorlds ELSE AddWorld(FirstOnes(entries, n - 1), entries[n])
    BY <1>1, <1>2, <2>1
  <2> QED
    BY <2>2, <2>3
<1> QED
  BY <1>3 DEF Loop

\* No other function does.
LEMMA LoopIsUnique ==
    ASSUME NEW E, NEW entries \in Seq(E), NEW f, NEW g, Loop(entries, f), Loop(entries, g)
    PROVE  f[Len(entries)] = g[Len(entries)]
<1> DEFINE T == {n \in 0..Len(entries) : f[n] # g[n]}
<1>0. Len(entries) \in Nat
  OBVIOUS
<1>1. ASSUME NEW n \in 0..Len(entries)
      PROVE  /\ f[n] = IF n = 0 THEN NoWorlds ELSE AddWorld(f[n - 1], entries[n])
             /\ g[n] = IF n = 0 THEN NoWorlds ELSE AddWorld(g[n - 1], entries[n])
  BY Zenon DEF Loop
<1>2. T = {}
  <2>1. SUFFICES ASSUME T # {} PROVE FALSE
    OBVIOUS
  <2>2. T \subseteq Nat
    BY <1>0
  <2>3. PICK m \in T : \A n \in T : m <= n
    BY <2>1, <2>2, Smallest
  <2>4. CASE m = 0
    BY <1>1, <2>4
  <2>5. CASE m # 0
    <3>1. m - 1 \in 0..Len(entries) /\ ~ (m <= m - 1)
      BY <1>0, <2>5
    <3>2. f[m - 1] = g[m - 1]
      BY <2>3, <3>1
    <3> QED
      BY <1>1, <2>5, <3>2
  <2> QED
    BY <2>4, <2>5
<1> QED
  BY <1>0, <1>2

\* What loadFromJson makes of the entries.
LEMMA WorldListIsFirstOnes ==
    ASSUME NEW E, NEW entries \in Seq(E)
    PROVE  WorldList(entries) = FirstOnes(entries, Len(entries))
<1> DEFINE g == [n \in 0..Len(entries) |-> FirstOnes(entries, n)]
<1>1. Loop(entries, g)
  BY FirstOnesLoop
<1>2. \E f : Loop(entries, f) /\ WorldList(entries) = f[Len(entries)]
  BY <1>1 DEF WorldList, Loop
<1>3. PICK f : Loop(entries, f) /\ WorldList(entries) = f[Len(entries)]
  BY <1>2
<1>4. f[Len(entries)] = g[Len(entries)]
  BY <1>1, <1>3, LoopIsUnique
<1> QED
  BY <1>3, <1>4

-----------------------------------------------------------------------------
(* The worlds of a running server.                                            *)

\* otlogin has not come to the end of loadFromJson.
Unloaded == {"none", "error", "superuser", "config", "motd", "daemonize", "rsa", "database",
             "worlds"}

\* From then on the list is the one the file describes; the port opens later.
WorldsAreLoaded ==
    /\ input \in Inputs
    /\ dispatcher \notin Unloaded => worlds = WorldList(input.worlds.entries)
    /\ listening # {} => dispatcher \notin Before

\* Before loadFromJson there is nothing to say of the worlds.
LEMMA InitLoaded == Init => WorldsAreLoaded
BY DEF Init, PortInit, WorldsAreLoaded, Unloaded

\* A step that leaves the list alone and does not come to the end of loadFromJson.
LEMMA KeepsWorlds ==
    ASSUME WorldsAreLoaded, UNCHANGED <<input, worlds>>,
           dispatcher' \notin Unloaded => dispatcher \notin Unloaded,
           listening' # {} => dispatcher' \notin Before
    PROVE  WorldsAreLoaded'
BY DEF WorldsAreLoaded

\* Only loadFromJson writes worldList, and once.
LEMMA StepKeepsWorlds ==
    ASSUME IInv, WorldsAreLoaded, [Next]_vars
    PROVE  WorldsAreLoaded'
<1> USE DEF files
<1>1. CASE UNCHANGED vars
  BY <1>1, KeepsWorlds DEF vars, port, portVars, WorldsAreLoaded
<1>2. CASE MainStep \/ SpuriousWakeup
  <2>1. UNCHANGED <<input, worlds, listening>>
    BY <1>2 DEF MainStep, AddOtlogin, EnterWait, SpuriousWakeup, IsRunning, RunServices,
       ServicesEnd, RunThreads, port, portVars
  <2>2. dispatcher' = dispatcher \/ (dispatcher = "none" /\ dispatcher' = "superuser")
    BY <1>2 DEF MainStep, AddOtlogin, EnterWait, SpuriousWakeup, IsRunning, RunServices,
       ServicesEnd, Main, IInv, MainIsTold
  <2> QED
    BY <2>1, <2>2, KeepsWorlds DEF WorldsAreLoaded, Unloaded, Before
<1>3. CASE CheckSuperUser \/ LoadConfig \/ FirstMotdSkipped \/ FirstMotdFetched \/ Daemonize
           \/ CheckKey \/ ConnectDatabase \/ KeyPressed
  <2>1. UNCHANGED <<input, worlds, listening>> /\ dispatcher \in Unloaded
    BY <1>3 DEF CheckSuperUser, LoadConfig, FirstMotdSkipped, FirstMotdFetched, ReloadMotd,
       Daemonize, CheckKey, ConnectDatabase, KeyPressed, Fails, Otlogin, Unloaded, port, portVars
  <2>2. dispatcher' \in Unloaded
    BY <1>3 DEF CheckSuperUser, LoadConfig, FirstMotdSkipped, FirstMotdFetched, ReloadMotd,
       Daemonize, CheckKey, ConnectDatabase, KeyPressed, Fails, Otlogin, Unloaded
  <2> QED
    BY <2>1, <2>2, KeepsWorlds DEF WorldsAreLoaded, Unloaded, Before
<1>4. CASE LoadWorlds
  <2>1. UNCHANGED <<input, listening>> /\ dispatcher = "worlds"
    BY <1>4 DEF LoadWorlds, Fails, Otlogin, port, portVars
  <2>2. \/ dispatcher' = "error"
        \/ dispatcher' = "schedule" /\ worlds' = WorldList(input.worlds.entries)
    BY <1>4 DEF LoadWorlds, Fails, Otlogin
  <2> QED
    BY <2>1, <2>2 DEF WorldsAreLoaded, Unloaded, Before
<1>5. CASE ScheduleMotd \/ BindServices
  <2>1. UNCHANGED <<input, worlds, listening>> /\ dispatcher \in {"schedule", "bind"}
    BY <1>5 DEF ScheduleMotd, BindServices, OpenPort, Fails, Otlogin, port, portVars
  <2> QED
    BY <2>1, KeepsWorlds DEF WorldsAreLoaded, Unloaded, Before
<1>6. CASE \/ AddPortToManager \/ AddServiceToPort \/ NotifyMain \/ StartReload
           \/ ReloadSkipped \/ ReloadFetched
  <2>1. UNCHANGED <<input, worlds, listening>>
    BY <1>6 DEF AddPortToManager, AddServiceToPort, NotifyMain, StartReload, ReloadSkipped,
       ReloadFetched, ReloadMotd, port, portVars
  <2>2. /\ dispatcher \in {"open", "service", "notify", "idle", "reload"}
        /\ dispatcher' \in {"open", "service", "notify", "idle", "reload"}
    BY <1>6 DEF AddPortToManager, AddServiceToPort, NotifyMain, StartReload, ReloadSkipped,
       ReloadFetched, ReloadMotd, Otlogin
  <2> QED
    BY <2>1, <2>2, KeepsWorlds DEF WorldsAreLoaded, Unloaded, Before
<1>7. CASE Open
  <2>1. UNCHANGED <<input, worlds, dispatcher>>
    BY <1>7 DEF Open
  <2>2. opening.pc # "idle"
    BY <1>7 DEF Open, OpenStep, Bind, Register, BindFails
  <2>3. dispatcher \notin Before
    BY <2>2 DEF IInv, PortIsNew
  <2> QED
    BY <2>1, <2>3, KeepsWorlds
<1>8. CASE Threads \/ RetryOpen
  <2>1. UNCHANGED <<input, worlds, dispatcher>>
    BY <1>8 DEF Threads, RetryOpen
  <2>2. listening' \subseteq listening
    BY <1>8 DEF Threads, ThreadStep, ThreadsEnd, ConnectionEnds, Complete, HandleAccepted,
       HandleFailed, Close, RetryOpen, Retry, portVars
  <2> QED
    BY <2>1, <2>2, KeepsWorlds DEF WorldsAreLoaded
<1> QED
  BY <1>1, <1>2, <1>3, <1>4, <1>5, <1>6, <1>7, <1>8 DEF Next, OtloginStep

\* When the port listens, worldList has exactly the ids of worlds.json, and for each the
\* first world of the file that has it, however many entries the file has and
\* whatever their ids wrap to: loadFromJson's loop skips every later duplicate.
THEOREM WorldsAreFirst == Spec => []FirstWorldWins
<1>1. IInv /\ WorldsAreLoaded /\ [Next]_vars => WorldsAreLoaded'
  BY StepKeepsWorlds
<1>2. WorldsAreLoaded => FirstWorldWins
  <2> SUFFICES ASSUME WorldsAreLoaded, listening # {} PROVE FirstWorldWins
    BY DEF FirstWorldWins
  <2> DEFINE entries == input.worlds.entries
             positions == {i \in DOMAIN entries : IsWorld(entries[i])}
             All == {entries[i] : i \in DOMAIN entries}
  <2>1. entries \in Seq(All)
    BY InputsAssumption, Zenon DEF WorldsAreLoaded
  <2> HIDE DEF entries, All
  <2>2. DOMAIN entries = 1..Len(entries) /\ Len(entries) \in Nat
    BY <2>1
  <2>3. worlds = FirstOnes(entries, Len(entries))
    <3>1. worlds = WorldList(entries)
      BY DEF WorldsAreLoaded, Unloaded, Before, entries
    <3> QED
      BY <2>1, <3>1, WorldListIsFirstOnes
  <2>4. DOMAIN worlds = {WorldId(entries[i]) : i \in positions}
    BY <2>2, <2>3 DEF FirstOnes, IdsUpTo
  <2>5. ASSUME NEW i \in positions,
               \A j \in positions : WorldId(entries[j]) = WorldId(entries[i]) => i <= j
        PROVE  worlds[WorldId(entries[i])] = entries[i].world
    <3>1. i \in 1..Len(entries) /\ IsFirst(entries, i, WorldId(entries[i]))
      BY <2>2, <2>5 DEF IsFirst, HasId
    <3>2. FirstWith(entries, WorldId(entries[i])) = i
      BY <2>1, <3>1, FirstIsUnique
    <3>3. WorldId(entries[i]) \in IdsUpTo(entries, Len(entries))
      BY <2>2 DEF IdsUpTo
    <3> QED
      BY <2>3, <3>2, <3>3 DEF FirstOnes
  <2> QED
    BY <2>4, <2>5, Zenon DEF FirstWorldWins, entries
<1> QED
  BY InitLoaded, StartupInvariance, <1>1, <1>2, PTL DEF Spec
=============================================================================
