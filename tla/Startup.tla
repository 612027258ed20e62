------------------------------ MODULE Startup -------------------------------
(* How the server comes up and what keeps it up: main(), the task otlogin()   *)
(* that main hands to the dispatcher, the configuration, the worlds, the      *)
(* listening port and the repeated fetch of the message of the day. main      *)
(* waits for g_loaderSignal without a condition, so a notification that comes *)
(* too early is lost and a spurious wake-up counts as one.                    *)
(*                                                                            *)
(* fork() is called on the dispatcher's thread: the child has that thread     *)
(* only, and the model follows the child. exit() runs on the dispatcher's     *)
(* thread as well and destroys g_loaderSignal; while main waits on it that is *)
(* undefined, and the process ends or hangs.                                  *)
EXTENDS Config, Worlds, ServicePort

CONSTANT Inputs   \* [config, worlds]: the contents config.json and worlds.json may have

\* The entries of worlds.json are those of a JSON array.
ASSUME InputsAssumption ==
    \A f \in Inputs : LET entries == f.worlds.entries
                      IN  entries \in Seq({entries[i] : i \in DOMAIN entries})

VARIABLES
    process,    \* the process: up, exited, or hung in exit()
    main,       \* main()
    dispatcher, \* the dispatcher's thread: a step of otlogin, or a later task
    input,      \* the files
    conf,       \* g_config
    worlds,     \* worldList
    motdEvent,  \* motdReloadTask is in the scheduler
    woken       \* history: main was woken without a notification

files == <<input, conf, worlds>>
vars == <<process, main, dispatcher, files, motdEvent, woken, port>>

-----------------------------------------------------------------------------
\* The steps of otlogin(), then "idle", and "reload" in motdReloadTask.
OtloginSteps ==
    {"superuser", "config", "motd", "daemonize", "rsa", "database", "worlds", "schedule",
     "bind", "open", "service", "notify"}

TypeOK ==
    /\ process \in {"up", "exited", "hung"}
    /\ main \in {"start", "enter", "wait", "sleep", "run", "serve", "exit", "none"}
    /\ dispatcher \in {"none", "error", "idle", "reload"} \cup OtloginSteps
    /\ motdEvent \in BOOLEAN /\ woken \in BOOLEAN
    /\ PortTypeOK

Init ==
    /\ process = "up" /\ main = "start" /\ dispatcher = "none"
    /\ input \in Inputs
    /\ \E daemonFlag \in BOOLEAN : conf = Initial(daemonFlag)
    /\ worlds = NoWorlds
    /\ motdEvent = FALSE /\ woken = FALSE
    /\ PortInit

-----------------------------------------------------------------------------
(* main()                                                                     *)

Main(from, to) == process = "up" /\ main = from /\ main' = to

\* addTask(otlogin)
AddOtlogin ==
    /\ Main("start", "enter")
    /\ dispatcher' = "superuser"
    /\ UNCHANGED <<process, files, motdEvent, woken, port>>

EnterWait ==
    /\ Main("enter", "wait")
    /\ UNCHANGED <<process, dispatcher, files, motdEvent, woken, port>>

SpuriousWakeup ==
    /\ Main("wait", "sleep")
    /\ woken' = TRUE
    /\ UNCHANGED <<process, dispatcher, files, motdEvent, port>>

\* A second later: isRunning() asks whether a port was added.
IsRunning ==
    /\ process = "up" /\ main = "sleep"
    /\ main' = IF added THEN "run" ELSE "exit"
    /\ UNCHANGED <<process, dispatcher, files, motdEvent, woken, port>>

\* ServiceManager::run starts the threads, ...
RunServices ==
    /\ Main("run", "serve")
    /\ RunThreads(conf.serviceThreads)
    /\ UNCHANGED <<process, dispatcher, files, motdEvent, woken>>

\* ... and joins them. Dispatcher::exit then joins a thread that never ends: the calls
\* that follow it are not reached.
ServicesEnd ==
    /\ Main("serve", "exit")
    /\ threads = "ended"
    /\ UNCHANGED <<process, dispatcher, files, motdEvent, woken, port>>

-----------------------------------------------------------------------------
(* otlogin(), on the dispatcher's thread                                      *)

Otlogin(from, to) == process = "up" /\ dispatcher = from /\ dispatcher' = to

\* startupErrorMessage waits for a key first.
Fails(from) ==
    /\ Otlogin(from, "error")
    /\ UNCHANGED <<process, main, files, motdEvent, woken, port>>

\* exit(): g_loaderSignal is destroyed while main may be waiting on it.
Exit == process' \in IF main = "wait" THEN {"exited", "hung"} ELSE {"exited"}

KeyPressed ==
    /\ process = "up" /\ dispatcher = "error"
    /\ Exit
    /\ UNCHANGED <<main, dispatcher, files, motdEvent, woken, port>>

\* A super user is asked whether to go on.
CheckSuperUser ==
    \/ Fails("superuser")
    \/ /\ Otlogin("superuser", "config")
       /\ UNCHANGED <<process, main, files, motdEvent, woken, port>>

\* g_config.load, whose last act is reloadMotd.
LoadConfig ==
    \/ ~input.config.valid /\ Fails("config")
    \/ /\ input.config.valid
       /\ Otlogin("config", "motd")
       /\ conf' = Load(conf, input.config)
       /\ UNCHANGED <<process, main, input, worlds, motdEvent, woken, port>>

\* reloadMotd returns at once without a bot token; otherwise its HTTP request has no
\* timeout and may never end. The text it sets is not modelled.
ReloadMotd(from, to, discord) ==
    /\ Otlogin(from, to)
    /\ conf.discord = discord
    /\ UNCHANGED <<process, main, files, woken, port>>

FirstMotdSkipped == ReloadMotd("motd", "daemonize", FALSE) /\ UNCHANGED motdEvent
FirstMotdFetched == ReloadMotd("motd", "daemonize", TRUE) /\ UNCHANGED motdEvent

\* fork(): the parent exits. In the child the other threads do not exist. A fork() that
\* fails returns -1, which is taken for the parent's answer. The logs, the run file,
\* the priority and the encryption type follow.
Daemonize ==
    \/ /\ ~conf.daemonize
       /\ Otlogin("daemonize", "rsa")
       /\ UNCHANGED <<process, main, files, motdEvent, woken, port>>
    \/ /\ conf.daemonize
       /\ Otlogin("daemonize", "rsa")
       /\ main' = "none"
       /\ UNCHANGED <<process, files, motdEvent, woken, port>>
    \/ /\ conf.daemonize
       /\ process = "up" /\ dispatcher = "daemonize"
       /\ Exit
       /\ UNCHANGED <<main, dispatcher, files, motdEvent, woken, port>>

\* RSA_check_key
CheckKey ==
    \/ conf.rsa # "valid" /\ Fails("rsa")
    \/ /\ conf.rsa = "valid"
       /\ Otlogin("rsa", "database")
       /\ UNCHANGED <<process, main, files, motdEvent, woken, port>>

\* Database::local connects; then startWorkers(2), see Workers.
ConnectDatabase ==
    \/ Fails("database")
    \/ /\ Otlogin("database", "worlds")
       /\ UNCHANGED <<process, main, files, motdEvent, woken, port>>

\* An empty array is a list of worlds too.
LoadWorlds ==
    \/ ~input.worlds.valid /\ Fails("worlds")
    \/ /\ input.worlds.valid
       /\ Otlogin("worlds", "schedule")
       /\ worlds' = WorldList(input.worlds.entries)
       /\ UNCHANGED <<process, main, input, conf, motdEvent, woken, port>>

\* The premium update, see Login, and the first motdReloadTask.
ScheduleMotdAndNotify ==
    /\ Otlogin("schedule", "bind")
    /\ motdEvent' = TRUE
    /\ main' = IF main = "wait" THEN "sleep" ELSE main
    /\ UNCHANGED <<process, files, woken, port>>
ScheduleMotd ==
    /\ Otlogin("schedule", "bind")
    /\ motdEvent' = TRUE
    /\ UNCHANGED <<process, main, files, woken, port>>

\* The address is parsed and the service added; add() refuses port 0.
BindServices ==
    LET listen == conf.listen
        hostIsValid == listen.colon => listen.host = "valid"
    IN  \/ ~hostIsValid /\ Fails("bind")
        \/ /\ hostIsValid /\ BindPort(listen) = 0
           /\ Otlogin("bind", "notify")
           /\ UNCHANGED <<process, main, files, motdEvent, woken, port>>
        \/ /\ hostIsValid /\ BindPort(listen) # 0
           /\ Otlogin("bind", "open")
           /\ OpenPort
           /\ UNCHANGED <<process, main, files, motdEvent, woken>>

\* open() has returned.
AddPortToManager ==
    /\ opening = IdleOpen
    /\ Otlogin("open", "service")
    /\ AddPort
    /\ UNCHANGED <<process, main, files, motdEvent, woken, portVars, pendingStart, logError,
                   opening, retries, created, threads, connections, hasService>>

AddServiceToPort ==
    /\ Otlogin("service", "notify")
    /\ AddService
    /\ UNCHANGED <<process, main, files, motdEvent, woken, portVars, pendingStart, logError,
                   opening, retries, created, threads, connections, added>>

\* g_loaderSignal.notify_all
NotifyIfAdded == main' = IF main = "wait" /\ added THEN "sleep" ELSE main
Notify == main' = IF main = "wait" THEN "sleep" ELSE main

NotifyMain ==
    /\ Otlogin("notify", "idle")
    /\ Notify
    /\ UNCHANGED <<process, files, motdEvent, woken, port>>

-----------------------------------------------------------------------------
(* The dispatcher's tasks after the startup.                                  *)

\* motdReloadTask, sixty seconds later: reloadMotd, then the next event.
StartReload ==
    /\ motdEvent /\ opening = IdleOpen
    /\ Otlogin("idle", "reload")
    /\ motdEvent' = FALSE
    /\ UNCHANGED <<process, main, files, woken, port>>

ReloadSkipped == ReloadMotd("reload", "idle", FALSE) /\ motdEvent' = TRUE
ReloadFetched == ReloadMotd("reload", "idle", TRUE) /\ motdEvent' = TRUE

\* Retry enters open(), which the dispatcher leaves before it takes another task.
RetryOpen ==
    /\ process = "up" /\ dispatcher = "idle"
    /\ Retry
    /\ UNCHANGED <<process, main, dispatcher, files, motdEvent, woken>>

Open ==
    /\ process = "up"
    /\ OpenStep
    /\ UNCHANGED <<process, main, dispatcher, files, motdEvent, woken>>

Threads ==
    /\ process = "up"
    /\ ThreadStep
    /\ UNCHANGED <<process, main, dispatcher, files, motdEvent, woken>>

-----------------------------------------------------------------------------
MainStep == AddOtlogin \/ EnterWait \/ IsRunning \/ RunServices \/ ServicesEnd

OtloginStep ==
    \/ CheckSuperUser \/ LoadConfig \/ FirstMotdSkipped \/ Daemonize \/ CheckKey
    \/ ConnectDatabase \/ LoadWorlds \/ ScheduleMotd \/ BindServices
    \/ AddPortToManager \/ AddServiceToPort \/ NotifyMain

Next ==
    \/ MainStep \/ SpuriousWakeup
    \/ OtloginStep \/ FirstMotdFetched \/ KeyPressed
    \/ StartReload \/ ReloadSkipped \/ ReloadFetched \/ RetryOpen \/ Open \/ Threads

Spec == Init /\ [][Next]_vars

(* The threads run on, and a task that is due is taken; nobody promises that  *)
(* a key is pressed, that a fetch ends, that clients come or that accepts     *)
(* fail.                                                                      *)
Fairness ==
    /\ WF_vars(MainStep)
    /\ WF_vars(OtloginStep \/ ReloadSkipped \/ Open)
    /\ SF_vars(RetryOpen)

FairSpec == Spec /\ Fairness

-----------------------------------------------------------------------------
(* Properties; see ServicePort for OneReopening.                              *)

\* The port is not forgotten: until a bind has failed once (m_logError), whenever no
\* accept is outstanding a handler or a reopening is. A client that is accepted before
\* otlogin has added the service would silence it; that takes a spurious wake-up.
NotForgotten ==
    logError /\ hasService /\ ~woken /\ opening.pc = "idle" /\ accepting = {} /\ ready = {}
        => retries # <<>>

\* main gives the server up as offline only when it was woken too early or no port was
\* configured: an address that cannot be bound yet is waited for.
OfflineIsExplained ==
    main = "exit" /\ threads = "none" => woken \/ BindPort(conf.listen) = 0

\* The service threads start when otlogin has done all it had to do, unless a spurious
\* wake-up has told main otherwise: no handler meets a port without its service.
OnlineIsReady ==
    threads = "running" /\ ~woken => hasService /\ dispatcher \in {"idle", "reload"}

\* worldList has every id of the file, each with the first world that has it: later
\* duplicates, also of an id that wraps, change nothing.
FirstWorldWins ==
    LET entries == input.worlds.entries
        positions == {i \in DOMAIN entries : IsWorld(entries[i])}
    IN  listening # {} =>
          /\ DOMAIN worlds = {WorldId(entries[i]) : i \in positions}
          /\ \A i \in positions :
               (\A j \in positions : WorldId(entries[j]) = WorldId(entries[i]) => i <= j)
                 => worlds[WorldId(entries[i])] = entries[i].world

\* main is told the end of the startup if it waits in time: it serves or gives up,
\* unless the process ends, asks for a key, is forked, or the first fetch hangs.
StartupEnds ==
    (main = "wait" /\ dispatcher = "superuser") ~>
        \/ main \in {"serve", "exit", "none"}
        \/ process # "up" \/ dispatcher = "error"
        \/ [](dispatcher = "motd")

\* A reopening that was scheduled is tried, unless a fetch of the message of the day
\* holds the dispatcher for ever.
ReopeningIsTried ==
    retries # <<>> ~>
        opening.pc = "bind" \/ process # "up" \/ [](dispatcher = "reload")

\* main() says "server Online!" and runs the service threads: a port that accepts is
\* served by them.
OpenPortIsServed == accepting # {} => threads # "ended"

\* "--daemon, -d  Run as daemon.": the forked server serves, or ends.
DaemonServes ==
    main = "none" ~> threads = "running" \/ process # "up" \/ dispatcher = "error"
=============================================================================
