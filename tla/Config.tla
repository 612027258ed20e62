------------------------------- MODULE Config -------------------------------
(* ConfigManager: what load() makes of the command line and config.json. A    *)
(* configuration holds the settings the startup depends on; the others, the   *)
(* message of the day too, are values that load() copies or sets to a default *)
(* and that end up in an answer.                                              *)
EXTENDS Integers

CONSTANT PortRange   \* 2^16: the port is cast to uint16_t

ASSUME PortRangeAssumption == PortRange \in Nat \ {0}

\* listenAddr: an empty one has no colon, and the parse then keeps 0.0.0.0 and 7171.
Listen == [colon : BOOLEAN, host : {"valid", "invalid"}, port : Int]
NoListen == [colon |-> FALSE, host |-> "valid", port |-> 0]

\* config.json. "valid": it is there, parses and holds an object.
File ==
    [valid : BOOLEAN, legacy : BOOLEAN, daemonize : BOOLEAN, rsa : {"absent", "valid", "invalid"},
     listen : Listen, serviceThreads : Int, discord : BOOLEAN]

\* The zero-initialised global with --daemon from the command line.
Initial(daemonFlag) ==
    [daemonize |-> daemonFlag, rsa |-> "invalid", listen |-> NoListen,
     serviceThreads |-> 0, discord |-> FALSE]

\* With a legacy section every setting is read or set to its default, "daemonize" too.
LegacySettings(conf, file) ==
    [conf EXCEPT !.daemonize = file.daemonize,
                 !.rsa = IF file.rsa = "absent" THEN "valid" ELSE file.rsa,
                 !.listen = file.listen,
                 !.serviceThreads = file.serviceThreads]

\* "No legacy section -- use defaults": not of the RSA keys, the address and "daemonize".
DefaultSettings(conf) == [conf EXCEPT !.serviceThreads = 1]

\* load() up to its call of reloadMotd.
Load(conf, file) ==
    [IF file.legacy THEN LegacySettings(conf, file) ELSE DefaultSettings(conf)
        EXCEPT !.discord = file.discord]

\* otlogin's parse of listenAddr.
BindPort(listen) == IF listen.colon THEN listen.port % PortRange ELSE 7171
=============================================================================
