------------------------------ MODULE MCStartup -----------------------------
(* Startup for TLC: a plain configuration, and others that differ from it in  *)
(* one respect, each with the worlds that go with it.                         *)
EXTENDS Startup

Plain ==
    [valid |-> TRUE, legacy |-> TRUE, daemonize |-> FALSE, rsa |-> "absent",
     listen |-> [colon |-> TRUE, host |-> "valid", port |-> 7171], serviceThreads |-> 1,
     discord |-> FALSE]

Entry(id, world) == [object |-> TRUE, hasId |-> TRUE, id |-> id, world |-> world]
Nameless == [object |-> TRUE, hasId |-> FALSE, id |-> 0, world |-> "w"]
NoObject == [object |-> FALSE, hasId |-> FALSE, id |-> 0, world |-> "w"]

OneWorld == [valid |-> TRUE, entries |-> <<Entry(1, "a")>>]

\* Duplicates, also by the wrap of an id, and entries that are skipped.
Worldss ==
    {[valid |-> TRUE, entries |-> <<>>],
     [valid |-> FALSE, entries |-> <<>>],
     [valid |-> TRUE, entries |-> <<Entry(1, "a"), Nameless, Entry(2, "b"), Entry(1, "c")>>],
     [valid |-> TRUE, entries |-> <<NoObject, Entry(IdRange + 1, "a"), Entry(1, "b"), Entry(-1, "c")>>]}

MCPlainInput == {[config |-> Plain, worlds |-> OneWorld]}

MCInputs ==
    MCPlainInput
    \cup {[config |-> Plain, worlds |-> w] : w \in Worldss}
    \cup {[config |-> c, worlds |-> OneWorld] :
            c \in {[Plain EXCEPT !.valid = FALSE],
                  [Plain EXCEPT !.legacy = FALSE],
                  [Plain EXCEPT !.daemonize = TRUE],
                  [Plain EXCEPT !.rsa = "invalid"],
                  [Plain EXCEPT !.listen.host = "invalid"],
                  [Plain EXCEPT !.listen.port = PortRange],
                  [Plain EXCEPT !.listen.colon = FALSE],
                  [Plain EXCEPT !.serviceThreads = 0],
                  [Plain EXCEPT !.discord = TRUE]}}

MCDaemonInput == {[config |-> [Plain EXCEPT !.daemonize = TRUE], worlds |-> OneWorld]}
=============================================================================
