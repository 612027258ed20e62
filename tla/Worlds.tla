------------------------------- MODULE Worlds -------------------------------
(* Worlds::loadFromJson. An entry of worlds.json is a record: whether it is   *)
(* an object and has an integer id, the id, and the world it describes, with  *)
(* the defaults of name, address and ports filled in. The world list is a     *)
(* function on ids.                                                           *)
EXTENDS Integers, Sequences

CONSTANT IdRange   \* 2^32: an id is cast to uint32_t

ASSUME IdRangeAssumption == IdRange \in Nat \ {0}

NoWorlds == [i \in {} |-> "none"]

IsWorld(entry) == entry.object /\ entry.hasId
WorldId(entry) == entry.id % IdRange

WithWorld(list, entry) ==
    [i \in DOMAIN list \cup {WorldId(entry)} |->
        IF i = WorldId(entry) THEN entry.world ELSE list[i]]

\* A duplicate id is skipped.
AddWorldAnew(list, entry) == IF IsWorld(entry) THEN WithWorld(list, entry) ELSE list
AddWorld(list, entry) ==
    IF IsWorld(entry) /\ WorldId(entry) \notin DOMAIN list THEN WithWorld(list, entry) ELSE list

\* The entries in the order of the file: the list after the first n of them.
WorldList(entries) ==
    LET upTo[n \in 0..Len(entries)] ==
            IF n = 0 THEN NoWorlds ELSE AddWorld(upTo[n - 1], entries[n])
    IN  upTo[Len(entries)]
=============================================================================
