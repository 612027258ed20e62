--------------------------- MODULE CountedObject ---------------------------
(* What reference counting promises about the objects the threads of the      *)
(* server share by raw pointer: an object is used while it is live, is        *)
(* retired once, is handed to no new user from then on, and is freed only     *)
(* when the last user is gone. Connection implements it twice: for the        *)
(* Connection object and for its Protocol object.                             *)
EXTENDS Naturals

CONSTANT Objects

VARIABLES
    phase,   \* phase[o]: how far object o has come in its life
    refs     \* refs[o]: the users that hold o

vars == <<phase, refs>>

Init ==
    /\ phase = [o \in Objects |-> "unborn"]
    /\ refs = [o \in Objects |-> 0]

Create(o) ==
    /\ phase[o] = "unborn"
    /\ phase' = [phase EXCEPT ![o] = "live"]
    /\ UNCHANGED refs

\* A new user is admitted only while the object is live.
Acquire(o) ==
    /\ phase[o] = "live"
    /\ refs' = [refs EXCEPT ![o] = @ + 1]
    /\ UNCHANGED phase

CreateAcquired(o) ==
    /\ phase[o] = "unborn"
    /\ phase' = [phase EXCEPT ![o] = "live"]
    /\ refs' = [refs EXCEPT ![o] = @ + 1]

Release(o) ==
    /\ refs[o] > 0
    /\ refs' = [refs EXCEPT ![o] = @ - 1]
    /\ UNCHANGED phase

Retire(o) ==
    /\ phase[o] = "live"
    /\ phase' = [phase EXCEPT ![o] = "retired"]
    /\ UNCHANGED refs

\* Nobody may hold an object that is freed.
Free(o) ==
    /\ phase[o] \in {"live", "retired"}
    /\ refs[o] = 0
    /\ phase' = [phase EXCEPT ![o] = "freed"]
    /\ UNCHANGED refs

Next ==
    \E o \in Objects :
        Create(o) \/ Acquire(o) \/ CreateAcquired(o) \/ Release(o) \/ Retire(o) \/ Free(o)

Spec == Init /\ [][Next]_vars
=============================================================================
