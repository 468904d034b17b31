----------------------------- MODULE ObjectPool -----------------------------
(***************************************************************************)
(* What a fixed-size object allocator promises its clients: an object is   *)
(* handed out to one client at a time, allocation fails exactly when every *)
(* object is out, and a free succeeds exactly for an object that is out.   *)
(* Nothing is said about which free object an allocation picks.            *)
(***************************************************************************)

CONSTANTS
    Object,    \* what the pool hands out
    Pointer,   \* what a client may pass to Free
    NULL       \* what a failed allocation returns

VARIABLES
    held,      \* the objects clients hold
    got,       \* what the last Allocate returned
    freed      \* what the last Free returned: 1 done, 0 refused

vars == <<held, got, freed>>

Init ==
    /\ held = {}
    /\ got = NULL
    /\ freed = 0

Allocate ==
    /\ \/ \E o \in Object \ held : /\ got' = o
                                   /\ held' = held \cup {o}
       \/ /\ held = Object
          /\ got' = NULL
          /\ UNCHANGED held
    /\ UNCHANGED freed

Free(p) ==
    /\ held' = held \ {p}
    /\ freed' = IF p \in held THEN 1 ELSE 0
    /\ UNCHANGED got

Next == Allocate \/ \E p \in Pointer : Free(p)

Spec == Init /\ [][Next]_vars
=============================================================================
