----------------------------- MODULE AddressSpace ---------------------------
(***************************************************************************)
(* What a paging manager promises: a map from pages to entries, in which   *)
(* the kernel is mapped from the start, a page that is free is given its   *)
(* entry, and a page that is taken keeps it.  A request to map is answered *)
(* later, for the manager, the page and the entry it was made with.        *)
(***************************************************************************)
EXTENDS Integers

CONSTANTS
    Manager,
    VA,           \* virtual pages
    Entry,        \* what a page may be mapped to
    Invalid,      \* the entry of a page that is not mapped
    Kernel(_)     \* what a fresh manager maps a page to

VARIABLES
    space,              \* space[m][p]
    asked,              \* a request is being served ...
    who, page, entry,   \* ... the last one: map page of manager who to entry
    res                 \* the answer to the last request that was served

request == <<who, page, entry>>
vars == <<space, asked, request, res>>

Init ==
    /\ space = [m \in Manager |-> [p \in VA |-> Invalid]]
    /\ asked = FALSE
    /\ who \in Manager /\ page \in VA /\ entry \in Entry \cup {Invalid}
    /\ res = 0

Create(m) ==
    /\ ~ asked
    /\ space' = [space EXCEPT ![m] = [p \in VA |-> Kernel(p)]]
    /\ UNCHANGED <<asked, request, res>>

Ask(m, p, e) ==
    /\ ~ asked
    /\ asked' = TRUE
    /\ who' = m /\ page' = p /\ entry' = e
    /\ UNCHANGED <<space, res>>

\* The page asked for is free, or mapped to the very same entry.
Map ==
    /\ asked
    /\ space[who][page] \in {Invalid, entry}
    /\ space' = [space EXCEPT ![who][page] = entry]
    /\ asked' = FALSE
    /\ res' = 0
    /\ UNCHANGED request

\* The page asked for is taken.
Refuse ==
    /\ asked
    /\ space[who][page] \notin {Invalid, entry}
    /\ asked' = FALSE
    /\ res' = -1
    /\ UNCHANGED <<space, request>>

Next ==
    \/ \E m \in Manager : Create(m)
    \/ \E m \in Manager, p \in VA, e \in Entry : Ask(m, p, e)
    \/ Map \/ Refuse

Spec == Init /\ [][Next]_vars
=============================================================================
