---------------------------- MODULE SessionLedger ----------------------------
(***************************************************************************)
(* What the supervisor of a service promises to the router about the       *)
(* session references it hands out: a reference is granted at most once at *)
(* a time, one at a time for a single-session service, it is given back    *)
(* once, and the supervisor may drop all of them together.                 *)
(***************************************************************************)
CONSTANTS Callers, Single
VARIABLE refs

Init == refs = {}

Acquire(s) == s \notin refs /\ (Single => refs = {}) /\ refs' = refs \cup {s}

Release(s) == s \in refs /\ refs' = refs \ {s}

Clear == refs' = {}

Next == Clear \/ \E s \in Callers : Acquire(s) \/ Release(s)

Spec == Init /\ [][Next]_refs
=============================================================================
