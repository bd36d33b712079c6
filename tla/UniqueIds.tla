----------------------------- MODULE UniqueIds ------------------------------
(***************************************************************************)
(* What ObservationId promises its callers (the doc of `fresh`): an        *)
(* identity is never reused within the process, and asking for one fails   *)
(* only when none is left.  Nothing is said of their order.                *)
(***************************************************************************)
CONSTANTS Callers, Ids, None

VARIABLES owner       \* id -> the caller it was issued to, or None

Init == owner = [i \in Ids |-> None]

Issue(c, i) == owner[i] = None /\ owner' = [owner EXCEPT ![i] = c]

Next == \E c \in Callers, i \in Ids : Issue(c, i)

Spec == Init /\ [][Next]_owner
=============================================================================
