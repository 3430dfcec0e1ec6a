------------------------------ MODULE SlotPool ------------------------------
(***************************************************************************)
(* What the connection pool of a worker promises its users: a slot is      *)
(* handed out to one user at a time and comes back once.                   *)
(***************************************************************************)
CONSTANT Slots
VARIABLE used

Init == used = {}

Take(s) == s \notin used /\ used' = used \cup {s}
Give(s) == s \in used /\ used' = used \ {s}

Next == \E s \in Slots : Take(s) \/ Give(s)

Spec == Init /\ [][Next]_used
=============================================================================
