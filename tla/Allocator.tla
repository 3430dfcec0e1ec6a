----------------------------- MODULE Allocator -----------------------------
(***************************************************************************)
(* What an allocator promises: a block is handed out only while it         *)
(* overlaps no other block that is out, and it comes back once.            *)
(***************************************************************************)
CONSTANTS Blocks, Overlap(_, _)
VARIABLE live

Init == live = {}

Alloc(b) ==
    /\ \A c \in live : ~Overlap(b, c)
    /\ live' = live \cup {b}
Free(b) == b \in live /\ live' = live \ {b}

Next == \E b \in Blocks : Alloc(b) \/ Free(b)

Spec == Init /\ [][Next]_live
=============================================================================
