-------------------------------- MODULE Pool --------------------------------
(***************************************************************************)
(* What a pool promises: a node that is handed out is not handed out again *)
(* before it is given back.                                                *)
(***************************************************************************)
CONSTANT Node

VARIABLES
    held,    \* nodes in use
    spare    \* nodes not in use

Init == held = {} /\ spare = Node

Allocate(n) == n \in spare /\ spare' = spare \ {n} /\ held' = held \cup {n}
Deallocate(n) == n \in held /\ held' = held \ {n} /\ spare' = spare \cup {n}

Next == \E n \in Node : Allocate(n) \/ Deallocate(n)

Spec == Init /\ [][Next]_<<held, spare>>
=============================================================================
