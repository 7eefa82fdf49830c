------------------------------ MODULE Allocator ------------------------------
(***************************************************************************)
(* What an allocator promises: the blocks it has handed out and not taken   *)
(* back share no unit of memory.                                            *)
(***************************************************************************)
CONSTANT Units

VARIABLE blocks    \* the sets of units in use

Init == blocks = {}

Allocate(b) ==
  /\ b \subseteq Units /\ b # {}
  /\ b \cap UNION blocks = {}
  /\ blocks' = blocks \union {b}

Free(b) ==
  /\ b \in blocks
  /\ blocks' = blocks \ {b}

Next ==
  \/ \E b \in blocks' \ blocks : Allocate(b)
  \/ \E b \in blocks : Free(b)

Spec == Init /\ [][Next]_blocks
=============================================================================
