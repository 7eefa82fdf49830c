---------------------------- MODULE MCAssembler ----------------------------
EXTENDS Assembler

CONSTANT Length

\* Every list of Length items whose jumps lead to labels of the list.
Items ==
  {Item("plain", c, 0) : c \in {1, 2}} \union {Item("label", 0, 0)}
  \union {Item("load", 1, t) : t \in {0, 3}}
  \union {Item("jump", 1, t) : t \in 1 .. Length}
AllPrograms ==
  {p \in [1 .. Length -> Items] :
     \A i \in 1 .. Length : p[i].kind = "jump" => p[p[i].target].kind = "label"}
=============================================================================
