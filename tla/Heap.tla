-------------------------------- MODULE Heap --------------------------------
(***************************************************************************)
(* What the collector promises a program: variables hold objects, an        *)
(* object can be allocated and stored, and an object is taken back only     *)
(* when no chain of variables leads from a register to it.  There are no    *)
(* counts, links, locks or threads here.                                    *)
(***************************************************************************)
CONSTANTS Objects, Registers, Fields, Null

VARIABLES alive, value

Slots == Registers \union (Objects \X Fields)

\* A set of objects that no register points into and that no object outside
\* it points into: nothing in it can be reached.
Unreachable(S) ==
  /\ \A r \in Registers : value[r] \notin S
  /\ \A p \in alive \ S, f \in Fields : value[<<p, f>>] \notin S

Garbage(o) == \E S \in SUBSET Objects : o \in S /\ Unreachable(S)

Init ==
  /\ alive = {}
  /\ value = [s \in Slots |-> Null]

Allocate(o) ==
  /\ o \notin alive
  /\ alive' = alive \union {o}
  /\ UNCHANGED value

Write(s, v) ==
  /\ s \in Registers \/ s \in alive \X Fields
  /\ v \in alive \union {Null}
  /\ value' = [value EXCEPT ![s] = v]
  /\ UNCHANGED alive

Collect(o) ==
  /\ o \in alive
  /\ Garbage(o)
  /\ alive' = alive \ {o}
  /\ value' = [s \in Slots |-> IF s \in {o} \X Fields THEN Null ELSE value[s]]

Next ==
  \/ \E o \in Objects : Allocate(o) \/ Collect(o)
  \/ \E s \in Slots, v \in Objects \union {Null} : Write(s, v)

Spec == Init /\ [][Next]_<<alive, value>>
=============================================================================
