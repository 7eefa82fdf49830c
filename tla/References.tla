----------------------------- MODULE References -----------------------------
(***************************************************************************)
(* References to variables (the & and * of the language).                   *)
(*                                                                         *)
(* A variable of a call frame may hold a reference to a variable of some    *)
(* frame, never to a register.  Assignments follow chains of references:    *)
(* the one that decides whether the new value is circular, the one that     *)
(* counts the object at the end of the new value, and the one that locks,   *)
(* discounts and unlocks the object at the end of the old value.            *)
(*                                                                         *)
(* A frame is pushed when its argument block is allocated, becomes active   *)
(* when the function is called, and is popped with the call.  The memory of *)
(* a popped frame keeps its contents until another frame takes its place.   *)
(* A behaviour ends at its first wild reference, a live variable that       *)
(* refers to a popped one: what the code reads there is not defined.        *)
(***************************************************************************)
EXTENDS Integers, FiniteSets, Sequences

CONSTANTS
  Registers,   \* the registers of the VM
  Args,        \* argument slots of a frame
  Locals,      \* local variable slots of a frame
  Objects,     \* reference counted objects
  Plain,       \* any value that is neither an object nor a reference
  MaxDepth,    \* bound: frames on the stack
  MaxCount     \* bound: no assignment takes a count beyond this, up or down

Vars == (1 .. MaxDepth) \X (Args \union Locals)
Slots == Registers \union Vars
Value == Objects \union Vars \union {Plain}

ASSUME ReferencesAssumption ==
  /\ Registers \cap Vars = {}
  /\ Objects \cap Vars = {}
  /\ Plain \notin Objects \union Vars
  /\ Args \cap Locals = {}
  /\ IsFiniteSet(Registers) /\ IsFiniteSet(Args) /\ IsFiniteSet(Locals)
  /\ MaxDepth \in Nat \ {0}
  /\ MaxCount \in Nat

VARIABLES
  frames,   \* per frame on the stack: "pending" until called, then "active"
  val,      \* what each register and each frame variable holds
  count,    \* object->reference_count
  moved     \* history: the end of some chain has been moved from under it

vars == <<frames, val, count, moved>>

Depth == Len(frames)
FrameVars(d) == {d} \X (Args \union Locals)
LiveVars == {s \in Vars : /\ s[1] <= Depth
                          /\ s[2] \in Args \/ frames[s[1]] = "active"}
LiveSlots == Registers \union LiveVars
PointsToLive(s) == val[s] \in Vars => val[s] \in LiveVars

\* The variables saved_argument_offset and local_var_offset lead to: those of
\* the topmost active frame.
OwnVars == {s \in Vars : /\ s[1] <= Depth
                         /\ frames[s[1]] = "active"
                         /\ \A e \in (s[1] + 1) .. Depth : frames[e] = "pending"}

\* A closed set of variables: a chain of references that enters it stays.
Closed(S) == \A s \in S : val[s] \in Vars => val[s] \in S

\* Mutant: only a reference straight back to v counts as circular.
CircularOneStep(v, x) == x = v

\* is_circular_reference: the chain that starts with value x reaches v.
Circular(v, x) ==
  /\ x \in Vars
  /\ \A S \in SUBSET Vars : x \in S /\ Closed(S) => v \in S

\* The value at the end of the chain that starts with x in memory w.
EndIn(w, x) ==
  LET hop[n \in 0 .. Cardinality(Vars)] ==
        IF n = 0 THEN x
        ELSE IF hop[n - 1] \in Vars THEN w[hop[n - 1]] ELSE hop[n - 1]
  IN hop[Cardinality(Vars)]

\* Mutant: an object at the end of a chain is not counted.
CountsDirectly(x, o) == IF x = o THEN 1 ELSE 0

\* 1 if the chain that starts with value x ends in object o.
Counts(x, o) == IF EndIn(val, x) = o THEN 1 ELSE 0

\* How many of the values at slots S end in object o.
CountedAt(S, o) == Cardinality({s \in S : EndIn(val, val[s]) = o})

Referenced(v) == \E s \in LiveSlots : val[s] = v

\* Storing x into v changes what a reference to v leads to.
MovesEnd(v, x) == Referenced(v) /\ EndIn(val, x) # EndIn(val, val[v])

CountsBounded == \A o \in Objects : count'[o] \in (-MaxCount) .. MaxCount

\* simplejs_variable_assign_ex without a parent: the new value is counted,
\* then the old one discounted, then the variable overwritten.
Assign(v, x) ==
  LET new == IF Circular(v, x) THEN Plain ELSE x IN
  /\ val' = [val EXCEPT ![v] = new]
  /\ moved' = (moved \/ MovesEnd(v, new))
  /\ count' = [o \in Objects |->
                 count[o] + Counts(new, o) - Counts(val[v], o)]
  /\ CountsBounded

Init ==
  /\ frames = <<"active">>
  /\ val = [s \in Slots |-> Plain]
  /\ count = [o \in Objects |-> 0]
  /\ moved = FALSE

-----------------------------------------------------------------------------
(* One action per opcode.                                                  *)

\* A constant, or an object fetched or created elsewhere, lands in r.
Load(r, x) ==
  /\ Depth > 0
  /\ Assign(r, x)
  /\ UNCHANGED frames

MovVar(out, in) ==
  /\ Depth > 0
  /\ Assign(out, val[in])
  /\ UNCHANGED frames

\* GET_LOC_VAR and GET_FUNC_ARG_VAR
GetVar(r, v) ==
  /\ v \in OwnVars
  /\ Assign(r, val[v])
  /\ UNCHANGED frames

\* SET_LOC_VAR and SET_FUNC_ARG_VAR
SetVar(r, v) ==
  /\ v \in OwnVars
  /\ Assign(v, val[r])
  /\ UNCHANGED frames

\* GET_LOC_VAR_REF and GET_FUNC_ARG_VAR_REF
GetVarRef(r, v) ==
  /\ v \in OwnVars
  /\ Assign(r, v)
  /\ UNCHANGED frames

\* The value goes through a temporary that takes and returns a reference.
GetRefVar(ref, out) ==
  /\ Depth > 0
  /\ Assign(out, IF val[ref] \in Vars THEN val[val[ref]] ELSE Plain)
  /\ UNCHANGED frames

\* is_safe_assign_mask: a reference to a variable of the running function is
\* stored only into another one of its variables.
SafeAssign(target, x) == x \in OwnVars => target \in OwnVars

SetRefVar(ref, in) ==
  /\ Depth > 0
  /\ val[ref] \in Vars
  /\ Assign(val[ref], IF SafeAssign(val[ref], val[in]) THEN val[in] ELSE Plain)
  /\ UNCHANGED frames

\* The header of the next call is cleared memory on top of the stack.
AllocArgs ==
  /\ 0 < Depth
  /\ Depth < MaxDepth
  /\ frames' = Append(frames, "pending")
  /\ val' = [s \in Slots |-> IF s \in {Depth + 1} \X Args THEN Plain ELSE val[s]]
  /\ UNCHANGED <<count, moved>>

SetCallArgVar(a, r) ==
  /\ Depth > 0
  /\ frames[Depth] = "pending"
  /\ Assign(<<Depth, a>>, val[r])
  /\ UNCHANGED frames

\* CALL, SAVE_ARG_OFFSET and ALLOC_VARS: the locals are cleared memory too.
Call ==
  /\ Depth > 0
  /\ frames[Depth] = "pending"
  /\ frames' = [frames EXCEPT ![Depth] = "active"]
  /\ val' = [s \in Slots |-> IF s \in {Depth} \X Locals THEN Plain ELSE val[s]]
  /\ UNCHANGED <<count, moved>>

\* SET_RETURN_VAR refuses references, so the register r of the caller gets
\* Plain instead; FREE_VARS and FREE_ARGS discount every variable of the frame.
ReturnValue(in) == IF val[in] \in Vars THEN Plain ELSE val[in]

Return(in, r) ==
  LET x == ReturnValue(in) IN
  /\ Depth > 1
  /\ frames[Depth] = "active"
  /\ frames' = SubSeq(frames, 1, Depth - 1)
  /\ val' = [val EXCEPT ![r] = x]
  /\ count' = [o \in Objects |->
                 count[o] + Counts(x, o) - Counts(val[r], o)
                          - CountedAt(FrameVars(Depth), o)]
  /\ CountsBounded
  /\ UNCHANGED moved

\* The main function returns and simplejs_reset_vm drops the registers.
Exit ==
  /\ Depth = 1
  /\ frames' = <<>>
  /\ val' = [s \in Slots |-> Plain]
  /\ count' = [o \in Objects |->
                 count[o] - CountedAt(Registers, o) - CountedAt(FrameVars(1), o)]
  /\ UNCHANGED moved

Opcode ==
  \/ \E r \in Registers, x \in Objects \union {Plain} : Load(r, x)
  \/ \E r, q \in Registers : MovVar(r, q) \/ GetRefVar(r, q) \/ SetRefVar(r, q)
  \/ \E r \in Registers, v \in Vars :
       GetVar(r, v) \/ SetVar(r, v) \/ GetVarRef(r, v)
  \/ \E a \in Args, r \in Registers : SetCallArgVar(a, r)
  \/ \E in, r \in Registers : Return(in, r)
  \/ AllocArgs \/ Call \/ Exit

NoWildReference == \A s \in LiveSlots : PointsToLive(s)

\* The program has exited, or what it does next is not defined.
Stopped ==
  /\ Depth = 0 \/ ~NoWildReference
  /\ UNCHANGED vars

Next == (NoWildReference /\ Opcode) \/ Stopped

Spec == Init /\ [][Next]_vars

-----------------------------------------------------------------------------
(* Properties.                                                             *)

\* No chain of references is circular, whatever is assigned through whatever
\* reference: is_circular_reference, simplejs_variable_reference_ex and the
\* lock functions always reach the end of the chain they follow.
Acyclic ==
  ~ \E S \in SUBSET Vars : S # {} /\ \A s \in S : val[s] \in S

\* Overwriting a variable does not change where the chain of its old value
\* ends, so assign_ex unlocks the very object it locked (the last drop of the
\* registers, at exit, locks nothing).
UnlocksWhatItLocked ==
  [][\A s \in LiveSlots \cap LiveSlots' :
       val'[s] # val[s] /\ Depth' > 0 =>
         EndIn(val', val[s]) = EndIn(val, val[s])]_vars

\* As long as no variable another one refers to is given a value with another
\* end, every object is counted once for each live variable or register whose
\* chain of references, of any length, ends in it, and not at all once the
\* program has exited: simplejs_variable_reference_ex and _dereference_ex walk
\* the same chains, through every assignment, call and return.
CountsExact ==
  ~moved => \A o \in Objects :
              count[o] = Cardinality({s \in LiveSlots : EndIn(val, val[s]) = o})
=============================================================================
