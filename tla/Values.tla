------------------------------- MODULE Values -------------------------------
(***************************************************************************)
(* What compiled expressions compute.                                      *)
(*                                                                         *)
(* An expression is compiled to instructions that keep its intermediate    *)
(* values in registers with fixed roles, on the stack only where the       *)
(* compiler saves them.  Here the VM executes the instructions of one      *)
(* expression, and what it leaves in the variables, the objects and the     *)
(* result register is compared with what the tree means.                   *)
(*                                                                         *)
(* The frame is one function with its locals and its "this".  A function of *)
(* the program that it calls may use every register, one of a plugin uses   *)
(* none.  The super of a call is left out.                                  *)
(***************************************************************************)
EXTENDS Compiler, Meaning, SequencesExt

CONSTANTS
  Trees,      \* the expressions
  Locals,     \* what the local variables hold before, one value each
  Properties  \* what the objects hold before: values of pairs of object and name

VARIABLES
  tree,      \* the expression
  program,   \* its instructions
  ip,        \* instruction_pointer
  register,  \* state.variables: the registers
  stack,     \* saved registers, contexts and headers of calls
  store,     \* the local variables and the properties of the objects
  mode       \* running, done or crashed

vars == <<tree, program, ip, register, stack, store, mode>>

Registers ==
  {"assign_a", "assign_b", "assign_c", "op_a", "op_b", "property", "property_b",
   "argument", "this", "super", "function", "class", "parent"}

\* What a register holds that the expression has not written.
Stale == Value("stale", 0)

-----------------------------------------------------------------------------
(* The instructions.                                                        *)

Executes(op) == mode = "running" /\ ip <= Len(program) /\ program[ip].op = op
I == program[ip]
Step == ip' = ip + 1 /\ UNCHANGED <<tree, program, mode>>
Crash == mode' = "crashed" /\ UNCHANGED <<tree, program, ip, register, stack, store>>

\* The register is given a value; nothing else changes.
Assign(r, v) == register' = [register EXCEPT ![r] = v] /\ UNCHANGED <<stack, store>> /\ Step

Load == Executes("load") /\ Assign(I.r, Value(I.q, I.n))
InitVar == Executes("init") /\ Assign(I.r, Undefined)
MovVar == Executes("mov") /\ Assign(I.r, register[I.q])
GetThis == Executes("get_this") /\ Assign(I.r, This)
GetLoc == Executes("get_loc") /\ Assign(I.r, GetLocal(I.n, store))
GetLocRef == Executes("get_loc_ref") /\ Assign(I.r, Value("reference", I.n))

SetLoc ==
  /\ Executes("set_loc")
  /\ store' = SetLocal(I.n, register[I.r], store)
  /\ UNCHANGED <<register, stack>>
  /\ Step

GetRef ==
  /\ Executes("get_ref")
  /\ Assign(I.q, IF register[I.r].t = "reference" THEN GetLocal(register[I.r].n, store) ELSE Undefined)

\* Every reference is to a variable of the running function, so the scope test
\* of is_safe_assign_mask always passes.
SetRef ==
  /\ Executes("set_ref")
  /\ store' = IF register[I.r].t = "reference" THEN SetLocal(register[I.r].n, register[I.q], store) ELSE store
  /\ UNCHANGED <<register, stack>>
  /\ Step

AluVar ==
  /\ Executes("alu")
  /\ \/ I.q = "step" /\ Assign(I.r, Increment(register[I.r]))
     \/ I.q = "unary" /\ Assign(I.r, Negate(register[I.r]))
     \/ I.q = "op_b" /\ Assign(I.out, Binary(I.n, register[I.r], register[I.q]))

ConvertBoolean == Executes("convert_boolean") /\ Assign(I.r, Boolean(register[I.q]))

JumpIf ==
  /\ mode = "running"
  /\ ip <= Len(program)
  /\ \/ I.op = "jmp_if_zero" /\ ip' = ip + 1 + (IF IsTrue(register[I.r]) THEN 0 ELSE I.n)
     \/ I.op = "jmp_if_not_zero" /\ ip' = ip + 1 + (IF IsTrue(register[I.r]) THEN I.n ELSE 0)
  /\ UNCHANGED <<tree, program, register, stack, store, mode>>

\* simplejs_std_object_check
HasObject == register[I.r].t = "object"
Pair == <<register[I.r].n, register[I.q]>>

GetProp == Executes("get_prop") /\ HasObject /\ Assign(I.out, Get(Pair, store))

SetProp ==
  /\ \/ Executes("set_prop") /\ HasObject /\ store' = Set(Pair, register[I.out], store)
     \/ Executes("delete_prop") /\ HasObject /\ store' = Delete(Pair, store)
  /\ UNCHANGED <<register, stack>>
  /\ Step

NoObject ==
  /\ \E op \in {"get_prop", "set_prop", "delete_prop"} : Executes(op)
  /\ ~HasObject
  /\ Crash

Block(kind) == [kind |-> kind, v |-> Undefined, ret |-> "", args |-> <<>>, this |-> Undefined]
Top == Last(stack)
Push(b) == stack' = Append(stack, b) /\ UNCHANGED <<register, store>> /\ Step
SetTop(b) == stack' = Append(Front(stack), b) /\ UNCHANGED <<register, store>> /\ Step

SaveVar == Executes("save_var") /\ Push([Block("var") EXCEPT !.v = register[I.r]])
SaveCtx == Executes("save_ctx") /\ Push(Block("ctx"))
AllocArgs ==
  /\ Executes("alloc_args")
  /\ Push([Block("header") EXCEPT !.ret = I.r, !.args = [k \in 1 .. I.n |-> Undefined]])

SetCallArg == Executes("set_call_arg") /\ SetTop([Top EXCEPT !.args[I.n + 1] = register[I.r]])
SetCallThis == Executes("set_call_this") /\ SetTop([Top EXCEPT !.this = register[I.r]])
SetCallSuper == Executes("set_call_super") /\ SetTop(Top)

\* The number of a function tells one of the program, 0, from one of a plugin.
Call ==
  /\ Executes("call")
  /\ register[I.r].t = "function"
  /\ stack' = Append(Front(stack), [Top EXCEPT !.v = Returned(Top.args, Top.this, store)])
  /\ store' = CallCounted(store)
  /\ register' = IF register[I.r].n = 0 THEN [r \in Registers |-> Stale] ELSE register
  /\ Step

NoFunction == Executes("call") /\ register[I.r].t # "function" /\ Crash

RestoreVar ==
  /\ Executes("restore_var")
  /\ register' = [register EXCEPT ![I.r] = Top.v]
  /\ stack' = Front(stack)
  /\ UNCHANGED store
  /\ Step

FreeArgs ==
  /\ Executes("free_args")
  /\ register' = [register EXCEPT ![Top.ret] = Top.v]
  /\ stack' = Front(stack)
  /\ UNCHANGED store
  /\ Step

RestoreCtx == Executes("restore_ctx") /\ stack' = Front(stack) /\ UNCHANGED <<register, store>> /\ Step

Finish ==
  /\ mode = "running"
  /\ ip > Len(program)
  /\ mode' = "done"
  /\ UNCHANGED <<tree, program, ip, register, stack, store>>

Start == [loc |-> Locals, prop |-> Properties]

Init ==
  /\ tree \in Trees
  /\ program = Evaluate(tree)
  /\ ip = 1
  /\ register = [r \in Registers |-> Stale]
  /\ stack = <<>>
  /\ store = Start
  /\ mode = "running"

Next ==
  \/ Load \/ InitVar \/ MovVar \/ GetThis \/ GetLoc \/ SetLoc \/ GetLocRef \/ GetRef \/ SetRef
  \/ AluVar \/ ConvertBoolean \/ JumpIf \/ GetProp \/ SetProp \/ NoObject
  \/ SaveVar \/ RestoreVar \/ SaveCtx \/ RestoreCtx
  \/ AllocArgs \/ SetCallArg \/ SetCallThis \/ SetCallSuper \/ Call \/ NoFunction \/ FreeArgs
  \/ Finish

Spec == Init /\ [][Next]_vars
-----------------------------------------------------------------------------
(* Which expressions are kept: a register still holds what was left in it    *)
(* when it is read.                                                         *)

RECURSIVE Has(_, _)
Has(s, types) == s.t \in types \/ \E i \in DOMAIN s.c : Has(s.c[i], types)

Writing == {"call", "assign", "op_assign", "step", "delete"}
Operating == Writing \union {"unary", "binary", "and", "or"}

RECURSIVE Kept(_, _, _, _)

\* A place whose object goes to register r.  The name waits in a register of
\* its own, property or property_b, which the object must not be loaded to.
KeptPlace(s, r, sub) ==
  CASE s.t = "loc" -> TRUE
    [] s.t = "dereference" -> Kept(s.c[1], r, FALSE, TRUE)
    [] s.t = "property" ->
         LET property == IF sub THEN "property_b" ELSE "property"
         IN /\ property # r
            /\ Kept(s.c[2], property, ~sub, TRUE)
            /\ Kept(s.c[1], r, FALSE, TRUE)

\* ++ and --.  The object is loaded to r before the new value is written from
\* op_a: so r is not op_a, and the old value is not kept in r.
KeptStep(s, r, sub, used) ==
  LET place == s.c[1]
      postfix == s.n = 1
  IN /\ KeptPlace(place, "op_a", ~sub)
     /\ KeptPlace(place, r, FALSE)
     /\ IF place.t = "loc" THEN ~(used /\ postfix /\ r = "op_a")
        ELSE /\ r # "op_a"
             /\ ~(used /\ postfix)
             /\ ~Has(place, Operating)

\* An operation and assignment.  The name is evaluated again before the value
\* is written from r.
KeptOpAssign(s, r) ==
  LET place == s.c[1].c[1]
      right == s.c[1].c[2]
  IN /\ KeptPlace(place, "parent", TRUE)
     /\ Kept(right, "op_b", TRUE, TRUE)
     /\ place.t = "property" =>
          /\ r # "property"
          /\ Kept(place.c[2], "property", TRUE, TRUE)
          /\ ~Has(place.c[2], Writing)
          /\ Has(place.c[2], {"loc", "property"}) => ~Has(place.c[1], Writing) /\ ~Has(right, Writing)
          /\ r = "assign_a" \/ place.c[2].c = <<>>

\* The tree s, evaluated to register r with is_sub_op sub, has its meaning: its
\* effects, and the value in r where it is used.
Kept(s, r, sub, used) ==
  CASE s.t \in {"loc", "property", "dereference"} -> KeptPlace(s, r, sub)
    [] s.t = "delete" -> ~used /\ KeptPlace(s.c[1], r, FALSE)
    [] s.t = "unary" -> Kept(s.c[1], r, FALSE, TRUE)
    [] s.t = "binary" -> Kept(s.c[1], "op_a", ~sub, TRUE) /\ Kept(s.c[2], "op_b", ~sub, TRUE)
    [] s.t \in {"and", "or"} ->
         Kept(s.c[1], "op_a", ~sub, TRUE) /\ Kept(s.c[2], "op_a", ~sub, TRUE)
    [] s.t = "comma" -> Kept(s.c[1], r, sub, FALSE) /\ Kept(s.c[2], r, sub, used)
    [] s.t = "step" -> KeptStep(s, r, sub, used)
    [] s.t = "op_assign" -> KeptOpAssign(s, r)
    [] s.t = "assign" ->  \* the value is left in assign_b, which a call overwrites
         /\ ~used
         /\ Kept(s.c[2], "assign_b", FALSE, TRUE)
         /\ KeptPlace(s.c[1], r, FALSE)
         /\ ~Has(s.c[1], {"call", "assign"})
    [] s.t = "call" ->
         LET function == s.c[1]
         IN /\ \A i \in 2 .. Len(s.c) : Kept(s.c[i], "argument", FALSE, TRUE)
            /\ IF function.t = "property" THEN KeptPlace(function, "this", FALSE)
               ELSE Kept(function, "function", FALSE, TRUE) /\ ~Has(function, {"call"})
    [] OTHER -> TRUE

\* Where the compiler evaluates a statement and a condition.
KeptStatement(s) == Kept(s, "assign_a", FALSE, FALSE)
KeptCondition(s) == Kept(s, "assign_a", FALSE, TRUE)

-----------------------------------------------------------------------------
(* Properties.                                                             *)

=============================================================================
