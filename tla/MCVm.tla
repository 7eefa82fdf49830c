------------------------------- MODULE MCVm --------------------------------
(***************************************************************************)
(* The virtual machine on compiled code: it runs the program of MCVmStack,  *)
(* whose values are left out, or one expression, with its values.           *)
(*                                                                         *)
(* The expressions are those of two operators on a variable that holds an   *)
(* object, one that holds a number and a reference to it, and a few more.   *)
(* The object has a number in p, another object in q, a function of the     *)
(* program in m; the other object has a function of a plugin in m.          *)
(***************************************************************************)
EXTENDS MCVmStack, Meaning

CONSTANTS Trees, Locals, Properties

VARIABLES tree, program, at, register, saves, store, run  \* those of Values

valueVars == <<tree, program, at, register, saves, store, run>>
Machine == INSTANCE Values WITH ip <- at, stack <- saves, mode <- run

\* The machine that does not run has been reset, or has no expression.
MCInit ==
  \/ Init /\ tree = <<>> /\ program = <<>> /\ at = 0 /\ register = <<>> /\ saves = <<>>
          /\ store = <<>> /\ run = "none"
  \/ /\ mode = "reset" /\ ip = 0 /\ stack = <<>> /\ saved = 0 /\ arg = 0 /\ loc = 0
     /\ skip = NoSkips
     /\ Machine!Init

MCNext == (Next /\ UNCHANGED valueVars) \/ (Machine!Next /\ UNCHANGED vars)

MCSpec ==
  /\ MCInit
  /\ [][MCNext]_<<vars, valueVars>>
  /\ WF_<<vars, valueVars>>(Unwind /\ UNCHANGED valueVars)


-----------------------------------------------------------------------------
(* The expressions.                                                        *)

Plain(i) == Leaf("loc", i)
Name(n) == Leaf("string", n)
Dereference(e) == Node("dereference", 0, <<e>>)

\* var o = object 1, i = 2, r = &i, f = function
o == Plain(0)
i == Plain(1)
r == Plain(2)
f == Plain(3)
p == Name(0)
q == Name(1)
m == Name(2)

MCLocals == <<Value("object", 1), Value("number", 2), Value("reference", 1), Value("function", 0)>>
S(n) == Value("string", n)
MCProperties ==
  <<1, S(0)>> :> Value("number", 3) @@ <<1, S(1)>> :> Value("object", 2)
  @@ <<1, S(2)>> :> Value("function", 0) @@ <<1, S(3)>> :> Value("function", 1)
  @@ <<2, S(0)>> :> Value("number", 5) @@ <<2, S(1)>> :> Value("string", 0)
  @@ <<2, S(2)>> :> Value("function", 1)
MCCountedIn == <<1, S(0)>>

\* What is an object, a number or a name, and the places of numbers.
Objects0 == {o}
Numbers0 == {i, Leaf("number", 1)}
Names0 == {p}
Callees(O) == {f} \union {Property(a, m) : a \in O}

Places(O, N) == {i, Dereference(r)} \union {Property(a, n) : a \in O, n \in N}

Grow(O, X, N) ==
  {Node("binary", 1, <<a, b>>) : a \in X, b \in X}
  \union {Node("unary", 0, <<a>>) : a \in X}
  \union {Node(t, 0, <<a, b>>) : t \in {"and", "or", "comma"}, a \in X, b \in X}
  \union {Node("step", k, <<a>>) : k \in 0 .. 1, a \in Places(O, N)}
  \union {Node("assign", 0, <<a, b>>) : a \in Places(O, N), b \in X}
  \union {Node("op_assign", 0, <<Node("binary", 0, <<a, b>>)>>) : a \in Places(O, N), b \in X}
  \union {Call(a, <<b>>) : a \in Callees(O), b \in X}
  \union {Call(f, <<>>), Property(o, p), Dereference(r)}
  \union {Property(a, n) : a \in O, n \in N}

GrowObjects(O) ==
  {Property(a, q) : a \in O} \union {Call(a, <<>>) : a \in {Property(b, m) : b \in O}}
  \union {Call(f, <<a>>) : a \in O} \union {Leaf("this", 0)}

GrowNames(O, X) == {Property(Property(a, q), q) : a \in O} \union X

Objects1 == Objects0 \union GrowObjects(Objects0)
Numbers1 == Numbers0 \union Grow(Objects0, Numbers0, Names0)
Names1 == Names0 \union GrowNames(Objects0, Numbers1)

\* References that are stored, in a variable, through a reference to it or in a
\* property, or returned: also those that would close a chain of one or two.
Referring ==
  LET Ref(a) == Node("reference", 0, <<a>>)
      Store(a, b) == Node("assign", 0, <<a, b>>)
  IN {Store(a, b) : a \in {i, o, r, Dereference(r), Property(o, p)}, b \in {Ref(i), Ref(r), r}}
     \union {Node("comma", 0, <<Store(i, Ref(o)), Store(o, a)>>) : a \in {r, Ref(f)}}
     \union {Call(a, <<r>>) : a \in {f, Property(Property(o, q), m)}}

\* A second argument, and what is no function or object.
Others ==
  Referring
  \union {Call(f, <<i, r>>), Call(i, <<o>>), Property(i, p), Node("delete", 0, <<Property(i, p)>>),
          Call(Property(Property(o, q), m), <<i>>)}
  \union {Node("assign", 0, <<Property(i, p), i>>), Node("assign", 0, <<i, Leaf("function", 0)>>)}

MCTrees == Grow(Objects1, Numbers0, Names1) \union Grow(Objects0, Numbers1, Names0) \union Others
  \union {Node("delete", 0, <<Property(a, n)>>) : a \in Objects1, n \in Names1}

\* The code of every expression, in a function of its own, keeps the discipline
\* of the stack too.
ASSUME EveryExpressionIsWellShaped ==
  \A t \in MCTrees :
    LET code == FunctionCode(Node("function", Len(MCLocals), <<t>>))
    IN WellShaped(code, ShapesFrom(code, AtEntry))
=============================================================================
