----------------------------- MODULE MCVmStack -----------------------------
(***************************************************************************)
(* A program with every shape of expression and statement that uses the    *)
(* stack, compiled by the code generator.                                  *)
(***************************************************************************)
EXTENDS VmShape, Compiler

Node(t, n, c) == [t |-> t, n |-> n, c |-> c]
Leaf(t, n) == Node(t, n, <<>>)
Local(i) == Leaf("loc", i)
Argument(i) == Leaf("arg", i)
Literal == Leaf("number", 0)
Text == Leaf("string", 0)
Function == Leaf("function", 0)
Property(object, name) == Node("property", 0, <<object, name>>)
Plus(left, right) == Node("binary", 0, <<left, right>>)
Assign(left, right) == Node("assign", 0, <<left, right>>)
PlusAssign(left, right) == Node("op_assign", 0, <<Plus(left, right)>>)
Call(function, args) == Node("call", Len(args), <<function>> \o args)
New(class, args) == Node("new", 0, <<Call(class, args)>>)
If(condition, then) == Node("if", 0, <<condition>> \o then)
Else(else) == Node("else", 0, else)

\* var l0 = f(1, g().p + 2); l0.p[l0.q] = l0;
\* if (l0 && f(l0)) return l0; else l0.p += f(l0);
MainFunction ==
  Node("function", 1, <<
    Node("var", 0, <<Call(Function, <<Literal,
                            Plus(Property(Call(Function, <<>>), Text), Literal)>>)>>),
    Assign(Property(Property(Local(0), Text), Property(Local(0), Text)), Local(0)),
    Node("branch", 0, <<
      If(Node("and", 0, <<Local(0), Call(Function, <<Local(0)>>)>>),
         <<Node("return", 0, <<Local(0)>>)>>),
      Else(<<PlusAssign(Property(Local(0), Text), Call(Function, <<Local(0)>>))>>)>>) >>)

\* while (a0) { a0.p++; if (&l1) return new a0.p(f(a0)); }
Worker ==
  Node("function", 2, <<
    Node("while", 0, <<Argument(0), Node("block", 0, <<
      Node("step", 1, <<Property(Argument(0), Text)>>),
      Node("branch", 0, <<If(Node("reference", 0, <<Local(1)>>),
        <<Node("return", 0, <<New(Property(Argument(0), Text),
                                  <<Call(Function, <<Argument(0)>>)>>)>>)>>)>>)>>)>>) >>)

\* class l0 extends C { var l1 = super.p; function m() }
\* while (l0) delete a0.p;  *a0 = this;  return typeof l0;
Builder ==
  Node("function", 2, <<
    Node("class", 0, <<Local(0), Node("var", 1, <<Property(Leaf("super", 0), Text)>>), Function>>),
    Node("while", 0, <<Local(0), Node("delete", 0, <<Property(Argument(0), Text)>>)>>),
    Assign(Node("dereference", 0, <<Argument(0)>>), Leaf("this", 0)),
    Node("return", 0, <<Node("typeof", 0, <<Local(0)>>)>>) >>)

\* for (var l0 = a0 || a0(); delete l0.p, *l0; --l0.p) { if (-l0) goto out; }  out: return;
Walker ==
  Node("function", 1, <<
    Node("for", 0, <<
      Node("var", 0, <<Node("or", 0, <<Argument(0), Call(Argument(0), <<>>)>>)>>),
      Node("comma", 0, <<Node("delete", 0, <<Property(Local(0), Text)>>),
                         Node("dereference", 0, <<Local(0)>>)>>),
      Node("step", 0, <<Property(Local(0), Text)>>),
      Node("branch", 0, <<If(Node("unary", 0, <<Local(0)>>), <<Leaf("goto", "out")>>)>>)>>),
    Leaf("label", "out"),
    Leaf("return", 0) >>)

Functions == <<MainFunction, Worker, Builder, Walker>>
MCCode == Program(Functions)
MCBlockSize == [k \in Kinds |-> CASE k = "var" -> 1 [] k = "ctx" -> 2 [] k = "header" -> 5
                                    [] k = "return" -> 2 [] k = "locals" -> 1]

-----------------------------------------------------------------------------
(* The shape of code that is compiled to keep the discipline of the stack:  *)
(* of every instruction, what the one before it leaves.                     *)

After(i, now) ==
  LET count == Len(now.blocks)
      top == Last(now.blocks)
  IN CASE i.op \in PushOps ->
            [blocks |-> Append(now.blocks, PushedShape(i, now)),
             arg |-> IF i.op = "alloc_args" THEN count + 1 ELSE now.arg,
             loc |-> IF i.op = "alloc_vars" THEN count + 1 ELSE now.loc]
       [] i.op \in ReleaseOps ->
            [blocks |-> Front(now.blocks),
             arg |-> CASE i.op = "restore_ctx" -> top.arg
                       [] i.op = "free_args" -> Anywhere
                       [] OTHER -> now.arg,
             loc |-> IF i.op \in {"restore_ctx", "free_vars"} THEN top.loc ELSE now.loc]
       [] i.op = "call" -> [now EXCEPT !.loc = Anywhere]
       [] OTHER -> now

\* The shape of the code, and what the end of it leaves: of one half, then of the
\* other from there.
RECURSIVE Walked(_, _)
Walked(code, before) ==
  IF Len(code) = 1
  THEN LET now == IF code[1].op = "save_arg_offset" THEN AtEntry ELSE before
       IN [shape |-> <<now>>, after |-> After(code[1], now)]
  ELSE LET half == Len(code) \div 2
           first == Walked(SubSeq(code, 1, half), before)
           second == Walked(SubSeq(code, half + 1, Len(code)), first.after)
       IN [shape |-> first.shape \o second.shape, after |-> second.after]

ShapesFrom(code, before) == Walked(code, before).shape

MCShape == ShapesFrom(MCCode, AtEntry)
=============================================================================
