------------------------------ MODULE Meaning ------------------------------
(***************************************************************************)
(* What an expression means, whatever it is compiled to: the value it has   *)
(* and what it does to the variables and the objects, in the order in which *)
(* the compiler has it evaluated: the right side of an assignment before    *)
(* the left one, the name of a property before its object, the arguments    *)
(* before the function.  A place that is read and written is found once.    *)
(*                                                                         *)
(* A value is a type and a number: of the number itself, the literal, the   *)
(* object, the variable referred to.  A function that is called counts the  *)
(* call in a property, and returns its first argument, or else its "this",  *)
(* or else the count.  The operators that compare, shift, multiply and      *)
(* divide are left out.                                                     *)
(*                                                                         *)
(* A reference is stored in a variable only if its chain does not come back *)
(* to it, in a property and as what a function returns never: undefined is  *)
(* stored instead.                                                          *)
(***************************************************************************)
EXTENDS Integers, Sequences, TLC

CONSTANTS
  Width,     \* numbers are 0 .. Width - 1
  CountedIn  \* the pair of object and name whose value counts the calls

ASSUME MeaningAssumption == Width \in Nat \ {0}

Value(t, n) == [t |-> t, n |-> n]
Number(n) == Value("number", n % Width)
Undefined == Value("undefined", 0)
NaN == Value("nan", 0)
This == Value("object", 1)

-----------------------------------------------------------------------------
(* Values and the store, for the VM and for the meaning of a tree.          *)

\* simplejs_variable_get_int: only numbers and objects can be true.
IsTrue(v) == v.t = "object" \/ (v.t = "number" /\ v.n # 0)
Boolean(v) == Number(IF IsTrue(v) THEN 1 ELSE 0)

\* The operators: 0 adds, 1 subtracts.  What is no number gives NaN.
Binary(n, a, b) ==
  IF a.t # "number" \/ b.t # "number" THEN NaN
  ELSE Number(IF n = 0 THEN a.n + b.n ELSE a.n - b.n)
Increment(a) == Binary(0, a, Number(1))
Negate(a) == Binary(1, Number(0), a)

\* A value where no reference may be.
NoReference(v) == IF v.t = "reference" THEN Undefined ELSE v

Get(pair, st) == IF pair \in DOMAIN st.prop THEN st.prop[pair] ELSE Undefined
Set(pair, v, st) == [st EXCEPT !.prop = (pair :> NoReference(v)) @@ @]
Delete(pair, st) ==
  [st EXCEPT !.prop = [p \in DOMAIN st.prop \ {pair} |-> st.prop[p]]]

GetLocal(n, st) == st.loc[n + 1]

\* is_circular_reference: the chain that starts with v comes to variable n.
RECURSIVE Circular(_, _, _)
Circular(n, v, st) ==
  v.t = "reference" /\ (v.n = n \/ Circular(n, GetLocal(v.n, st), st))

SetLocal(n, v, st) ==
  [st EXCEPT !.loc[n + 1] = IF Circular(n, v, st) THEN Undefined ELSE v]

\* A function that is called returns no reference: SET_RETURN_VAR leaves it out,
\* and one of a plugin is taken to do the same.
CallCounted(st) == Set(CountedIn, Increment(Get(CountedIn, st)), st)
Returned(args, this, st) ==
  CASE args # <<>> -> NoReference(Head(args))
    [] args = <<>> /\ this.t = "object" -> this
    [] OTHER -> Get(CountedIn, CallCounted(st))

-----------------------------------------------------------------------------
(* The meaning of a tree, [v |-> value, st |-> store, ok |-> no failure].    *)

Ok(v, st) == [v |-> v, st |-> st, ok |-> TRUE]
Failed(st) == [v |-> Undefined, st |-> st, ok |-> FALSE]
Then(r, F(_)) == IF r.ok THEN F(r) ELSE r

\* A place is a variable, a pair of object and name, or none: the target of
\* what is no reference.
Read(p, st) ==
  CASE p.t = "variable" -> GetLocal(p.n, st)
    [] p.t = "pair" -> Get(p.pair, st)
    [] p.t = "none" -> Undefined
Write(p, v, st) ==
  CASE p.t = "variable" -> SetLocal(p.n, v, st)
    [] p.t = "pair" -> Set(p.pair, v, st)
    [] p.t = "none" -> st
Place(t, n, pair) == [t |-> t, n |-> n, pair |-> pair]

RECURSIVE MeaningOf(_, _), PlaceOf(_, _), ArgumentsOf(_, _, _)

\* The values of the arguments, after those known.
ArgumentsOf(list, known, st) ==
  IF list = <<>> THEN Ok(known, st)
  ELSE Then(MeaningOf(Head(list), st),
            LAMBDA r : ArgumentsOf(Tail(list), Append(known, r.v), r.st))

PlaceOf(s, st) ==
  CASE s.t = "loc" -> Ok(Place("variable", s.n, <<>>), st)
    [] s.t = "dereference" ->
         Then(MeaningOf(s.c[1], st),
              LAMBDA r : Ok(Place(IF r.v.t = "reference" THEN "variable" ELSE "none", r.v.n, <<>>), r.st))
    [] s.t = "property" ->
         Then(MeaningOf(s.c[2], st), LAMBDA name :
           Then(MeaningOf(s.c[1], name.st), LAMBDA object :
             IF object.v.t = "object" THEN Ok(Place("pair", 0, <<object.v.n, name.v>>), object.st)
             ELSE Failed(object.st)))

\* A function called through a property has the object as its "this".
TargetOf(s, st) ==
  IF s.t = "property"
    THEN Then(PlaceOf(s, st), LAMBDA p :
           Ok([f |-> Read(p.v, p.st), this |-> Value("object", p.v.pair[1])], p.st))
    ELSE Then(MeaningOf(s, st), LAMBDA r : Ok([f |-> r.v, this |-> Undefined], r.st))

MeaningOf(s, st) ==
  CASE s.t \in {"undefined", "number", "string", "function"} -> Ok(Value(s.t, s.n), st)
    [] s.t = "this" -> Ok(This, st)
    [] s.t \in {"loc", "property", "dereference"} ->
         Then(PlaceOf(s, st), LAMBDA p : Ok(Read(p.v, p.st), p.st))
    [] s.t = "reference" -> Ok(Value("reference", s.c[1].n), st)
    [] s.t = "delete" -> Then(PlaceOf(s.c[1], st), LAMBDA p : Ok(Undefined, Delete(p.v.pair, p.st)))
    [] s.t = "unary" -> Then(MeaningOf(s.c[1], st), LAMBDA r : Ok(Negate(r.v), r.st))
    [] s.t = "binary" ->
         Then(MeaningOf(s.c[1], st), LAMBDA left :
           Then(MeaningOf(s.c[2], left.st), LAMBDA right : Ok(Binary(s.n, left.v, right.v), right.st)))
    [] s.t \in {"and", "or"} ->
         Then(MeaningOf(s.c[1], st), LAMBDA left :
           IF IsTrue(left.v) = (s.t = "or") THEN Ok(Boolean(left.v), left.st)
           ELSE Then(MeaningOf(s.c[2], left.st), LAMBDA right : Ok(Boolean(right.v), right.st)))
    [] s.t = "comma" -> Then(MeaningOf(s.c[1], st), LAMBDA left : MeaningOf(s.c[2], left.st))
    [] s.t = "step" ->
         Then(PlaceOf(s.c[1], st), LAMBDA p :
           LET old == Read(p.v, p.st)
               new == Increment(old)
           IN Ok(IF s.n = 1 THEN old ELSE new, Write(p.v, new, p.st)))
    [] s.t = "assign" ->
         Then(MeaningOf(s.c[2], st), LAMBDA right :
           Then(PlaceOf(s.c[1], right.st), LAMBDA p : Ok(right.v, Write(p.v, right.v, p.st))))
    [] s.t = "op_assign" ->
         LET op == s.c[1]
         IN Then(PlaceOf(op.c[1], st), LAMBDA p :
              LET old == Read(p.v, p.st)
              IN Then(MeaningOf(op.c[2], p.st), LAMBDA right :
                   LET new == Binary(op.n, old, right.v)
                   IN Ok(new, Write(p.v, new, right.st))))
    [] s.t = "call" ->
         Then(ArgumentsOf(Tail(s.c), <<>>, st), LAMBDA args :
           Then(TargetOf(s.c[1], args.st), LAMBDA target :
             IF target.v.f.t = "function"
               THEN Ok(Returned(args.v, target.v.this, target.st), CallCounted(target.st))
               ELSE Failed(target.st)))
=============================================================================
