------------------------------ MODULE MCParser ------------------------------
(***************************************************************************)
(* The expression and statement parsers on all texts that begin in one of a  *)
(* few ways and go on with a few tokens of a few kinds.                      *)
(***************************************************************************)
EXTENDS FrontEnd

MCIdentifiers == {"x", "y"}

Text(begins, kinds, more) ==
  [begins |-> begins, tokens |-> kinds, length |-> Len(begins) + more]

Method == <<"class", "x", "{", "var", "y", ";", "function", "y", "(", "x", ")", "{">>

\* One operator of each level, and what binds as strongly as it.
Binary == {",", "=", "+=", "&&", "||", "|", "&", "==", "<", "-", "*"}
Prefix == {"-", "new", "&"}

\* Expressions of several operators.
Chains ==
  {Text(<<"x", o, "x", p, "x", q, "x", ";">>, {}, 0) : o, p, q \in Binary}
  \union {Text(<<o, "x">>, {"x", "(", ")", ".", "++", "*", ";"}, 4) : o \in Prefix}

MCSources == Chains \union
  { \* operands and operators in any order
    Text(<<"x">>, {"x", "=", "-", ",", "*", ";"}, 4),
    \* brackets, calls and properties
    Text(<<>>, {"x", "(", ")", "new", ".", ";"}, 5),
    Text(<<"x", "(">>, {"x", "[", "]", ",", ")", "++", ";"}, 5),
    Text(<<"x", "(", "x", "(">>, {"x", ")", ",", ".", "!", ";"}, 4),
    \* operators that bind too weakly, and expressions that fail
    Text(<<"(", "x">>, {"x", "<<", "(", ")", "~", ";"}, 4),
    \* blocks, variables and functions
    Text(<<"var", "x">>, {"var", "x", ",", ";", "=", "{", "}"}, 5),
    Text(<<"function", "x", "(">>, {"x", ",", ")", "{", "}", "var", ";"}, 6),
    Text(<<"var", "x", ";", "function", "y", "(", "y", ")", "{">>,
         {"x", "y", ";", "var", "{", "}"}, 5),
    \* classes and their methods
    Text(<<"class">>, {"x", "extends", "{", "}", "var", "function", ";"}, 5),
    Text(Method, {"x", "y", ";", "{", "}", "var"}, 5),
    \* branches, loops and jumps
    Text(<<"if">>, {"(", "x", ")", ";"}, 4),
    Text(<<"if", "(", "x", ")">>, {"x", ";", "{", "}", "else", "if", "return"}, 4),
    Text(<<"if", "(", "x", ")", "x", ";", "else">>, {"if", "else", "(", "x", ")", ";"}, 6),
    Text(<<"while">>, {"(", "x", ")", ";"}, 4),
    Text(<<"while", "(", "x">>, {")", "{", "}", "x", ";", "goto"}, 4),
    Text(<<"for">>, {"(", ")", "var", "x", ";"}, 6),
    Text(<<"for", "(", ";", ";", ")">>, {"x", "{", "}", ";", "return"}, 4),
    Text(<<>>, {"label", "goto", "x", ";"}, 4) }

-----------------------------------------------------------------------------
(* Expressions.                                                            *)

IsTree == result \notin {NoResult, Failed, None}

\* The tokens an expression was made of, read from its tree.
RECURSIVE Yield(_)
Yield(t) ==
  CASE t.kids = <<>>                      -> <<t.node>>
    [] t.node = "call"                    ->
         LET arguments[i \in 1 .. Len(t.kids)] ==
               IF i = 1 THEN <<>>
               ELSE arguments[i - 1] \o (IF i = 2 THEN <<>> ELSE <<",">>)
                                     \o Yield(t.kids[i])
         IN Yield(t.kids[1]) \o <<"(">> \o arguments[Len(t.kids)] \o <<")">>
    [] t.node = "[]"                      ->
         Yield(t.kids[1]) \o <<"[">> \o Yield(t.kids[2]) \o <<"]">>
    [] t.node = "()"                      -> <<"(">> \o Yield(t.kids[1]) \o <<")">>
    [] t.node \in {"post++", "post--"}    ->
         Append(Yield(t.kids[1]), IF t.node = "post++" THEN "++" ELSE "--")
    [] OTHER ->
         IF Len(t.kids) = 1 THEN <<t.node>> \o Yield(t.kids[1])
         ELSE Yield(t.kids[1]) \o <<t.node>> \o Yield(t.kids[2])

\* Operators without binding power end an expression in brackets, and are
\* skipped for the closing bracket.
Unbound == ShiftOperators \union {"!", "~"}

\* A trailing comma of a call leaves no trace in the tree.
WithoutTrailing(list) ==
  LET trailing == {i \in 1 .. Len(list) - 1 : list[i] = "," /\ list[i + 1] = ")"}
      kept == SelectSeq([i \in DOMAIN list |-> i], LAMBDA i : i \notin trailing)
  IN [k \in DOMAIN kept |-> list[kept[k]]]

\* The tree has exactly the tokens the parser consumed, in their order: no
\* operand is lost and no bracket closes another, if none of the operators that
\* cannot be used is there and the text was not found invalid.
TextIsKept ==
  LET consumed == SubSeq(tokens, TopNode.start, pos - 1) IN
  IsTree /\ ~invalid /\ Range(consumed) \intersect Unbound = {}
    => Yield(result) = WithoutTrailing(consumed)

\* From weak to strong.
Levels ==
  <<{","}, AssignOperators, {"&&"}, {"||"}, {"|"}, {"^"}, {"&"}, {"==", "!="},
    {"<=", ">=", "<", ">"}, {"+", "-"}, {"*", "/", "%"}, {"post++", "post--"},
    {"call"}, {"[]"}, {"."}>>

Level(name) == CHOOSE l \in DOMAIN Levels : name \in Levels[l]

GroupsRight == {","} \union AssignOperators

\* The weakest level of an operator that can take away the last operand of one.
Takes(t) ==
  CASE Len(t.kids) = 2 -> Level(t.node) + (IF t.node \in GroupsRight THEN 0 ELSE 1)
    [] t.node \in {"typeof", "new"} -> Level("call")
    [] t.node \in {"&", "*"}        -> Len(Levels) + 1
    [] OTHER                        -> Level("[]")

IsInfix(t) == Len(t.kids) = 2 /\ t.node \notin {"call", "[]", "."}
IsUnary(t) == Len(t.kids) = 1 /\ t.node \in PrefixOperators

\* The operators whose last operand ends the tree, and those whose first
\* operand begins it.
RECURSIVE RightEdge(_), LeftEdge(_)
RightEdge(t) ==
  IF IsInfix(t) \/ IsUnary(t) THEN {t} \union RightEdge(Last(t.kids)) ELSE {}
LeftEdge(t) ==
  IF t.kids = <<>> \/ IsUnary(t) \/ t.node = "()" THEN {}
  ELSE {t} \union LeftEdge(Head(t.kids))

RECURSIVE Grouped(_)
Grouped(t) ==
  /\ \A i \in DOMAIN t.kids : Grouped(t.kids[i])
  /\ t \in LeftEdge(t) => \A e \in RightEdge(Head(t.kids)) : Level(t.node) < Takes(e)
  /\ t \in RightEdge(t) => \A e \in LeftEdge(Last(t.kids)) : Level(e.node) >= Takes(t)

\* An operand goes to the operator that binds it more strongly, among equals to
\* the left one, but to the right one of assignments and commas.
PrecedenceHolds == IsTree => Grouped(result)
=============================================================================
