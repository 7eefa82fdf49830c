----------------------------- MODULE Expression -----------------------------
(***************************************************************************)
(* The expression parser (pratt-parser.c).  simplejs_parse_expression calls  *)
(* itself for every operand: calls is the stack of its activations, each with *)
(* the tree it has built and what it waits for.                              *)
(*                                                                         *)
(* The tokens are chosen one by one as the parser first looks at them, which *)
(* amounts to choosing the list at the start.  A parser that looks beyond    *)
(* the last token takes the head of the list for one: what follows is not    *)
(* defined, and status becomes "wild".                                      *)
(***************************************************************************)
EXTENDS Integers, SequencesExt

CONSTANTS
  Sources,      \* the texts: how they begin, the tokens that may follow and the
                \* length they may have
  Identifiers   \* the tokens that are names

ASSUME SourcesAssumption ==
  \A s \in Sources : s.begins \in Seq(STRING) /\ s.length \in Nat

VARIABLES
  source,   \* the text, a member of Sources
  tokens,   \* its tokens, as far as they were looked at
  ended,    \* no more follow
  pos,      \* current_token
  calls,    \* the activations of simplejs_parse_expression
  result,   \* what the outermost one returned
  invalid,  \* is_invalid
  status    \* "running", "done", "error", "aborted", "over" or "wild"

expressionVars == <<source, tokens, ended, pos, calls, result, invalid, status>>

Node(name, kids) == [node |-> name, kids |-> kids]
None == Node("none", <<>>)
Failed == Node("failed", <<>>)
NoResult == Node("pending", <<>>)

Token == tokens[pos]

\* Failing activations that parse a group skip a token each.
Groups(from) == Cardinality({i \in from .. Len(calls) : calls[i].phase = "group"})
Known == pos + Groups(1) <= Len(tokens) \/ ended
AtEnd == ended /\ pos > Len(tokens)

\* The next token is looked at for the first time.
Read ==
  /\ ~Known
  /\ \/ /\ Len(tokens) < source.length
        /\ \E t \in source.tokens : tokens' = Append(tokens, t)
        /\ UNCHANGED ended
     \/ ended' = TRUE /\ UNCHANGED tokens
  /\ UNCHANGED <<source, pos, calls, result, invalid, status>>

-----------------------------------------------------------------------------
(* Operators.                                                              *)

AssignOperators == {"=", "+=", "-=", "*=", "/=", "%=", "<<=", ">>=", "<<<=", ">>>="}
ShiftOperators == {"<<", ">>", "<<<", ">>>"}

\* simplejs_get_binding_power; operators it does not know bind with -1.
Lbp(t) ==
  CASE t = ","                          -> 0
    [] t \in AssignOperators            -> 10
    [] t = "&&"                         -> 20
    [] t = "||"                         -> 30
    [] t = "|"                          -> 40
    [] t = "^"                          -> 50
    [] t = "&"                          -> 60
    [] t \in {"==", "!="}               -> 70
    [] t \in {"<=", ">=", "<", ">"}     -> 80
    [] t \in {"+", "-"}                 -> 90
    [] t \in {"*", "/", "%"}            -> 100
    [] t \in {"++", "--"}               -> 110
    [] t = "("                          -> 120
    [] t = "["                          -> 130
    [] t = "."                          -> 140
    [] OTHER                            -> -1

\* Mutant: assignments group to the left.
RbpAssignLeft(t) == Lbp(t) + 1

Rbp(t) == IF t \in AssignOperators THEN 9 ELSE Lbp(t) + 1

\* is_operator: the operators that may follow an operand.
IsOperator(t) == (Lbp(t) >= 0 /\ t # "^") \/ t \in ShiftOperators \union {"!", "~"}

Literals == {"1", "undefined", "null"}
PrefixOperators == {"typeof", "new", "delete", "&", "*", "++", "--", "-", "!", "~"}

\* How strongly what follows a prefix operator is bound to it.
PrefixPower(t) ==
  CASE t \in {"typeof", "new"} -> 120
    [] t \in {"&", "*"}        -> 1000000
    [] OTHER                   -> 130

-----------------------------------------------------------------------------
(* Activations.                                                            *)

Activation(min, ends) ==
  [min |-> min, ends |-> ends, phase |-> "operand", operator |-> "", left |-> None,
   success |-> TRUE]

Top == Last(calls)
Update(frame) == calls' = Append(Front(calls), frame)

\* The top activation goes to another phase.
Go(phase, tree) == Update([Top EXCEPT !.phase = phase, !.left = tree])

\* It waits for an operand it parses with a call.
Call(phase, t, min, ends) ==
  calls' = Append(Append(Front(calls), [Top EXCEPT !.phase = phase, !.operator = t]),
                  Activation(min, ends))

\* What an activation makes of the operand it waited for.
WithOperand(frame, tree) ==
  CASE frame.phase = "prefix"   -> Node(frame.operator, <<tree>>)
    [] frame.phase = "group"    -> Node("()", <<tree>>)
    [] frame.phase = "index"    -> Node("[]", <<frame.left, tree>>)
    [] frame.phase = "infix"    -> Node(frame.operator, <<frame.left, tree>>)
    [] frame.phase = "argument" -> Node("call", Append(frame.left.kids, tree))

\* The closing bracket is skipped without a look at it.
SkipsBracket(frame) == frame.phase \in {"group", "index"}

\* The top activation returns the tree.
Return(tree) ==
  IF Len(calls) = 1
  THEN /\ calls' = <<>> /\ result' = tree
       /\ UNCHANGED pos
  ELSE LET caller == calls[Len(calls) - 1] IN
       /\ calls' = Append(SubSeq(calls, 1, Len(calls) - 2),
                     [caller EXCEPT
                        !.left = WithOperand(caller, tree),
                        !.success = TRUE,
                        !.phase = IF @ = "argument" THEN "separator" ELSE "operator"])
       /\ pos' = pos + (IF SkipsBracket(caller) THEN 1 ELSE 0)
       /\ UNCHANGED result

\* A call goes on after an argument failed, and may fail at its end.
AfterFailure(frame) == [frame EXCEPT !.phase = "separator", !.success = FALSE]

\* Activations fail up to the innermost that parses an argument.  The groups
\* among them skip a token each, and may step over the head of the list: the
\* parser starts over with the first token.
Fail(next) ==
  LET waiting == {i \in 1 .. Len(calls) - 1 : calls[i].phase = "argument"}
      i == IF waiting = {} THEN 0 ELSE Max(waiting)
      after == next + Groups(i + 1)
  IN /\ IF after <= Len(tokens) + 1
        THEN pos' = after /\ UNCHANGED status
        ELSE pos' = after - Len(tokens) - 1 /\ status' = "over"
     /\ IF i = 0
        THEN calls' = <<>> /\ result' = Failed /\ UNCHANGED invalid
        ELSE /\ calls' = Append(SubSeq(calls, 1, i - 1), AfterFailure(calls[i]))
             /\ invalid' = TRUE
             /\ UNCHANGED result

\* Mutant: the token is left for the next round.
UnexpectedStays == Fail(pos)

\* A token that begins no operand.
Unexpected == Fail(pos + 1)

Continues == UNCHANGED <<result, invalid, status>>

Advance == pos' = pos + 1

-----------------------------------------------------------------------------
(* simplejs_nud: an operand begins.                                         *)

Operand ==
  /\ Top.phase = "operand"
  /\ LET t == Token IN
     \/ /\ Len(calls) < 2 /\ t \in Top.ends
        /\ calls' = <<>> /\ result' = None
        /\ UNCHANGED <<pos, invalid, status>>
     \/ /\ ~(Len(calls) < 2 /\ t \in Top.ends)
        /\ t \in Identifiers \union Literals \union {"this", "super", "globalThis"}
        /\ Advance /\ Go("operator", Node(t, <<>>))
        /\ Continues
     \/ /\ t \in PrefixOperators
        /\ Advance /\ Call("prefix", t, PrefixPower(t), Top.ends)
        /\ Continues
     \/ /\ t = "("
        /\ Advance /\ Call("group", t, 0, {")"})
        /\ Continues
     \/ /\ t \notin Identifiers \union Literals \union {"this", "super", "globalThis"}
                      \union PrefixOperators \union {"("}
        /\ ~(Len(calls) < 2 /\ t \in Top.ends)
        /\ Unexpected

-----------------------------------------------------------------------------
(* An operator, or the end of the expression, follows an operand.           *)

\* Mutant: an operator that binds as strongly as the last one is too weak.
BindsTighter(t) == Lbp(t) > Top.min

Binds(t) == Lbp(t) >= Top.min

EndOfExpression ==
  /\ Top.phase = "operator"
  /\ \/ Token \in Top.ends
     \/ IsOperator(Token) /\ ~Binds(Token)
  /\ Return(Top.left)
  /\ UNCHANGED <<invalid, status>>

NoOperator ==
  /\ Top.phase = "operator"
  /\ Token \notin Top.ends /\ ~IsOperator(Token)
  /\ Fail(pos)

\* simplejs_process_operator: an assignment with an operation parses its
\* operand like the others, and is one node here.
Operator ==
  /\ Top.phase = "operator"
  /\ LET t == Token IN
     /\ t \notin Top.ends /\ IsOperator(t) /\ Binds(t)
     /\ Advance
     /\ CASE t \in {"++", "--"} -> Go("operator", Node("post" \o t, <<Top.left>>))
          [] t = "."            -> Go("property", Top.left)
          [] t = "("            -> Go("arguments", Node("call", <<Top.left>>))
          [] t = "["            -> Call("index", t, 0, {"]"})
          [] t = ","            -> Call("infix", t, 0, Top.ends)
          [] OTHER              -> Call("infix", t, Rbp(t), Top.ends)
     /\ Continues

Property ==
  /\ Top.phase = "property"
  /\ IF Token \in Identifiers
     THEN /\ Advance
          /\ Go("operator", Node(".", <<Top.left, Node(Token, <<>>)>>))
          /\ Continues
     ELSE Fail(pos + 1)

\* The ")" of a call: the status is that of the last argument.
EndOfCall ==
  IF Top.success
  THEN Advance /\ Go("operator", Top.left) /\ Continues
  ELSE Fail(pos + 1)

Arguments ==
  /\ Top.phase = "arguments"
  /\ \/ Token = ")" /\ EndOfCall
     \/ /\ Token # ")"
        /\ UNCHANGED pos /\ Call("argument", "", 0, {",", ")"})
        /\ Continues

Separator ==
  /\ Top.phase = "separator"
  /\ \/ Token = ")" /\ EndOfCall
     \/ /\ Token = ","
        /\ Advance /\ Go("arguments", Top.left)
        /\ Continues
     \/ /\ Token \notin {",", ")"}
        /\ Advance
        /\ Update([Top EXCEPT !.phase = "arguments", !.success = FALSE])
        /\ invalid' = TRUE
        /\ UNCHANGED <<result, status>>

ExpressionStep ==
  /\ calls # <<>>
  /\ Known /\ ~AtEnd
  /\ Operand \/ EndOfExpression \/ NoOperator \/ Operator \/ Property
       \/ Arguments \/ Separator
  /\ UNCHANGED <<source, tokens, ended>>

\* The parser looks at what follows the last token.
RunsOffTheEnd ==
  /\ calls # <<>>
  /\ AtEnd
  /\ status' = "wild"
  /\ UNCHANGED <<source, tokens, ended, pos, calls, result, invalid>>
=============================================================================
