------------------------------- MODULE Parser -------------------------------
(***************************************************************************)
(* The statement parser (parser.c).  simplejs_tokens_to_ast takes one token  *)
(* per round, in a state; nested statements save the state on the stack of   *)
(* nodes.  Beside the nodes it keeps the functions it is in, each with the    *)
(* scopes that are open and the slots their variables take.                  *)
(*                                                                         *)
(* An expression is parsed by Expression in between.  Names that stand in   *)
(* it are looked up through the parents of its node.                         *)
(***************************************************************************)
EXTENDS Expression

VARIABLES
  state,      \* parser_ctx->state
  stack,      \* ast_stack: the node that is parsed and its parents
  scopes,     \* the scopes, by the number they were created with
  functions,  \* function_context_stack
  finished    \* the functions the parser has left

vars == <<expressionVars, state, stack, scopes, functions, finished>>

NoScope == 0
Scope == [vars |-> <<>>, args |-> <<>>, functions |-> <<>>]

\* A node: state is restored when it is popped; branchLast says that its last
\* child is a branch; step is what its context has seen so far.
Entry(type, saved) ==
  [type |-> type, saved |-> saved, scope |-> NoScope, branchLast |-> FALSE,
   step |-> "", ends |-> {}, start |-> 0]

\* highest is the number of slots the variables have used so far.
Function(root, class) ==
  [scopes |-> <<root>>, current |-> 0, slots |-> 0, highest |-> 0, class |-> class]

ParserInit ==
  /\ tokens = source.begins /\ ended = FALSE /\ pos = 1
  /\ calls = <<>> /\ result = NoResult
  /\ invalid = FALSE /\ status = "running"
  /\ state = "IDLE"
  /\ stack = <<[Entry("ROOT", "IDLE") EXCEPT !.scope = 1]>>
  /\ scopes = <<Scope>>
  /\ functions = <<Function(1, FALSE)>>
  /\ finished = {}

-----------------------------------------------------------------------------
(* The stack of nodes.                                                     *)

TopNode == Last(stack)

\* simplejs_add_children_ast and simplejs_push_ast_to_stack
Pushed(entry) ==
  Append([stack EXCEPT ![Len(stack)].branchLast = entry.type = "BRANCH"], entry)

Push(type, next) ==
  stack' = Pushed(Entry(type, state)) /\ state' = next

PushExpression(saved, ends) ==
  /\ stack' = Pushed([Entry("EXPRESSION", saved) EXCEPT !.ends = ends])
  /\ state' = "EXPRESSION"

Pop(n) ==
  /\ state' = stack[Len(stack) - n + 1].saved
  /\ stack' = SubSeq(stack, 1, Len(stack) - n)

Mark(step) == stack' = [stack EXCEPT ![Len(stack)].step = step]

Goes(next) == state' = next /\ UNCHANGED stack

ScopesStay == UNCHANGED <<scopes, functions, finished>>
ParserStays == UNCHANGED <<state, stack>> /\ ScopesStay
Runs == UNCHANGED status

Error == status' = "error" /\ UNCHANGED pos /\ ParserStays

-----------------------------------------------------------------------------
(* Scopes and slots.                                                       *)

Current == Last(functions)
CurrentScope == Last(Current.scopes)

\* A variable of the current function in its innermost scope.
Declare(scope) ==
  scopes' = [scopes EXCEPT ![scope].vars =
                Append(@, [name |-> "", index |-> Current.current])]

TookSlot(f) == [f EXCEPT !.current = @ + 1,
                         !.highest = IF @ > f.current THEN @ ELSE f.current + 1]

Renamed(list, name) ==
  [list EXCEPT ![Len(list)] = [@ EXCEPT !.name = name]]

\* simplejs_add_codeblock_ast
AddCodeblock(saved) ==
  /\ scopes' = Append(scopes, Scope)
  /\ functions' = [functions EXCEPT ![Len(functions)].scopes = Append(@, Len(scopes) + 1)]
  /\ stack' = Pushed([Entry("CODEBLOCK", saved) EXCEPT !.scope = Len(scopes) + 1])
  /\ state' = "CODEBLOCK"
  /\ UNCHANGED finished

\* Mutant: the slots are given back before they are counted.
LeftCountsLate(f) ==
  LET current == f.current - Len(scopes[Last(f.scopes)].vars) IN
  [f EXCEPT !.slots = IF @ < current THEN current ELSE @,
            !.current = current, !.scopes = Front(@)]

\* simplejs_leave_codeblock
Left(f) ==
  [f EXCEPT !.slots = IF @ < f.current THEN f.current ELSE @,
            !.current = @ - Len(scopes[Last(f.scopes)].vars),
            !.scopes = Front(@)]

LeaveCodeblock ==
  /\ functions' = [functions EXCEPT ![Len(functions)] = Left(Current)]
  /\ UNCHANGED <<scopes, finished>>

\* simplejs_add_function_ast
AddFunction(class) ==
  /\ scopes' = Append([scopes EXCEPT ![CurrentScope].functions = Append(@, [name |-> ""])],
                      Scope)
  /\ functions' = Append(functions, Function(Len(scopes) + 1, class))
  /\ stack' = Pushed([Entry("FUNCDECL", state) EXCEPT !.scope = Len(scopes) + 1])
  /\ state' = "FUNCDECL_NAME"
  /\ UNCHANGED finished

\* simplejs_add_class_ast: a variable, and a scope for the members.
AddClass ==
  /\ scopes' = Append([scopes EXCEPT ![CurrentScope].vars =
                         Append(@, [name |-> "", index |-> Current.current])], Scope)
  /\ functions' = [functions EXCEPT ![Len(functions)] =
                     [TookSlot(Current) EXCEPT !.scopes = Append(@, Len(scopes) + 1)]]
  /\ stack' = Pushed([Entry("CLASSDECL", state) EXCEPT !.scope = Len(scopes) + 1])
  /\ state' = "CLASSDECL_NAME"
  /\ UNCHANGED finished

-----------------------------------------------------------------------------
(* Names: simplejs_get_scoped_output_alt walks from a node to the root.     *)

\* Mutant: every scope on the way is searched for variables.
QuitsNowhere(i) == FALSE

\* The variables and arguments beyond a class or a function are out of reach,
\* but a method sees those of its class.
Quits(i) ==
  \/ stack[i].type = "CLASSDECL"
  \/ stack[i].type \in {"ROOT", "FUNCDECL"} /\ (i > 1 => stack[i - 1].type # "CLASSDECL")

OutOfFunction(i) == \E j \in i + 1 .. Len(stack) : Quits(j)

HasName(list, name) == \E k \in DOMAIN list : list[k].name = name
FirstNamed(list, name) == list[Min({k \in DOMAIN list : list[k].name = name})]

Reference(kind, index) == [kind |-> kind, index |-> index]

\* What the scope of a node knows of a name.
Lookup(i, name) ==
  LET scope == scopes[stack[i].scope]
      near == ~OutOfFunction(i)
  IN CASE near /\ HasName(scope.vars, name) ->
            Reference("local", FirstNamed(scope.vars, name).index)
       [] near /\ ~HasName(scope.vars, name) /\ Contains(scope.args, name) ->
            Reference("argument", SelectInSeq(scope.args, LAMBDA a : a = name))
       [] ~(near /\ (HasName(scope.vars, name) \/ Contains(scope.args, name)))
            /\ HasName(scope.functions, name) ->
            Reference("function", 0)
       [] OTHER -> Reference("unknown", 0)

Scoped(name) ==
  LET found == {i \in 1 .. Len(stack) :
                  stack[i].scope # NoScope /\ Lookup(i, name).kind # "unknown"}
  IN IF found = {} THEN Reference("unknown", 0) ELSE Lookup(Max(found), name)

\* simplejs_alloc_identifier_node: what a name in an expression refers to.  In a
\* method everything but an argument is a property of "this".
Resolve(name) ==
  LET found == Scoped(name) IN
  CASE found.kind # "argument" /\ Current.class -> Reference("this", 0)
    [] found.kind = "unknown" /\ ~Current.class -> Reference("global", 0)
    [] OTHER -> found

-----------------------------------------------------------------------------
(* Statements.                                                             *)

At(s) == status = "running" /\ calls = <<>> /\ result = NoResult
         /\ Known /\ ~AtEnd /\ state = s

RegularEnds == {";"}
BranchEnds == {")"}
VariableEnds == {",", ";"}

\* Statements that push a node and go to a state.
Opening ==
  [t \in {"return", "var", "label", "goto", "while", "for"} |->
     CASE t = "return" -> <<"RETURN", "RETURN_EXPRESSION">>
       [] t = "var"    -> <<"VARDECL_LIST", "VARDECL_IDLE">>
       [] t = "label"  -> <<"LABEL", "LABEL_NAME">>
       [] t = "goto"   -> <<"GOTO", "GOTO_NAME">>
       [] t = "while"  -> <<"WHILE_LOOP", "WHILE_LOOP_ARGS">>
       [] t = "for"    -> <<"FOR_LOOP", "FOR_LOOP_ARGS">>]

StatementWords == DOMAIN Opening \union {";", "function", "class", "if", "else", "{"}

Open(t) == Advance /\ Push(Opening[t][1], Opening[t][2]) /\ ScopesStay /\ Runs

If ==
  /\ Advance
  /\ stack' = Append(Pushed(Entry("BRANCH", state)), Entry("IF", state))
  /\ state' = "BRANCH_IF"
  /\ ScopesStay /\ Runs

\* The branch the "else" belongs to is asserted to be the last child.
Else ==
  IF TopNode.branchLast
  THEN /\ Advance
       /\ stack' = stack \o <<Entry("BRANCH", state), Entry("ELSE", state)>>
       /\ state' = "BRANCH_ELSE"
       /\ ScopesStay /\ Runs
  ELSE status' = "aborted" /\ UNCHANGED pos /\ ParserStays

ExpressionStatement(saved) ==
  UNCHANGED pos /\ PushExpression(saved, RegularEnds) /\ ScopesStay /\ Runs

\* The end of a block or of a class.
CloseScope == Advance /\ LeaveCodeblock /\ Pop(1) /\ Runs

Statement(s) ==
  /\ At(s)
  /\ \/ Token = ";" /\ Advance /\ ParserStays /\ Runs
     \/ Token = "function" /\ Advance /\ AddFunction(FALSE) /\ Runs
     \/ Token = "class" /\ Advance /\ AddClass /\ Runs
     \/ Token \in DOMAIN Opening /\ Open(Token)
     \/ Token = "if" /\ If
     \/ Token = "else" /\ Else
     \/ Token = "{" /\ Advance /\ AddCodeblock(state) /\ Runs
     \/ s = "CODEBLOCK" /\ Token = "}" /\ CloseScope
     \/ /\ Token \notin StatementWords
        /\ ~(s = "CODEBLOCK" /\ Token = "}")
        /\ ExpressionStatement(state)

\* A state that takes one token and goes to the next.
Expect(s, t, next) ==
  /\ At(s)
  /\ IF Token = t THEN Advance /\ Goes(next) /\ ScopesStay /\ Runs ELSE Error

\* A state that takes one token and then an expression.
ExpectExpression(s, t, next, ends) ==
  /\ At(s)
  /\ IF Token = t THEN Advance /\ PushExpression(next, ends) /\ ScopesStay /\ Runs
     ELSE Error

\* check_code_expression: what may follow a condition.
Code(next) ==
  \/ Token = "{" /\ Advance /\ AddCodeblock(next) /\ Runs
  \/ /\ Token \in {"return", "goto"} /\ Advance
     /\ stack' = Pushed(Entry(Opening[Token][1], next)) /\ state' = Opening[Token][2]
     /\ ScopesStay /\ Runs
  \/ Token \notin {"{", "return", "goto"} /\ ExpressionStatement(next)

\* Mutant: a branch leaves the node of its condition only.
EndOfNodePopsOne(s, n) ==
  At(s) /\ UNCHANGED pos /\ Pop(1) /\ ScopesStay /\ Runs

\* A state that ends a node when the next token comes.
EndOfNode(s, n) ==
  At(s) /\ UNCHANGED pos /\ Pop(n) /\ ScopesStay /\ Runs

BranchElse ==
  /\ At("BRANCH_ELSE")
  /\ \/ /\ Token = "if" /\ Advance
        /\ stack' = [stack EXCEPT ![Len(stack)].type = "ELSE_IF"] /\ state' = "BRANCH_IF"
        /\ ScopesStay /\ Runs
     \/ Token # "if" /\ Code("BRANCH_END")

Branch ==
  \/ ExpectExpression("BRANCH_IF", "(", "BRANCH_IF_EXPR", BranchEnds)
  \/ Expect("BRANCH_IF_EXPR", ")", "BRANCH_CODE")
  \/ BranchElse
  \/ At("BRANCH_CODE") /\ Code("BRANCH_END")
  \/ EndOfNode("BRANCH_END", 2)

While ==
  \/ ExpectExpression("WHILE_LOOP_ARGS", "(", "WHILE_LOOP_CONDITION", BranchEnds)
  \/ Expect("WHILE_LOOP_CONDITION", ")", "WHILE_LOOP_CODE")
  \/ At("WHILE_LOOP_CODE") /\ Code("WHILE_LOOP_END")
  \/ EndOfNode("WHILE_LOOP_END", 1)

\* check_var_expression, on the token that follows the bracket.
ForFirst ==
  /\ At("FOR_LOOP_FIRST")
  /\ \/ /\ Token = "var" /\ Advance
        /\ stack' = Pushed(Entry("VARDECL_LIST", "FOR_LOOP_INIT"))
        /\ state' = "VARDECL_IDLE"
        /\ ScopesStay /\ Runs
     \/ Token # "var" /\ ExpressionStatement("FOR_LOOP_INIT")

For ==
  \/ Expect("FOR_LOOP_ARGS", "(", "FOR_LOOP_FIRST")
  \/ ForFirst
  \/ ExpectExpression("FOR_LOOP_INIT", ";", "FOR_LOOP_CONDITION", RegularEnds)
  \/ ExpectExpression("FOR_LOOP_CONDITION", ";", "FOR_LOOP_STEP", BranchEnds)
  \/ Expect("FOR_LOOP_STEP", ")", "FOR_LOOP_CODE")
  \/ At("FOR_LOOP_CODE") /\ Code("FOR_LOOP_END")
  \/ EndOfNode("FOR_LOOP_END", 1)

ReturnStatement ==
  \/ /\ At("RETURN_EXPRESSION")
     /\ IF Token = ";" THEN Advance /\ Pop(1) /\ ScopesStay /\ Runs
        ELSE ExpressionStatement("RETURN_END")
  \/ EndOfNode("RETURN_END", 1)

\* Labels and gotos: a name, which further names replace, and ";".
Jump(s) ==
  /\ At(s)
  /\ \/ Token \in Identifiers /\ Advance /\ Mark("named") /\ UNCHANGED state
                              /\ ScopesStay /\ Runs
     \/ Token = ";" /\ TopNode.step = "named" /\ Advance /\ Pop(1) /\ ScopesStay /\ Runs
     \/ Token \notin Identifiers /\ ~(Token = ";" /\ TopNode.step = "named") /\ Error

-----------------------------------------------------------------------------
(* Declarations.                                                           *)

FunctionName ==
  /\ At("FUNCDECL_NAME")
  /\ \/ /\ Token \in Identifiers /\ Advance /\ Mark("named") /\ UNCHANGED state
        /\ LET parent == Last(functions[Len(functions) - 1].scopes) IN
           scopes' = [scopes EXCEPT ![parent].functions = Renamed(@, Token)]
        /\ UNCHANGED <<functions, finished>> /\ Runs
     \/ /\ Token = "(" /\ TopNode.step = "named" /\ Advance
        /\ stack' = [stack EXCEPT ![Len(stack)].step = ""] /\ state' = "FUNCDECL_ARGS"
        /\ ScopesStay /\ Runs
     \/ Token \notin Identifiers /\ ~(Token = "(" /\ TopNode.step = "named") /\ Error

\* step is "argument" after an argument, until a comma.
FunctionArgs ==
  /\ At("FUNCDECL_ARGS")
  /\ \/ /\ Token \in Identifiers /\ TopNode.step = "" /\ Advance
        /\ Mark("argument") /\ UNCHANGED state
        /\ scopes' = [scopes EXCEPT ![Current.scopes[1]].args = Append(@, Token)]
        /\ UNCHANGED <<functions, finished>> /\ Runs
     \/ /\ Token = "," /\ TopNode.step = "argument" /\ Advance
        /\ Mark("") /\ UNCHANGED state /\ ScopesStay /\ Runs
     \/ Token = ")" /\ Advance /\ Goes("FUNCDECL_BLOCK") /\ ScopesStay /\ Runs
     \/ /\ Token # ")"
        /\ Token \in Identifiers => TopNode.step # ""
        /\ Token = "," => TopNode.step # "argument"
        /\ Error

\* simplejs_leave_function, when the token after the function comes.
FunctionEnd ==
  /\ At("FUNCDECL_END")
  /\ finished' = finished \union {[slots |-> Current.slots, highest |-> Current.highest]}
  /\ functions' = Front(functions)
  /\ UNCHANGED <<pos, scopes>>
  /\ Pop(1) /\ Runs

FunctionBlock ==
  /\ At("FUNCDECL_BLOCK")
  /\ IF Token = "{" THEN Advance /\ AddCodeblock("FUNCDECL_END") /\ Runs ELSE Error

ClassName ==
  /\ At("CLASSDECL_NAME")
  /\ IF Token \in Identifiers
     THEN /\ Advance /\ Goes("CLASSDECL_FLAGS")
          /\ LET parent == Current.scopes[Len(Current.scopes) - 1] IN
             scopes' = [scopes EXCEPT ![parent].vars = Renamed(@, Token)]
          /\ UNCHANGED <<functions, finished>> /\ Runs
     ELSE Error

\* step is "extends" before and "extended" after the name of the super class.
ClassFlags ==
  /\ At("CLASSDECL_FLAGS")
  /\ \/ /\ Token = "extends" /\ TopNode.step = "" /\ Advance
        /\ Mark("extends") /\ UNCHANGED state /\ ScopesStay /\ Runs
     \/ /\ Token \in Identifiers /\ TopNode.step = "extends" /\ Advance
        /\ Mark("extended") /\ UNCHANGED state /\ ScopesStay /\ Runs
     \/ /\ Token = "{" /\ TopNode.step # "extends" /\ Advance
        /\ Goes("CLASSDECL_IDLE") /\ ScopesStay /\ Runs
     \/ /\ ~(Token = "extends" /\ TopNode.step = "")
        /\ ~(Token \in Identifiers /\ TopNode.step = "extends")
        /\ ~(Token = "{" /\ TopNode.step # "extends")
        /\ Error

ClassIdle ==
  /\ At("CLASSDECL_IDLE")
  /\ \/ Token = ";" /\ Advance /\ ParserStays /\ Runs
     \/ Token = "}" /\ CloseScope
     \/ Token = "var" /\ Open(Token)
     \/ Token = "function" /\ Advance /\ AddFunction(TRUE) /\ Runs
     \/ Token \notin {";", "}", "var", "function"} /\ Error

\* simplejs_add_var_ast; the name is taken in the next round.
VarIdle ==
  /\ At("VARDECL_IDLE")
  /\ UNCHANGED pos
  /\ \/ /\ Token \in Identifiers
        /\ Declare(CurrentScope)
        /\ functions' = [functions EXCEPT ![Len(functions)] = TookSlot(@)]
        /\ UNCHANGED finished
        /\ Push("VARDECL", "VARDECL_NAME") /\ Runs
     \/ Token = ";" /\ Pop(1) /\ ScopesStay /\ Runs
     \/ Token \notin Identifiers \union {";"} /\ Error

VarName ==
  /\ At("VARDECL_NAME")
  /\ \/ /\ Token \in Identifiers /\ Advance
        /\ scopes' = [scopes EXCEPT ![CurrentScope].vars = Renamed(@, Token)]
        /\ UNCHANGED <<state, stack, functions, finished>> /\ Runs
     \/ /\ Token = "=" /\ Advance
        /\ PushExpression("VARDECL_END", VariableEnds) /\ ScopesStay /\ Runs
     \/ Token = ";" /\ UNCHANGED pos /\ Pop(1) /\ ScopesStay /\ Runs
     \/ Token = "," /\ Advance /\ Pop(1) /\ ScopesStay /\ Runs
     \/ Token \notin Identifiers \union {"=", ";", ","} /\ Error

VarEnd ==
  /\ At("VARDECL_END")
  /\ \/ Token = ";" /\ UNCHANGED pos /\ Pop(1) /\ ScopesStay /\ Runs
     \/ Token = "," /\ Advance /\ Pop(1) /\ ScopesStay /\ Runs
     \/ Token \notin {";", ","} /\ Error

Declaration ==
  \/ FunctionName \/ FunctionArgs \/ FunctionBlock \/ FunctionEnd
  \/ ClassName \/ ClassFlags \/ ClassIdle
  \/ VarIdle \/ VarName \/ VarEnd

-----------------------------------------------------------------------------
(* Expressions, and the end.                                               *)

BeginExpression ==
  /\ At("EXPRESSION")
  /\ calls' = <<Activation(0, TopNode.ends)>>
  /\ stack' = [stack EXCEPT ![Len(stack)].start = pos]
  /\ UNCHANGED <<source, tokens, ended, pos, result, invalid, status, state>>
  /\ ScopesStay

EndExpression ==
  /\ status = "running" /\ result # NoResult
  /\ invalid' = (invalid \/ result = Failed)
  /\ result' = NoResult
  /\ Pop(1)
  /\ UNCHANGED <<source, tokens, ended, pos, calls, status>>
  /\ ScopesStay

\* The loop ends, and the last codeblock of the function it is in is left.
Finish ==
  /\ status = "running" /\ calls = <<>> /\ result = NoResult
  /\ AtEnd
  /\ status' = IF state = "FOR_LOOP_FIRST" THEN "wild" ELSE "done"
  /\ LeaveCodeblock
  /\ UNCHANGED <<source, tokens, ended, pos, calls, result, invalid, state, stack>>

ParserStep ==
  /\ \/ \E s \in {"IDLE", "CODEBLOCK"} : Statement(s)
     \/ Branch \/ While \/ For \/ ReturnStatement
     \/ \E s \in {"LABEL_NAME", "GOTO_NAME"} : Jump(s)
     \/ Declaration
  /\ UNCHANGED <<source, tokens, ended, calls, result, invalid>>

Step ==
  \/ status = "running" /\ (Read \/ ExpressionStep \/ RunsOffTheEnd)
       /\ UNCHANGED <<state, stack, scopes, functions, finished>>
  \/ ParserStep \/ BeginExpression \/ EndExpression \/ Finish
-----------------------------------------------------------------------------
(* Properties: the nodes and their scopes.                                 *)

IfStates == {"BRANCH_IF", "BRANCH_IF_EXPR", "BRANCH_CODE", "BRANCH_END"}

StatesOf ==
  [t \in {"ROOT", "CODEBLOCK", "IF", "ELSE_IF", "ELSE", "FUNCDECL", "CLASSDECL",
          "VARDECL_LIST", "VARDECL", "LABEL", "GOTO", "WHILE_LOOP", "FOR_LOOP",
          "RETURN", "EXPRESSION"} |->
    CASE t = "ROOT"         -> {"IDLE"}
      [] t = "CODEBLOCK"    -> {"CODEBLOCK"}
      [] t = "IF"           -> IfStates
      [] t = "ELSE_IF"      -> IfStates
      [] t = "ELSE"         -> {"BRANCH_ELSE", "BRANCH_END"}
      [] t = "FUNCDECL"     -> {"FUNCDECL_NAME", "FUNCDECL_ARGS", "FUNCDECL_BLOCK",
                                "FUNCDECL_END"}
      [] t = "CLASSDECL"    -> {"CLASSDECL_NAME", "CLASSDECL_FLAGS", "CLASSDECL_IDLE"}
      [] t = "VARDECL_LIST" -> {"VARDECL_IDLE"}
      [] t = "VARDECL"      -> {"VARDECL_NAME", "VARDECL_END"}
      [] t = "LABEL"        -> {"LABEL_NAME"}
      [] t = "GOTO"         -> {"GOTO_NAME"}
      [] t = "WHILE_LOOP"   -> {"WHILE_LOOP_ARGS", "WHILE_LOOP_CONDITION",
                                "WHILE_LOOP_CODE", "WHILE_LOOP_END"}
      [] t = "FOR_LOOP"     -> {"FOR_LOOP_ARGS", "FOR_LOOP_FIRST", "FOR_LOOP_INIT",
                                "FOR_LOOP_CONDITION", "FOR_LOOP_STEP", "FOR_LOOP_CODE",
                                "FOR_LOOP_END"}
      [] t = "RETURN"       -> {"RETURN_EXPRESSION", "RETURN_END"}
      [] t = "EXPRESSION"   -> {"EXPRESSION"}]

\* The state that a pop of the i-th node restores.
Restores(i) == IF i = Len(stack) THEN state ELSE stack[i + 1].saved

\* With one node more: a function opens a list of scopes of its own.
WithScope(open, node) ==
  CASE node.type \in {"ROOT", "FUNCDECL"} -> Append(open, <<node.scope>>)
    [] node.type \notin {"ROOT", "FUNCDECL"} /\ node.scope # NoScope ->
         [open EXCEPT ![Len(open)] = Append(@, node.scope)]
    [] OTHER -> open

\* The scopes of the nodes around the parser, by the functions they are in.
ScopesAround ==
  LET open[n \in 0 .. Len(stack)] ==
        IF n = 0 THEN <<>> ELSE WithScope(open[n - 1], stack[n])
  IN open[Len(stack)]

\* The scopes the functions have open, which declarations go to, are those of
\* the nodes around the parser, where names are looked up.
ScopesAgree ==
  status = "running" => [k \in DOMAIN functions |-> functions[k].scopes] = ScopesAround

\* The parser is in a state of the node it parses, and a statement that ends
\* puts it back into a state of the node around it: parser.c casts the node's
\* context by the state alone.  A branch never is on top; its two nodes go
\* together.  Its scopes are those of its nodes.
ContextsFit ==
  /\ ScopesAgree
  /\ \A i \in DOMAIN stack :
       IF stack[i].type = "BRANCH"
       THEN /\ i < Len(stack)
            /\ stack[i + 1].type \in {"IF", "ELSE_IF", "ELSE"}
            /\ stack[i + 1].saved = stack[i].saved
       ELSE /\ Restores(i) \in StatesOf[stack[i].type]
            /\ stack[i].type \in {"IF", "ELSE_IF", "ELSE"} => stack[i - 1].type = "BRANCH"

-----------------------------------------------------------------------------
(* Properties: slots.                                                      *)

OpenVariables(f) ==
  UNION {{<<s, k>> : k \in DOMAIN scopes[s].vars} : s \in Range(f.scopes)}

Slot(v) == scopes[v[1]].vars[v[2]].index

\* Variables that are in scope together have slots of their own, and there are
\* as many as the parser counts: the next block does not write to a slot of
\* an outer one.
SlotsDistinct ==
  status = "running" =>
  \A i \in DOMAIN functions :
    LET vs == OpenVariables(functions[i]) IN
    /\ \A v, w \in vs : v # w => Slot(v) # Slot(w)
    /\ {Slot(v) : v \in vs} = 0 .. functions[i].current - 1

\* A function that was left has a slot for each variable, in whatever block:
\* the compiler reserves that many.  So has the program, unless a function is
\* open at its end or ends with its last token.
SlotsFit ==
  /\ SlotsDistinct
  /\ \A f \in finished : f.highest <= f.slots
  /\ status = "done" /\ Len(functions) = 1 => Current.highest <= Current.slots

-----------------------------------------------------------------------------
(* Properties: names.                                                      *)

Named(list, name) == {k \in DOMAIN list : list[k].name = name}

\* A name an expression finds at a slot or an argument is one of the function
\* that runs the expression, and of an enclosing block that is still open.
ResolutionAgrees ==
  status = "running" /\ state = "EXPRESSION" =>
  \A name \in Identifiers :
    LET found == Resolve(name) IN
    /\ found.kind = "local" =>
         \E s \in Range(Current.scopes) :
           \E k \in Named(scopes[s].vars, name) : scopes[s].vars[k].index = found.index
    /\ found.kind = "argument" =>
         scopes[Head(Current.scopes)].args[found.index] = name
=============================================================================
