------------------------------ MODULE FrontEnd ------------------------------
(***************************************************************************)
(* main of program/main.c, from the text of a file to its bytecode: the       *)
(* line map, the tokenizer, the parser and the compiler work one after the    *)
(* other on what the one before has made, and main gives back what they made. *)
(*                                                                         *)
(* A behaviour begins with a text, or with tokens: those of any text that     *)
(* has them.                                                               *)
(***************************************************************************)
EXTENDS Parser

CONSTANT Files    \* texts, sequences of characters

VARIABLES
  text, index, offset, len, mode, level, words, scan,   \* those of Tokenizer
  stage,     \* what main is doing
  made,      \* the contexts main has
  freed      \* how often each context was freed

tokenizerVars == <<text, index, offset, len, mode, level, words, scan>>
mainVars == <<stage, made, freed>>
frontVars == <<vars, tokenizerVars, mainVars>>

Scanner == INSTANCE Tokenizer

Contexts == {"linemap", "tokens", "parser", "compiler"}

FileSource == [begins |-> <<>>, tokens |-> {}, length |-> 0]

FrontInit ==
  /\ \/ /\ \E begin \in Files : Scanner!TokenizerInit(begin)
        /\ source = FileSource
        /\ stage = "tokenize" /\ made = {"linemap"}
     \/ /\ Scanner!TokenizerInit(<<>>)
        /\ source \in Sources
        /\ stage = "parse" /\ made = {"linemap", "tokens"}
  /\ ParserInit
  /\ freed = [c \in Contexts |-> 0]

Frees(contexts) ==
  freed' = [c \in Contexts |-> freed[c] + (IF c \in contexts THEN 1 ELSE 0)]

\* The token the parser sees: it does not tell literals apart.
TokenOf(word) ==
  CASE word.kind \in {"number", "string", "boolean"} -> "1"
    [] word.kind = "identifier"                      -> CHOOSE x \in Identifiers : TRUE
    [] OTHER                                         -> Scanner!Spelled(word.chars)

Tokenize ==
  /\ stage = "tokenize" /\ scan = "running"
  /\ Scanner!TokenizerStep
  /\ UNCHANGED <<vars, mainVars>>

Tokenized ==
  /\ stage = "tokenize" /\ scan = "done"
  /\ tokens' = [i \in DOMAIN words |-> TokenOf(words[i])]
  /\ ended' = TRUE
  /\ stage' = "parse" /\ made' = made \union {"tokens"}
  /\ UNCHANGED <<source, pos, calls, result, invalid, status, state, stack, scopes,
                 functions, finished, tokenizerVars, freed>>

\* The tokenizer gives back its context and the line map, which is main's.
NotTokenized ==
  /\ stage = "tokenize" /\ scan = "failed"
  /\ Frees({"linemap", "tokens"})
  /\ stage' = "result"
  /\ UNCHANGED <<vars, tokenizerVars, made>>

Parse ==
  /\ stage = "parse" /\ status = "running"
  /\ Step
  /\ UNCHANGED <<tokenizerVars, mainVars>>

Parsed ==
  /\ stage = "parse" /\ status = "done"
  /\ stage' = "compile" /\ made' = made \union {"parser"}
  /\ UNCHANGED <<vars, tokenizerVars, freed>>

\* Mutant: the parser gives back the tokens it was given, as the tokenizer does
\* with the line map.
NotParsedFreesTokens ==
  /\ stage = "parse" /\ status = "error"
  /\ Frees({"tokens", "parser"})
  /\ stage' = "result"
  /\ UNCHANGED <<vars, tokenizerVars, made>>

NotParsed ==
  /\ stage = "parse" /\ status = "error"
  /\ Frees({"parser"})
  /\ stage' = "result"
  /\ UNCHANGED <<vars, tokenizerVars, made>>

\* simplejs_ast_to_bytecode refuses a tree with errors.
Compile ==
  /\ stage = "compile"
  /\ IF invalid
     THEN Frees({"compiler"}) /\ stage' = "result" /\ UNCHANGED made
     ELSE made' = made \union {"compiler"} /\ stage' = "execute" /\ UNCHANGED freed
  /\ UNCHANGED <<vars, tokenizerVars>>

\* The program runs; see the modules of the virtual machine.
Execute ==
  /\ stage = "execute"
  /\ stage' = "result"
  /\ UNCHANGED <<vars, tokenizerVars, made, freed>>

GiveBack ==
  /\ stage = "result"
  /\ Frees(made) /\ stage' = "over"
  /\ UNCHANGED <<vars, tokenizerVars, made>>

\* What main does once it has tokens.
AfterTokens == Parse \/ Parsed \/ NotParsed \/ Compile \/ Execute \/ GiveBack

FrontStep == Tokenize \/ Tokenized \/ NotTokenized \/ AfterTokens

\* Over, or stopped by an assertion or a wild read in the parser.
Stopped ==
  \/ stage = "over"
  \/ stage = "parse" /\ status \notin {"running", "done", "error"}

FrontNext == FrontStep \/ (Stopped /\ UNCHANGED frontVars)

FrontSpec == FrontInit /\ [][FrontNext]_frontVars /\ WF_frontVars(AfterTokens)
-----------------------------------------------------------------------------
\* main gives back everything that was made exactly once, however far it came,
\* except that the line map of a text the tokenizer refuses is freed twice.
FreedOnce ==
  stage = "over" =>
  /\ \A c \in made :
       freed[c] = IF c = "linemap" /\ scan = "failed" THEN 2 ELSE 1
  /\ \A c \in Contexts \ made : freed[c] <= 1
=============================================================================
