------------------------------ MODULE Tokenizer ------------------------------
(***************************************************************************)
(* The tokenizer (tokenizer.c): one round of the loop of simplejs_tokenize   *)
(* takes one character, or an operator or comment sign of several.  The      *)
(* characters from offset on that belong to the pending word are counted by  *)
(* len.  A text that has ended drops the pending word.                      *)
(*                                                                         *)
(* The line map (linemap.c) and what a diagnostic shows of a word            *)
(* (message.c) are functions of the text.                                   *)
(***************************************************************************)
EXTENDS Literals

VARIABLES
  text,     \* the characters of the file
  index,    \* ctx->index, ctx->offset and ctx->len
  offset,
  len,
  mode,     \* ctx->state
  level,    \* ctx->template_expr_level
  words,    \* ctx->token_list
  scan      \* "running", "done" or "failed"

tokenizerVars == <<text, index, offset, len, mode, level, words, scan>>

UselessChars == {"\r"}
Separators == {" ", "\t", "\n"}
OperatorChars == {"~", ";", ":", ",", ".", "$", "{", "}", "(", ")", "[", "]", "<", ">",
                  "+", "-", "*", "/", "%", "|", "&", "!", "="}
DecimalDigits == {"0", "1", "2", "3", "4", "5", "6", "7", "8", "9"}
NumberChars == DecimalDigits
               \union {".", "u", "i", "x", "o", "a", "b", "c", "d", "e", "f"}

\* composite_list_string
Composites ==
  {<<c>> : c \in {"=", "&", "|", "<", ">", "+", "-", "*", "/", "%", ":", ";", ".", ",",
                  "[", "]", "{", "}", "(", ")", "?", "!", "~"}}
  \union {<<c, "=">> : c \in {"=", "<", ">", "!", "+", "-", "*", "/", "%"}}
  \union {<<c, c>> : c \in {"&", "|", "<", ">", "+", "-", "?"}}
  \union UNION {{<<c, c, c>>, <<c, c, "=">>, <<c, c, c, "=">>} : c \in {"<", ">"}}
  \union {<<"=", ">">>}

Keywords == {"const", "let", "var", "if", "else", "for", "while", "class", "extends",
             "async", "function", "return", "label", "goto"}
ExprKeywords == {"typeof", "delete", "new", "null", "undefined", "this", "super", "globalThis"}
Booleans == {"true", "false"}

\* The backquote has no place in a TLA+ string.
Backquote == "backquote"

Quotes == {"'", "\"", Backquote}
ModeOf == "'" :> "string" @@ "\"" :> "double_string" @@ Backquote :> "template_string"
StringModes == {"string", "double_string", "template_string"}
CodeModes == {"idle", "template_expr"}

-----------------------------------------------------------------------------
(* Characters.                                                             *)

\* A slice of the text, and the string it spells.
Slice(from, size) ==
  SubSeq(text, from + 1, IF from + size < Len(text) THEN from + size ELSE Len(text))
Spelled(chars) ==
  LET first[n \in 0 .. Len(chars)] == IF n = 0 THEN "" ELSE first[n - 1] \o chars[n]
  IN first[Len(chars)]

Char == text[index + 1]
Ahead(sign) == Slice(index, Len(sign)) = sign

LineComment == <<"/", "/">>
CommentStart == <<"/", "*">>
CommentEnd == <<"*", "/">>
TemplateStart == <<"$", "{">>

\* The sizes of the operators that begin here.
OperatorSizes == {k \in 1 .. 4 : index + k <= Len(text) /\ Slice(index, k) \in Composites}

\* Mutant: the list is searched from the short operators to the long ones.
MunchShortest == IF OperatorSizes = {} THEN 0 ELSE Min(OperatorSizes)

\* The longest operator at this point, 0 if there is none.
Munch == Max({0} \union OperatorSizes)

-----------------------------------------------------------------------------
(* simplejs_add_token.                                                     *)

Kind(name) ==
  CASE name \in Keywords     -> "keyword"
    [] name \in Booleans     -> "boolean"
    [] name \in ExprKeywords -> "expr_keyword"
    [] OTHER                 -> "identifier"

Word(kind, from, size) ==
  [kind |-> kind, start |-> from, end |-> from + size,
   chars |-> Slice(from, size), value |-> <<0, 1>>]

\* The list of words with one more, if it has characters: none if the word is
\* not valid.
Added(type, from, size) ==
  LET chars == Slice(from, size)
      string == Unescaped(Unescaping(chars))
      number == ReadNumber(chars)
      With(word) == {Append(words, word)}
  IN CASE size = 0         -> {words}
       [] type = "string"  ->
            IF string.ok THEN With([Word("string", from, size) EXCEPT !.chars = string.buf])
            ELSE {}
       [] type = "number" \/ chars[1] \in DecimalDigits ->
            IF number.ok THEN With([Word("number", from, size) EXCEPT !.value = number.value])
            ELSE {}
       [] OTHER            -> With(Word(Kind(Spelled(chars)), from, size))

\* The pending word is added, as what the mode makes of it.
Pending ==
  Added(CASE mode \in CodeModes   -> "identifier"
          [] mode \in StringModes -> "string"
          [] OTHER                -> "number",
        offset, len)

-----------------------------------------------------------------------------
(* simplejs_tokenize.                                                      *)

TokenizerInit(begin) ==
  /\ text = begin
  /\ index = 0 /\ offset = 0 /\ len = 0
  /\ mode = "idle" /\ level = 0
  /\ words = <<>> /\ scan = "running"

\* simplejs_reset_position at the end of a round: the next word begins with the
\* next character.
Restart(next, newMode) ==
  /\ index' = next /\ offset' = next /\ len' = 0
  /\ mode' = newMode

\* The character belongs to the pending word.
Grow ==
  /\ index' = index + 1 /\ len' = len + 1
  /\ UNCHANGED <<offset, mode>>

Flush == words' \in Pending

Skip ==
  /\ Char \in UselessChars
  /\ Restart(index + 1, mode)
  /\ UNCHANGED <<level, words>>

InCode == mode \in CodeModes /\ Char \notin UselessChars

BeginsNumber == len = 0 /\ Char \in DecimalDigits

\* What is looked for before the template's braces and the operators.
Opens == Char \in Quotes \/ Ahead(LineComment) \/ Ahead(CommentStart) \/ BeginsNumber

OpenString ==
  /\ InCode /\ Char \in Quotes
  /\ Flush
  /\ Restart(index + 1, ModeOf[Char])
  /\ UNCHANGED level

OpenComment ==
  /\ InCode
  /\ \/ Ahead(LineComment) /\ Restart(index + 2, "line_comment")
     \/ Ahead(CommentStart) /\ Restart(index + 2, "comment")
  /\ Flush
  /\ UNCHANGED level

\* index steps back, to look at the digit again.
OpenNumber ==
  /\ InCode /\ BeginsNumber
  /\ Restart(index, "number")
  /\ UNCHANGED <<level, words>>

LevelHere ==
  CASE mode = "template_expr" /\ Char = "{" -> level + 1
    [] mode = "template_expr" /\ Char = "}" -> level - 1
    [] OTHER                                -> level

ClosesTemplate == mode = "template_expr" /\ LevelHere < 1

CloseTemplate ==
  /\ InCode /\ ~Opens /\ ClosesTemplate
  /\ Flush
  /\ level' = LevelHere
  /\ Restart(index + 1, "template_string")

\* An operator follows the pending word.  The dollar sign is none, but the word
\* it begins is taken to begin behind it.
Operator ==
  /\ InCode /\ ~Opens /\ ~ClosesTemplate
  /\ Char \in OperatorChars
  /\ level' = LevelHere
  /\ IF Munch > 0
     THEN /\ words' \in {Append(list, Word("operator", index, Munch)) : list \in Pending}
          /\ Restart(index + Munch, mode)
     ELSE /\ Flush
          /\ index' = index + 1 /\ offset' = index + 1 /\ len' = 1
          /\ UNCHANGED mode

Separate ==
  /\ InCode /\ ~Opens /\ Char \in Separators
  /\ Flush
  /\ Restart(index + 1, mode)
  /\ UNCHANGED level

GrowWord ==
  /\ InCode /\ ~Opens /\ Char \notin OperatorChars \union Separators
  /\ Grow
  /\ UNCHANGED <<level, words>>

\* A character that ends the number is looked at again, in idle mode.
Number ==
  /\ mode = "number" /\ Char \notin UselessChars
  /\ IF Lower(Char) \in NumberChars
     THEN Grow /\ UNCHANGED words
     ELSE Flush /\ Restart(index, "idle")
  /\ UNCHANGED level

ClosesString == Char \in Quotes /\ ModeOf[Char] = mode
OpensTemplate == mode = "template_string" /\ Ahead(TemplateStart)

String ==
  /\ mode \in StringModes /\ Char \notin UselessChars
  /\ CASE ClosesString  -> Flush /\ Restart(index + 1, "idle") /\ UNCHANGED level
       [] OpensTemplate -> Flush /\ Restart(index + 2, "template_expr") /\ level' = 1
       [] OTHER         -> Grow /\ UNCHANGED <<level, words>>

Comment ==
  /\ mode \in {"line_comment", "comment"} /\ Char \notin UselessChars
  /\ CASE mode = "line_comment" /\ Char = "\n" -> Restart(index + 1, "idle")
       [] mode = "comment" /\ Ahead(CommentEnd)   -> Restart(index + 2, "idle")
       [] OTHER                                -> Grow
  /\ UNCHANGED <<level, words>>

\* The pending word has to be added here, and is not valid.
Fails ==
  /\ Char \notin UselessChars
  /\ \/ /\ mode \in CodeModes
        /\ Opens \/ ClosesTemplate \/ Char \in OperatorChars \union Separators
     \/ mode = "number" /\ Lower(Char) \notin NumberChars
     \/ mode \in StringModes /\ (ClosesString \/ OpensTemplate)
  /\ Pending = {}
  /\ scan' = "failed"
  /\ UNCHANGED <<text, index, offset, len, mode, level, words>>

Finish ==
  /\ index = Len(text)
  /\ scan' = "done"
  /\ UNCHANGED <<text, index, offset, len, mode, level, words>>

TokenizerStep ==
  /\ scan = "running"
  /\ \/ Finish
     \/ index < Len(text) /\ Fails
     \/ /\ index < Len(text)
        /\ \/ Skip \/ OpenString \/ OpenComment \/ OpenNumber \/ CloseTemplate
           \/ Operator \/ Separate \/ GrowWord \/ Number \/ String \/ Comment
        /\ UNCHANGED <<text, scan>>

-----------------------------------------------------------------------------
(* The line map, and what simplejs_present_diagnostic_message shows.        *)

\* simplejs_generate_linemap: where each line starts and where its newline is.
Newlines == {i \in 0 .. Len(text) - 1 : text[i + 1] = "\n"}
Lines ==
  LET ends == SetToSortSeq(Newlines \union {Len(text)}, <)
  IN [l \in DOMAIN ends |-> [start |-> IF l = 1 THEN 0 ELSE ends[l - 1] + 1, end |-> ends[l]]]

\* Mutant: the first character of a line is none of it.
LocatedBehindStart(cursor, at) ==
  LET found == {l \in DOMAIN Lines : at > Lines[l].start /\ at < Lines[l].end}
  IN IF found = {} THEN cursor ELSE Min(found)

\* simplejs_get_linemap_by_offset: a cursor that no line sets keeps its value.
Located(cursor, at) ==
  LET found == {l \in DOMAIN Lines : at >= Lines[l].start /\ at < Lines[l].end}
  IN IF found = {} THEN cursor ELSE Min(found)

\* The value of a cursor that is read before it is set.
Unset == 0

\* The first and the last line shown for a word of a node that begins with
\* another word.
Shown(begin, word) ==
  LET first == Located(Unset, word.start)
      last == Located(first, word.end)
      from == Located(last, begin.start)
      to == Located(from, word.end)
  IN <<Min({first, from}), Max({last, to})>>
=============================================================================
