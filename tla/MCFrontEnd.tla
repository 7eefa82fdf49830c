----------------------------- MODULE MCFrontEnd -----------------------------
(***************************************************************************)
(* The front end on the token lists of MCParser, and on all texts of a few   *)
(* characters of each of the kinds the tokenizer tells apart.                *)
(***************************************************************************)
EXTENDS MCParser

B == Scanner!Backquote

\* The texts that begin in one way and go on with at most n of some characters.
Written(begin, chars, n) == {begin \o rest : rest \in SeqOf(chars, n)}

Codes == <<"'", "\\", "u">>

MCFiles == UNION {
  \* words, operators and comments
  Written(<<>>, {"x", "1", "=", "<", " ", ";"}, 4),
  Written(<<"x", ">">>, {">", "=", "-", ";"}, 4),
  Written(<<"/">>, {"/", "*", "x", "\n"}, 5),
  Written(<<"x">>, {"\r", "\n", "x", ";"}, 3),
  Written(<<"x", " ">>, {"$", "x", "1", ";"}, 3),
  \* strings and templates
  Written(<<>>, {"'", "\"", B, "x", "\n"}, 4),
  Written(<<B>>, {"$", "{", "x", B}, 4),
  Written(<<B, "$", "{">>, {"x", "1", "{", "}", B}, 4),
  \* escapes
  Written(<<"'", "\\">>, {"n", "u", "'", "\\"}, 3),
  Written(Codes, {"0", "{", "}", "'"}, 5),
  Written(Codes, {"0", "8", "'"}, 5),
  Written(Codes \o <<"{", "1", "2", "3", "4", "5", "}", "\\", "u">>, {"0", "}", "n", "'"}, 5),
  Written(Codes \o <<"{", "1", "f", "6", "}", "\\", "u", "{">>, {"0", "}", "n", "'"}, 4),
  Written(Codes \o <<"{", "5", "c", "}">>, {"0", "x", "n", "'"}, 2),
  \* numbers
  Written(<<"0">>, {"7", "8", ".", "b", "O", ";"}, 3),
  Written(<<"0", "x">>, {"F", "3", "2", ";"}, 4),
  Written(<<"1", "u">>, {"i", "3", "2", ";"}, 4),
  Written(<<"1", ".">>, {"5", "f", "6", "4", ";"}, 4) }

-----------------------------------------------------------------------------
(* The words of a text, by the grammar: at each place the longest word.      *)

Here(i) == text[i + 1]
At2(i, a, b) == i + 1 < Len(text) /\ Here(i) = a /\ Here(i + 1) = b
Commented(i) == At2(i, "/", "/") \/ At2(i, "/", "*")

\* The first place from i on where the test holds, or the end of the text.
First(i, Test(_)) ==
  LET found == {j \in i .. Len(text) - 1 : Test(j)}
  IN IF found = {} THEN Len(text) ELSE Min(found)

IsStop(j) ==
  \/ Here(j) \in Scanner!Separators \union Scanner!OperatorChars \union Scanner!Quotes
  \/ Commented(j)

Composite(i) ==
  Max({k \in 1 .. 4 : i + k <= Len(text)
                      /\ SubSeq(text, i + 1, i + k) \in Scanner!Composites})

Span(kind, from, to) == IF from = to THEN <<>> ELSE <<[kind |-> kind, start |-> from, end |-> to]>>

\* After a literal or a comment the tokenizer forgets that it is in a template.
Restarts(i) == Here(i) \in Scanner!DecimalDigits \union Scanner!Quotes \/ Commented(i)

\* braces counts those that are open in a template's expression, 0 outside.
\* A word that the text ends in is not finished.  The words end where the
\* tokenizer is known not to follow the grammar.
RECURSIVE Lexed(_, _), Templated(_)
Lexed(i, braces) ==
  LET IsNumberEnd(j) == Scanner!Lower(Here(j)) \notin Scanner!NumberChars
      IsQuote(j) == Here(j) = Here(i)
      IsNewline(j) == Here(j) = "\n"
      IsCommentEnd(j) == j >= i + 2 /\ At2(j, "*", "/")
      After(kind, from, to, next, open) ==
        IF to = Len(text) THEN <<>> ELSE Span(kind, from, to) \o Lexed(next, open)
  IN CASE i >= Len(text)                   -> <<>>
       [] Here(i) \in Scanner!Separators   -> Lexed(i + 1, braces)
       [] braces > 0 /\ Restarts(i)        -> Span("restart", i, i + 1)
       [] Here(i) = "$"                    -> Span("dollar", i, i + 1)
       [] Here(i) = B                      -> Templated(i + 1)
       [] Here(i) \in Scanner!Quotes       ->
            LET end == First(i + 1, IsQuote) IN After("string", i + 1, end, end + 1, braces)
       [] At2(i, "/", "/")                 -> Lexed(First(i, IsNewline) + 1, braces)
       [] At2(i, "/", "*")                 -> Lexed(First(i, IsCommentEnd) + 2, braces)
       [] Here(i) \in Scanner!DecimalDigits ->
            LET end == First(i, IsNumberEnd) IN After("number", i, end, end, braces)
       [] Here(i) = "}" /\ braces = 1      -> Templated(i + 1)
       [] Here(i) \in Scanner!OperatorChars ->
            Span("operator", i, i + Composite(i))
              \o Lexed(i + Composite(i),
                       CASE braces > 0 /\ Here(i) = "{" -> braces + 1
                         [] braces > 0 /\ Here(i) = "}" -> braces - 1
                         [] OTHER                       -> braces)
       [] OTHER                            ->
            LET end == First(i, IsStop) IN After("name", i, end, end, braces)

Templated(i) ==
  LET IsEnd(j) == Here(j) = B \/ At2(j, "$", "{")
      end == First(i, IsEnd)
  IN IF end = Len(text) THEN <<>>
     ELSE Span("string", i, end)
            \o (IF Here(end) = B THEN Lexed(end + 1, 0) ELSE Lexed(end + 2, 1))

Spans ==
  [k \in DOMAIN words |->
     [kind |-> IF words[k].kind \in {"string", "number", "operator"} THEN words[k].kind
               ELSE "name",
      start |-> words[k].start, end |-> words[k].end]]

Astray(list) == \E k \in DOMAIN list : list[k].kind \in {"dollar", "restart"}

\* The tokenizer finds the words of the grammar, whatever mode it was in when
\* they began.  Excepted are texts with a carriage return, which takes the word
\* before it away; with a dollar sign in code, after which the words are one
\* character off; and with a literal or a comment in the expression of a
\* template, at whose end the tokenizer forgets that it is in a template.
WordsAreLexed ==
  scan = "done" /\ "\r" \notin Range(text) =>
  Spans = Lexed(0, 0) \/ Astray(Lexed(0, 0))

-----------------------------------------------------------------------------
(* What strings and numbers mean.                                          *)

IsHex(chars) == \A i \in DOMAIN chars : Scanner!IsDigit(Scanner!Lower(chars[i]), 16)
CodeOf(chars) == Scanner!ValueOf([i \in DOMAIN chars |-> Scanner!Lower(chars[i])], 16)

\* The escape sequences a string begins with: how long each is and what it stands for.
EscapesOf(chars) ==
  LET braced(n) == SubSeq(chars, 4, n + 3)
      special == IF Len(chars) >= 2 /\ chars[2] \in DOMAIN Scanner!SpecialChars
                 THEN {[size |-> 2, code |-> 0]} ELSE {}
      fixed == IF Len(chars) >= 6 /\ chars[2] = "u" /\ IsHex(SubSeq(chars, 3, 6))
               THEN {[size |-> 6, code |-> CodeOf(SubSeq(chars, 3, 6))]} ELSE {}
      variable == {[size |-> n + 4, code |-> CodeOf(braced(n))] :
                     n \in {n \in 1 .. 5 : /\ Len(chars) >= n + 4
                                           /\ chars[2] = "u" /\ chars[3] = "{"
                                           /\ IsHex(braced(n)) /\ chars[n + 4] = "}"}}
  IN special \union fixed \union variable

\* The string ends within an escape sequence.
Cut(chars) ==
  \/ Len(chars) = 1
  \/ chars[2] = "u" /\ Len(chars) <= 5 /\ IsHex(SubSeq(chars, 3, Len(chars)))
  \/ /\ chars[2] = "u" /\ Len(chars) \in 3 .. 8 /\ chars[3] = "{"
     /\ IsHex(SubSeq(chars, 4, Len(chars)))

\* The sequences of a string from left to right, each on its own.
RECURSIVE Meaning(_)
Meaning(chars) ==
  IF chars = <<>> THEN [ok |-> TRUE, chars |-> <<>>, codes |-> <<>>]
  ELSE IF chars[1] # "\\"
       THEN LET rest == Meaning(Tail(chars)) IN [rest EXCEPT !.chars = <<chars[1]>> \o @]
  ELSE IF EscapesOf(chars) = {} THEN [ok |-> Cut(chars), chars |-> chars, codes |-> <<>>]
  ELSE LET escape == CHOOSE e \in EscapesOf(chars) : TRUE
           rest == Meaning(SubSeq(chars, escape.size + 1, Len(chars)))
           new == IF escape.size = 2 THEN <<Scanner!SpecialChars[chars[2]]>>
                  ELSE Scanner!Chars(Scanner!Encode(escape.code))
       IN [rest EXCEPT !.chars = new \o @,
                       !.codes = (IF escape.size = 2 THEN <<>>
                                  ELSE <<[code |-> escape.code, size |-> escape.size]>>) \o @]

\* The strings the tokenizer does not take as it should: a brace among the digits
\* of a code, a code that stands for a backslash, which then begins an escape
\* sequence, and four digits after five, whose last one is taken along.
Strayed(chars) ==
  LET codes == Meaning(chars).codes IN
  \/ \E i \in DOMAIN chars : chars[i] = "{" /\ (i = 1 \/ chars[i - 1] # "u")
  \/ \E i \in DOMAIN codes : codes[i].code = 92
  \/ \E i, j \in DOMAIN codes : i < j /\ codes[i].size = 9 /\ codes[j].size = 6

\* The value of a number: the sum of its digits at their places.
Value(chars) ==
  LET lower == [i \in DOMAIN chars |-> Scanner!Lower(chars[i])]
      suffix == Scanner!SuffixOf(lower)
      number == SubSeq(lower, 1, Len(lower) - Len(suffix))
      letter == IF Len(number) > 1 /\ number[1] = "0" THEN number[2] ELSE "."
      base == CASE letter = "." -> 10 [] letter = "x" -> 16 [] letter = "b" -> 2 [] OTHER -> 8
      body == {i \in DOMAIN number : letter \in {"x", "o", "b"} => i > 2}
      dots == {i \in body : number[i] = "."}
      behind(i) == base ^ Cardinality({j \in body \ dots : j > i})
      place(i) == Scanner!DigitValue(number[i]) * behind(i)
      ok == /\ \A i \in body \ dots : Scanner!IsDigit(number[i], base)
            /\ Cardinality(dots) <= (IF Scanner!IsFloat(suffix) THEN 1 ELSE 0)
  IN [ok |-> ok,
      value |-> IF ~ok THEN <<0, 1>>
                ELSE <<MapThenSumSet(place, body \ dots),
                       IF dots = {} THEN 1 ELSE behind(Min(dots))>>]

Original(word) == SubSeq(text, word.start + 1, word.end)

WordMeans(word) ==
  LET chars == Original(word) IN
  CASE word.kind = "string" ->
         ~Strayed(chars) => Meaning(chars).ok /\ word.chars = Meaning(chars).chars
    [] word.kind = "number" -> Value(chars).ok /\ word.value = Value(chars).value
    [] OTHER                -> TRUE

\* The bytes that stand for the codes of a string are decoded to them.
CodesDecode(chars) ==
  LET codes == Meaning(chars).codes IN
  \A k \in DOMAIN codes :
    LET bytes == Scanner!Encode(codes[k].code) IN
    Scanner!Decode(bytes)
      = [valid |-> TRUE, size |-> Len(bytes), code |-> Scanner!FixCode(codes[k].code)]

\* Every escape sequence of a string stands for its own code, in bytes that are
\* decoded to it, and every number has the value its digits write; the tokenizer
\* fails at those, and only at those, that are neither.
LiteralsMean ==
  /\ scan = "done" =>
       \A i \in DOMAIN words :
         /\ WordMeans(words[i])
         /\ words[i].kind = "string" => CodesDecode(Original(words[i]))
  /\ scan = "failed" =>
       LET chars == SubSeq(text, offset + 1, offset + len) IN
       IF mode \in Scanner!StringModes THEN Strayed(chars) \/ ~Meaning(chars).ok
       ELSE Astray(Lexed(0, 0)) \/ ~Value(chars).ok

-----------------------------------------------------------------------------
(* Diagnostics, and the end.                                               *)

LineOf(i) == 1 + Cardinality({j \in 0 .. i - 1 : Here(j) = "\n"})

\* A diagnostic for a word of a node shows the lines from the first word of the
\* node to where the word ends, although neither the end of a line
\* nor the end of the text is in a line of the line map.  A word that begins with
\* the end of a line has no line: a cursor that was never set is read.
LinesShown ==
  scan = "done" /\ ~Astray(Lexed(0, 0)) =>
  \A i, j \in DOMAIN words :
    i <= j /\ Here(words[i].start) # "\n" /\ Here(words[j].start) # "\n" =>
      Scanner!Shown(words[i], words[j])
        = <<LineOf(words[i].start), LineOf(words[j].end)>>

\* Once main has tokens it comes to its end, unless the parser stops at an
\* assertion or leaves its tokens: each round of the parser and each activation
\* takes a token or leaves a node.
Ends == stage = "parse" ~> Stopped
=============================================================================
