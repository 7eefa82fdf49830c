------------------------------ MODULE Literals ------------------------------
(***************************************************************************)
(* What the tokenizer makes of the characters of a string or a number       *)
(* (tokenizer.c): escape sequences are replaced in place, one after the      *)
(* other, and numbers are read from their last digit to their first.        *)
(*                                                                         *)
(* A character is a string of length one.  A byte of an escaped character    *)
(* that is none of those in Ascii stands as its decimal number.             *)
(***************************************************************************)
EXTENDS Utf8, SequencesExt, TLC

NoChar == ""

\* tolower, for the letters that numbers and escapes are made of
LowerCase ==
  [A |-> "a", B |-> "b", C |-> "c", D |-> "d", E |-> "e", F |-> "f",
   I |-> "i", O |-> "o", U |-> "u", X |-> "x"]
Lower(c) == IF c \in DOMAIN LowerCase THEN LowerCase[c] ELSE c

HexDigits == <<"0", "1", "2", "3", "4", "5", "6", "7", "8", "9", "a", "b", "c", "d", "e", "f">>
DigitValue(c) == CHOOSE d \in 0 .. 15 : HexDigits[d + 1] = c

\* simplejs_get_number_by_char
IsDigit(c, base) == \E d \in 1 .. base : HexDigits[d] = c

ValueOf(digits, base) ==
  LET first[n \in 0 .. Len(digits)] ==
        IF n = 0 THEN 0 ELSE first[n - 1] * base + DigitValue(digits[n])
  IN first[Len(digits)]

Ascii == 39 :> "'" @@ 92 :> "\\" @@ 110 :> "n" @@ 117 :> "u" @@ 120 :> "x"
Chr(byte) == IF byte \in DOMAIN Ascii THEN Ascii[byte] ELSE ToString(byte)
Chars(bytes) == [i \in DOMAIN bytes |-> Chr(bytes[i])]

-----------------------------------------------------------------------------
(* simplejs_process_substring.                                             *)

SpecialChars == [n |-> "\n", r |-> "\r", t |-> "\t", b |-> "backspace"]

\* i is the character it looks at; left counts the characters an escape still
\* takes; at is its backslash.  digits is utf8Buffer: it is not cleared for the
\* next escape.
Unescaping(chars) ==
  [buf |-> chars, i |-> 1, at |-> 0, left |-> 0, hex |-> FALSE, braces |-> FALSE,
   digits |-> [k \in 1 .. 7 |-> NoChar], count |-> 0, ok |-> TRUE]

Invalid(s) == [s EXCEPT !.ok = FALSE]

\* The characters from the backslash to this one become new; the next look is
\* at the first of them.
Replaced(s, new) ==
  [s EXCEPT !.buf = SubSeq(@, 1, s.at - 1) \o new \o SubSeq(@, s.i + 1, Len(@)),
            !.i = s.at, !.left = 0]

\* Mutant: the digits of the last escape are taken along.
BeginCodeKeepsCount(s) == [s EXCEPT !.hex = TRUE, !.braces = FALSE, !.left = 4, !.i = @ + 1]

BeginCode(s) ==
  [s EXCEPT !.hex = TRUE, !.braces = FALSE, !.count = 0, !.left = 4, !.i = @ + 1]

Special(s, c) ==
  CASE c = "u"                   -> BeginCode(s)
    [] c \in DOMAIN SpecialChars -> Replaced(s, <<SpecialChars[c]>>)
    [] OTHER                     -> Invalid(s)

\* A digit or brace of a code: the last one ends the digits one place behind
\* them, and strtoul reads up to there.
Encoded(s) ==
  LET kept == [s.digits EXCEPT ![s.count + 2] = NoChar]
      code == SelectSeq(SubSeq(kept, 1, s.count + 1), LAMBDA c : c # NoChar)
  IN Replaced([s EXCEPT !.digits = kept], Chars(Encode(ValueOf(code, 16))))

Taken(s) == [s EXCEPT !.left = @ - 1, !.i = @ + 1]

CodeChar(s, c) ==
  CASE c = "{" -> Taken([s EXCEPT !.left = 255, !.braces = TRUE])
    [] c = "}" -> IF s.braces /\ s.count > 0
                  THEN Encoded([s EXCEPT !.count = @ - 1, !.braces = FALSE])
                  ELSE Invalid(s)
    [] IsDigit(c, 16) ->
         LET t == [s EXCEPT !.digits[s.count + 1] = c, !.count = @ + 1] IN
         CASE t.left < 2  -> Encoded(t)
           [] t.count < 6 -> Taken(t)
           [] OTHER       -> Invalid(t)
    [] OTHER   -> Invalid(s)

\* What may come of the characters of a literal, an escape at a time.
Unescapings ==
  [buf : Seq(STRING), i : Nat, at : Nat, left : Nat, hex : BOOLEAN, braces : BOOLEAN,
   digits : Seq(STRING), count : Nat, ok : BOOLEAN]

Unescaped(begin) ==
  LET From[s \in Unescapings] ==
        IF ~s.ok \/ s.i > Len(s.buf) THEN s
        ELSE LET c == s.buf[s.i] IN
             From[CASE s.left > 0 /\ s.hex -> CodeChar(s, Lower(c))
                    [] s.left > 0          -> Special(s, c)
                    [] c = "\\"            ->
                         [s EXCEPT !.hex = FALSE, !.left = 1, !.at = s.i, !.i = @ + 1]
                    [] OTHER               -> [s EXCEPT !.i = @ + 1]]
  IN From[begin]

-----------------------------------------------------------------------------
(* simplejs_process_number.                                                *)

NumberSuffixes == {<<"i", "3", "2">>, <<"i", "6", "4">>, <<"u", "i", "3", "2">>,
             <<"u", "i", "6", "4">>, <<"f", "3", "2">>, <<"f", "6", "4">>}

\* The longest suffix the number ends with.
SuffixOf(chars) ==
  LET found == {s \in NumberSuffixes : IsSuffix(s, chars)}
  IN IF found = {} THEN <<>>
     ELSE CHOOSE s \in found : \A t \in found : Len(s) >= Len(t)

IsFloat(suffix) == suffix = <<>> \/ Head(suffix) = "f"

\* simplejs_get_number_base_by_string, and the characters it reserves
BaseOf(chars) ==
  IF Len(chars) < 2 \/ chars[1] # "0" THEN <<10, 0>>
  ELSE CASE chars[2] = "." -> <<10, 1>>
         [] chars[2] = "x" -> <<16, 2>>
         [] chars[2] = "o" -> <<8, 2>>
         [] chars[2] = "b" -> <<2, 2>>
         [] OTHER          -> <<8, 1>>

\* simplejs_process_int_number and simplejs_process_float_number: the value is
\* a natural number over a power of the base.  Numbers here stay below 2^31.
ReadNumber(chars) ==
  LET lower == [i \in DOMAIN chars |-> Lower(chars[i])]
      suffix == SuffixOf(lower)
      number == SubSeq(lower, 1, Len(lower) - Len(suffix))
      base == BaseOf(number)[1]
      body == SubSeq(number, BaseOf(number)[2] + 1, Len(number))
      dot == SelectInSeq(body, LAMBDA c : c = ".")
      digits == SelectSeq(body, LAMBDA c : c # ".")
      ok == /\ \A i \in DOMAIN digits : IsDigit(digits[i], base)
            /\ Len(body) - Len(digits) <= (IF IsFloat(suffix) THEN 1 ELSE 0)
  IN [ok |-> ok,
      value |-> IF ~ok THEN <<0, 1>>
                ELSE <<ValueOf(digits, base),
                       IF dot = 0 THEN 1 ELSE base ^ (Len(body) - dot)>>]
=============================================================================
