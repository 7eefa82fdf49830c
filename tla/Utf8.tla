-------------------------------- MODULE Utf8 --------------------------------
(***************************************************************************)
(* The UTF-8 encoder and decoder (lib/utf8.c).  Bytes are numbers; the      *)
(* masks and shifts of the code are divisions and remainders.              *)
(***************************************************************************)
EXTENDS Integers, Sequences, FiniteSetsExt

MaxCode == 1114111          \* 0x10FFFF
Surrogates == 55296 .. 57343
ReplacementChar == 65533

\* fix_unicode
FixCode(code) == IF code = 0 \/ code \in Surrogates THEN ReplacementChar ELSE code

\* simplejs_utf8_get_unicode_char_size, of a code that is fixed
CharSize(code) == 1 + Cardinality({least \in {128, 2048, 65536} : code >= least})

LeadSign == <<0, 192, 224, 240>>

\* simplejs_utf8_encode_char: the bytes, none if the code is too large.
Encode(unicode) ==
  LET code == FixCode(unicode)
      size == CharSize(code)
  IN IF code > MaxCode THEN <<>>
     ELSE [i \in 1 .. size |->
             IF i = 1 THEN LeadSign[size] + (code \div 64 ^ (size - 1))
             ELSE 128 + ((code \div 64 ^ (size - i)) % 64)]

\* simplejs_utf8_is_continuation_byte
IsContinuation(byte) == byte \in 128 .. 191

\* The number of bytes the first one announces, 0 if it announces none.
Announced(byte) ==
  CASE byte \in 0 .. 127   -> 1
    [] byte \in 192 .. 223 -> 2
    [] byte \in 224 .. 239 -> 3
    [] byte \in 240 .. 247 -> 4
    [] OTHER               -> 0

\* simplejs_utf8_decode_char: how many bytes it takes, the code they stand for
\* and whether they are valid.
Decode(bytes) ==
  LET first == IF bytes = <<>> THEN 0 ELSE bytes[1]
      most == Max({1, Announced(first)})
      taken == Max({n \in 1 .. most :
                      \A i \in 2 .. n : i <= Len(bytes) /\ IsContinuation(bytes[i])})
      lead == first - (IF Announced(first) = 0 THEN first ELSE LeadSign[Announced(first)])
      upTo[i \in 1 .. taken] == IF i = 1 THEN lead ELSE upTo[i - 1] * 64 + bytes[i] - 128
      code == upTo[taken] * 64 ^ (most - taken)
      valid == /\ Announced(first) = taken
               /\ code \in 1 .. MaxCode /\ code \notin Surrogates
  IN [valid |-> valid,
      size |-> IF bytes = <<>> THEN 0 ELSE taken,
      code |-> IF valid THEN code ELSE ReplacementChar]
=============================================================================
