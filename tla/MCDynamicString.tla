-------------------------- MODULE MCDynamicString --------------------------
(* Characters of one to four bytes in blocks of four: a few blocks.          *)
EXTENDS DynamicString

MCCodes == {97, 233, 65533, 128512}
MCTexts == {<<>>} \union {<<c>> : c \in MCCodes} \union {<<97, 233>>, <<233, 97>>, <<233, 65533>>}
=============================================================================
