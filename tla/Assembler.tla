------------------------------ MODULE Assembler ------------------------------
(***************************************************************************)
(* simplejs_compile_instructions: the list of instructions becomes code.    *)
(*                                                                         *)
(* An instruction is short, with an immediate of 16 bits, or extended.      *)
(* A jump and the load of a constant or a function hold the distance from   *)
(* their end to what they refer to.  The compiler walks the list: it widens  *)
(* or narrows an instruction whose distance asks for it and starts over,    *)
(* and walks once more after a walk in which a label moved.                  *)
(*                                                                         *)
(* Half stands for 2^15: distances from Half to 2 * Half - 1 are taken for   *)
(* small enough for a short instruction.                                    *)
(*                                                                         *)
(* A short instruction ends before an extended one, so its distance may be  *)
(* wide while that of the same instruction, extended, is not.  The compiler *)
(* then widens and narrows it for ever.                                     *)
(***************************************************************************)
EXTENDS Integers, Sequences

CONSTANTS
  Programs,    \* the lists to compile
  Half         \* the first distance that a short immediate cannot hold

Base == 4
Extended == 6

\* An item of a list: count plain instructions, a label, a jump (or the load of
\* a function) to the label at position target, or the load of data that lies
\* target bytes into the data.
Item(kind, count, target) == [kind |-> kind, count |-> count, target |-> target]
Referring == {"jump", "load"}
AnyItem == [kind : {"plain", "label"} \union Referring, count : Nat, target : Nat]

ASSUME AssemblerAssumption ==
  /\ Half \in Nat \ {0}
  /\ Programs \subseteq Seq(AnyItem)
  /\ \A p \in Programs : \A i \in DOMAIN p :
       p[i].kind = "jump" =>
         p[i].target \in DOMAIN p /\ p[p[i].target].kind = "label"

VARIABLES
  program,     \* the list of instructions
  at,          \* position of the walk, 0 when the code is complete
  offset,      \* current_code_offset
  label,       \* data_offset of the labels
  extended,    \* the extended instructions
  imm,         \* imm_signed
  repeat,      \* repeat_count
  moved        \* has_incremented

vars == <<program, at, offset, label, extended, imm, repeat, moved>>

\* The code starts behind the header, the data behind room for the widest code.
CodeStart == Base
Count(p) == LET count[i \in 0 .. Len(p)] == IF i = 0 THEN 0 ELSE count[i - 1] + p[i].count
            IN count[Len(p)]
DataStart == CodeStart + Extended * Count(program)

Here == program[at]
SizeOf(i) == IF i \in extended THEN Extended ELSE Base * program[i].count
End == offset + SizeOf(at)

Target == IF Here.kind = "jump" THEN label[Here.target] ELSE DataStart + Here.target
Distance == Target - End

\* get_signed_int_size is above 2: it drops the sign bit, so that every
\* negative distance counts as wide.
IsWide(distance) == distance < 0 \/ distance >= 2 * Half

Init ==
  /\ program \in Programs
  /\ at = 1
  /\ offset = CodeStart
  /\ label = [i \in DOMAIN program |-> 0]
  /\ extended = {}
  /\ imm = [i \in DOMAIN program |-> 0]
  /\ repeat = 0
  /\ moved = FALSE

Restart ==
  /\ at' = 1
  /\ offset' = CodeStart
  /\ moved' = FALSE

Advance == at' = at + 1 /\ offset' = End

Walking(kinds) == at \in DOMAIN program /\ Here.kind \in kinds

Plain ==
  /\ Walking({"plain"})
  /\ Advance
  /\ UNCHANGED <<program, label, extended, imm, repeat, moved>>

\* Mutant: no walk follows the one in which labels moved.
PlaceLabelOnce ==
  /\ Walking({"label"})
  /\ label' = [label EXCEPT ![at] = offset]
  /\ at' = at + 1
  /\ UNCHANGED <<program, offset, extended, imm, repeat, moved>>

\* Mutant: every walk asks for another one.
PlaceLabelAgain ==
  /\ Walking({"label"})
  /\ repeat' = IF moved THEN repeat ELSE repeat + 1
  /\ moved' = TRUE
  /\ label' = [label EXCEPT ![at] = offset]
  /\ at' = at + 1
  /\ UNCHANGED <<program, offset, extended, imm>>

PlaceLabel ==
  /\ Walking({"label"})
  /\ LET again == label[at] # offset /\ ~moved
     IN /\ repeat' = IF again THEN repeat + 1 ELSE repeat
        /\ moved' = (moved \/ again)
  /\ label' = [label EXCEPT ![at] = offset]
  /\ at' = at + 1
  /\ UNCHANGED <<program, offset, extended, imm>>

Resize ==
  /\ Walking(Referring)
  /\ IsWide(Distance) # (at \in extended)
  /\ extended' = IF IsWide(Distance) THEN extended \union {at} ELSE extended \ {at}
  /\ Restart
  /\ UNCHANGED <<program, label, imm, repeat>>

Encode ==
  /\ Walking(Referring)
  /\ IsWide(Distance) = (at \in extended)
  /\ imm' = [imm EXCEPT ![at] = Distance]
  /\ Advance
  /\ UNCHANGED <<program, label, extended, repeat, moved>>

EndWalk ==
  /\ at = Len(program) + 1
  /\ IF repeat > 0
       THEN Restart /\ repeat' = repeat - 1
       ELSE at' = 0 /\ UNCHANGED <<offset, repeat, moved>>
  /\ UNCHANGED <<program, label, extended, imm>>

Done == at = 0 /\ UNCHANGED vars

Compile == Plain \/ PlaceLabel \/ Resize \/ Encode \/ EndWalk
Next == Compile \/ Done
Spec == Init /\ [][Next]_vars
FairSpec == Spec /\ WF_vars(Compile)

-----------------------------------------------------------------------------
(* The code as the VM reads it.                                            *)

\* Where the instruction at position i starts, or the label stands.
Place == LET place[i \in 1 .. Len(program) + 1] ==
               IF i = 1 THEN CodeStart
               ELSE place[i - 1] + (IF program[i - 1].kind = "label" THEN 0 ELSE SizeOf(i - 1))
         IN place

\* simplejs_bytecode_decode of what simplejs_bytecode_encode wrote.
Decoded(i) ==
  IF i \in extended THEN imm[i]
  ELSE LET low == imm[i] % (2 * Half) IN IF low >= Half THEN low - 2 * Half ELSE low

ReachedFrom(i) == Place[i] + SizeOf(i) + Decoded(i)
Meant(i) == IF program[i].kind = "jump" THEN Place[program[i].target]
            ELSE DataStart + program[i].target

-----------------------------------------------------------------------------
(* Properties.                                                             *)

\* However the sizes and the labels moved on the way, in the finished code
\* every jump and load that is not in the range a short immediate misreads
\* reaches what it refers to.
ReferencesLand ==
  at = 0 => \A i \in DOMAIN program :
    program[i].kind \in Referring /\ imm[i] \notin Half .. 2 * Half - 1
      => ReachedFrom(i) = Meant(i)

\* The instruction is wide when short and narrow when extended.
Undecided ==
  /\ Walking(Referring)
  /\ Target - (offset + Extended) < 2 * Half
  /\ Target - (offset + Base) >= 2 * Half

\* The widening and narrowing of instructions, and the walks that follow moved
\* labels, come to an end, unless an instruction can make up its mind on
\* neither size.
Terminates == []~Undecided => <>(at = 0)
=============================================================================
