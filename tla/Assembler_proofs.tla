--------------------------- MODULE Assembler_proofs ---------------------------
(***************************************************************************)
(* Proofs about Assembler, for every list of instructions.                  *)
(***************************************************************************)
EXTENDS Assembler, WellFoundedInduction, TLAPS

-----------------------------------------------------------------------------
(* Numbers                                                                  *)

\* Every set of natural numbers that is not empty has a least element.
LEMMA LeastNumber ==
  ASSUME NEW S \in SUBSET Nat, S # {}
  PROVE  \E n \in S : \A m \in S : n <= m
<1> DEFINE R == OpToRel(<, Nat)
<1>1. IsWellFoundedOn(R, Nat)
  BY NatLessThanWellFounded
<1>2. \A x, y \in Nat : x < y => <<x, y>> \in R
  BY DEF OpToRel
<1> HIDE DEF R
<1>3. PICK n \in S : \A m \in S : ~(<<m, n>> \in R)
  BY <1>1, WFMin
<1>4. n \in Nat /\ \A m \in S : m \in Nat /\ ~(m < n)
  BY <1>2, <1>3
<1> QED
  BY <1>4

\* A set that has 0, and with a number the next one, has all of them.
LEMMA NaturalInduction ==
  ASSUME NEW S, 0 \in S, \A n \in Nat : n \in S => n + 1 \in S
  PROVE  Nat \subseteq S
<1> SUFFICES ASSUME Nat \ S # {}
             PROVE  FALSE
  OBVIOUS
<1>1. PICK n \in Nat \ S : \A m \in Nat \ S : n <= m
  BY LeastNumber
<1>2. n - 1 \in Nat /\ n - 1 \in S
  BY <1>1
<1> QED
  BY <1>1, <1>2

-----------------------------------------------------------------------------
(* Places: the sums of the sizes of the items before.                       *)

\* What the item at position i of p takes in the code, when those in x are
\* extended.
Width(p, x, i) ==
  IF p[i].kind = "label" THEN 0 ELSE IF i \in x THEN Extended ELSE Base * p[i].count

\* Running sums of the widths, and the definition of Place for any p and x.
Sums(p, x, n) ==
  {q \in [1 .. n -> Int] :
     q = [i \in 1 .. n |-> IF i = 1 THEN CodeStart ELSE q[i - 1] + Width(p, x, i - 1)]}

PlaceIn(p, x) ==
  LET place[i \in 1 .. Len(p) + 1] ==
        IF i = 1 THEN CodeStart ELSE place[i - 1] + Width(p, x, i - 1)
  IN place

LEMMA WidthIsInt ==
  ASSUME NEW p \in Seq(AnyItem), NEW x, NEW i \in DOMAIN p
  PROVE  Width(p, x, i) \in Int
<1>1. p[i] \in AnyItem
  OBVIOUS
<1>2. p[i].count \in Nat
  BY <1>1 DEF AnyItem
<1> QED
  BY <1>2 DEF Width, Base, Extended

\* The recursion over the positions defines a function.
LEMMA SumsExist ==
  ASSUME NEW p \in Seq(AnyItem), NEW x
  PROVE  Sums(p, x, Len(p) + 1) # {}
<1> DEFINE S == {n \in Nat : n <= Len(p) => Sums(p, x, n + 1) # {}}
<1>1. 0 \in S
  <2> DEFINE q == [i \in 1 .. 1 |-> CodeStart]
  <2>1. q \in Sums(p, x, 1)
    BY DEF Sums, CodeStart, Base
  <2> QED
    BY <2>1
<1>2. ASSUME NEW n \in Nat, n \in S PROVE n + 1 \in S
  <2> SUFFICES ASSUME n + 1 <= Len(p) PROVE Sums(p, x, n + 2) # {}
    OBVIOUS
  <2>1. PICK q \in Sums(p, x, n + 1) : TRUE
    BY <1>2
  <2>2. Width(p, x, n + 1) \in Int
    BY WidthIsInt
  <2> DEFINE r == [i \in 1 .. n + 2 |->
                     IF i = n + 2 THEN q[n + 1] + Width(p, x, n + 1) ELSE q[i]]
  <2>3. /\ q \in [1 .. n + 1 -> Int]
        /\ \A i \in 1 .. n + 1 :
             q[i] = IF i = 1 THEN CodeStart ELSE q[i - 1] + Width(p, x, i - 1)
    BY <2>1 DEF Sums
  <2>4. r \in [1 .. n + 2 -> Int]
    BY <2>2, <2>3
  <2>5. \A i \in 1 .. n + 2 :
          r[i] = IF i = 1 THEN CodeStart ELSE r[i - 1] + Width(p, x, i - 1)
    <3> TAKE i \in 1 .. n + 2
    <3>1. CASE i = n + 2
      BY <3>1, <2>3
    <3>2. CASE i \in 1 .. n + 1
      BY <3>2, <2>3
    <3> QED
      BY <3>1, <3>2
  <2>6. r \in Sums(p, x, n + 2)
    BY <2>4, <2>5 DEF Sums
  <2> QED
    BY <2>6
<1> HIDE DEF S
<1>3. Len(p) \in S
  BY <1>1, <1>2, NaturalInduction
<1> QED
  BY <1>3 DEF S

\* An item starts where the one before it ends.
LEMMA PlacesAreSums ==
  ASSUME NEW p \in Seq(AnyItem), NEW x
  PROVE  /\ PlaceIn(p, x) \in [1 .. Len(p) + 1 -> Int]
         /\ PlaceIn(p, x)[1] = CodeStart
         /\ \A i \in DOMAIN p : PlaceIn(p, x)[i + 1] = PlaceIn(p, x)[i] + Width(p, x, i)
<1> DEFINE P == PlaceIn(p, x)
<1>1. PICK q \in Sums(p, x, Len(p) + 1) : TRUE
  BY SumsExist
<1>2. q = [i \in 1 .. Len(p) + 1 |->
             IF i = 1 THEN CodeStart ELSE q[i - 1] + Width(p, x, i - 1)]
  BY <1>1 DEF Sums
<1>3. P = [i \in 1 .. Len(p) + 1 |->
             IF i = 1 THEN CodeStart ELSE P[i - 1] + Width(p, x, i - 1)]
  BY <1>2 DEF PlaceIn
<1> HIDE DEF P
<1>4. Len(p) \in Nat
  OBVIOUS
<1>5. P[1] = CodeStart
  BY <1>3, <1>4
<1>6. \A i \in DOMAIN p : P[i + 1] = P[i] + Width(p, x, i)
  BY <1>3, <1>4
<1> DEFINE S == {n \in Nat : n <= Len(p) => P[n + 1] \in Int}
<1>7. 0 \in S
  BY <1>5 DEF CodeStart, Base
<1>8. ASSUME NEW n \in Nat, n \in S PROVE n + 1 \in S
  <2> SUFFICES ASSUME n + 1 <= Len(p) PROVE P[n + 2] \in Int
    OBVIOUS
  <2>1. P[n + 2] = P[n + 1] + Width(p, x, n + 1)
    BY <1>6
  <2>2. Width(p, x, n + 1) \in Int
    BY WidthIsInt
  <2> QED
    BY <2>1, <2>2, <1>8
<1> HIDE DEF S
<1>9. Nat \subseteq S
  BY <1>7, <1>8, NaturalInduction
<1>10. \A i \in 1 .. Len(p) + 1 : P[i] \in Int
  <2> TAKE i \in 1 .. Len(p) + 1
  <2>1. i - 1 \in S
    BY <1>9, <1>4
  <2> QED
    BY <2>1, <1>4 DEF S
<1>11. P \in [1 .. Len(p) + 1 -> Int]
  BY <1>3, <1>10
<1> QED
  BY <1>5, <1>6, <1>11 DEF P

\* The number of instructions is a number.
Counts(p, n) ==
  {q \in [0 .. n -> Int] : q = [i \in 0 .. n |-> IF i = 0 THEN 0 ELSE q[i - 1] + p[i].count]}

LEMMA CountIsInt ==
  ASSUME NEW p \in Seq(AnyItem)
  PROVE  Count(p) \in Int
<1> DEFINE S == {n \in Nat : n <= Len(p) => Counts(p, n) # {}}
<1>1. 0 \in S
  <2>1. [i \in 0 .. 0 |-> 0] \in Counts(p, 0)
    BY DEF Counts
  <2> QED
    BY <2>1
<1>2. ASSUME NEW n \in Nat, n \in S PROVE n + 1 \in S
  <2> SUFFICES ASSUME n + 1 <= Len(p) PROVE Counts(p, n + 1) # {}
    OBVIOUS
  <2>1. PICK q \in Counts(p, n) : TRUE
    BY <1>2
  <2>2. p[n + 1] \in AnyItem
    OBVIOUS
  <2>3. p[n + 1].count \in Nat
    BY <2>2 DEF AnyItem
  <2> DEFINE r == [i \in 0 .. n + 1 |-> IF i = n + 1 THEN q[n] + p[n + 1].count ELSE q[i]]
  <2>4. /\ q \in [0 .. n -> Int]
        /\ \A i \in 0 .. n : q[i] = IF i = 0 THEN 0 ELSE q[i - 1] + p[i].count
    BY <2>1 DEF Counts
  <2>5. r \in [0 .. n + 1 -> Int]
    BY <2>3, <2>4
  <2>6. \A i \in 0 .. n + 1 : r[i] = IF i = 0 THEN 0 ELSE r[i - 1] + p[i].count
    <3> TAKE i \in 0 .. n + 1
    <3>1. CASE i = n + 1
      BY <3>1, <2>4
    <3>2. CASE i \in 0 .. n
      BY <3>2, <2>4
    <3> QED
      BY <3>1, <3>2
  <2>7. r \in Counts(p, n + 1)
    BY <2>5, <2>6 DEF Counts
  <2> QED
    BY <2>7
<1> HIDE DEF S
<1>3. Len(p) \in Nat /\ Len(p) \in S
  BY <1>1, <1>2, NaturalInduction
<1>4. PICK q \in Counts(p, Len(p)) : TRUE
  BY <1>3 DEF S
<1> DEFINE c == CHOOSE f : f = [i \in 0 .. Len(p) |-> IF i = 0 THEN 0 ELSE f[i - 1] + p[i].count]
<1>5. c = [i \in 0 .. Len(p) |-> IF i = 0 THEN 0 ELSE c[i - 1] + p[i].count]
  BY <1>4 DEF Counts
<1>6. Count(p) = c[Len(p)]
  BY DEF Count
<1> HIDE DEF c
<1> DEFINE T == {n \in Nat : n <= Len(p) => c[n] \in Int}
<1>7. 0 \in T
  BY <1>5, <1>3
<1>8. ASSUME NEW n \in Nat, n \in T PROVE n + 1 \in T
  <2> SUFFICES ASSUME n + 1 <= Len(p) PROVE c[n + 1] \in Int
    OBVIOUS
  <2>1. p[n + 1] \in AnyItem
    OBVIOUS
  <2>2. p[n + 1].count \in Nat
    BY <2>1 DEF AnyItem
  <2> QED
    BY <1>5, <1>8, <2>2, <1>3
<1> HIDE DEF T
<1>9. Len(p) \in T
  BY <1>7, <1>8, <1>3, NaturalInduction
<1> QED
  BY <1>6, <1>9, <1>3 DEF T

-----------------------------------------------------------------------------
(* The walk.                                                                *)

\* What the item at position i refers to, as the labels are now.
Referred(i) == IF program[i].kind = "jump" THEN label[program[i].target]
               ELSE DataStart + program[i].target

\* The item at position i is as the labels and sizes of now ask for: a label
\* stands where it is placed, an instruction has the size its distance needs
\* and holds the distance.
Settled(i) ==
  /\ program[i].kind = "label" => label[i] = Place[i]
  /\ program[i].kind \in Referring =>
       /\ imm[i] = Referred(i) - (Place[i] + SizeOf(i))
       /\ IsWide(imm[i]) = (i \in extended)

TypeOK ==
  /\ program \in Programs
  /\ at \in 0 .. Len(program) + 1
  /\ extended \subseteq {i \in DOMAIN program : program[i].kind \in Referring}
  /\ label \in [DOMAIN program -> Int]
  /\ imm \in [DOMAIN program -> Int]
  /\ repeat \in Nat
  /\ moved \in BOOLEAN

\* A walk in which a label moved is followed by another; one in which none did
\* has settled all it came past, and is the last one if there is no other.
IInv ==
  /\ TypeOK
  /\ moved => repeat > 0
  /\ at # 0 => offset = Place[at]
  /\ at = 0 => ~moved
  /\ ~moved => \A i \in DOMAIN program : at = 0 \/ i < at => Settled(i)

\* What the theorems about places say of the program and the sizes of now.
LEMMA PlaceFacts ==
  ASSUME TypeOK
  PROVE  /\ program \in Seq(AnyItem) /\ Len(program) \in Nat
         /\ DOMAIN program = 1 .. Len(program)
         /\ Place \in [1 .. Len(program) + 1 -> Int]
         /\ Place[1] = CodeStart
         /\ \A i \in DOMAIN program :
              /\ SizeOf(i) \in Int /\ Width(program, extended, i) \in Int
              /\ Place[i + 1] = Place[i] + Width(program, extended, i)
         /\ DataStart \in Int
<1>1. program \in Seq(AnyItem)
  BY AssemblerAssumption DEF TypeOK
<1>2. Place = PlaceIn(program, extended)
  BY DEF Place, PlaceIn, Width, SizeOf
<1>3. \A i \in DOMAIN program : SizeOf(i) \in Int
  <2> TAKE i \in DOMAIN program
  <2>1. program[i] \in AnyItem
    BY <1>1
  <2>2. program[i].count \in Nat
    BY <2>1 DEF AnyItem
  <2> QED
    BY <2>2 DEF SizeOf, Base, Extended
<1>4. DataStart \in Int
  BY <1>1, CountIsInt DEF DataStart, CodeStart, Base, Extended
<1> QED
  BY <1>1, <1>2, <1>3, <1>4, PlacesAreSums, WidthIsInt

\* A step that changes neither the program nor the sizes moves no place.
LEMMA PlacesStay ==
  ASSUME UNCHANGED <<program, extended>>
  PROVE  /\ Place' = Place /\ DataStart' = DataStart
         /\ \A i : SizeOf(i)' = SizeOf(i)
  BY DEF Place, DataStart, SizeOf

LEMMA InitEstablishes == ASSUME Init PROVE IInv
<1>1. TypeOK
  <2>1. program \in Seq(AnyItem)
    BY AssemblerAssumption DEF Init
  <2>2. at \in 0 .. Len(program) + 1
    BY <2>1 DEF Init
  <2>3. label \in [DOMAIN program -> Int] /\ imm \in [DOMAIN program -> Int]
    BY DEF Init
  <2> QED
    BY <2>2, <2>3 DEF Init, TypeOK
<1> QED
  BY <1>1, PlaceFacts DEF Init, IInv

\* What was settled in this walk stays so, when the labels stay.
LEMMA SettledStays ==
  ASSUME UNCHANGED <<program, extended, label>>, NEW i, imm'[i] = imm[i], Settled(i)
  PROVE  Settled(i)'
  BY PlacesStay DEF Settled, Referred, IsWide

LEMMA PlainKeeps == ASSUME IInv, Plain PROVE IInv'
<1>1. at \in DOMAIN program /\ program[at].kind = "plain"
  BY DEF Plain, Walking, Here
<1>2. at \notin extended
  BY <1>1 DEF IInv, TypeOK, Referring
<1>3. UNCHANGED <<program, label, extended, imm, repeat, moved>>
      /\ at' = at + 1 /\ offset' = offset + SizeOf(at)
  BY DEF Plain, Advance, End
<1>4. TypeOK'
  BY <1>1, <1>3, PlaceFacts DEF IInv, TypeOK
<1>5. offset' = Place'[at']
  BY <1>1, <1>3, PlacesStay, PlaceFacts DEF IInv, Width, SizeOf
<1>6. ~moved' => \A i \in DOMAIN program' : i < at' => Settled(i)'
  <2> SUFFICES ASSUME ~moved, NEW i \in DOMAIN program, i < at + 1
               PROVE  Settled(i)'
    BY <1>3
  <2>1. CASE i = at
    BY <2>1, <1>1, <1>3 DEF Settled, Referring
  <2>2. CASE i < at
    BY <2>2, <1>3, SettledStays DEF IInv
  <2> QED
    BY <2>1, <2>2, <1>1, PlaceFacts DEF IInv
<1> QED
  BY <1>1, <1>3, <1>4, <1>5, <1>6, PlaceFacts DEF IInv

LEMMA PlaceLabelKeeps == ASSUME IInv, PlaceLabel PROVE IInv'
<1>1. at \in DOMAIN program /\ program[at].kind = "label"
  BY DEF PlaceLabel, Walking, Here
<1>2. /\ UNCHANGED <<program, offset, extended, imm>> /\ at' = at + 1
      /\ label' = [label EXCEPT ![at] = offset]
      /\ moved' = (moved \/ (label[at] # offset /\ ~moved))
      /\ repeat' = IF label[at] # offset /\ ~moved THEN repeat + 1 ELSE repeat
  BY DEF PlaceLabel
<1>3. offset = Place[at] /\ offset \in Int
  BY <1>1, PlaceFacts DEF IInv
<1>4. TypeOK'
  <2>1. at' \in 0 .. Len(program') + 1
    BY <1>1, <1>2, PlaceFacts DEF IInv
  <2>2. label' \in [DOMAIN program' -> Int]
    BY <1>2, <1>3 DEF IInv, TypeOK
  <2>3. repeat' \in Nat
    BY <1>2 DEF IInv, TypeOK
  <2>4. moved' \in BOOLEAN
    BY <1>2 DEF IInv, TypeOK
  <2> QED
    BY <1>2, <2>1, <2>2, <2>3, <2>4 DEF IInv, TypeOK
<1>5. moved' => repeat' > 0
  BY <1>2 DEF IInv, TypeOK
<1>6. offset' = Place'[at']
  BY <1>1, <1>2, <1>3, PlacesStay, PlaceFacts DEF IInv, Width
<1>7. ~moved' => \A i \in DOMAIN program' : i < at' => Settled(i)'
  <2> SUFFICES ASSUME ~moved', NEW i \in DOMAIN program, i < at + 1
               PROVE  Settled(i)'
    BY <1>2
  <2>1. ~moved /\ label' = label
    BY <1>2, <1>3, <1>1 DEF IInv, TypeOK
  <2>2. CASE i = at
    BY <2>1, <2>2, <1>1, <1>2, <1>3, PlacesStay DEF Settled, Referring, IInv, TypeOK
  <2>3. CASE i < at
    BY <2>1, <2>3, <1>2, SettledStays DEF IInv
  <2> QED
    BY <2>2, <2>3, <1>1, PlaceFacts DEF IInv
<1> QED
  BY <1>1, <1>2, <1>4, <1>5, <1>6, <1>7, PlaceFacts DEF IInv

\* A walk that starts over stands at the first item.
LEMMA ResizeKeeps == ASSUME IInv, Resize PROVE IInv'
<1>1. at \in DOMAIN program /\ program[at].kind \in Referring
  BY DEF Resize, Walking, Here
<1>2. UNCHANGED <<program, label, imm, repeat>>
      /\ at' = 1 /\ offset' = CodeStart /\ moved' = FALSE
      /\ (extended' = extended \union {at} \/ extended' = extended \ {at})
  BY DEF Resize, Restart
<1>3. TypeOK'
  <2>1. at' \in 0 .. Len(program') + 1
    BY <1>2, PlaceFacts DEF IInv
  <2>2. extended' \subseteq {i \in DOMAIN program' : program'[i].kind \in Referring}
    BY <1>1, <1>2 DEF IInv, TypeOK
  <2> QED
    BY <1>2, <2>1, <2>2 DEF IInv, TypeOK
<1>4. Place'[1] = CodeStart
  <2>1. program' \in Seq(AnyItem)
    BY <1>2, PlaceFacts DEF IInv
  <2>2. Place' = PlaceIn(program', extended')
    BY DEF Place, PlaceIn, Width, SizeOf
  <2> QED
    BY <2>1, <2>2, PlacesAreSums
<1>5. \A i \in DOMAIN program' : ~(at' = 0 \/ i < at')
  BY <1>2, PlaceFacts DEF IInv
<1> QED
  BY <1>2, <1>3, <1>4, <1>5 DEF IInv

LEMMA EncodeKeeps == ASSUME IInv, Encode PROVE IInv'
<1>1. at \in DOMAIN program /\ program[at].kind \in Referring
      /\ IsWide(Distance) = (at \in extended)
  BY DEF Encode, Walking, Here
<1>2. UNCHANGED <<program, label, extended, repeat, moved>>
      /\ at' = at + 1 /\ offset' = offset + SizeOf(at)
      /\ imm' = [imm EXCEPT ![at] = Distance]
  BY DEF Encode, Advance, End
<1>3. offset = Place[at]
  BY <1>1, PlaceFacts DEF IInv
<1>4. Distance = Referred(at) - (Place[at] + SizeOf(at))
  BY <1>3 DEF Distance, Target, End, Referred, Here
<1>5. Referred(at) \in Int
  <2>1. program[at] \in AnyItem
    BY <1>1, PlaceFacts DEF IInv
  <2>2. program[at].target \in Nat
    BY <2>1 DEF AnyItem
  <2>3. program[at].kind = "jump" => program[at].target \in DOMAIN program
    BY <1>1, AssemblerAssumption DEF IInv, TypeOK
  <2> QED
    BY <2>2, <2>3, PlaceFacts DEF Referred, IInv, TypeOK
<1>6. Distance \in Int
  BY <1>1, <1>4, <1>5, PlaceFacts DEF IInv
<1>7. TypeOK'
  BY <1>1, <1>2, <1>6, PlaceFacts DEF IInv, TypeOK
<1>8. offset' = Place'[at']
  BY <1>1, <1>2, <1>3, PlacesStay, PlaceFacts DEF IInv, Width, SizeOf, Referring
<1>9. ~moved' => \A i \in DOMAIN program' : i < at' => Settled(i)'
  <2> SUFFICES ASSUME ~moved, NEW i \in DOMAIN program, i < at + 1
               PROVE  Settled(i)'
    BY <1>2
  <2>1. CASE i = at
    <3>1. imm'[i] = Distance
      BY <2>1, <1>1, <1>2 DEF IInv, TypeOK
    <3>2. Referred(i)' = Referred(i)
      BY <1>2, PlacesStay DEF Referred
    <3>3. program[i].kind # "label"
      BY <2>1, <1>1 DEF Referring
    <3> QED
      BY <2>1, <3>1, <3>2, <3>3, <1>1, <1>2, <1>4, PlacesStay DEF Settled, IsWide
  <2>2. CASE i < at
    <3>1. imm'[i] = imm[i]
      BY <2>2, <1>1, <1>2, PlaceFacts DEF IInv, TypeOK
    <3> QED
      BY <2>2, <3>1, <1>2, SettledStays DEF IInv
  <2> QED
    BY <2>1, <2>2, <1>1, PlaceFacts DEF IInv
<1> QED
  BY <1>1, <1>2, <1>7, <1>8, <1>9, PlaceFacts DEF IInv

LEMMA EndWalkKeeps == ASSUME IInv, EndWalk PROVE IInv'
<1>1. at = Len(program) + 1 /\ UNCHANGED <<program, label, extended, imm>>
  BY DEF EndWalk
<1>2. CASE repeat > 0
  <2>1. at' = 1 /\ offset' = CodeStart /\ moved' = FALSE /\ repeat' = repeat - 1
    BY <1>2 DEF EndWalk, Restart
  <2>2. TypeOK'
    <3>1. at' \in 0 .. Len(program') + 1
      BY <1>1, <2>1, PlaceFacts DEF IInv
    <3>2. repeat' \in Nat
      BY <1>2, <2>1 DEF IInv, TypeOK
    <3> QED
      BY <1>1, <2>1, <3>1, <3>2 DEF IInv, TypeOK
  <2>3. \A i \in DOMAIN program' : ~(at' = 0 \/ i < at')
    BY <1>1, <2>1, PlaceFacts DEF IInv
  <2> QED
    BY <1>1, <2>1, <2>2, <2>3, PlacesStay, PlaceFacts DEF IInv
<1>3. CASE ~(repeat > 0)
  <2>1. at' = 0 /\ UNCHANGED <<offset, repeat, moved>>
    BY <1>3 DEF EndWalk
  <2>2. TypeOK'
    BY <1>1, <2>1, PlaceFacts DEF IInv, TypeOK
  <2>3. \A i \in DOMAIN program : Settled(i)
    BY <1>1, <1>3, PlaceFacts DEF IInv
  <2>4. \A i \in DOMAIN program' : Settled(i)'
    BY <1>1, <2>3, SettledStays
  <2> QED
    BY <1>1, <1>3, <2>1, <2>2, <2>4 DEF IInv
<1> QED
  BY <1>2, <1>3

LEMMA NextKeeps == ASSUME IInv, [Next]_vars PROVE IInv'
<1>1. CASE UNCHANGED vars
  <2>1. UNCHANGED <<program, at, offset, label, extended, imm, repeat, moved>>
    BY <1>1 DEF vars
  <2>2. \A i : Settled(i) => Settled(i)'
    BY <2>1, SettledStays
  <2> QED
    BY <2>1, <2>2, PlacesStay DEF IInv, TypeOK
<1>2. CASE Done
  <2>1. UNCHANGED <<program, at, offset, label, extended, imm, repeat, moved>>
    BY <1>2 DEF Done, vars
  <2>2. \A i : Settled(i) => Settled(i)'
    BY <2>1, SettledStays
  <2> QED
    BY <2>1, <2>2, PlacesStay DEF IInv, TypeOK
<1> QED
  BY <1>1, <1>2, PlainKeeps, PlaceLabelKeeps, ResizeKeeps, EncodeKeeps, EndWalkKeeps
  DEF Next, Compile

\* A short immediate holds the distances below Half, an extended one all of them.
LEMMA SettledReferencesLand == ASSUME IInv PROVE ReferencesLand
<1> SUFFICES ASSUME at = 0, NEW i \in DOMAIN program, program[i].kind \in Referring,
                    imm[i] \notin Half .. 2 * Half - 1
             PROVE  ReachedFrom(i) = Meant(i)
  BY DEF ReferencesLand
<1>1. \A j \in DOMAIN program : Settled(j)
  BY DEF IInv
<1>2. imm[i] = Referred(i) - (Place[i] + SizeOf(i)) /\ IsWide(imm[i]) = (i \in extended)
  BY <1>1 DEF Settled
<1>3. imm[i] \in Int /\ Half \in Nat \ {0}
  BY AssemblerAssumption DEF IInv, TypeOK
<1>4. Decoded(i) = imm[i]
  <2>1. CASE i \in extended
    BY <2>1 DEF Decoded
  <2>2. CASE i \notin extended
    <3>1. imm[i] \in 0 .. Half - 1
      BY <2>2, <1>2, <1>3 DEF IsWide
    <3>2. imm[i] % (2 * Half) = imm[i]
      BY <3>1, <1>3
    <3> QED
      BY <2>2, <3>1, <3>2, <1>3 DEF Decoded
  <2> QED
    BY <2>1, <2>2
<1>5. Referred(i) = Meant(i)
  <2>1. CASE program[i].kind = "jump"
    <3>1. program[i].target \in DOMAIN program
          /\ program[program[i].target].kind = "label"
      BY <2>1, AssemblerAssumption DEF IInv, TypeOK
    <3> QED
      BY <2>1, <3>1, <1>1 DEF Settled, Referred, Meant
  <2>2. CASE program[i].kind # "jump"
    BY <2>2 DEF Referred, Meant
  <2> QED
    BY <2>1, <2>2
<1>6. Place[i] \in Int /\ SizeOf(i) \in Int /\ Meant(i) \in Int
  <2>1. program[i] \in AnyItem
    BY PlaceFacts DEF IInv
  <2>2. program[i].target \in Nat
    BY <2>1 DEF AnyItem
  <2>3. program[i].kind = "jump" => program[i].target \in DOMAIN program
    BY AssemblerAssumption DEF IInv, TypeOK
  <2> QED
    BY <2>2, <2>3, PlaceFacts DEF Meant, IInv
<1> QED
  BY <1>2, <1>4, <1>5, <1>6 DEF ReachedFrom

\* However the compiler came to the finished code, widening and narrowing
\* instructions and walking again after moved labels, every jump and load in
\* it that a short immediate does not misread reaches what it refers to.
THEOREM ReferencesAlwaysLand == Spec => []ReferencesLand
<1>1. Init => IInv
  BY InitEstablishes
<1>2. IInv /\ [Next]_vars => IInv'
  BY NextKeeps
<1>3. IInv => ReferencesLand
  BY SettledReferencesLand
<1> QED
  BY <1>1, <1>2, <1>3, PTL DEF Spec
=============================================================================
