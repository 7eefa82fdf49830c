---------------------------- MODULE VmStack_proofs ----------------------------
(***************************************************************************)
(* Proofs about VmStack, for any code that keeps the discipline of VmShape.  *)
(*                                                                         *)
(* A function that runs has on the stack, above its return address, the      *)
(* blocks of the shape of its instruction; one that waits for a call has    *)
(* those of the instruction it returns to.  After a crash the walk of the    *)
(* reverse VM reaches instructions with more blocks than were pushed: those   *)
(* it finds are the first ones, and it skips the release of the others.      *)
(***************************************************************************)
EXTENDS VmShape, FiniteSets, FiniteSetTheorems, TLAPS

-----------------------------------------------------------------------------
(* The inductive invariant                                                   *)

Modes == {"created", "running", "crashed", "unwinding", "stopped", "reset"}

AnyBlock ==
  [kind : Kinds, n : Int, saved : Int, arg : Int, loc : Int, ip : Int, vm_exit : BOOLEAN]

\* An offset is where the shape says, in a function whose return address is
\* block p and that was called with the header at h.
At(place, h, p, offset) ==
  /\ place = OwnHeader => offset = h
  /\ place > 0 => offset = p + place - 1

IsLocal(b, B, h, p) ==
  /\ b.kind = B.kind /\ b.n = B.n /\ b.saved = h
  /\ At(B.arg, h, p, b.arg) /\ At(B.loc, h, p, b.loc)

\* The return address at p, and above it the first m of these blocks.
Holds(s, p, blocks, m) ==
  /\ p \in 2 .. Len(s) /\ s[p].kind = "return"
  /\ m \in 0 .. Len(blocks)
  /\ p + m <= Len(s)
  /\ \A j \in 1 .. m : IsLocal(s[p + j], blocks[j], s[p].arg, p)

\* The function with return address p called the one with return address q.
Suspended(s, p, q) ==
  LET i == s[q].ip
      count == Len(Shape[i].blocks)
  IN /\ i \in DOMAIN Code \ Entries
     /\ Holds(s, p, Shape[i].blocks, count)
     /\ q = p + count + 1
     /\ s[q].saved = s[p].arg
     /\ At(Shape[i].arg, s[p].arg, p, s[q].arg)
     /\ Shape[i].loc = Anywhere

\* The header a function was called with is the last one before its return
\* address, and its caller's.
HasHeader(s, q) ==
  /\ s[q].arg \in 0 .. q - 2
  /\ s[s[q].arg + 1].kind = "header"
  /\ \A j \in s[q].arg + 2 .. q - 1 : s[j].kind # "header" /\ s[j].kind # "return"

Called(s, q) ==
  /\ s[q].vm_exit <=> q = 2
  /\ HasHeader(s, q)
  /\ q # 2 => \E p \in 2 .. q - 1 : Suspended(s, p, q)

WellStacked(s) ==
  /\ Len(s) >= 2
  /\ s[1].kind # "return"
  /\ s[2].kind = "return" /\ s[2].arg = 0
  /\ \A q \in 2 .. Len(s) : s[q].kind = "return" => Called(s, q)

\* The function with return address p is at instruction i.
Runs(s, p, i, sv, a, l) ==
  /\ i \in DOMAIN Code
  /\ Holds(s, p, Shape[i].blocks, Len(Shape[i].blocks))
  /\ Len(s) = p + Len(Shape[i].blocks)
  /\ i \notin Entries => sv = s[p].arg
  /\ At(Shape[i].arg, s[p].arg, p, a)
  /\ At(Shape[i].loc, s[p].arg, p, l)

\* The walk at instruction i, m blocks of its function being there.  When others
\* are missing, the offsets are those the first of them was, or would have been,
\* pushed with.
Planned(i) ==
  IF Code[i].op \in PushOps
    THEN Append(Shape[i].blocks, PushedShape(Code[i], Shape[i])) ELSE Shape[i].blocks

ArgOf(blocks, m, known) == IF m < Len(blocks) THEN ArgBehind(blocks[m + 1]) ELSE known
LocOf(blocks, m, known) == IF m < Len(blocks) THEN blocks[m + 1].loc ELSE known

Walks(s, p, m, i, a, l) ==
  /\ i \in DOMAIN Code \ Entries
  /\ Holds(s, p, Shape[i].blocks, m)
  /\ Len(s) = p + m
  /\ At(ArgOf(Planned(i), m, Shape[i].arg), s[p].arg, p, a)
  /\ At(LocOf(Planned(i), m, Shape[i].loc), s[p].arg, p, l)

Count(blocks, m, kind) == Cardinality({j \in m + 1 .. Len(blocks) : blocks[j].kind = kind})
Missing(blocks, m) == [k \in LocalKinds |-> Count(blocks, m, k)]

IInv ==
  /\ mode \in Modes
  /\ stack \in Seq(AnyBlock)
  /\ ip \in Int /\ saved \in Int /\ arg \in Int /\ loc \in Int
  /\ mode \in {"created", "stopped", "reset"} => stack = <<>>
  /\ mode \in {"running", "crashed", "unwinding"} => WellStacked(stack)
  /\ mode = "running" => \E p \in 2 .. Len(stack) : Runs(stack, p, ip, saved, arg, loc)
  /\ mode = "crashed" =>
       \E p \in 2 .. Len(stack) : Walks(stack, p, Len(Shape[ip].blocks), ip, arg, loc)
  /\ mode = "unwinding" =>
       \E p \in 2 .. Len(stack), m \in 0 .. Len(stack) :
         Walks(stack, p, m, ip, arg, loc) /\ skip = Missing(Shape[ip].blocks, m)

-----------------------------------------------------------------------------
(* Shapes                                                                    *)

LEMMA ShapeOf ==
  ASSUME NEW i \in DOMAIN Code
  PROVE  /\ i \in Nat \ {0}
         /\ Code[i].n \in Int
         /\ Shape[i] \in Shapes
         /\ Finding(Code[i], Shape[i])
         /\ i \in Entries => Shape[i] = AtEntry
BY VmShapeAssumption DEF WellShaped, Entries

LEMMA NextShape ==
  ASSUME NEW i \in DOMAIN Code, Code[i].op # "return"
  PROVE  i + 1 \in DOMAIN Code \ Entries /\ Leaving(Code[i], Shape[i], Shape[i + 1])
BY VmShapeAssumption DEF WellShaped, Entries

LEMMA TargetShape ==
  ASSUME NEW i \in DOMAIN Code, Code[i].op \in JumpOps
  PROVE  /\ i + 1 + Code[i].n \in DOMAIN Code \ Entries
         /\ Landing(Shape[i], Shape[i + 1 + Code[i].n])
BY VmShapeAssumption DEF WellShaped, Entries

LEMMA BlocksOf ==
  ASSUME NEW i \in DOMAIN Code
  PROVE  /\ Shape[i].blocks \in Seq(ShapeBlocks) /\ Len(Shape[i].blocks) \in Nat
         /\ Shape[i].arg \in Offsets /\ Shape[i].loc \in Offsets
         /\ \A j \in 1 .. Len(Shape[i].blocks) : Shape[i].blocks[j] \in ShapeBlocks
<1>1. Shape[i] \in Shapes
  BY ShapeOf
<1>2. Shape[i].blocks \in Seq(ShapeBlocks) /\ Shape[i].arg \in Offsets /\ Shape[i].loc \in Offsets
  BY <1>1 DEF Shapes
<1> QED
  BY <1>2

\* One who expects less is content.
LEMMA ExpectsLess ==
  ASSUME NEW place \in Offsets, NEW known \in Offsets, Expects(place, known),
         NEW h, NEW p, NEW x, At(known, h, p, x)
  PROVE  At(place, h, p, x)
BY DEF Expects, At, Anywhere, OwnHeader, Offsets

LEMMA AnywhereIsFine ==
  ASSUME NEW h, NEW p, NEW x
  PROVE  At(Anywhere, h, p, x)
BY DEF At, Anywhere, OwnHeader

-----------------------------------------------------------------------------
(* Counting what is missing                                                  *)

LEMMA CountIsNatural ==
  ASSUME NEW blocks \in Seq(ShapeBlocks), NEW m \in Nat, NEW k
  PROVE  /\ IsFiniteSet({j \in m + 1 .. Len(blocks) : blocks[j].kind = k})
         /\ Count(blocks, m, k) \in Nat
<1>1. IsFiniteSet(m + 1 .. Len(blocks))
  BY FS_Interval
<1>2. IsFiniteSet({j \in m + 1 .. Len(blocks) : blocks[j].kind = k})
  BY <1>1, FS_Subset
<1> QED
  BY <1>2, FS_CardinalityType DEF Count

LEMMA CountOfAppend ==
  ASSUME NEW blocks \in Seq(ShapeBlocks), NEW m \in 0 .. Len(blocks), NEW B \in ShapeBlocks, NEW k
  PROVE  Count(Append(blocks, B), m, k) = Count(blocks, m, k) + (IF B.kind = k THEN 1 ELSE 0)
<1> DEFINE all == Append(blocks, B)
           count == Len(blocks)
           T == {j \in m + 1 .. count : blocks[j].kind = k}
           U == {j \in m + 1 .. Len(all) : all[j].kind = k}
<1>1. count \in Nat /\ Len(all) = count + 1 /\ all[count + 1] = B
      /\ \A j \in 1 .. count : all[j] = blocks[j]
  OBVIOUS
<1>2. IsFiniteSet(T) /\ Cardinality(T) \in Nat /\ count + 1 \notin T
  <2>1. m \in Nat
    OBVIOUS
  <2>2. IsFiniteSet(T) /\ Cardinality(T) \in Nat
    BY <2>1, CountIsNatural DEF Count
  <2> QED
    BY <1>1, <2>2
<1>0. Count(all, m, k) = Cardinality(U) /\ Count(blocks, m, k) = Cardinality(T)
  BY DEF Count
<1>3. CASE B.kind = k
  <2>1. U = T \union {count + 1}
    BY <1>1, <1>3
  <2>2. Cardinality(U) = Cardinality(T) + 1
    BY <1>2, <2>1, FS_AddElement
  <2> HIDE DEF T, U
  <2> QED
    BY <1>0, <1>3, <2>2
<1>4. CASE B.kind # k
  <2>1. U = T
    BY <1>1, <1>4
  <2> HIDE DEF T, U
  <2> QED
    BY <1>0, <1>2, <1>4, <2>1
<1> QED
  BY <1>3, <1>4

LEMMA CountOfNone ==
  ASSUME NEW blocks \in Seq(ShapeBlocks), NEW k
  PROVE  Count(blocks, Len(blocks), k) = 0
<1>1. {j \in Len(blocks) + 1 .. Len(blocks) : blocks[j].kind = k} = {}
  OBVIOUS
<1> QED
  BY <1>1, FS_EmptySet DEF Count

\* A block that is missing is counted.
LEMMA MissingIsCounted ==
  ASSUME NEW blocks \in Seq(ShapeBlocks), NEW B \in ShapeBlocks,
         NEW m \in 0 .. Len(blocks) + 1
  PROVE  Count(Append(blocks, B), m, B.kind) > 0 <=> m <= Len(blocks)
<1> DEFINE all == Append(blocks, B)
<1>1. all \in Seq(ShapeBlocks) /\ Len(all) = Len(blocks) + 1 /\ Len(blocks) \in Nat
  OBVIOUS
<1>2. CASE m <= Len(blocks)
  <2>0. m \in Nat
    OBVIOUS
  <2>1. Count(blocks, m, B.kind) \in Nat
    BY <2>0, CountIsNatural
  <2>2. m \in 0 .. Len(blocks)
    BY <1>2
  <2>3. Count(all, m, B.kind) = Count(blocks, m, B.kind) + 1
    BY <2>2, CountOfAppend
  <2> QED
    BY <1>2, <2>1, <2>3
<1>3. CASE ~(m <= Len(blocks))
  <2>1. m = Len(all)
    BY <1>1, <1>3
  <2>2. Count(all, m, B.kind) = 0
    BY <1>1, <2>1, CountOfNone
  <2> QED
    BY <1>3, <2>2
<1> QED
  BY <1>2, <1>3

-----------------------------------------------------------------------------
(* What lies deeper in the stack is not disturbed                            *)

LEMMA HoldsElsewhere ==
  ASSUME NEW s \in Seq(AnyBlock), NEW t \in Seq(AnyBlock), NEW n \in Nat,
         n <= Len(s), n <= Len(t), \A j \in 1 .. n : t[j] = s[j],
         NEW p \in Nat, NEW blocks \in Seq(ShapeBlocks), NEW m \in Nat, p + m <= n,
         Holds(s, p, blocks, m)
  PROVE  Holds(t, p, blocks, m)
<1>1. p \in 2 .. n /\ t[p] = s[p]
  BY DEF Holds
<1>2. \A j \in 1 .. m : t[p + j] = s[p + j]
  BY <1>1
<1>3. s[p].kind = "return" /\ m \in 0 .. Len(blocks)
      /\ \A j \in 1 .. m : IsLocal(s[p + j], blocks[j], s[p].arg, p)
  BY DEF Holds
<1>4. \A j \in 1 .. m : IsLocal(t[p + j], blocks[j], t[p].arg, p)
  BY <1>1, <1>2, <1>3, Zenon
<1> QED
  BY <1>1, <1>3, <1>4 DEF Holds

LEMMA SuspendedElsewhere ==
  ASSUME NEW s \in Seq(AnyBlock), NEW t \in Seq(AnyBlock), NEW n \in Nat,
         n <= Len(s), n <= Len(t), \A j \in 1 .. n : t[j] = s[j],
         NEW q \in 2 .. n, NEW p \in 2 .. q - 1, Suspended(s, p, q)
  PROVE  Suspended(t, p, q)
<1> DEFINE i == s[q].ip
           count == Len(Shape[i].blocks)
<1>1. t[q] = s[q] /\ t[p] = s[p] /\ p \in Nat
  OBVIOUS
<1>2. /\ i \in DOMAIN Code \ Entries
      /\ Holds(s, p, Shape[i].blocks, count)
      /\ q = p + count + 1
      /\ s[q].saved = s[p].arg
      /\ At(Shape[i].arg, s[p].arg, p, s[q].arg)
      /\ Shape[i].loc = Anywhere
  BY DEF Suspended
<1>3. Shape[i].blocks \in Seq(ShapeBlocks) /\ count \in Nat
  BY <1>2, BlocksOf
<1>4. p + count <= n
  BY <1>2, <1>3
<1> HIDE DEF count
<1>5. Holds(t, p, Shape[i].blocks, count)
  BY <1>1, <1>2, <1>3, <1>4, HoldsElsewhere
<1> QED
  BY <1>1, <1>2, <1>5, Zenon DEF Suspended, count

LEMMA CalledElsewhere ==
  ASSUME NEW s \in Seq(AnyBlock), NEW t \in Seq(AnyBlock), NEW n \in Nat,
         n <= Len(s), n <= Len(t), \A j \in 1 .. n : t[j] = s[j],
         NEW q \in 2 .. n, Called(s, q)
  PROVE  Called(t, q)
<1>1. t[q] = s[q] /\ q \in Nat
  OBVIOUS
<1>2. HasHeader(t, q)
  <2>1. /\ s[q].arg \in 0 .. q - 2
        /\ s[s[q].arg + 1].kind = "header"
        /\ \A j \in s[q].arg + 2 .. q - 1 : s[j].kind # "header" /\ s[j].kind # "return"
    BY DEF Called, HasHeader
  <2>2. t[s[q].arg + 1] = s[s[q].arg + 1]
    BY <2>1
  <2>3. \A j \in s[q].arg + 2 .. q - 1 : t[j] = s[j]
    BY <2>1
  <2>4. \A j \in s[q].arg + 2 .. q - 1 : t[j].kind # "header" /\ t[j].kind # "return"
    BY <2>1, <2>3, Zenon
  <2> QED
    BY <1>1, <2>1, <2>2, <2>4 DEF HasHeader
<1>3. ASSUME q # 2
      PROVE  \E p \in 2 .. q - 1 : Suspended(t, p, q)
  <2>1. PICK p \in 2 .. q - 1 : Suspended(s, p, q)
    BY <1>3 DEF Called
  <2>2. Suspended(t, p, q)
    BY <2>1, SuspendedElsewhere
  <2> QED
    BY <2>2
<1> QED
  BY <1>1, <1>2, <1>3, Zenon DEF Called

\* A stack is well stacked when one that is goes as far, or one block less.
LEMMA PushKeeps ==
  ASSUME NEW s \in Seq(AnyBlock), WellStacked(s), NEW b \in AnyBlock,
         b.kind = "return" => Called(Append(s, b), Len(s) + 1)
  PROVE  /\ WellStacked(Append(s, b))
         /\ Append(s, b) \in Seq(AnyBlock)
         /\ Len(Append(s, b)) = Len(s) + 1
         /\ Append(s, b)[Len(s) + 1] = b
         /\ \A j \in 1 .. Len(s) : Append(s, b)[j] = s[j]
<1> DEFINE t == Append(s, b)
           n == Len(s)
<1>1. /\ t \in Seq(AnyBlock) /\ n \in Nat /\ Len(t) = n + 1 /\ t[n + 1] = b
      /\ \A j \in 1 .. n : t[j] = s[j]
  OBVIOUS
<1>2. n >= 2 /\ s[1].kind # "return" /\ s[2].kind = "return" /\ s[2].arg = 0
  BY DEF WellStacked
<1>3. t[1] = s[1] /\ t[2] = s[2]
  BY <1>1, <1>2
<1>4. ASSUME NEW q \in 2 .. n + 1, t[q].kind = "return"
      PROVE  Called(t, q)
  <2>1. CASE q = n + 1
    BY <1>1, <1>4, <2>1
  <2>2. CASE q # n + 1
    <3>1. q \in 2 .. n /\ t[q] = s[q]
      BY <1>1, <2>2
    <3>2. Called(s, q)
      BY <1>4, <3>1 DEF WellStacked
    <3> HIDE DEF t
    <3> QED
      BY <1>1, <3>1, <3>2, CalledElsewhere
  <2> QED
    BY <2>1, <2>2
<1> HIDE DEF t
<1>5. WellStacked(t)
  BY <1>1, <1>2, <1>3, <1>4 DEF WellStacked
<1> QED
  BY <1>1, <1>5 DEF t

LEMMA PopKeeps ==
  ASSUME NEW s \in Seq(AnyBlock), WellStacked(s), Len(s) >= 3
  PROVE  /\ WellStacked(SubSeq(s, 1, Len(s) - 1))
         /\ SubSeq(s, 1, Len(s) - 1) \in Seq(AnyBlock)
         /\ Len(SubSeq(s, 1, Len(s) - 1)) = Len(s) - 1
         /\ \A j \in 1 .. Len(s) - 1 : SubSeq(s, 1, Len(s) - 1)[j] = s[j]
<1> DEFINE t == SubSeq(s, 1, Len(s) - 1)
           n == Len(s) - 1
<1>1. /\ t \in Seq(AnyBlock) /\ n \in Nat /\ n >= 2 /\ n <= Len(s) /\ Len(t) = n
      /\ \A j \in 1 .. n : t[j] = s[j]
  OBVIOUS
<1>2. s[1].kind # "return" /\ s[2].kind = "return" /\ s[2].arg = 0
  BY DEF WellStacked
<1>3. t[1] = s[1] /\ t[2] = s[2]
  BY <1>1
<1>4. ASSUME NEW q \in 2 .. n, t[q].kind = "return"
      PROVE  Called(t, q)
  <2>1. Called(s, q)
    BY <1>1, <1>4 DEF WellStacked
  <2> HIDE DEF t, n
  <2> QED
    BY <1>1, <2>1, CalledElsewhere
<1> HIDE DEF t, n
<1>5. WellStacked(t)
  BY <1>1, <1>2, <1>3, <1>4 DEF WellStacked
<1> QED
  BY <1>1, <1>5 DEF t, n

-----------------------------------------------------------------------------
(* Blocks of a function are pushed and released, functions called and left   *)

\* The first blocks of a shape are those of one with a block more.
LEMMA HoldsOfAppend ==
  ASSUME NEW s \in Seq(AnyBlock), NEW p, NEW blocks \in Seq(ShapeBlocks), NEW B \in ShapeBlocks,
         NEW m \in 0 .. Len(blocks)
  PROVE  Holds(s, p, blocks, m) <=> Holds(s, p, Append(blocks, B), m)
<1>1. \A j \in 1 .. m : Append(blocks, B)[j] = blocks[j]
  OBVIOUS
<1>2. m \in 0 .. Len(Append(blocks, B))
  OBVIOUS
<1> QED
  BY <1>1, <1>2, Zenon DEF Holds

Grows(s, t, p, blocks, B) ==
  /\ WellStacked(t) /\ t \in Seq(AnyBlock)
  /\ Holds(t, p, Append(blocks, B), Len(blocks) + 1)
  /\ Len(t) = p + Len(blocks) + 1
  /\ t[p] = s[p]

LEMMA PushLocal ==
  ASSUME NEW s \in Seq(AnyBlock), WellStacked(s), NEW p, NEW blocks \in Seq(ShapeBlocks),
         Holds(s, p, blocks, Len(blocks)), Len(s) = p + Len(blocks),
         NEW b \in AnyBlock, NEW B \in ShapeBlocks, IsLocal(b, B, s[p].arg, p)
  PROVE  Grows(s, Append(s, b), p, blocks, B)
<1> DEFINE t == Append(s, b)
           n == Len(s)
           count == Len(blocks)
           all == Append(blocks, B)
<1>1. b.kind # "return"
  BY DEF IsLocal, ShapeBlocks, LocalKinds
<1>2. /\ WellStacked(t) /\ t \in Seq(AnyBlock) /\ Len(t) = n + 1 /\ t[n + 1] = b
      /\ \A j \in 1 .. n : t[j] = s[j]
  BY <1>1, PushKeeps
<1>3. /\ all \in Seq(ShapeBlocks) /\ Len(all) = count + 1 /\ all[count + 1] = B
      /\ count \in Nat /\ n \in Nat /\ \A j \in 1 .. count : all[j] = blocks[j]
  OBVIOUS
<1>4. p \in 2 .. n /\ n = p + count /\ Holds(s, p, blocks, count)
  BY DEF Holds
<1>5. t[p] = s[p]
  BY <1>2, <1>4
<1>6. Holds(s, p, all, count)
  BY <1>3, <1>4, HoldsOfAppend
<1> HIDE DEF t, n, count, all
<1>7. Holds(t, p, all, count)
  <2>1. n <= Len(s) /\ n <= Len(t) /\ p \in Nat /\ p + count <= n
    BY <1>2, <1>3, <1>4 DEF n
  <2> QED
    BY <1>2, <1>3, <1>6, <2>1, HoldsElsewhere
<1>8. \A j \in 1 .. count + 1 : IsLocal(t[p + j], all[j], t[p].arg, p)
  <2>1. IsLocal(t[p + (count + 1)], all[count + 1], t[p].arg, p)
    <3>1. p + (count + 1) = n + 1
      BY <1>3, <1>4
    <3> QED
      BY <1>2, <1>3, <1>5, <3>1, Zenon
  <2>2. \A j \in 1 .. count : IsLocal(t[p + j], all[j], t[p].arg, p)
    BY <1>7 DEF Holds
  <2>3. \A j \in 1 .. count + 1 : j \in 1 .. count \/ j = count + 1
    BY <1>3
  <2> QED
    BY <2>1, <2>2, <2>3, Zenon
<1>9. Holds(t, p, all, count + 1)
  <2>1. p \in 2 .. Len(t) /\ count + 1 \in 0 .. Len(all) /\ p + (count + 1) <= Len(t)
    BY <1>2, <1>3, <1>4
  <2>2. t[p].kind = "return"
    BY <1>5, <1>4 DEF Holds
  <2> QED
    BY <1>8, <2>1, <2>2, Zenon DEF Holds
<1>10. Len(t) = p + count + 1
  BY <1>2, <1>3, <1>4
<1> QED
  BY <1>2, <1>5, <1>9, <1>10, Zenon DEF Grows, t, n, count, all

Shrinks(s, t, p, blocks, B) ==
  /\ WellStacked(t) /\ t \in Seq(AnyBlock)
  /\ Holds(t, p, blocks, Len(blocks))
  /\ Len(t) = p + Len(blocks)
  /\ t[p] = s[p]
  /\ IsLocal(s[Len(s)], B, s[p].arg, p)

LEMMA PopLocal ==
  ASSUME NEW s \in Seq(AnyBlock), WellStacked(s), NEW p, NEW blocks \in Seq(ShapeBlocks),
         NEW B \in ShapeBlocks,
         Holds(s, p, Append(blocks, B), Len(blocks) + 1), Len(s) = p + Len(blocks) + 1
  PROVE  Shrinks(s, SubSeq(s, 1, Len(s) - 1), p, blocks, B)
<1> DEFINE t == SubSeq(s, 1, Len(s) - 1)
           n == Len(s)
           count == Len(blocks)
           all == Append(blocks, B)
<1>1. /\ all \in Seq(ShapeBlocks) /\ Len(all) = count + 1 /\ all[count + 1] = B
      /\ count \in Nat /\ n \in Nat /\ \A j \in 1 .. count : all[j] = blocks[j]
  OBVIOUS
<1>2. /\ p \in 2 .. n /\ n = p + count + 1 /\ Holds(s, p, all, count + 1)
      /\ s[p].kind = "return"
      /\ \A j \in 1 .. count + 1 : IsLocal(s[p + j], all[j], s[p].arg, p)
  BY DEF Holds
<1>3. n >= 3
  BY <1>1, <1>2
<1>4. /\ WellStacked(t) /\ t \in Seq(AnyBlock) /\ Len(t) = n - 1
      /\ \A j \in 1 .. n - 1 : t[j] = s[j]
  BY <1>3, PopKeeps
<1> HIDE DEF t, n, count, all
<1>5. IsLocal(s[n], B, s[p].arg, p)
  <2>1. count + 1 \in 1 .. count + 1 /\ p + (count + 1) = n
    BY <1>1, <1>2
  <2> QED
    BY <1>1, <1>2, <2>1, Zenon
<1>6. Len(t) = p + count /\ t[p] = s[p]
  BY <1>1, <1>2, <1>4
<1>7. Holds(s, p, all, count)
  <2>1. /\ count \in 0 .. Len(all) /\ p + count <= Len(s) /\ p \in 2 .. Len(s)
    BY <1>1, <1>2 DEF n
  <2>2. \A j \in 1 .. count : j \in 1 .. count + 1
    BY <1>1
  <2> QED
    BY <1>2, <2>1, <2>2, Zenon DEF Holds
<1>8. Holds(s, p, blocks, count)
  BY <1>1, <1>7, HoldsOfAppend DEF count, all
<1>9. Holds(t, p, blocks, count)
  <2>1. n - 1 \in Nat /\ n - 1 <= Len(s) /\ n - 1 <= Len(t) /\ p \in Nat /\ p + count <= n - 1
    BY <1>1, <1>2, <1>3, <1>4 DEF n
  <2> QED
    BY <1>1, <1>4, <1>8, <2>1, HoldsElsewhere
<1> QED
  BY <1>4, <1>5, <1>6, <1>9, Zenon DEF Shrinks, t, n, count, all

\* The last block of a kind in the shape is the last one on the stack, above
\* the function's return address.
LastIs(s, x, n, kind) ==
  /\ x \in 1 .. Len(s)
  /\ s[x].kind = kind /\ s[x].n = n
  /\ \A j \in x + 1 .. Len(s) : s[j].kind # kind /\ s[j].kind # "return"

LEMMA FindsInnermost ==
  ASSUME NEW s \in Seq(AnyBlock), NEW p, NEW blocks \in Seq(ShapeBlocks),
         Holds(s, p, blocks, Len(blocks)), Len(s) = p + Len(blocks),
         NEW k, NEW kind, Innermost(blocks, k, kind)
  PROVE  LastIs(s, p + k, blocks[k].n, kind)
<1>1. /\ p \in 2 .. Len(s) /\ Len(s) \in Nat /\ Len(blocks) \in Nat
      /\ \A j \in 1 .. Len(blocks) : IsLocal(s[p + j], blocks[j], s[p].arg, p)
  BY DEF Holds
<1>2. /\ k \in 1 .. Len(blocks) /\ blocks[k].kind = kind
      /\ \A j \in k + 1 .. Len(blocks) : blocks[j].kind # kind
  BY DEF Innermost
<1>3. k \in Nat /\ k > 0 /\ p + k <= Len(s)
  BY <1>1, <1>2
<1>4. s[p + k].kind = kind /\ s[p + k].n = blocks[k].n
  BY <1>1, <1>2, Zenon DEF IsLocal
<1>5. ASSUME NEW j \in p + k + 1 .. Len(s)
      PROVE  s[j].kind # kind /\ s[j].kind # "return"
  <2>1. j - p \in k + 1 .. Len(blocks) /\ j - p \in 1 .. Len(blocks) /\ p + (j - p) = j
    BY <1>1, <1>2, <1>3
  <2>2. s[j].kind = blocks[j - p].kind
    BY <1>1, <2>1, Zenon DEF IsLocal
  <2>3. blocks[j - p] \in ShapeBlocks
    BY <2>1
  <2>4. blocks[j - p].kind # kind /\ blocks[j - p].kind # "return"
    BY <1>2, <2>1, <2>3 DEF ShapeBlocks, LocalKinds
  <2> QED
    BY <2>2, <2>4
<1>6. p + k \in 1 .. Len(s)
  BY <1>1, <1>3
<1> QED
  BY <1>4, <1>5, <1>6, Zenon DEF LastIs

\* No block of a kind in the shape, none above the return address.
LEMMA FindsNone ==
  ASSUME NEW s \in Seq(AnyBlock), NEW p, NEW blocks \in Seq(ShapeBlocks),
         Holds(s, p, blocks, Len(blocks)), Len(s) = p + Len(blocks),
         NEW kind, \A j \in 1 .. Len(blocks) : blocks[j].kind # kind
  PROVE  \A j \in p + 1 .. Len(s) : s[j].kind # kind
<1>1. /\ p \in 2 .. Len(s) /\ Len(s) \in Nat /\ Len(blocks) \in Nat
      /\ \A j \in 1 .. Len(blocks) : IsLocal(s[p + j], blocks[j], s[p].arg, p)
  BY DEF Holds
<1> SUFFICES ASSUME NEW j \in p + 1 .. Len(s)
             PROVE  s[j].kind # kind
  OBVIOUS
<1>2. j - p \in 1 .. Len(blocks) /\ p + (j - p) = j
  BY <1>1
<1> QED
  BY <1>1, <1>2, Zenon DEF IsLocal

LEMMA CallKeeps ==
  ASSUME NEW s \in Seq(AnyBlock), WellStacked(s), NEW p, NEW i,
         NEW sv \in Int, NEW a \in Int, NEW l \in Int,
         Runs(s, p, i, sv, a, l), Code[i].op = "call",
         NEW r \in AnyBlock, r.kind = "return", r.saved = sv, r.arg = a, r.ip = i + 1,
         r.vm_exit = FALSE, NEW entry \in Entries
  PROVE  /\ WellStacked(Append(s, r)) /\ Append(s, r) \in Seq(AnyBlock)
         /\ Runs(Append(s, r), Len(s) + 1, entry, sv, a, l)
<1> DEFINE t == Append(s, r)
           n == Len(s)
           now == Shape[i]
           next == Shape[i + 1]
           count == Len(now.blocks)
<1>1. /\ i \in DOMAIN Code /\ i \notin Entries /\ n = p + count
      /\ Holds(s, p, now.blocks, count) /\ p \in 2 .. n /\ sv = s[p].arg
      /\ At(now.arg, s[p].arg, p, a)
  BY DEF Runs, Holds, Entries
<1>2. n \in Nat /\ now.blocks \in Seq(ShapeBlocks) /\ count \in Nat /\ now.arg \in Offsets
  BY <1>1, BlocksOf
<1>3. Innermost(now.blocks, now.arg, "header")
  <2>1. Finding(Code[i], now)
    BY <1>1, ShapeOf
  <2> QED
    BY <2>1 DEF Finding
<1>4. a = p + now.arg - 1 /\ now.arg \in Int
  <2>1. now.arg \in 1 .. count
    BY <1>3 DEF Innermost
  <2> QED
    BY <1>1, <1>2, <2>1 DEF At
<1>5. /\ a >= p /\ a < n /\ s[a + 1].kind = "header"
      /\ \A j \in a + 2 .. n : s[j].kind # "header" /\ s[j].kind # "return"
  <2>1. Holds(s, p, now.blocks, Len(now.blocks)) /\ Len(s) = p + Len(now.blocks)
    BY <1>1
  <2> HIDE DEF now
  <2>2. LastIs(s, p + now.arg, now.blocks[now.arg].n, "header") /\ now.arg \in 1 .. Len(now.blocks)
    <3>1. now.blocks \in Seq(ShapeBlocks) /\ now.arg \in 1 .. Len(now.blocks)
      BY <1>2, <1>3 DEF Innermost
    <3> HIDE DEF count, n
    <3>2. LastIs(s, p + now.arg, now.blocks[now.arg].n, "header")
      BY <1>3, <2>1, <3>1, FindsInnermost
    <3> QED
      BY <3>1, <3>2
  <2> HIDE DEF count, n
  <2>3. p + now.arg = a + 1 /\ now.arg > 0 /\ p \in Int /\ a \in Int
    BY <1>1, <1>4, <2>2
  <2>4. LastIs(s, a + 1, now.blocks[now.arg].n, "header")
    BY <2>2, <2>3
  <2>5. /\ a + 1 \in 1 .. n /\ s[a + 1].kind = "header"
        /\ \A j \in a + 1 + 1 .. n : s[j].kind # "header" /\ s[j].kind # "return"
    BY <2>4, Zenon DEF LastIs, n
  <2>6. a + 1 + 1 = a + 2 /\ a >= p /\ a < n
    <3>1. a + 1 \in 1 .. n /\ n \in Nat /\ now.arg \in Int
      BY <1>2, <1>4, <2>5
    <3> HIDE DEF now
    <3> QED
      BY <2>3, <3>1
  <2> QED
    BY <2>5, <2>6
<1>6. /\ i + 1 \in DOMAIN Code \ Entries /\ next.blocks = now.blocks
      /\ Expects(next.arg, now.arg) /\ next.loc = Anywhere
  <2>1. i + 1 \in DOMAIN Code \ Entries /\ Leaving(Code[i], now, next)
    BY <1>1, NextShape
  <2> QED
    BY <2>1 DEF Leaving, PushOps, ReleaseOps, Expects
<1>7. next.arg \in Offsets
  BY <1>6, BlocksOf
<1>8. t \in Seq(AnyBlock) /\ Len(t) = n + 1 /\ t[n + 1] = r /\ \A j \in 1 .. n : t[j] = s[j]
  OBVIOUS
<1> HIDE DEF t, n, now, next, count
<1>9. Suspended(t, p, n + 1)
  <2>1. Holds(t, p, next.blocks, count)
    <3>1. n <= Len(s) /\ n <= Len(t) /\ p \in Nat /\ p + count <= n
      BY <1>1, <1>2, <1>8 DEF n
    <3> QED
      BY <1>1, <1>2, <1>6, <1>8, <3>1, HoldsElsewhere
  <2>2. At(next.arg, s[p].arg, p, a)
    BY <1>1, <1>2, <1>6, <1>7, ExpectsLess
  <2>3. t[p] = s[p] /\ n + 1 = p + count + 1
    BY <1>1, <1>2, <1>8
  <2> QED
    BY <1>1, <1>6, <1>8, <2>1, <2>2, <2>3, Zenon DEF Suspended, next, now, count
<1>10. HasHeader(t, n + 1)
  <2>1. a \in 0 .. (n + 1) - 2 /\ t[a + 1] = s[a + 1]
    BY <1>1, <1>2, <1>5, <1>8
  <2>2. \A j \in a + 2 .. (n + 1) - 1 : j \in a + 2 .. n /\ t[j] = s[j]
    BY <1>1, <1>2, <1>5, <1>8
  <2> QED
    BY <1>5, <1>8, <2>1, <2>2, Zenon DEF HasHeader
<1>11. Called(t, n + 1)
  <2>1. n + 1 # 2 /\ p \in 2 .. (n + 1) - 1
    BY <1>1, <1>2
  <2> QED
    BY <1>8, <1>9, <1>10, <2>1, Zenon DEF Called
<1>12. WellStacked(t)
  BY <1>11, PushKeeps DEF t, n
<1>13. Runs(t, n + 1, entry, sv, a, l)
  <2>1. entry \in DOMAIN Code /\ Shape[entry] = AtEntry
    BY ShapeOf DEF Entries
  <2>2. /\ Shape[entry].blocks = <<>> /\ Shape[entry].arg = OwnHeader
        /\ Shape[entry].loc = Anywhere
    BY <2>1 DEF AtEntry
  <2>3. Holds(t, n + 1, <<>>, 0)
    BY <1>1, <1>2, <1>8 DEF Holds
  <2>4. At(OwnHeader, a, n + 1, a) /\ At(Anywhere, a, n + 1, l)
    BY DEF At, OwnHeader, Anywhere
  <2>5. Len(<<>>) = 0 /\ Len(t) = n + 1 + 0
    BY <1>2, <1>8
  <2> QED
    BY <1>8, <2>1, <2>2, <2>3, <2>4, <2>5, Zenon DEF Runs
<1> QED
  BY <1>8, <1>12, <1>13 DEF t, n

\* Who returns finds its caller as the call left it.
LEMMA ReturnKeeps ==
  ASSUME NEW s \in Seq(AnyBlock), WellStacked(s), s[Len(s)].kind = "return"
  PROVE  /\ s[Len(s)].vm_exit <=> Len(s) = 2
         /\ s[2].arg = 0
         /\ ~s[Len(s)].vm_exit =>
              /\ WellStacked(SubSeq(s, 1, Len(s) - 1))
              /\ SubSeq(s, 1, Len(s) - 1) \in Seq(AnyBlock)
              /\ \E p \in 2 .. Len(s) - 1 :
                   LET t == SubSeq(s, 1, Len(s) - 1)
                       back == s[Len(s)]
                       there == Shape[back.ip]
                   IN /\ back.ip \in DOMAIN Code \ Entries
                      /\ Holds(t, p, there.blocks, Len(there.blocks))
                      /\ Len(t) = p + Len(there.blocks)
                      /\ back.saved = t[p].arg
                      /\ At(there.arg, t[p].arg, p, back.arg)
                      /\ there.loc = Anywhere
<1> DEFINE q == Len(s)
           t == SubSeq(s, 1, Len(s) - 1)
<1>1. q \in Nat /\ q >= 2 /\ s[2].arg = 0 /\ Called(s, q)
  BY DEF WellStacked
<1>2. (s[q].vm_exit <=> q = 2) /\ (q # 2 => \E p \in 2 .. q - 1 : Suspended(s, p, q))
  BY <1>1 DEF Called
<1>3. ASSUME q # 2
      PROVE  /\ WellStacked(t) /\ t \in Seq(AnyBlock)
             /\ \E p \in 2 .. q - 1 :
                  /\ s[q].ip \in DOMAIN Code \ Entries
                  /\ Holds(t, p, Shape[s[q].ip].blocks, Len(Shape[s[q].ip].blocks))
                  /\ Len(t) = p + Len(Shape[s[q].ip].blocks)
                  /\ s[q].saved = t[p].arg
                  /\ At(Shape[s[q].ip].arg, t[p].arg, p, s[q].arg)
                  /\ Shape[s[q].ip].loc = Anywhere
  <2>1. PICK p \in 2 .. q - 1 : Suspended(s, p, q)
    BY <1>2, <1>3
  <2> DEFINE i == s[q].ip
             count == Len(Shape[i].blocks)
  <2>2. /\ i \in DOMAIN Code \ Entries
        /\ Holds(s, p, Shape[i].blocks, count)
        /\ q = p + count + 1
        /\ s[q].saved = s[p].arg
        /\ At(Shape[i].arg, s[p].arg, p, s[q].arg)
        /\ Shape[i].loc = Anywhere
    BY <2>1 DEF Suspended
  <2>3. Shape[i].blocks \in Seq(ShapeBlocks) /\ count \in Nat
    BY <2>2, BlocksOf
  <2>4. Len(s) >= 3
    BY <1>1, <1>3
  <2>5. WellStacked(t) /\ t \in Seq(AnyBlock) /\ Len(t) = q - 1 /\ \A j \in 1 .. q - 1 : t[j] = s[j]
    BY <2>4, PopKeeps
  <2> HIDE DEF q, t, i, count
  <2>6. t[p] = s[p] /\ Len(t) = p + count
    BY <1>1, <2>2, <2>3, <2>5
  <2>7. Holds(t, p, Shape[i].blocks, count)
    <3>1. q - 1 \in Nat /\ q - 1 <= Len(s) /\ q - 1 <= Len(t) /\ p \in Nat /\ p + count <= q - 1
      BY <1>1, <2>2, <2>3, <2>5 DEF q
    <3> QED
      BY <2>2, <2>3, <2>5, <3>1, HoldsElsewhere
  <2> QED
    BY <2>2, <2>5, <2>6, <2>7, Zenon DEF i, count
<1> QED
  BY <1>1, <1>2, <1>3, Zenon DEF q, t

-----------------------------------------------------------------------------
(* The walk of the reverse VM                                                *)

\* Who knows the offsets when an instruction is reached knows what they are
\* should its block not be pushed.
LEMMA Reaching ==
  ASSUME NEW i \in DOMAIN Code, NEW m \in 0 .. Len(Shape[i].blocks), NEW h, NEW p, NEW a, NEW l,
         At(ArgOf(Shape[i].blocks, m, Shape[i].arg), h, p, a),
         At(LocOf(Shape[i].blocks, m, Shape[i].loc), h, p, l)
  PROVE  /\ At(ArgOf(Planned(i), m, Shape[i].arg), h, p, a)
         /\ At(LocOf(Planned(i), m, Shape[i].loc), h, p, l)
<1> DEFINE now == Shape[i]
           count == Len(now.blocks)
           B == PushedShape(Code[i], now)
<1>1. CASE Code[i].op \notin PushOps
  BY <1>1 DEF Planned
<1>2. CASE Code[i].op \in PushOps
  <2>1. now.blocks \in Seq(ShapeBlocks) /\ count \in Nat
    BY BlocksOf
  <2>2. Planned(i) = Append(now.blocks, B)
    BY <1>2 DEF Planned
  <2>3. Len(Planned(i)) = count + 1 /\ Planned(i)[count + 1] = B
        /\ \A j \in 1 .. count : Planned(i)[j] = now.blocks[j]
    BY <2>1, <2>2
  <2>4. CASE m < count
    <3>1. m + 1 \in 1 .. count /\ m < Len(Planned(i))
      BY <2>1, <2>3, <2>4
    <3>2. Planned(i)[m + 1] = now.blocks[m + 1]
      BY <2>3, <3>1
    <3> QED
      BY <2>4, <3>1, <3>2, Zenon DEF ArgOf, LocOf
  <2>5. CASE ~(m < count)
    <3>1. m = count /\ m < Len(Planned(i)) /\ Planned(i)[m + 1] = B
      BY <2>1, <2>3, <2>5
    <3>2. At(now.arg, h, p, a) /\ At(now.loc, h, p, l)
      BY <2>5 DEF ArgOf, LocOf
    <3>3. B.arg = now.arg /\ B.loc = now.loc
      BY DEF PushedShape
    <3>4. At(ArgBehind(B), h, p, a)
      BY <3>2, <3>3, AnywhereIsFine DEF ArgBehind
    <3> QED
      BY <3>1, <3>2, <3>3, <3>4, Zenon DEF ArgOf, LocOf
  <2> QED
    BY <2>4, <2>5
<1> QED
  BY <1>1, <1>2

\* At an instruction that pushes nothing, with all its blocks there.
LEMMA AllThere ==
  ASSUME NEW i \in DOMAIN Code, NEW h, NEW p, NEW a, NEW l
  PROVE  /\ At(Shape[i].arg, h, p, a) <=>
              At(ArgOf(Shape[i].blocks, Len(Shape[i].blocks), Shape[i].arg), h, p, a)
         /\ At(Shape[i].loc, h, p, l) <=>
              At(LocOf(Shape[i].blocks, Len(Shape[i].blocks), Shape[i].loc), h, p, l)
<1>1. ~(Len(Shape[i].blocks) < Len(Shape[i].blocks))
  BY BlocksOf
<1> QED
  BY <1>1, Zenon DEF ArgOf, LocOf

\* A running function whose instruction fails is where the walk begins.
LEMMA Failing ==
  ASSUME NEW s \in Seq(AnyBlock), NEW p, NEW i, NEW sv, NEW a, NEW l,
         Runs(s, p, i, sv, a, l), i \notin Entries
  PROVE  Walks(s, p, Len(Shape[i].blocks), i, a, l)
<1>1. /\ i \in DOMAIN Code \ Entries
      /\ Holds(s, p, Shape[i].blocks, Len(Shape[i].blocks))
      /\ Len(s) = p + Len(Shape[i].blocks)
      /\ At(Shape[i].arg, s[p].arg, p, a) /\ At(Shape[i].loc, s[p].arg, p, l)
  BY DEF Runs
<1>2. Len(Shape[i].blocks) \in 0 .. Len(Shape[i].blocks)
  BY <1>1, BlocksOf
<1>3. /\ At(ArgOf(Planned(i), Len(Shape[i].blocks), Shape[i].arg), s[p].arg, p, a)
      /\ At(LocOf(Planned(i), Len(Shape[i].blocks), Shape[i].loc), s[p].arg, p, l)
  BY <1>1, <1>2, AllThere, Reaching
<1> QED
  BY <1>1, <1>3, Zenon DEF Walks

\* alloc_vars and alloc_args have set their offset when they find no room.
LEMMA Overflowing ==
  ASSUME NEW s \in Seq(AnyBlock), NEW p, NEW i, NEW sv, NEW a, NEW l, NEW b, NEW k,
         Runs(s, p, i, sv, a, l), Code[i].op \in PushOps,
         Code[i].op # "alloc_args" => b = a, Code[i].op # "alloc_vars" => k = l
  PROVE  Walks(s, p, Len(Shape[i].blocks), i, b, k)
<1> DEFINE now == Shape[i]
           count == Len(now.blocks)
           B == PushedShape(Code[i], now)
<1>1. /\ i \in DOMAIN Code \ Entries
      /\ Holds(s, p, now.blocks, count) /\ Len(s) = p + count
      /\ At(now.arg, s[p].arg, p, a) /\ At(now.loc, s[p].arg, p, l)
  BY DEF Runs, Entries, PushOps
<1>2. now.blocks \in Seq(ShapeBlocks) /\ count \in Nat
  BY <1>1, BlocksOf
<1>3. Planned(i) = Append(now.blocks, B)
  BY DEF Planned
<1>4. count < Len(Planned(i)) /\ Planned(i)[count + 1] = B
  BY <1>2, <1>3
<1>5. At(ArgBehind(B), s[p].arg, p, b)
  <2>1. CASE Code[i].op = "alloc_args"
    <3>1. ArgBehind(B) = Anywhere
      BY <2>1 DEF ArgBehind, PushedShape, KindOf
    <3> QED
      BY <3>1, AnywhereIsFine
  <2>2. CASE Code[i].op # "alloc_args"
    <3>1. ArgBehind(B) = now.arg
      BY <2>2 DEF ArgBehind, PushedShape, KindOf, PushOps
    <3> QED
      BY <1>1, <2>2, <3>1
  <2> QED
    BY <2>1, <2>2
<1>6. At(B.loc, s[p].arg, p, k)
  <2>1. B.loc = now.loc
    BY DEF PushedShape
  <2>2. CASE Code[i].op = "alloc_vars"
    <3>1. Finding(Code[i], now)
      BY <1>1, ShapeOf
    <3>2. now.loc = Anywhere
      BY <2>2, <3>1 DEF Finding
    <3> QED
      BY <2>1, <3>2, AnywhereIsFine
  <2> QED
    BY <1>1, <2>1, <2>2
<1> HIDE DEF now, count, B
<1> QED
  BY <1>1, <1>4, <1>5, <1>6, Zenon DEF Walks, ArgOf, LocOf, now, count

-----------------------------------------------------------------------------
(* Instructions                                                              *)

\* What a release does to the offsets, given the block it takes off.
Brings(op, top, a, l, b, k) ==
  /\ op = "restore_ctx" => b = top.arg
  /\ op # "restore_ctx" => b = a
  /\ op \in {"restore_ctx", "free_vars"} => k = top.loc
  /\ op \notin {"restore_ctx", "free_vars"} => k = l

\* What it leaves.
Released(s, t, p, i, b, k) ==
  /\ i + 1 \in DOMAIN Code \ Entries
  /\ WellStacked(t) /\ t \in Seq(AnyBlock) /\ t[p] = s[p]
  /\ Holds(t, p, Shape[i + 1].blocks, Len(Shape[i + 1].blocks))
  /\ Len(t) = p + Len(Shape[i + 1].blocks)
  /\ At(Shape[i + 1].arg, t[p].arg, p, b) /\ At(Shape[i + 1].loc, t[p].arg, p, k)
  /\ s[Len(s)].saved = s[p].arg

\* A release with all blocks there, whether the VM or the reverse VM does it.
LEMMA ReleaseKeeps ==
  ASSUME NEW s \in Seq(AnyBlock), WellStacked(s), NEW p, NEW i \in DOMAIN Code,
         Code[i].op \in ReleaseOps,
         Holds(s, p, Shape[i].blocks, Len(Shape[i].blocks)), Len(s) = p + Len(Shape[i].blocks),
         NEW a, NEW l, At(Shape[i].arg, s[p].arg, p, a), At(Shape[i].loc, s[p].arg, p, l),
         NEW t, t = SubSeq(s, 1, Len(s) - 1),
         NEW b, NEW k, Brings(Code[i].op, s[Len(s)], a, l, b, k)
  PROVE  Released(s, t, p, i, b, k)
<1> DEFINE now == Shape[i]
           next == Shape[i + 1]
           count == Len(now.blocks)
           B == now.blocks[count]
           top == s[Len(s)]
<1>0. /\ Code[i].op = "restore_ctx" => b = top.arg
      /\ Code[i].op # "restore_ctx" => b = a
      /\ Code[i].op \in {"restore_ctx", "free_vars"} => k = top.loc
      /\ Code[i].op \notin {"restore_ctx", "free_vars"} => k = l
  BY Zenon DEF Brings
<1>1. /\ i + 1 \in DOMAIN Code \ Entries
      /\ now.blocks = Append(next.blocks, B)
      /\ Expects(next.arg, ArgBehind(B)) /\ Expects(next.loc, B.loc)
      /\ Code[i].op # "restore_ctx" => Expects(next.arg, now.arg)
      /\ Code[i].op \notin {"restore_ctx", "free_vars"} => Expects(next.loc, now.loc)
  <2>1. Code[i].op # "return"
    BY DEF ReleaseOps
  <2>2. i + 1 \in DOMAIN Code \ Entries /\ Leaving(Code[i], now, next)
    BY <2>1, NextShape
  <2>3. Code[i].op \notin PushOps
    BY DEF ReleaseOps, PushOps
  <2> HIDE DEF now, next
  <2> QED
    BY <2>2, <2>3, Zenon DEF Leaving
<1>2. count > 0 /\ B.kind = KindOf(Code[i].op)
  <2>1. Finding(Code[i], now)
    BY ShapeOf
  <2> HIDE DEF now
  <2> QED
    BY <2>1, Zenon DEF Finding
<1>3. /\ now.blocks \in Seq(ShapeBlocks) /\ count \in Nat /\ now.arg \in Offsets /\ now.loc \in Offsets
  BY BlocksOf
<1>4. /\ next.blocks \in Seq(ShapeBlocks) /\ next.arg \in Offsets /\ next.loc \in Offsets
  BY <1>1, BlocksOf
<1>5. B \in ShapeBlocks /\ B.arg \in Offsets /\ B.loc \in Offsets
  <2>1. count \in 1 .. count
    BY <1>2, <1>3
  <2>2. B \in ShapeBlocks
    BY <2>1, BlocksOf
  <2> HIDE DEF B
  <2> QED
    BY <2>2 DEF ShapeBlocks
<1>6. count = Len(next.blocks) + 1 /\ Len(next.blocks) \in Nat
  BY <1>1, <1>4
<1> HIDE DEF B, next
<1>7. Holds(s, p, Append(next.blocks, B), Len(next.blocks) + 1) /\ Len(s) = p + Len(next.blocks) + 1
  <2>1. p \in Int
    BY DEF Holds
  <2> QED
    BY <1>1, <1>6, <2>1
<1>8. /\ WellStacked(t) /\ t \in Seq(AnyBlock) /\ t[p] = s[p]
      /\ Holds(t, p, next.blocks, Len(next.blocks))
      /\ Len(t) = p + Len(next.blocks)
      /\ IsLocal(top, B, s[p].arg, p)
  <2> HIDE DEF now, count
  <2>1. Shrinks(s, t, p, next.blocks, B)
    BY <1>4, <1>5, <1>7, PopLocal
  <2> QED
    BY <2>1, Zenon DEF Shrinks
<1>9. At(next.arg, s[p].arg, p, b)
  <2>1. CASE Code[i].op = "restore_ctx"
    <3>1. B.kind = "ctx"
      BY <1>2, <2>1 DEF KindOf
    <3>2. Expects(next.arg, B.arg)
      BY <1>1, <3>1 DEF ArgBehind
    <3>3. At(B.arg, s[p].arg, p, b)
      BY <1>0, <1>8, <2>1 DEF IsLocal
    <3> QED
      BY <1>4, <1>5, <3>2, <3>3, ExpectsLess
  <2>2. CASE Code[i].op # "restore_ctx"
    BY <1>0, <1>1, <1>3, <1>4, <2>2, ExpectsLess
  <2> QED
    BY <2>1, <2>2
<1>10. At(next.loc, s[p].arg, p, k)
  <2>1. CASE Code[i].op \in {"restore_ctx", "free_vars"}
    <3>1. At(B.loc, s[p].arg, p, k)
      BY <1>0, <1>8, <2>1 DEF IsLocal
    <3> QED
      BY <1>1, <1>4, <1>5, <3>1, ExpectsLess
  <2>2. CASE Code[i].op \notin {"restore_ctx", "free_vars"}
    BY <1>0, <1>1, <1>3, <1>4, <2>2, ExpectsLess
  <2> QED
    BY <2>1, <2>2
<1>11. top.saved = s[p].arg
  BY <1>8, Zenon DEF IsLocal
<1> HIDE DEF now, count
<1> QED
  BY <1>1, <1>8, <1>9, <1>10, <1>11, Zenon DEF next, Released

LEMMA PushRuns ==
  ASSUME NEW s \in Seq(AnyBlock), WellStacked(s), NEW p, NEW i,
         NEW sv \in Int, NEW a \in Int, NEW l \in Int,
         Runs(s, p, i, sv, a, l), Code[i].op \in PushOps,
         NEW b \in AnyBlock, b.kind = KindOf(Code[i].op), b.n = PushedShape(Code[i], Shape[i]).n,
         b.saved = sv, b.arg = a, b.loc = l,
         NEW c, c = IF Code[i].op = "alloc_args" THEN Len(s) ELSE a,
         NEW k, k = IF Code[i].op = "alloc_vars" THEN Len(s) ELSE l
  PROVE  /\ WellStacked(Append(s, b)) /\ Append(s, b) \in Seq(AnyBlock)
         /\ Runs(Append(s, b), p, i + 1, sv, c, k)
<1> DEFINE t == Append(s, b)
           now == Shape[i]
           next == Shape[i + 1]
           count == Len(now.blocks)
           B == PushedShape(Code[i], now)
<1>1. /\ i \in DOMAIN Code \ Entries
      /\ Holds(s, p, now.blocks, count) /\ Len(s) = p + count /\ p \in Nat
      /\ sv = s[p].arg
      /\ At(now.arg, s[p].arg, p, a) /\ At(now.loc, s[p].arg, p, l)
  BY DEF Runs, Entries, PushOps, Holds
<1>2. /\ now.blocks \in Seq(ShapeBlocks) /\ count \in Nat /\ now.arg \in Offsets /\ now.loc \in Offsets
  BY <1>1, BlocksOf
<1>3. /\ i + 1 \in DOMAIN Code \ Entries
      /\ next.blocks = Append(now.blocks, B)
      /\ Expects(next.arg, IF Code[i].op = "alloc_args" THEN count + 1 ELSE now.arg)
      /\ Expects(next.loc, IF Code[i].op = "alloc_vars" THEN count + 1 ELSE now.loc)
  <2>1. Code[i].op # "return"
    BY DEF PushOps
  <2>2. i + 1 \in DOMAIN Code \ Entries /\ Leaving(Code[i], now, next)
    BY <1>1, <2>1, NextShape
  <2>3. Code[i].op \notin ReleaseOps
    BY DEF ReleaseOps, PushOps
  <2> HIDE DEF now, next
  <2> QED
    BY <2>2, <2>3, Zenon DEF Leaving
<1>4. next.arg \in Offsets /\ next.loc \in Offsets
  BY <1>3, BlocksOf
<1>5. B \in ShapeBlocks
  <2>1. KindOf(Code[i].op) \in LocalKinds
    BY DEF KindOf, PushOps, LocalKinds
  <2>2. Code[i].n \in Int
    BY <1>1, ShapeOf
  <2> HIDE DEF now
  <2> QED
    BY <1>2, <2>1, <2>2 DEF PushedShape, ShapeBlocks
<1>6. IsLocal(b, B, s[p].arg, p)
  BY <1>1, Zenon DEF IsLocal, PushedShape
<1>7. /\ WellStacked(t) /\ t \in Seq(AnyBlock)
      /\ Holds(t, p, Append(now.blocks, B), count + 1)
      /\ Len(t) = p + count + 1 /\ t[p] = s[p]
  <2> HIDE DEF now, B
  <2>1. Grows(s, t, p, now.blocks, B)
    BY <1>1, <1>2, <1>5, <1>6, PushLocal
  <2> QED
    BY <2>1, Zenon DEF Grows
<1>8. Len(next.blocks) = count + 1
  BY <1>2, <1>3
<1>9. At(count + 1, s[p].arg, p, Len(s)) /\ count + 1 \in Offsets
  BY <1>1, <1>2 DEF At, OwnHeader, Offsets
<1>10. At(next.arg, s[p].arg, p, c) /\ At(next.loc, s[p].arg, p, k)
  <2> HIDE DEF now, next, count
  <2>1. At(next.arg, s[p].arg, p, c)
    BY <1>1, <1>2, <1>3, <1>4, <1>9, ExpectsLess
  <2>2. At(next.loc, s[p].arg, p, k)
    BY <1>1, <1>2, <1>3, <1>4, <1>9, ExpectsLess
  <2> QED
    BY <2>1, <2>2
<1> HIDE DEF t, now, B, next, count
<1>11. Len(t) = p + Len(next.blocks)
  BY <1>1, <1>2, <1>7, <1>8
<1> QED
  BY <1>1, <1>3, <1>7, <1>8, <1>10, <1>11, Zenon DEF Runs, t, next

\* Instructions that leave the stack alone; the first one of a function saves
\* the offset of its header.
LEMMA StraightRuns ==
  ASSUME NEW s \in Seq(AnyBlock), NEW p, NEW i, NEW sv, NEW a, NEW l,
         Runs(s, p, i, sv, a, l),
         Code[i].op \notin PushOps \union ReleaseOps \union {"return"}
  PROVE  Runs(s, p, i + 1, IF i \in Entries THEN a ELSE sv, a, l)
<1> DEFINE now == Shape[i]
           next == Shape[i + 1]
           count == Len(now.blocks)
<1>1. /\ i \in DOMAIN Code /\ Holds(s, p, now.blocks, count) /\ Len(s) = p + count
      /\ i \notin Entries => sv = s[p].arg
      /\ At(now.arg, s[p].arg, p, a) /\ At(now.loc, s[p].arg, p, l)
  BY DEF Runs
<1>2. now.arg \in Offsets /\ now.loc \in Offsets
  BY <1>1, BlocksOf
<1>3. /\ i + 1 \in DOMAIN Code \ Entries
      /\ next.blocks = now.blocks
      /\ Expects(next.arg, now.arg)
      /\ Expects(next.loc, now.loc) \/ next.loc = Anywhere
  <2>1. i + 1 \in DOMAIN Code \ Entries /\ Leaving(Code[i], now, next)
    BY <1>1, NextShape
  <2> HIDE DEF now, next
  <2> QED
    BY <2>1 DEF Leaving, Expects
<1>4. next.arg \in Offsets /\ next.loc \in Offsets
  BY <1>3, BlocksOf
<1>5. At(next.arg, s[p].arg, p, a) /\ At(next.loc, s[p].arg, p, l)
  <2> HIDE DEF now, next
  <2>1. At(next.arg, s[p].arg, p, a)
    BY <1>1, <1>2, <1>3, <1>4, ExpectsLess
  <2>2. At(next.loc, s[p].arg, p, l)
    BY <1>1, <1>2, <1>3, <1>4, ExpectsLess, AnywhereIsFine
  <2> QED
    BY <2>1, <2>2
<1>6. i \in Entries => a = s[p].arg
  <2>1. i \in Entries => now = AtEntry
    BY <1>1, ShapeOf
  <2> QED
    BY <1>1, <2>1 DEF AtEntry, At
<1> HIDE DEF now, next, count
<1> QED
  BY <1>1, <1>3, <1>5, <1>6, Zenon DEF Runs, next, count

LEMMA JumpRuns ==
  ASSUME NEW s \in Seq(AnyBlock), NEW p, NEW i, NEW sv, NEW a, NEW l,
         Runs(s, p, i, sv, a, l), Code[i].op \in JumpOps
  PROVE  Runs(s, p, i + 1 + Code[i].n, sv, a, l)
<1> DEFINE now == Shape[i]
           there == Shape[i + 1 + Code[i].n]
           count == Len(now.blocks)
<1>1. /\ i \in DOMAIN Code /\ Holds(s, p, now.blocks, count) /\ Len(s) = p + count
      /\ sv = s[p].arg
      /\ At(now.arg, s[p].arg, p, a) /\ At(now.loc, s[p].arg, p, l)
  BY DEF Runs, Entries, JumpOps
<1>2. now.arg \in Offsets /\ now.loc \in Offsets
  BY <1>1, BlocksOf
<1>3. /\ i + 1 + Code[i].n \in DOMAIN Code \ Entries
      /\ there.blocks = now.blocks
      /\ Expects(there.arg, now.arg) /\ Expects(there.loc, now.loc)
  BY <1>1, TargetShape DEF Landing
<1>4. there.arg \in Offsets /\ there.loc \in Offsets
  BY <1>3, BlocksOf
<1> HIDE DEF now, there, count
<1>5. At(there.arg, s[p].arg, p, a) /\ At(there.loc, s[p].arg, p, l)
  BY <1>1, <1>2, <1>3, <1>4, ExpectsLess
<1> QED
  BY <1>1, <1>3, <1>5, Zenon DEF Runs, there, count

LEMMA OneMore ==
  ASSUME NEW f \in [LocalKinds -> Nat], NEW g \in [LocalKinds -> Nat], NEW kind \in LocalKinds,
         \A k \in LocalKinds : g[k] = f[k] + (IF k = kind THEN 1 ELSE 0)
  PROVE  g = [f EXCEPT ![kind] = @ + 1] /\ f = [g EXCEPT ![kind] = @ - 1]
OBVIOUS

\* Missing after a block more in the shape.
LEMMA MissingOfAppend ==
  ASSUME NEW blocks \in Seq(ShapeBlocks), NEW B \in ShapeBlocks, NEW m \in 0 .. Len(blocks)
  PROVE  /\ Missing(Append(blocks, B), m) = [Missing(blocks, m) EXCEPT ![B.kind] = @ + 1]
         /\ Missing(blocks, m) = [Missing(Append(blocks, B), m) EXCEPT ![B.kind] = @ - 1]
<1> DEFINE f == Missing(blocks, m)
           g == Missing(Append(blocks, B), m)
<1>1. B.kind \in LocalKinds /\ m \in Nat /\ Append(blocks, B) \in Seq(ShapeBlocks)
  BY DEF ShapeBlocks
<1>2. \A k \in LocalKinds : Count(blocks, m, k) \in Nat /\ Count(Append(blocks, B), m, k) \in Nat
  BY <1>1, CountIsNatural
<1>3. f \in [LocalKinds -> Nat] /\ g \in [LocalKinds -> Nat]
  BY <1>2 DEF Missing
<1>4. \A k \in LocalKinds : g[k] = f[k] + (IF k = B.kind THEN 1 ELSE 0)
  <2> TAKE k \in LocalKinds
  <2>1. Count(Append(blocks, B), m, k) = Count(blocks, m, k) + (IF B.kind = k THEN 1 ELSE 0)
    BY CountOfAppend
  <2>2. f[k] = Count(blocks, m, k) /\ g[k] = Count(Append(blocks, B), m, k)
    BY DEF Missing
  <2> QED
    BY <2>1, <2>2
<1> HIDE DEF f, g
<1>5. g = [f EXCEPT ![B.kind] = @ + 1] /\ f = [g EXCEPT ![B.kind] = @ - 1]
  BY <1>1, <1>3, <1>4, OneMore
<1> QED
  BY <1>5 DEF f, g

\* One more of a kind to skip.
Grown(g, f, k) == g = [f EXCEPT ![k] = @ + 1]

\* Of an instruction that the walk passes, the blocks that are there stay so.
LEMMA PushWalks ==
  ASSUME NEW s \in Seq(AnyBlock), NEW p, NEW m \in Nat, NEW i, NEW a, NEW l,
         Walks(s, p, m, i, a, l), Code[i].op \in PushOps
  PROVE  /\ Walks(s, p, m, i + 1, a, l)
         /\ Grown(Missing(Shape[i + 1].blocks, m), Missing(Shape[i].blocks, m), KindOf(Code[i].op))
<1> DEFINE now == Shape[i]
           next == Shape[i + 1]
           count == Len(now.blocks)
           B == PushedShape(Code[i], now)
           kind == KindOf(Code[i].op)
<1>1. /\ i \in DOMAIN Code \ Entries
      /\ Holds(s, p, now.blocks, m) /\ Len(s) = p + m
      /\ m \in 0 .. count
      /\ At(ArgOf(Planned(i), m, now.arg), s[p].arg, p, a)
      /\ At(LocOf(Planned(i), m, now.loc), s[p].arg, p, l)
  BY DEF Walks, Holds
<1>2. /\ now.blocks \in Seq(ShapeBlocks) /\ count \in Nat /\ now.arg \in Offsets /\ now.loc \in Offsets
  BY <1>1, BlocksOf
<1>3. i + 1 \in DOMAIN Code \ Entries /\ next.blocks = Append(now.blocks, B)
  <2>1. Code[i].op # "return" /\ Code[i].op \notin ReleaseOps
    BY DEF PushOps, ReleaseOps
  <2>2. i + 1 \in DOMAIN Code \ Entries /\ Leaving(Code[i], now, next)
    BY <1>1, <2>1, NextShape
  <2> HIDE DEF now, next
  <2> QED
    BY <2>1, <2>2, Zenon DEF Leaving
<1>4. B \in ShapeBlocks /\ B.kind = kind /\ kind \in LocalKinds
  <2>1. KindOf(Code[i].op) \in LocalKinds
    BY DEF KindOf, PushOps, LocalKinds
  <2>2. Code[i].n \in Int
    BY <1>1, ShapeOf
  <2> HIDE DEF now
  <2> QED
    BY <1>2, <2>1, <2>2 DEF PushedShape, ShapeBlocks
<1>5. Planned(i) = next.blocks
  BY <1>3 DEF Planned
<1>6. m < Len(next.blocks) /\ m \in 0 .. Len(next.blocks)
  BY <1>1, <1>2, <1>3
<1> HIDE DEF now, next, count, B, kind
<1>7. Holds(s, p, next.blocks, m)
  BY <1>1, <1>2, <1>3, <1>4, HoldsOfAppend DEF count
<1>8. /\ At(ArgOf(next.blocks, m, next.arg), s[p].arg, p, a)
      /\ At(LocOf(next.blocks, m, next.loc), s[p].arg, p, l)
  BY <1>1, <1>5, <1>6, Zenon DEF ArgOf, LocOf
<1>9. Walks(s, p, m, i + 1, a, l)
  BY <1>1, <1>3, <1>6, <1>7, <1>8, Reaching, Zenon DEF Walks, next
<1>10. Missing(next.blocks, m) = [Missing(now.blocks, m) EXCEPT ![kind] = @ + 1]
  BY <1>1, <1>2, <1>3, <1>4, MissingOfAppend DEF count
<1>11. Grown(Missing(next.blocks, m), Missing(now.blocks, m), kind)
  BY <1>10, Zenon DEF Grown
<1> QED
  BY <1>9, <1>11, Zenon DEF now, next, kind

\* What a release that is skipped would have released is missing.
LEMMA SkipWalks ==
  ASSUME NEW s \in Seq(AnyBlock), NEW p, NEW m \in Nat, NEW i, NEW a, NEW l,
         Walks(s, p, m, i, a, l), Code[i].op \in ReleaseOps
  PROVE  /\ Missing(Shape[i].blocks, m)[KindOf(Code[i].op)] > 0 =>
              /\ Walks(s, p, m, i + 1, a, l)
              /\ Missing(Shape[i + 1].blocks, m)
                   = [Missing(Shape[i].blocks, m) EXCEPT ![KindOf(Code[i].op)] = @ - 1]
         /\ ~(Missing(Shape[i].blocks, m)[KindOf(Code[i].op)] > 0) =>
              /\ m = Len(Shape[i].blocks)
              /\ At(Shape[i].arg, s[p].arg, p, a) /\ At(Shape[i].loc, s[p].arg, p, l)
<1> DEFINE now == Shape[i]
           next == Shape[i + 1]
           count == Len(now.blocks)
           B == now.blocks[count]
           kind == KindOf(Code[i].op)
<1>1. /\ i \in DOMAIN Code \ Entries
      /\ Holds(s, p, now.blocks, m) /\ Len(s) = p + m
      /\ m \in 0 .. count
      /\ At(ArgOf(Planned(i), m, now.arg), s[p].arg, p, a)
      /\ At(LocOf(Planned(i), m, now.loc), s[p].arg, p, l)
  BY DEF Walks, Holds
<1>2. /\ now.blocks \in Seq(ShapeBlocks) /\ count \in Nat /\ now.arg \in Offsets /\ now.loc \in Offsets
  BY <1>1, BlocksOf
<1>3. /\ i + 1 \in DOMAIN Code \ Entries
      /\ now.blocks = Append(next.blocks, B)
      /\ Expects(next.arg, ArgBehind(B)) /\ Expects(next.loc, B.loc)
  <2>1. Code[i].op # "return" /\ Code[i].op \notin PushOps
    BY DEF PushOps, ReleaseOps
  <2>2. i + 1 \in DOMAIN Code \ Entries /\ Leaving(Code[i], now, next)
    BY <1>1, <2>1, NextShape
  <2> HIDE DEF now, next
  <2> QED
    BY <2>1, <2>2, Zenon DEF Leaving
<1>4. /\ next.blocks \in Seq(ShapeBlocks) /\ next.arg \in Offsets /\ next.loc \in Offsets
      /\ Len(next.blocks) \in Nat
  BY <1>3, BlocksOf
<1>5. count > 0 /\ B.kind = kind
  <2>1. Finding(Code[i], now)
    BY <1>1, ShapeOf
  <2> HIDE DEF now
  <2> QED
    BY <2>1, Zenon DEF Finding
<1>6. B \in ShapeBlocks /\ B.arg \in Offsets /\ B.loc \in Offsets /\ ArgBehind(B) \in Offsets
      /\ kind \in LocalKinds
  <2>1. count \in 1 .. count
    BY <1>2, <1>5
  <2>2. B \in ShapeBlocks
    BY <1>1, <2>1, BlocksOf
  <2> HIDE DEF B
  <2> QED
    BY <1>5, <2>2 DEF ShapeBlocks, ArgBehind, Offsets, Anywhere
<1>7. count = Len(next.blocks) + 1
  <2> HIDE DEF B, next
  <2> QED
    BY <1>3, <1>4
<1>8. Planned(i) = now.blocks
  <2>1. Code[i].op \notin PushOps
    BY DEF PushOps, ReleaseOps
  <2> QED
    BY <2>1 DEF Planned
<1> HIDE DEF now, next, B, kind
<1>9. Missing(now.blocks, m)[kind] > 0 <=> m <= Len(next.blocks)
  <2>1. m \in 0 .. Len(next.blocks) + 1
    BY <1>1, <1>7
  <2>2. Count(now.blocks, m, kind) > 0 <=> m <= Len(next.blocks)
    BY <1>3, <1>4, <1>5, <1>6, <2>1, MissingIsCounted
  <2> QED
    BY <1>6, <2>2 DEF Missing
<1>10. ASSUME m <= Len(next.blocks)
       PROVE  /\ Walks(s, p, m, i + 1, a, l)
              /\ Missing(next.blocks, m) = [Missing(now.blocks, m) EXCEPT ![kind] = @ - 1]
  <2>1. m \in 0 .. Len(next.blocks) /\ m < count
    BY <1>1, <1>4, <1>7, <1>10
  <2>2. Holds(s, p, next.blocks, m)
    BY <1>1, <1>3, <1>4, <1>6, <2>1, HoldsOfAppend
  <2>3. At(ArgBehind(now.blocks[m + 1]), s[p].arg, p, a) /\ At(now.blocks[m + 1].loc, s[p].arg, p, l)
    BY <1>1, <1>8, <2>1, Zenon DEF ArgOf, LocOf
  <2>4. /\ At(ArgOf(next.blocks, m, next.arg), s[p].arg, p, a)
        /\ At(LocOf(next.blocks, m, next.loc), s[p].arg, p, l)
    <3>1. CASE m < Len(next.blocks)
      <4>1. m + 1 \in 1 .. Len(next.blocks)
        BY <1>4, <3>1
      <4>2. now.blocks[m + 1] = next.blocks[m + 1]
        BY <1>3, <1>4, <4>1
      <4> QED
        BY <2>3, <3>1, <4>2, Zenon DEF ArgOf, LocOf
    <3>2. CASE ~(m < Len(next.blocks))
      <4>1. m + 1 = count
        BY <1>1, <1>4, <1>7, <1>10, <3>2
      <4>2. At(ArgBehind(B), s[p].arg, p, a) /\ At(B.loc, s[p].arg, p, l)
        BY <2>3, <4>1 DEF B
      <4>3. At(next.arg, s[p].arg, p, a) /\ At(next.loc, s[p].arg, p, l)
        BY <1>3, <1>4, <1>6, <4>2, ExpectsLess
      <4> QED
        BY <3>2, <4>3, Zenon DEF ArgOf, LocOf
    <3> QED
      BY <3>1, <3>2
  <2>5. Walks(s, p, m, i + 1, a, l)
    BY <1>1, <1>3, <2>1, <2>2, <2>4, Reaching, Zenon DEF Walks, next
  <2>6. Missing(next.blocks, m) = [Missing(now.blocks, m) EXCEPT ![kind] = @ - 1]
    BY <1>3, <1>4, <1>5, <1>6, <2>1, MissingOfAppend
  <2> QED
    BY <2>5, <2>6
<1>11. ASSUME ~(m <= Len(next.blocks))
       PROVE  m = count /\ At(now.arg, s[p].arg, p, a) /\ At(now.loc, s[p].arg, p, l)
  <2>1. m = count /\ ~(m < count)
    BY <1>1, <1>2, <1>4, <1>7, <1>11
  <2> QED
    BY <1>1, <1>8, <2>1, Zenon DEF ArgOf, LocOf
<1> QED
  BY <1>9, <1>10, <1>11, Zenon DEF now, next, kind, count

\* Other instructions are passed.
LEMMA NopWalks ==
  ASSUME NEW s \in Seq(AnyBlock), NEW p, NEW m \in Nat, NEW i, NEW a, NEW l,
         Walks(s, p, m, i, a, l), Code[i].op \notin PushOps \union ReleaseOps \union {"return"}
  PROVE  /\ Walks(s, p, m, i + 1, a, l)
         /\ Missing(Shape[i + 1].blocks, m) = Missing(Shape[i].blocks, m)
<1> DEFINE now == Shape[i]
           next == Shape[i + 1]
           count == Len(now.blocks)
<1>1. /\ i \in DOMAIN Code \ Entries
      /\ Holds(s, p, now.blocks, m) /\ Len(s) = p + m
      /\ m \in 0 .. count
      /\ At(ArgOf(Planned(i), m, now.arg), s[p].arg, p, a)
      /\ At(LocOf(Planned(i), m, now.loc), s[p].arg, p, l)
  BY DEF Walks, Holds
<1>2. now.arg \in Offsets /\ now.loc \in Offsets
  BY <1>1, BlocksOf
<1>3. /\ i + 1 \in DOMAIN Code \ Entries
      /\ next.blocks = now.blocks
      /\ Expects(next.arg, now.arg)
      /\ Expects(next.loc, now.loc) \/ next.loc = Anywhere
  <2>1. i + 1 \in DOMAIN Code \ Entries /\ Leaving(Code[i], now, next)
    BY <1>1, NextShape
  <2> HIDE DEF now, next
  <2> QED
    BY <2>1 DEF Leaving, Expects
<1>4. next.arg \in Offsets /\ next.loc \in Offsets
  BY <1>3, BlocksOf
<1>5. Planned(i) = now.blocks
  BY DEF Planned
<1> HIDE DEF now, next
<1>6. /\ At(ArgOf(next.blocks, m, next.arg), s[p].arg, p, a)
      /\ At(LocOf(next.blocks, m, next.loc), s[p].arg, p, l)
  <2>1. CASE m < count
    BY <1>1, <1>3, <1>5, <2>1, Zenon DEF ArgOf, LocOf
  <2>2. CASE ~(m < count)
    <3>1. At(now.arg, s[p].arg, p, a) /\ At(now.loc, s[p].arg, p, l)
      BY <1>1, <1>5, <2>2, Zenon DEF ArgOf, LocOf
    <3>2. At(next.arg, s[p].arg, p, a)
      BY <1>2, <1>3, <1>4, <3>1, ExpectsLess
    <3>3. At(next.loc, s[p].arg, p, l)
      BY <1>2, <1>3, <1>4, <3>1, ExpectsLess, AnywhereIsFine
    <3> QED
      BY <1>3, <2>2, <3>2, <3>3, Zenon DEF ArgOf, LocOf
  <2> QED
    BY <2>1, <2>2
<1>7. Walks(s, p, m, i + 1, a, l)
  BY <1>1, <1>3, <1>6, Reaching, Zenon DEF Walks, next
<1> QED
  BY <1>3, <1>7 DEF now, next

\* When all blocks are there none is missing.
LEMMA NoneMissing ==
  ASSUME NEW i \in DOMAIN Code
  PROVE  Missing(Shape[i].blocks, Len(Shape[i].blocks)) = NoSkips
<1>1. \A k \in LocalKinds : Count(Shape[i].blocks, Len(Shape[i].blocks), k) = 0
  BY BlocksOf, CountOfNone
<1> QED
  BY <1>1 DEF Missing, NoSkips, LocalKinds

LEMMA SomeMissing ==
  ASSUME NEW i \in DOMAIN Code, NEW m \in Nat, NEW k \in LocalKinds
  PROVE  Missing(Shape[i].blocks, m)[k] \in Nat
BY BlocksOf, CountIsNatural DEF Missing

-----------------------------------------------------------------------------
(* What instructions find                                                    *)

LEMMA OffsetsAreInt == Offsets \subseteq Int
BY DEF Offsets

LEMMA FindsRelease ==
  ASSUME NEW s \in Seq(AnyBlock), WellStacked(s), NEW p, NEW i \in DOMAIN Code,
         Code[i].op \in ReleaseOps,
         Holds(s, p, Shape[i].blocks, Len(Shape[i].blocks)), Len(s) = p + Len(Shape[i].blocks),
         NEW a, NEW l, At(Shape[i].arg, s[p].arg, p, a), At(Shape[i].loc, s[p].arg, p, l)
  PROVE  /\ Len(s) >= 3 /\ s[Len(s)].kind = KindOf(Code[i].op)
         /\ Code[i].op = "free_vars" => l = Len(s) - 1
         /\ Code[i].op = "free_args" => a = Len(s) - 1
<1> DEFINE now == Shape[i]
           count == Len(now.blocks)
<1>1. s[Len(s)].kind = KindOf(Code[i].op)
  <2>1. Finding(Code[i], now)
    BY ShapeOf
  <2>2. count > 0 /\ now.blocks[count].kind = KindOf(Code[i].op)
    BY <2>1, Zenon DEF Finding
  <2>3. count \in 1 .. count
    BY <2>2, BlocksOf
  <2>4. IsLocal(s[p + count], now.blocks[count], s[p].arg, p)
    BY <2>3, Zenon DEF Holds
  <2> QED
    BY <2>2, <2>4, Zenon DEF IsLocal
<1>2. Finding(Code[i], now)
  BY ShapeOf
<1>3. count \in Nat /\ p \in Nat /\ p >= 2 /\ Len(s) \in Nat
  BY BlocksOf DEF Holds
<1> HIDE DEF now
<1>4. /\ count > 0
      /\ Code[i].op = "free_vars" => now.loc = count
      /\ Code[i].op = "free_args" => now.arg = count
  BY <1>2 DEF Finding
<1>5. Len(s) = p + count /\ At(now.arg, s[p].arg, p, a) /\ At(now.loc, s[p].arg, p, l)
  BY DEF now
<1> HIDE DEF count
<1> QED
  BY <1>1, <1>3, <1>4, <1>5 DEF At

OnReturn(s, p, i, m, a) ==
  /\ Shape[i].blocks = <<>> /\ m = 0 /\ Len(s) = p
  /\ s[Len(s)].kind = "return" /\ a = s[p].arg
  /\ s[Len(s)].vm_exit => Len(s) = 2 /\ a = 0

LEMMA FindsReturn ==
  ASSUME NEW s \in Seq(AnyBlock), WellStacked(s), NEW p, NEW i \in DOMAIN Code,
         Code[i].op = "return", NEW m \in Nat,
         Holds(s, p, Shape[i].blocks, m), Len(s) = p + m,
         NEW a, At(ArgOf(Planned(i), m, Shape[i].arg), s[p].arg, p, a)
  PROVE  OnReturn(s, p, i, m, a)
<1>1. Shape[i].blocks = <<>> /\ Shape[i].arg = OwnHeader
  <2>1. Finding(Code[i], Shape[i])
    BY ShapeOf
  <2> QED
    BY <2>1, Zenon DEF Finding
<1>2. m = 0 /\ p \in 2 .. Len(s) /\ s[p].kind = "return"
  BY <1>1 DEF Holds
<1>3. Len(s) = p
  BY <1>2
<1>4. Planned(i) = <<>>
  BY <1>1 DEF Planned, PushOps
<1>5. At(OwnHeader, s[p].arg, p, a)
  BY <1>1, <1>2, <1>4 DEF ArgOf
<1>6. a = s[p].arg
  BY <1>5 DEF At
<1>7. (s[Len(s)].vm_exit <=> Len(s) = 2) /\ s[2].arg = 0
  BY <1>2, <1>3, ReturnKeeps
<1> QED
  BY <1>1, <1>2, <1>3, <1>6, <1>7 DEF OnReturn

\* A running function finds what it needs, and it is its own.
LEMMA FindsRunning ==
  ASSUME IInv, mode = "running"
  PROVE  Finds(Opcode) /\ OwnFrame
<1>1. PICK p \in 2 .. Len(stack) : Runs(stack, p, ip, saved, arg, loc)
  BY DEF IInv
<1> DEFINE now == Shape[ip]
           count == Len(now.blocks)
           h == stack[p].arg
           n == Len(stack)
<1>2. /\ stack \in Seq(AnyBlock) /\ WellStacked(stack) /\ n \in Nat /\ p \in 2 .. n
      /\ arg \in Int /\ loc \in Int /\ saved \in Int
  BY DEF IInv
<1>3. /\ ip \in DOMAIN Code /\ Holds(stack, p, now.blocks, count) /\ n = p + count
      /\ stack[p].kind = "return"
      /\ ip \notin Entries => saved = h
      /\ At(now.arg, h, p, arg) /\ At(now.loc, h, p, loc)
  BY <1>1 DEF Runs, Holds
<1>4. /\ now.blocks \in Seq(ShapeBlocks) /\ count \in Nat
      /\ now.arg \in Int /\ now.loc \in Int
      /\ \A j \in 1 .. count : now.blocks[j].kind # "return"
  <2>1. \A j \in 1 .. count : now.blocks[j] \in ShapeBlocks
    BY <1>3, BlocksOf
  <2>2. \A j \in 1 .. count : now.blocks[j].kind # "return"
    BY <2>1 DEF ShapeBlocks, LocalKinds
  <2>3. now.arg \in Offsets /\ now.loc \in Offsets
    BY <1>3, BlocksOf
  <2>4. now.arg \in Int /\ now.loc \in Int
    BY <2>3, Zenon, OffsetsAreInt
  <2> QED
    BY <1>3, <2>2, <2>4, BlocksOf
<1>5. HasHeader(stack, p)
  BY <1>2, <1>3 DEF WellStacked, Called
<1>6. Finding(Code[ip], now)
  BY <1>3, ShapeOf
<1>7. \A j \in p + 1 .. n : stack[j].kind # "return"
  <2>1. Holds(stack, p, now.blocks, Len(now.blocks)) /\ Len(stack) = p + Len(now.blocks)
    BY <1>3
  <2> HIDE DEF now
  <2> QED
    BY <1>2, <1>4, <2>1, FindsNone
<1> HIDE DEF now
<1>8. ASSUME NEW k \in Int, NEW kind, Innermost(now.blocks, k, kind),
             NEW x \in Int, k > 0 => x = p + k - 1
      PROVE  /\ x >= p /\ x < n /\ stack[x + 1].kind = kind /\ stack[x + 1].n = now.blocks[k].n
             /\ \A j \in x + 2 .. n : stack[j].kind # kind /\ stack[j].kind # "return"
  <2>1. Holds(stack, p, now.blocks, Len(now.blocks)) /\ Len(stack) = p + Len(now.blocks)
    BY <1>3
  <2>2. LastIs(stack, p + k, now.blocks[k].n, kind) /\ k \in 1 .. Len(now.blocks)
    <3>1. stack \in Seq(AnyBlock) /\ now.blocks \in Seq(ShapeBlocks)
      BY <1>2, <1>4
    <3>2. Innermost(now.blocks, k, kind)
      BY <1>8
    <3> HIDE DEF count, n, h
    <3>3. LastIs(stack, p + k, now.blocks[k].n, kind)
      BY <2>1, <3>1, <3>2, FindsInnermost
    <3>4. k \in 1 .. Len(now.blocks)
      BY <3>1, <3>2 DEF Innermost
    <3> QED
      BY <3>3, <3>4
  <2> HIDE DEF count, n, h
  <2>3. p + k = x + 1 /\ k > 0
    BY <1>2, <1>8, <2>2
  <2>4. LastIs(stack, x + 1, now.blocks[k].n, kind)
    BY <2>2, <2>3
  <2>5. /\ x + 1 \in 1 .. n /\ stack[x + 1].kind = kind /\ stack[x + 1].n = now.blocks[k].n
        /\ \A j \in x + 1 + 1 .. n : stack[j].kind # kind /\ stack[j].kind # "return"
    BY <2>4, Zenon DEF LastIs, n
  <2>6. x + 1 + 1 = x + 2 /\ x >= p /\ x < n
    BY <1>2, <1>8, <2>3, <2>5
  <2> QED
    BY <2>5, <2>6
<1> HIDE DEF count, h, n
<1>9. Opcode \in LocalOps =>
        /\ loc > 0 /\ loc < n /\ stack[loc + 1].kind = "locals"
        /\ \A j \in loc + 2 .. n : stack[j].kind # "locals"
  <2> HAVE Opcode \in LocalOps
  <2>1. Innermost(now.blocks, now.loc, "locals")
    BY <1>6 DEF Finding, Opcode
  <2>2. now.loc > 0 => loc = p + now.loc - 1
    BY <1>3 DEF At
  <2>3. /\ loc >= p /\ loc < n /\ stack[loc + 1].kind = "locals"
        /\ \A j \in loc + 2 .. n : stack[j].kind # "locals"
    <3>1. loc \in Int /\ now.loc \in Int
      BY <1>2, <1>4
    <3> QED
      BY <1>8, <2>1, <2>2, <3>1
  <2> QED
    BY <1>2, <2>3
<1>10. Opcode \in ReleaseOps =>
         /\ n >= 3 /\ stack[n].kind = KindOf(Opcode)
         /\ Opcode = "free_vars" => loc = n - 1
         /\ Opcode = "free_args" => arg = n - 1
  BY <1>2, <1>3, FindsRelease DEF Opcode, now, count, h, n
<1>11. Opcode \in FunctionOps =>
         /\ saved \in 0 .. p - 2 /\ stack[saved + 1].kind = "header"
         /\ \A j \in saved + 2 .. p : stack[j].kind # "header"
  <2> HAVE Opcode \in FunctionOps
  <2>1. saved = h
    BY <1>3 DEF Opcode, FunctionOps, Entries
  <2>2. /\ saved \in 0 .. p - 2 /\ stack[saved + 1].kind = "header"
        /\ \A j \in saved + 2 .. p - 1 : stack[j].kind # "header"
    BY <1>5, <2>1 DEF HasHeader, h
  <2>3. \A j \in saved + 2 .. p : j = p \/ j \in saved + 2 .. p - 1
    BY <1>2, <2>2
  <2> QED
    BY <1>3, <2>2, <2>3
<1>12. ASSUME Innermost(now.blocks, now.arg, "header")
       PROVE  /\ arg >= p /\ arg < n /\ stack[arg + 1].kind = "header"
              /\ stack[arg + 1].n = now.blocks[now.arg].n
              /\ \A j \in arg + 2 .. n : stack[j].kind # "header" /\ stack[j].kind # "return"
  <2>1. now.arg > 0 => arg = p + now.arg - 1
    BY <1>3 DEF At
  <2> QED
    BY <1>2, <1>4, <1>8, <1>12, <2>1
<1>13. Opcode \in (CallOps \ {"set_return"}) \union {"call"} =>
         /\ arg < n /\ stack[arg + 1].kind = "header"
         /\ \A j \in arg + 2 .. n : stack[j].kind # "header" /\ stack[j].kind # "return"
         /\ arg >= p /\ Innermost(now.blocks, now.arg, "header")
         /\ stack[arg + 1].n = now.blocks[now.arg].n
  <2> HAVE Opcode \in (CallOps \ {"set_return"}) \union {"call"}
  <2>1. Innermost(now.blocks, now.arg, "header")
    BY <1>6 DEF Finding, Opcode
  <2> QED
    BY <1>12, <2>1
<1>14. Opcode = "set_return" =>
         /\ arg < n /\ stack[arg + 1].kind = "header"
         /\ \A j \in arg + 2 .. n : stack[j].kind # "header"
  <2> HAVE Opcode = "set_return"
  <2>1. \/ Innermost(now.blocks, now.arg, "header")
        \/ now.arg = OwnHeader /\ \A j \in 1 .. count : now.blocks[j].kind # "header"
    BY <1>6 DEF Finding, Opcode, count
  <2>2. CASE Innermost(now.blocks, now.arg, "header")
    BY <1>12, <2>2
  <2>3. CASE now.arg = OwnHeader /\ \A j \in 1 .. count : now.blocks[j].kind # "header"
    <3>1. arg = h
      BY <1>3, <2>3 DEF At
    <3>2. /\ arg \in 0 .. p - 2 /\ stack[arg + 1].kind = "header"
          /\ \A j \in arg + 2 .. p - 1 : stack[j].kind # "header"
      BY <1>5, <3>1 DEF HasHeader, h
    <3>3. \A j \in p + 1 .. n : stack[j].kind # "header"
      BY <1>2, <1>3, <1>4, <2>3, FindsNone DEF n, count
    <3>4. \A j \in arg + 2 .. n : j \in arg + 2 .. p - 1 \/ j = p \/ j \in p + 1 .. n
      BY <1>2, <3>2
    <3>5. arg < n
      BY <1>2, <3>2
    <3> QED
      BY <1>3, <3>2, <3>3, <3>4, <3>5
  <2> QED
    BY <2>1, <2>2, <2>3
<1>15. Opcode = "return" =>
         /\ stack[n].kind = "return"
         /\ stack[n].vm_exit => n = 2 /\ arg = 0
  <2> HAVE Opcode = "return"
  <2>1. Planned(ip) = now.blocks
    BY DEF Planned, Opcode, PushOps, now
  <2>2. At(ArgOf(Planned(ip), count, now.arg), h, p, arg)
    BY <1>3, <1>4, <2>1 DEF ArgOf, count
  <2>3. OnReturn(stack, p, ip, count, arg)
    BY <1>2, <1>3, <1>4, <2>2, FindsReturn DEF Opcode, now, count, h, n
  <2> QED
    BY <2>3 DEF OnReturn, n
<1>16. Finds(Opcode)
  <2>1. n > 0 /\ (stack # <<>>)
    BY <1>2 DEF n
  <2>2. Opcode = "return" => stack[n].kind = "return" /\ (stack[n].vm_exit => n = 2 /\ arg = 0)
    BY <1>15
  <2> QED
    BY <1>2, <1>9, <1>10, <1>11, <1>13, <1>14, <2>1, <2>2
       DEF Finds, TopIs, IsTop, IsBlock, Top, n, KindOf, LocalOps, FunctionOps, CallOps, ReleaseOps
<1>17. OwnFrame
  <2>1. Opcode \in LocalOps \union {"free_vars"} => \A j \in loc + 2 .. n : stack[j].kind # "locals"
    BY <1>2, <1>9, <1>10 DEF ReleaseOps
  <2>2. Opcode \in FunctionOps =>
          \E i \in saved + 2 .. n :
            /\ stack[i].kind = "return"
            /\ \A j \in (i - 1) + 2 .. n : stack[j].kind # "return"
            /\ \A j \in saved + 2 .. i : stack[j].kind # "header"
    <3> HAVE Opcode \in FunctionOps
    <3>1. p \in saved + 2 .. n /\ \A j \in (p - 1) + 2 .. n : j \in p + 1 .. n
      BY <1>2, <1>11
    <3> QED
      BY <1>3, <1>7, <1>11, <3>1 DEF n
  <2>3. Opcode \in CallOps \union {"call", "free_args"} =>
          /\ \A j \in arg + 2 .. n : stack[j].kind # "header"
          /\ Opcode # "set_return" => \A j \in arg + 2 .. n : stack[j].kind # "return"
    BY <1>2, <1>10, <1>13, <1>14 DEF ReleaseOps
  <2>4. Opcode = "set_call_arg" => arg < n /\ stack[arg + 1].kind = "header"
                                   /\ Code[ip].n < stack[arg + 1].n
    <3> HAVE Opcode = "set_call_arg"
    <3>1. Code[ip].n < now.blocks[now.arg].n
      BY <1>6 DEF Finding, Opcode
    <3> QED
      BY <1>13, <3>1 DEF CallOps
  <2> QED
    BY <2>1, <2>2, <2>3, <2>4, Zenon DEF OwnFrame, IsBlock, n
<1> QED
  BY <1>16, <1>17

-----------------------------------------------------------------------------
(* Every step keeps the invariant                                            *)

\* What a step has to show, by the state it leads to.
LEMMA NowRunning ==
  ASSUME mode' = "running", stack' \in Seq(AnyBlock), WellStacked(stack'),
         saved' \in Int, arg' \in Int, loc' \in Int,
         NEW p, Runs(stack', p, ip', saved', arg', loc')
  PROVE  IInv'
<1>1. p \in 2 .. Len(stack') /\ ip' \in DOMAIN Code
  BY DEF Runs, Holds
<1>2. ip' \in Int
  BY <1>1, ShapeOf
<1> QED
  BY <1>1, <1>2 DEF IInv, Modes

LEMMA NowCrashed ==
  ASSUME mode' = "crashed", stack' \in Seq(AnyBlock), WellStacked(stack'),
         saved' \in Int, arg' \in Int, loc' \in Int,
         NEW p, Walks(stack', p, Len(Shape[ip'].blocks), ip', arg', loc')
  PROVE  IInv'
<1>1. p \in 2 .. Len(stack') /\ ip' \in DOMAIN Code
  BY DEF Walks, Holds
<1>2. ip' \in Int
  BY <1>1, ShapeOf
<1> QED
  BY <1>1, <1>2 DEF IInv, Modes

LEMMA NowUnwinding ==
  ASSUME mode' = "unwinding", stack' \in Seq(AnyBlock), WellStacked(stack'),
         saved' \in Int, arg' \in Int, loc' \in Int,
         NEW p, NEW m, Walks(stack', p, m, ip', arg', loc'), skip' = Missing(Shape[ip'].blocks, m)
  PROVE  IInv'
<1>1. /\ p \in 2 .. Len(stack') /\ ip' \in DOMAIN Code
      /\ m \in 0 .. Len(Shape[ip'].blocks) /\ p + m <= Len(stack')
  BY DEF Walks, Holds
<1>2. ip' \in Int /\ Len(Shape[ip'].blocks) \in Nat /\ Len(stack') \in Nat
  BY <1>1, ShapeOf, BlocksOf
<1>3. m \in 0 .. Len(stack')
  BY <1>1, <1>2
<1> QED
  BY <1>1, <1>2, <1>3 DEF IInv, Modes

LEMMA NowStopped ==
  ASSUME mode' \in {"stopped", "reset"}, stack' = <<>>, ip' \in Int,
         saved' \in Int, arg' \in Int, loc' \in Int
  PROVE  IInv'
<1>1. stack' \in Seq(AnyBlock)
  OBVIOUS
<1> QED
  BY <1>1 DEF IInv, Modes

LEMMA ReturnIs ==
  ASSUME NEW b \in AnyBlock
  PROVE  /\ [b EXCEPT !.vm_exit = TRUE] \in AnyBlock
         /\ [b EXCEPT !.vm_exit = TRUE].vm_exit
         /\ [b EXCEPT !.vm_exit = TRUE].kind = b.kind
         /\ [b EXCEPT !.vm_exit = TRUE].arg = b.arg
         /\ \A i \in Int :
              /\ [b EXCEPT !.ip = i] \in AnyBlock /\ [b EXCEPT !.ip = i].ip = i
              /\ [b EXCEPT !.ip = i].kind = b.kind /\ [b EXCEPT !.ip = i].vm_exit = b.vm_exit
              /\ [b EXCEPT !.ip = i].saved = b.saved /\ [b EXCEPT !.ip = i].arg = b.arg
BY DEF AnyBlock

\* What the invariant says of the block on top.
LEMMA TopOfStack ==
  ASSUME IInv, stack # <<>>
  PROVE  /\ Len(stack) \in Nat /\ Len(stack) > 0 /\ Top \in AnyBlock /\ Top = stack[Len(stack)]
         /\ Pop(1) = SubSeq(stack, 1, Len(stack) - 1)
<1>1. stack \in Seq(AnyBlock)
  BY DEF IInv
<1>2. Len(stack) \in Nat /\ Len(stack) > 0 /\ stack[Len(stack)] \in AnyBlock
  BY <1>1
<1> QED
  BY <1>2 DEF Top, Pop

LEMMA RunningState ==
  ASSUME IInv, mode = "running"
  PROVE  \E p \in 2 .. Len(stack) :
           /\ Runs(stack, p, ip, saved, arg, loc)
           /\ stack \in Seq(AnyBlock) /\ WellStacked(stack)
           /\ ip \in DOMAIN Code /\ ip \in Int
           /\ saved \in Int /\ arg \in Int /\ loc \in Int /\ Len(stack) \in Nat
BY DEF IInv, Runs

LEMMA WalkingState ==
  ASSUME IInv, mode = "unwinding"
  PROVE  \E p \in 2 .. Len(stack), m \in 0 .. Len(stack) :
           /\ Walks(stack, p, m, ip, arg, loc) /\ skip = Missing(Shape[ip].blocks, m)
           /\ stack \in Seq(AnyBlock) /\ WellStacked(stack)
           /\ ip \in DOMAIN Code /\ ip \in Int
           /\ saved \in Int /\ arg \in Int /\ loc \in Int /\ Len(stack) \in Nat
           /\ m \in Nat
<1>1. PICK p \in 2 .. Len(stack), m \in 0 .. Len(stack) :
        Walks(stack, p, m, ip, arg, loc) /\ skip = Missing(Shape[ip].blocks, m)
  BY DEF IInv
<1>2. /\ stack \in Seq(AnyBlock) /\ WellStacked(stack)
      /\ ip \in DOMAIN Code /\ ip \in Int
      /\ saved \in Int /\ arg \in Int /\ loc \in Int /\ Len(stack) \in Nat
  BY <1>1 DEF IInv, Walks
<1>3. m \in Nat
  OBVIOUS
<1> QED
  BY <1>1, <1>2, <1>3

LEMMA CallMainStep ==
  ASSUME IInv, CallMain
  PROVE  IInv'
<1> DEFINE header == Block("header", 0, <<0, 0, 0>>)
           return == [Block("return", 0, <<saved, 0, 0>>) EXCEPT !.vm_exit = TRUE]
           t == <<header, return>>
<1>1. /\ mode' = "running" /\ stack' = t /\ ip' = Main /\ arg' = 0
      /\ saved' = saved /\ loc' = loc /\ saved \in Int /\ loc \in Int
  BY DEF CallMain, IInv
<1>2. /\ header \in AnyBlock /\ header.kind = "header"
      /\ return \in AnyBlock /\ return.kind = "return" /\ return.arg = 0 /\ return.vm_exit
  <2> DEFINE b == Block("return", 0, <<saved, 0, 0>>)
  <2>0. "return" \in Kinds /\ "header" \in Kinds /\ 0 \in Int
    BY DEF Kinds
  <2>1. b \in AnyBlock /\ b.kind = "return" /\ b.arg = 0
    BY <1>1, <2>0 DEF Block, AnyBlock
  <2>2. header \in AnyBlock /\ header.kind = "header"
    BY <2>0 DEF Block, AnyBlock
  <2> HIDE DEF b
  <2>3. [b EXCEPT !.vm_exit = TRUE] \in AnyBlock /\ [b EXCEPT !.vm_exit = TRUE].kind = "return"
        /\ [b EXCEPT !.vm_exit = TRUE].arg = 0 /\ [b EXCEPT !.vm_exit = TRUE].vm_exit
    BY <2>1, ReturnIs
  <2> QED
    BY <2>2, <2>3 DEF b
<1> HIDE DEF header, return
<1>3. t \in Seq(AnyBlock) /\ Len(t) = 2 /\ t[1] = header /\ t[2] = return
  BY <1>2
<1> HIDE DEF t
<1>4. HasHeader(t, 2)
  BY <1>2, <1>3 DEF HasHeader
<1>5. WellStacked(t)
  <2>1. Called(t, 2)
    BY <1>2, <1>3, <1>4 DEF Called
  <2> QED
    BY <1>2, <1>3, <2>1 DEF WellStacked
<1>6. Runs(t, 2, Main, saved', 0, loc')
  <2>1. Main \in Entries
    BY VmStackAssumption
  <2>2. Main \in DOMAIN Code /\ Shape[Main] = AtEntry
    BY <2>1, ShapeOf DEF Entries
  <2>3. /\ Shape[Main].blocks = <<>> /\ Shape[Main].arg = OwnHeader
        /\ Shape[Main].loc = Anywhere
    BY <2>2 DEF AtEntry
  <2>4. Holds(t, 2, <<>>, 0)
    BY <1>2, <1>3 DEF Holds
  <2>5. At(OwnHeader, 0, 2, 0) /\ At(Anywhere, 0, 2, loc')
    BY DEF At, OwnHeader, Anywhere
  <2>6. Len(<<>>) = 0 /\ Len(t) = 2 + 0
    BY <1>3
  <2> QED
    BY <1>2, <1>3, <2>1, <2>2, <2>3, <2>4, <2>5, <2>6, Zenon DEF Runs
<1> QED
  BY <1>1, <1>3, <1>5, <1>6, NowRunning

LEMMA PushStep ==
  ASSUME IInv, VmPush
  PROVE  IInv'
<1>1. PICK p \in 2 .. Len(stack) :
        /\ Runs(stack, p, ip, saved, arg, loc)
        /\ stack \in Seq(AnyBlock) /\ WellStacked(stack)
        /\ ip \in DOMAIN Code /\ ip \in Int
        /\ saved \in Int /\ arg \in Int /\ loc \in Int /\ Len(stack) \in Nat
  BY RunningState DEF VmPush, Running
<1>2. /\ Code[ip].op \in PushOps /\ mode' = "running" /\ ip' = ip + 1
      /\ stack' = Append(stack, Pushed)
      /\ saved' = saved
      /\ arg' = IF Code[ip].op = "alloc_args" THEN Len(stack) ELSE arg
      /\ loc' = IF Code[ip].op = "alloc_vars" THEN Len(stack) ELSE loc
  BY DEF VmPush, Running, Push, SetOffsets, Step, Opcode
<1>3. Code[ip].n \in Int
  BY <1>1, ShapeOf
<1>4. /\ Pushed \in AnyBlock /\ Pushed.kind = KindOf(Code[ip].op)
      /\ Pushed.n = PushedShape(Code[ip], Shape[ip]).n
      /\ Pushed.saved = saved /\ Pushed.arg = arg /\ Pushed.loc = loc
  <2>1. KindOf(Code[ip].op) \in Kinds /\ PushedShape(Code[ip], Shape[ip]).n \in Int
    BY <1>2, <1>3 DEF KindOf, Kinds, PushOps, PushedShape
  <2>2. Pushed = Block(KindOf(Code[ip].op), PushedShape(Code[ip], Shape[ip]).n, <<saved, arg, loc>>)
    BY <1>2 DEF Pushed, KindOf, PushedShape, PushOps, Opcode, frame
  <2>3. Pushed = [kind |-> KindOf(Code[ip].op), n |-> PushedShape(Code[ip], Shape[ip]).n,
                  saved |-> saved, arg |-> arg, loc |-> loc, ip |-> 0, vm_exit |-> FALSE]
    BY <2>2 DEF Block
  <2> QED
    BY <1>1, <2>1, <2>3 DEF AnyBlock
<1>5. arg' \in Int /\ loc' \in Int /\ saved' \in Int
  BY <1>1, <1>2
<1>6. /\ WellStacked(stack') /\ stack' \in Seq(AnyBlock)
      /\ Runs(stack', p, ip', saved', arg', loc')
  BY <1>1, <1>2, <1>4, PushRuns
<1> QED
  BY <1>2, <1>5, <1>6, NowRunning

LEMMA OverflowStep ==
  ASSUME IInv, Overflow
  PROVE  IInv'
<1>1. PICK p \in 2 .. Len(stack) :
        /\ Runs(stack, p, ip, saved, arg, loc)
        /\ stack \in Seq(AnyBlock) /\ WellStacked(stack)
        /\ ip \in DOMAIN Code /\ ip \in Int
        /\ saved \in Int /\ arg \in Int /\ loc \in Int /\ Len(stack) \in Nat
  BY RunningState DEF Overflow, Running
<1>2. /\ Code[ip].op \in PushOps /\ mode' = "crashed" /\ ip' = ip
      /\ stack' = stack
      /\ saved' = saved
      /\ arg' = IF Code[ip].op = "alloc_args" THEN Len(stack) ELSE arg
      /\ loc' = IF Code[ip].op = "alloc_vars" THEN Len(stack) ELSE loc
  BY DEF Overflow, Running, SetOffsets, Opcode
<1>3. arg' \in Int /\ loc' \in Int /\ saved' \in Int
  BY <1>1, <1>2
<1>4. Walks(stack, p, Len(Shape[ip].blocks), ip, arg', loc')
  BY <1>1, <1>2, Overflowing
<1> QED
  BY <1>1, <1>2, <1>3, <1>4, NowCrashed

\* The four releases.
LEMMA ReleaseStep ==
  ASSUME IInv,
         \/ VmRestoreVar
         \/ VmRestoreCtx
         \/ VmFreeVars
         \/ VmFreeArgs
  PROVE  IInv'
<1>1. PICK p \in 2 .. Len(stack) :
        /\ Runs(stack, p, ip, saved, arg, loc)
        /\ stack \in Seq(AnyBlock) /\ WellStacked(stack)
        /\ ip \in DOMAIN Code /\ ip \in Int
        /\ saved \in Int /\ arg \in Int /\ loc \in Int /\ Len(stack) \in Nat
  BY RunningState DEF VmRestoreVar, VmRestoreCtx, VmFreeVars, VmFreeArgs, Running
<1>2. /\ Code[ip].op \in ReleaseOps /\ mode' = "running" /\ ip' = ip + 1
      /\ stack' = Pop(1)
      /\ saved' = IF Code[ip].op = "restore_ctx" THEN Top.saved ELSE saved
      /\ arg' = IF Code[ip].op = "restore_ctx" THEN Top.arg ELSE arg
      /\ loc' = IF Code[ip].op \in {"restore_ctx", "free_vars"} THEN Top.loc ELSE loc
  BY DEF VmRestoreVar, VmRestoreCtx, VmFreeVars, VmFreeArgs, Running, ReleaseOps, Opcode, Step,
         RestoreVar, RestoreCtx, FreeVars, FreeArgs, frame
<1>3. stack # <<>>
  BY <1>1 DEF WellStacked
<1>4. /\ Top \in AnyBlock /\ Top = stack[Len(stack)]
      /\ stack' = SubSeq(stack, 1, Len(stack) - 1)
  BY <1>2, <1>3, TopOfStack
<1>5. /\ Holds(stack, p, Shape[ip].blocks, Len(Shape[ip].blocks))
      /\ Len(stack) = p + Len(Shape[ip].blocks)
      /\ ip \notin Entries /\ saved = stack[p].arg
      /\ At(Shape[ip].arg, stack[p].arg, p, arg) /\ At(Shape[ip].loc, stack[p].arg, p, loc)
  BY <1>1, <1>2 DEF Runs, Entries, ReleaseOps
<1>6. /\ ip + 1 \in DOMAIN Code \ Entries
      /\ WellStacked(stack') /\ stack' \in Seq(AnyBlock) /\ stack'[p] = stack[p]
      /\ Holds(stack', p, Shape[ip + 1].blocks, Len(Shape[ip + 1].blocks))
      /\ Len(stack') = p + Len(Shape[ip + 1].blocks)
      /\ At(Shape[ip + 1].arg, stack'[p].arg, p, arg')
      /\ At(Shape[ip + 1].loc, stack'[p].arg, p, loc')
      /\ Top.saved = stack[p].arg
  <2> DEFINE t == stack'
             b == arg'
             k == loc'
  <2>1. /\ stack \in Seq(AnyBlock) /\ WellStacked(stack) /\ ip \in DOMAIN Code
        /\ Code[ip].op \in ReleaseOps
        /\ t = SubSeq(stack, 1, Len(stack) - 1)
    BY <1>1, <1>2, <1>4
  <2>2. Brings(Code[ip].op, stack[Len(stack)], arg, loc, b, k)
    BY <1>2, <1>4 DEF Brings
  <2> HIDE DEF t, b, k
  <2>3. Released(stack, t, p, ip, b, k)
    BY <1>5, <2>1, <2>2, ReleaseKeeps
  <2> QED
    BY <1>4, <2>3, Zenon DEF t, b, k, Released
<1>7. saved' = stack'[p].arg
  BY <1>2, <1>5, <1>6
<1>8. Runs(stack', p, ip', saved', arg', loc')
  BY <1>2, <1>6, <1>7, Zenon DEF Runs
<1>9. saved' \in Int /\ arg' \in Int /\ loc' \in Int
  BY <1>1, <1>2, <1>4 DEF AnyBlock
<1> QED
  BY <1>2, <1>6, <1>8, <1>9, NowRunning

\* What leaves the stack alone, and a jump.
LEMMA StraightStep ==
  ASSUME IInv,
         \/ VmSaveArgOffset
         \/ VmCallProxy
         \/ VmPlain
         \/ \E taken \in BOOLEAN : VmJump(taken)
  PROVE  IInv'
<1>0. mode = "running"
  BY DEF VmSaveArgOffset, VmCallProxy, VmPlain, VmJump, Running
<1>1. PICK p \in 2 .. Len(stack) :
        /\ Runs(stack, p, ip, saved, arg, loc)
        /\ stack \in Seq(AnyBlock) /\ WellStacked(stack)
        /\ ip \in DOMAIN Code /\ ip \in Int
        /\ saved \in Int /\ arg \in Int /\ loc \in Int /\ Len(stack) \in Nat
  BY <1>0, RunningState
<1>2. /\ mode' = "running" /\ stack' = stack /\ arg' = arg /\ loc' = loc
      /\ saved' = IF ip \in Entries THEN arg ELSE saved
      /\ Code[ip].op \notin PushOps \union ReleaseOps \union {"return"}
      /\ ip' = ip + 1 \/ (Code[ip].op \in JumpOps /\ ip' = ip + 1 + Code[ip].n)
  <2>1. CASE VmSaveArgOffset
    BY <1>1, <2>1 DEF VmSaveArgOffset, Running, Step, Opcode, Entries, PushOps, ReleaseOps
  <2>2. CASE VmCallProxy
    BY <1>1, <2>2 DEF VmCallProxy, Running, Step, Opcode, Entries, PushOps, ReleaseOps, frame
  <2>3. CASE VmPlain
    <3>1. /\ mode' = mode /\ stack' = stack /\ arg' = arg /\ loc' = loc /\ saved' = saved
          /\ ip' = ip + 1
          /\ Code[ip].op \in PlainOps \union LocalOps \union FunctionOps \union CallOps \union FallibleOps
      BY <2>3 DEF VmPlain, Running, Step, Opcode, frame
    <3>2. Code[ip].op \notin PushOps \union ReleaseOps \union {"return", "save_arg_offset"}
      BY <3>1 DEF PlainOps, LocalOps, FunctionOps, CallOps, FallibleOps, PushOps, ReleaseOps
    <3> QED
      BY <1>0, <3>1, <3>2 DEF Entries
  <2>4. CASE \E taken \in BOOLEAN : VmJump(taken)
    <3>1. PICK taken \in BOOLEAN : VmJump(taken)
      BY <2>4
    <3>2. /\ mode' = mode /\ stack' = stack /\ arg' = arg /\ loc' = loc /\ saved' = saved
          /\ ip' = ip + 1 + (IF taken THEN Code[ip].n ELSE 0)
          /\ Code[ip].op \in JumpOps
      BY <3>1 DEF VmJump, Running, Opcode, frame, JumpOps
    <3>3. Code[ip].op \notin PushOps \union ReleaseOps \union {"return", "save_arg_offset"}
      BY <3>2 DEF JumpOps, PushOps, ReleaseOps
    <3>4. ip' = ip + 1 \/ ip' = ip + 1 + Code[ip].n
      <4>1. ip + 1 + 0 = ip + 1
        BY <1>1
      <4> QED
        BY <3>2, <4>1
    <3> QED
      BY <1>0, <3>2, <3>3, <3>4 DEF Entries
  <2> QED
    BY <2>1, <2>2, <2>3, <2>4
<1>3. saved' \in Int /\ arg' \in Int /\ loc' \in Int
  BY <1>1, <1>2
<1>4. Runs(stack', p, ip', saved', arg', loc')
  <2>1. CASE ip' = ip + 1
    BY <1>1, <1>2, <2>1, StraightRuns
  <2>2. CASE Code[ip].op \in JumpOps /\ ip' = ip + 1 + Code[ip].n
    <3>1. ip \notin Entries
      BY <2>2 DEF Entries, JumpOps
    <3> QED
      BY <1>1, <1>2, <2>2, <3>1, JumpRuns
  <2> QED
    BY <1>2, <2>1, <2>2
<1> QED
  BY <1>1, <1>2, <1>3, <1>4, NowRunning

LEMMA CallStep ==
  ASSUME IInv, NEW entry \in Entries, VmCallNative(entry)
  PROVE  IInv'
<1>1. PICK p \in 2 .. Len(stack) :
        /\ Runs(stack, p, ip, saved, arg, loc)
        /\ stack \in Seq(AnyBlock) /\ WellStacked(stack)
        /\ ip \in DOMAIN Code /\ ip \in Int
        /\ saved \in Int /\ arg \in Int /\ loc \in Int /\ Len(stack) \in Nat
  BY RunningState DEF VmCallNative, Running
<1>2. /\ Code[ip].op = "call" /\ mode' = "running" /\ stack' = Append(stack, ReturnBlock)
      /\ ip' = entry /\ saved' = saved /\ arg' = arg /\ loc' = loc
  BY DEF VmCallNative, Running, Push, Opcode, frame
<1>3. /\ ReturnBlock \in AnyBlock /\ ReturnBlock.kind = "return" /\ ReturnBlock.saved = saved
      /\ ReturnBlock.arg = arg /\ ReturnBlock.ip = ip + 1 /\ ReturnBlock.vm_exit = FALSE
  <2> DEFINE b == Block("return", 0, <<saved, arg, loc>>)
  <2>1. b \in AnyBlock /\ b.kind = "return" /\ b.saved = saved /\ b.arg = arg /\ b.vm_exit = FALSE
    <3>1. "return" \in Kinds /\ 0 \in Int
      BY DEF Kinds
    <3> QED
      BY <1>1, <3>1 DEF Block, AnyBlock
  <2>2. ReturnBlock = [b EXCEPT !.ip = ip + 1] /\ ip + 1 \in Int
    BY <1>1 DEF ReturnBlock, frame
  <2> HIDE DEF b
  <2> QED
    BY <2>1, <2>2, ReturnIs
<1>4. /\ WellStacked(stack') /\ stack' \in Seq(AnyBlock)
      /\ Runs(stack', Len(stack) + 1, ip', saved', arg', loc')
  BY <1>1, <1>2, <1>3, CallKeeps
<1> QED
  BY <1>1, <1>2, <1>4, NowRunning

LEMMA FailStep ==
  ASSUME IInv, VmFail
  PROVE  IInv'
<1>1. PICK p \in 2 .. Len(stack) :
        /\ Runs(stack, p, ip, saved, arg, loc)
        /\ stack \in Seq(AnyBlock) /\ WellStacked(stack)
        /\ ip \in DOMAIN Code /\ ip \in Int
        /\ saved \in Int /\ arg \in Int /\ loc \in Int /\ Len(stack) \in Nat
  BY RunningState DEF VmFail, Running
<1>2. /\ mode' = "crashed" /\ ip' = ip /\ stack' = stack
      /\ saved' = saved /\ arg' = arg /\ loc' = loc
      /\ ip \notin Entries
  BY DEF VmFail, Running, Opcode, frame, Entries, FallibleOps
<1>3. Walks(stack, p, Len(Shape[ip].blocks), ip, arg, loc)
  BY <1>1, <1>2, Failing
<1> QED
  BY <1>1, <1>2, <1>3, NowCrashed


\* What Finds says of an instruction that takes a block off.
LEMMA FindsIs ==
  ASSUME NEW op
  PROVE  /\ op = "restore_var" => (Finds(op) <=> TopIs("var"))
         /\ op = "restore_ctx" => (Finds(op) <=> TopIs("ctx"))
         /\ op = "free_vars" => (Finds(op) <=> loc > 0 /\ IsTop(loc, "locals"))
         /\ op = "free_args" => (Finds(op) <=> IsTop(arg, "header"))
         /\ op = "return" => (Finds(op) <=> TopIs("return") /\ (Top.vm_exit => arg = Len(stack) - 2))
<1>1. op = "restore_var" => (Finds(op) <=> TopIs("var"))
  BY DEF Finds, LocalOps, FunctionOps, CallOps
<1>2. op = "restore_ctx" => (Finds(op) <=> TopIs("ctx"))
  BY DEF Finds, LocalOps, FunctionOps, CallOps
<1>3. op = "free_vars" => (Finds(op) <=> loc > 0 /\ IsTop(loc, "locals"))
  BY DEF Finds, LocalOps, FunctionOps, CallOps
<1>4. op = "free_args" => (Finds(op) <=> IsTop(arg, "header"))
  BY DEF Finds, LocalOps, FunctionOps, CallOps
<1>5. op = "return" => (Finds(op) <=> TopIs("return") /\ (Top.vm_exit => arg = Len(stack) - 2))
  BY DEF Finds, LocalOps, FunctionOps, CallOps
<1> QED
  BY <1>1, <1>2, <1>3, <1>4, <1>5

\* Who returns finds its caller as the call left it, and the main function
\* leaves nothing.
LEMMA Returning ==
  ASSUME IInv, WellStacked(stack), stack[Len(stack)].kind = "return", Return
  PROVE  \/ /\ stack[Len(stack)].vm_exit /\ mode' = "stopped" /\ stack' = <<>>
            /\ ip' \in Int /\ saved' \in Int /\ arg' \in Int /\ loc' \in Int
         \/ /\ mode' = mode /\ skip' = skip
            /\ WellStacked(stack') /\ stack' \in Seq(AnyBlock)
            /\ saved' \in Int /\ arg' \in Int /\ loc' \in Int
            /\ ip' \notin Entries
            /\ \E p \in 2 .. Len(stack) : Runs(stack', p, ip', saved', arg', loc')
<1> DEFINE n == Len(stack)
           back == stack[n]
<1>1. /\ stack \in Seq(AnyBlock) /\ n \in Nat /\ n >= 2 /\ loc \in Int
      /\ back \in AnyBlock
  <2>1. stack \in Seq(AnyBlock) /\ n >= 2 /\ loc \in Int
    BY DEF IInv, WellStacked
  <2> QED
    BY <2>1
<1>2. back.saved \in Int /\ back.arg \in Int /\ back.ip \in Int /\ back.vm_exit \in BOOLEAN
  <2> HIDE DEF back
  <2> QED
    BY <1>1 DEF AnyBlock
<1>3. Top = back
  BY DEF Top
<1>4. /\ saved' = back.saved /\ arg' = back.arg /\ ip' = back.ip /\ loc' = loc /\ skip' = skip
      /\ stack' = Pop(IF back.vm_exit THEN 2 ELSE 1)
      /\ mode' = IF back.vm_exit THEN "stopped" ELSE mode
  BY <1>3, Zenon DEF Return
<1>5. saved' \in Int /\ arg' \in Int /\ ip' \in Int /\ loc' \in Int
  BY <1>1, <1>2, <1>4
<1>6. /\ back.vm_exit <=> n = 2
      /\ ~back.vm_exit =>
           /\ WellStacked(SubSeq(stack, 1, n - 1))
           /\ SubSeq(stack, 1, n - 1) \in Seq(AnyBlock)
           /\ \E p \in 2 .. n - 1 :
                /\ back.ip \in DOMAIN Code \ Entries
                /\ Holds(SubSeq(stack, 1, n - 1), p, Shape[back.ip].blocks, Len(Shape[back.ip].blocks))
                /\ Len(SubSeq(stack, 1, n - 1)) = p + Len(Shape[back.ip].blocks)
                /\ back.saved = SubSeq(stack, 1, n - 1)[p].arg
                /\ At(Shape[back.ip].arg, SubSeq(stack, 1, n - 1)[p].arg, p, back.arg)
                /\ Shape[back.ip].loc = Anywhere
  BY <1>1, ReturnKeeps, Zenon
<1>7. CASE back.vm_exit
  <2>1. n = 2 /\ mode' = "stopped" /\ stack' = SubSeq(stack, 1, n - 2)
    BY <1>4, <1>6, <1>7 DEF Pop
  <2>2. stack' = <<>>
    <3>1. n - 2 = 0
      BY <2>1
    <3>2. stack' = SubSeq(stack, 1, 0)
      BY <2>1, <3>1
    <3> QED
      BY <1>1, <3>2
  <2> QED
    BY <1>5, <1>7, <2>1, <2>2
<1>8. CASE ~back.vm_exit
  <2> DEFINE t == SubSeq(stack, 1, n - 1)
  <2>1. mode' = mode /\ stack' = t
    BY <1>4, <1>8 DEF Pop
  <2>2. PICK p \in 2 .. n - 1 :
          /\ back.ip \in DOMAIN Code \ Entries
          /\ Holds(t, p, Shape[back.ip].blocks, Len(Shape[back.ip].blocks))
          /\ Len(t) = p + Len(Shape[back.ip].blocks)
          /\ back.saved = t[p].arg
          /\ At(Shape[back.ip].arg, t[p].arg, p, back.arg)
          /\ Shape[back.ip].loc = Anywhere
    BY <1>6, <1>8, Zenon
  <2>3. WellStacked(t) /\ t \in Seq(AnyBlock)
    BY <1>6, <1>8
  <2>4. p \in 2 .. Len(stack)
    BY <1>1
  <2> HIDE DEF t, back, n
  <2>5. At(Shape[back.ip].loc, t[p].arg, p, loc)
    BY <2>2, AnywhereIsFine
  <2>6. Runs(t, p, back.ip, back.saved, back.arg, loc)
    BY <2>2, <2>5, Zenon DEF Runs
  <2>7. Runs(stack', p, ip', saved', arg', loc')
    BY <1>4, <2>1, <2>6
  <2>8. ip' \notin Entries
    BY <1>4, <2>2
  <2> QED
    BY <1>4, <1>5, <2>1, <2>3, <2>4, <2>7, <2>8
<1> QED
  BY <1>2, <1>7, <1>8

LEMMA ReturnStep ==
  ASSUME IInv, VmReturn
  PROVE  IInv'
<1>1. PICK p \in 2 .. Len(stack) :
        /\ Runs(stack, p, ip, saved, arg, loc)
        /\ stack \in Seq(AnyBlock) /\ WellStacked(stack)
        /\ ip \in DOMAIN Code /\ ip \in Int
        /\ saved \in Int /\ arg \in Int /\ loc \in Int /\ Len(stack) \in Nat
  BY RunningState DEF VmReturn, Running
<1>2. Return /\ mode = "running" /\ stack[Len(stack)].kind = "return"
  <2>1. Return /\ mode = "running" /\ Opcode = "return" /\ Finds(Opcode)
    BY DEF VmReturn, Running
  <2> QED
    BY <2>1, FindsIs DEF TopIs, Top
<1>3. CASE mode' = "stopped"
  BY <1>1, <1>2, <1>3, Returning, NowStopped
<1>4. CASE mode' # "stopped"
  <2>1. /\ mode' = "running"
        /\ WellStacked(stack') /\ stack' \in Seq(AnyBlock)
        /\ saved' \in Int /\ arg' \in Int /\ loc' \in Int
        /\ \E q \in 2 .. Len(stack) : Runs(stack', q, ip', saved', arg', loc')
    BY <1>1, <1>2, <1>4, Returning
  <2> QED
    BY <2>1, NowRunning
<1> QED
  BY <1>3, <1>4

\* A crashed VM is unwound from the instruction that failed.
LEMMA StartStep ==
  ASSUME IInv, StartUnwinding
  PROVE  IInv'
<1>1. PICK p \in 2 .. Len(stack) : Walks(stack, p, Len(Shape[ip].blocks), ip, arg, loc)
  BY DEF IInv, StartUnwinding
<1>2. /\ stack \in Seq(AnyBlock) /\ WellStacked(stack)
      /\ saved \in Int /\ arg \in Int /\ loc \in Int /\ ip \in DOMAIN Code
  BY <1>1 DEF IInv, StartUnwinding, Walks
<1>3. ip # 0 /\ stack # <<>>
  <2>1. ip # 0
    BY <1>2, ShapeOf
  <2>2. Len(stack) >= 2
    BY <1>2 DEF WellStacked
  <2> QED
    BY <2>1, <2>2
<1>4. /\ mode' = "unwinding" /\ skip' = NoSkips
      /\ ip' = ip /\ stack' = stack /\ saved' = saved /\ arg' = arg /\ loc' = loc
  BY <1>3 DEF StartUnwinding, frame
<1>5. skip' = Missing(Shape[ip'].blocks, Len(Shape[ip'].blocks))
  BY <1>2, <1>4, NoneMissing
<1>6. Walks(stack', p, Len(Shape[ip'].blocks), ip', arg', loc')
  BY <1>1, <1>4
<1> QED
  BY <1>2, <1>4, <1>5, <1>6, NowUnwinding

LEMMA ReversePushStep ==
  ASSUME IInv, ReversePush
  PROVE  IInv'
<1>1. PICK p \in 2 .. Len(stack), m \in 0 .. Len(stack) :
        /\ Walks(stack, p, m, ip, arg, loc) /\ skip = Missing(Shape[ip].blocks, m)
        /\ stack \in Seq(AnyBlock) /\ WellStacked(stack)
        /\ ip \in DOMAIN Code /\ ip \in Int
        /\ saved \in Int /\ arg \in Int /\ loc \in Int /\ Len(stack) \in Nat
        /\ m \in Nat
  BY WalkingState DEF ReversePush, Unwinding
<1>2. /\ mode' = "unwinding" /\ Code[ip].op \in PushOps /\ ip' = ip + 1
      /\ stack' = stack /\ saved' = saved /\ arg' = arg /\ loc' = loc
      /\ skip' = [skip EXCEPT ![KindOf(Code[ip].op)] = @ + 1]
  BY DEF ReversePush, Unwinding, Opcode, frame
<1>3. /\ Walks(stack, p, m, ip + 1, arg, loc)
      /\ Grown(Missing(Shape[ip + 1].blocks, m), skip, KindOf(Code[ip].op))
  BY <1>1, <1>2, PushWalks
<1>4. /\ Walks(stack', p, m, ip', arg', loc')
      /\ skip' = Missing(Shape[ip'].blocks, m)
  BY <1>1, <1>2, <1>3, Zenon DEF Grown
<1> QED
  BY <1>1, <1>2, <1>4, NowUnwinding

LEMMA ReverseSkipStep ==
  ASSUME IInv, ReverseSkip
  PROVE  IInv'
<1>1. PICK p \in 2 .. Len(stack), m \in 0 .. Len(stack) :
        /\ Walks(stack, p, m, ip, arg, loc) /\ skip = Missing(Shape[ip].blocks, m)
        /\ stack \in Seq(AnyBlock) /\ WellStacked(stack)
        /\ ip \in DOMAIN Code /\ ip \in Int
        /\ saved \in Int /\ arg \in Int /\ loc \in Int /\ Len(stack) \in Nat
        /\ m \in Nat
  BY WalkingState DEF ReverseSkip, Unwinding
<1>2. /\ mode' = "unwinding" /\ Code[ip].op \in ReleaseOps /\ ip' = ip + 1
      /\ skip[KindOf(Code[ip].op)] > 0
      /\ stack' = stack /\ saved' = saved /\ arg' = arg /\ loc' = loc
      /\ skip' = [skip EXCEPT ![KindOf(Code[ip].op)] = @ - 1]
  BY DEF ReverseSkip, Unwinding, Opcode, frame, Skipped
<1>3. Missing(Shape[ip].blocks, m)[KindOf(Code[ip].op)] > 0
  BY <1>1, <1>2
<1>4. /\ Walks(stack, p, m, ip + 1, arg, loc)
      /\ Missing(Shape[ip + 1].blocks, m)
           = [Missing(Shape[ip].blocks, m) EXCEPT ![KindOf(Code[ip].op)] = @ - 1]
  BY <1>1, <1>2, <1>3, SkipWalks
<1>5. /\ Walks(stack', p, m, ip', arg', loc')
      /\ skip' = Missing(Shape[ip'].blocks, m)
  BY <1>1, <1>2, <1>4, Zenon
<1> QED
  BY <1>1, <1>2, <1>5, NowUnwinding

\* A release the walk does not skip finds all blocks of its function.
LEMMA ReverseReleaseStep ==
  ASSUME IInv, ReverseRelease
  PROVE  IInv'
<1>1. PICK p \in 2 .. Len(stack), m \in 0 .. Len(stack) :
        /\ Walks(stack, p, m, ip, arg, loc) /\ skip = Missing(Shape[ip].blocks, m)
        /\ stack \in Seq(AnyBlock) /\ WellStacked(stack)
        /\ ip \in DOMAIN Code /\ ip \in Int
        /\ saved \in Int /\ arg \in Int /\ loc \in Int /\ Len(stack) \in Nat
        /\ m \in Nat
  BY WalkingState DEF ReverseRelease, Unwinding
<1>2. /\ Code[ip].op \in ReleaseOps /\ mode' = "unwinding" /\ ip' = ip + 1 /\ skip' = skip
      /\ ~(skip[KindOf(Code[ip].op)] > 0)
      /\ stack' = Pop(1)
      /\ saved' = IF Code[ip].op = "restore_ctx" THEN Top.saved ELSE saved
      /\ arg' = IF Code[ip].op = "restore_ctx" THEN Top.arg ELSE arg
      /\ loc' = IF Code[ip].op \in {"restore_ctx", "free_vars"} THEN Top.loc ELSE loc
  BY DEF ReverseRelease, Unwinding, Opcode, Step, Skipped,
         RestoreVar, RestoreCtx, FreeVars, FreeArgs, frame
<1>3. stack # <<>>
  BY <1>1 DEF WellStacked
<1>4. /\ Top \in AnyBlock /\ Top = stack[Len(stack)]
      /\ stack' = SubSeq(stack, 1, Len(stack) - 1)
  BY <1>2, <1>3, TopOfStack
<1>5. /\ m = Len(Shape[ip].blocks)
      /\ At(Shape[ip].arg, stack[p].arg, p, arg) /\ At(Shape[ip].loc, stack[p].arg, p, loc)
  <2>1. ~(Missing(Shape[ip].blocks, m)[KindOf(Code[ip].op)] > 0)
    BY <1>1, <1>2
  <2> QED
    BY <1>1, <1>2, <2>1, SkipWalks
<1>6. /\ Holds(stack, p, Shape[ip].blocks, Len(Shape[ip].blocks))
      /\ Len(stack) = p + Len(Shape[ip].blocks)
  BY <1>1, <1>5 DEF Walks
<1>7. Released(stack, stack', p, ip, arg', loc')
  <2> DEFINE t == stack'
             b == arg'
             k == loc'
  <2>1. /\ stack \in Seq(AnyBlock) /\ WellStacked(stack) /\ ip \in DOMAIN Code
        /\ Code[ip].op \in ReleaseOps
        /\ t = SubSeq(stack, 1, Len(stack) - 1)
    BY <1>1, <1>2, <1>4
  <2>2. Brings(Code[ip].op, stack[Len(stack)], arg, loc, b, k)
    BY <1>2, <1>4 DEF Brings
  <2> HIDE DEF t, b, k
  <2>3. Released(stack, t, p, ip, b, k)
    BY <1>5, <1>6, <2>1, <2>2, ReleaseKeeps
  <2> QED
    BY <2>3, Zenon DEF t, b, k
<1>8. /\ ip + 1 \in DOMAIN Code \ Entries
      /\ WellStacked(stack') /\ stack' \in Seq(AnyBlock)
      /\ Runs(stack', p, ip', stack'[p].arg, arg', loc')
  BY <1>2, <1>7, Zenon DEF Released, Runs
<1>9. Walks(stack', p, Len(Shape[ip'].blocks), ip', arg', loc')
  BY <1>2, <1>8, Failing
<1>10. skip' = Missing(Shape[ip'].blocks, Len(Shape[ip'].blocks))
  <2>1. skip = NoSkips
    BY <1>1, <1>5, NoneMissing
  <2>2. Missing(Shape[ip'].blocks, Len(Shape[ip'].blocks)) = NoSkips
    BY <1>2, <1>8, NoneMissing
  <2> QED
    BY <1>2, <2>1, <2>2
<1>11. saved' \in Int /\ arg' \in Int /\ loc' \in Int
  BY <1>1, <1>2, <1>4 DEF AnyBlock
<1> QED
  BY <1>2, <1>8, <1>9, <1>10, <1>11, NowUnwinding

LEMMA ReverseReturnStep ==
  ASSUME IInv, ReverseReturn
  PROVE  IInv'
<1>1. PICK p \in 2 .. Len(stack), m \in 0 .. Len(stack) :
        /\ Walks(stack, p, m, ip, arg, loc) /\ skip = Missing(Shape[ip].blocks, m)
        /\ stack \in Seq(AnyBlock) /\ WellStacked(stack)
        /\ ip \in DOMAIN Code /\ ip \in Int
        /\ saved \in Int /\ arg \in Int /\ loc \in Int /\ Len(stack) \in Nat
        /\ m \in Nat
  BY WalkingState DEF ReverseReturn, Unwinding
<1>2. /\ Return /\ mode = "unwinding" /\ stack[Len(stack)].kind = "return"
      /\ Code[ip].op = "return"
  <2>1. Return /\ mode = "unwinding" /\ Opcode = "return" /\ Finds(Opcode)
    BY DEF ReverseReturn, Unwinding
  <2> QED
    BY <2>1, FindsIs DEF TopIs, Top, Opcode
<1>3. CASE mode' = "stopped"
  BY <1>1, <1>2, <1>3, Returning, NowStopped
<1>4. CASE mode' # "stopped"
  <2>1. /\ mode' = "unwinding" /\ skip' = skip
        /\ WellStacked(stack') /\ stack' \in Seq(AnyBlock)
        /\ saved' \in Int /\ arg' \in Int /\ loc' \in Int /\ ip' \notin Entries
        /\ \E q \in 2 .. Len(stack) : Runs(stack', q, ip', saved', arg', loc')
    BY <1>1, <1>2, <1>4, Returning
  <2>2. PICK q \in 2 .. Len(stack) : Runs(stack', q, ip', saved', arg', loc')
    BY <2>1
  <2>3. Walks(stack', q, Len(Shape[ip'].blocks), ip', arg', loc')
    BY <2>1, <2>2, Failing
  <2>4. ip' \in DOMAIN Code
    BY <2>2 DEF Runs
  <2>5. m = Len(Shape[ip].blocks)
    <3>1. Shape[ip].blocks = <<>> /\ m = 0
      BY <1>1, <1>2, FindsReturn DEF Walks, OnReturn
    <3>2. Len(Shape[ip].blocks) = 0
      BY <3>1
    <3> QED
      BY <3>1, <3>2
  <2>6. skip = NoSkips
    BY <1>1, <2>5, NoneMissing
  <2>7. skip' = Missing(Shape[ip'].blocks, Len(Shape[ip'].blocks))
    BY <2>1, <2>4, <2>6, NoneMissing
  <2> QED
    BY <2>1, <2>3, <2>7, NowUnwinding
<1> QED
  BY <1>3, <1>4

LEMMA ReverseNopStep ==
  ASSUME IInv, ReverseNop
  PROVE  IInv'
<1>1. PICK p \in 2 .. Len(stack), m \in 0 .. Len(stack) :
        /\ Walks(stack, p, m, ip, arg, loc) /\ skip = Missing(Shape[ip].blocks, m)
        /\ stack \in Seq(AnyBlock) /\ WellStacked(stack)
        /\ ip \in DOMAIN Code /\ ip \in Int
        /\ saved \in Int /\ arg \in Int /\ loc \in Int /\ Len(stack) \in Nat
        /\ m \in Nat
  BY WalkingState DEF ReverseNop
<1>2. /\ mode' = "unwinding" /\ Code[ip].op \notin PushOps \union ReleaseOps \union {"return"}
      /\ ip' = ip + 1 /\ skip' = skip
      /\ stack' = stack /\ saved' = saved /\ arg' = arg /\ loc' = loc
  BY DEF ReverseNop, Opcode, Step, frame
<1>3. /\ Walks(stack, p, m, ip + 1, arg, loc)
      /\ Missing(Shape[ip + 1].blocks, m) = Missing(Shape[ip].blocks, m)
  BY <1>1, <1>2, NopWalks
<1>4. /\ Walks(stack', p, m, ip', arg', loc')
      /\ skip' = Missing(Shape[ip'].blocks, m)
  BY <1>1, <1>2, <1>3, Zenon
<1> QED
  BY <1>1, <1>2, <1>4, NowUnwinding

LEMMA ResetStep ==
  ASSUME IInv, Reset
  PROVE  IInv'
<1>1. /\ mode' = "reset" /\ stack' = <<>> /\ ip' = 0
      /\ saved' = 0 /\ arg' = 0 /\ loc' = 0
  BY DEF Reset
<1> QED
  BY <1>1, NowStopped

LEMMA StutterStep ==
  ASSUME IInv, UNCHANGED vars
  PROVE  IInv'
<1>1. /\ mode' = mode /\ stack' = stack /\ ip' = ip /\ saved' = saved /\ arg' = arg
      /\ loc' = loc /\ skip' = skip
  BY DEF vars
<1> QED
  BY <1>1 DEF IInv

LEMMA InitInv ==
  ASSUME Init
  PROVE  IInv
<1>1. /\ mode = "created" /\ stack = <<>> /\ ip = 0 /\ saved = 0 /\ arg = 0 /\ loc = 0
  BY DEF Init
<1>2. <<>> \in Seq(AnyBlock)
  OBVIOUS
<1> QED
  BY <1>1, <1>2 DEF IInv, Modes

LEMMA NextInv ==
  ASSUME IInv, [Next]_vars
  PROVE  IInv'
<1>1. CASE CallMain
  BY <1>1, CallMainStep
<1>2. CASE Execute
  <2>1. CASE VmPush
    BY <2>1, PushStep
  <2>2. CASE Overflow
    BY <2>2, OverflowStep
  <2>3. CASE VmRestoreVar \/ VmRestoreCtx \/ VmFreeVars \/ VmFreeArgs
    BY <2>3, ReleaseStep
  <2>4. CASE VmSaveArgOffset \/ VmCallProxy \/ VmPlain \/ \E taken \in BOOLEAN : VmJump(taken)
    BY <2>4, StraightStep
  <2>5. CASE VmReturn
    BY <2>5, ReturnStep
  <2>6. CASE VmFail
    BY <2>6, FailStep
  <2>7. CASE \E entry \in Entries : VmCallNative(entry)
    BY <2>7, CallStep
  <2> QED
    BY <1>2, <2>1, <2>2, <2>3, <2>4, <2>5, <2>6, <2>7 DEF Execute
<1>3. CASE Unwind
  BY <1>3, StartStep, ReversePushStep, ReverseSkipStep, ReverseReleaseStep, ReverseReturnStep,
     ReverseNopStep, ResetStep DEF Unwind
<1>4. CASE Done
  BY <1>4, StutterStep DEF Done
<1>5. CASE UNCHANGED vars
  BY <1>5, StutterStep
<1> QED
  BY <1>1, <1>2, <1>3, <1>4, <1>5 DEF Next

-----------------------------------------------------------------------------
(* What follows                                                              *)

\* The reverse VM finds what it releases: of a release it does not skip, all
\* blocks are there.
LEMMA FindsUnwinding ==
  ASSUME IInv, mode = "unwinding", Opcode \in ReleaseOps \union {"return"}, ~Skipped
  PROVE  Finds(Opcode)
<1>1. PICK p \in 2 .. Len(stack), m \in 0 .. Len(stack) :
        /\ Walks(stack, p, m, ip, arg, loc) /\ skip = Missing(Shape[ip].blocks, m)
        /\ stack \in Seq(AnyBlock) /\ WellStacked(stack)
        /\ ip \in DOMAIN Code /\ ip \in Int
        /\ saved \in Int /\ arg \in Int /\ loc \in Int /\ Len(stack) \in Nat
        /\ m \in Nat
  BY WalkingState
<1>2. stack # <<>>
  BY <1>1 DEF WellStacked
<1>3. CASE Code[ip].op \in ReleaseOps
  <2>1. ~(Missing(Shape[ip].blocks, m)[KindOf(Code[ip].op)] > 0)
    BY <1>1, <1>3 DEF Skipped, Opcode
  <2>2. /\ m = Len(Shape[ip].blocks)
        /\ At(Shape[ip].arg, stack[p].arg, p, arg) /\ At(Shape[ip].loc, stack[p].arg, p, loc)
    BY <1>1, <1>3, <2>1, SkipWalks
  <2>3. /\ Holds(stack, p, Shape[ip].blocks, Len(Shape[ip].blocks))
        /\ Len(stack) = p + Len(Shape[ip].blocks)
    BY <1>1, <2>2 DEF Walks
  <2>4. /\ Len(stack) >= 3 /\ stack[Len(stack)].kind = KindOf(Code[ip].op)
        /\ Code[ip].op = "free_vars" => loc = Len(stack) - 1
        /\ Code[ip].op = "free_args" => arg = Len(stack) - 1
    BY <1>1, <1>3, <2>2, <2>3, FindsRelease
  <2>5. CASE Code[ip].op = "restore_var"
    BY <1>2, <2>4, <2>5, FindsIs DEF Opcode, TopIs, Top, KindOf
  <2>6. CASE Code[ip].op = "restore_ctx"
    BY <1>2, <2>4, <2>6, FindsIs DEF Opcode, TopIs, Top, KindOf
  <2>7. CASE Code[ip].op = "free_vars"
    <3>1. stack[Len(stack)].kind = "locals" /\ loc = Len(stack) - 1
      BY <2>4, <2>7 DEF KindOf
    <3>2. loc > 0
      BY <1>1, <2>4, <3>1
    <3> QED
      BY <1>2, <2>7, <3>1, <3>2, FindsIs DEF Opcode, IsTop, TopIs, Top
  <2>8. CASE Code[ip].op = "free_args"
    <3>1. stack[Len(stack)].kind = "header" /\ arg = Len(stack) - 1
      BY <2>4, <2>8 DEF KindOf
    <3> QED
      BY <1>2, <2>8, <3>1, FindsIs DEF Opcode, IsTop, TopIs, Top
  <2> QED
    BY <1>3, <2>5, <2>6, <2>7, <2>8 DEF ReleaseOps
<1>4. CASE Code[ip].op = "return"
  <2>1. /\ stack[Len(stack)].kind = "return"
        /\ stack[Len(stack)].vm_exit => Len(stack) = 2 /\ arg = 0
    BY <1>1, <1>4, FindsReturn DEF Walks, OnReturn
  <2>2. stack[Len(stack)].vm_exit => arg = Len(stack) - 2
    BY <2>1
  <2> QED
    BY <1>2, <1>4, <2>1, <2>2, FindsIs DEF Opcode, TopIs, Top
<1> QED
  BY <1>3, <1>4 DEF Opcode

\* Of any program whose code has a shape, the blocks on the stack and the
\* offsets are at every instruction those of the shape, for the function that
\* runs and for all that wait for a call; and while a crash is unwound, what the
\* walk still has to skip is exactly what the crash left unpushed.
THEOREM InvHolds == Spec => []IInv
<1>1. Init => IInv
  BY InitInv
<1>2. IInv /\ [Next]_vars => IInv'
  BY NextInv
<1> QED
  BY <1>1, <1>2, PTL DEF Spec

\* simplejs_vm_exec and the reverse VM: in any program whose code has a shape,
\* however deep its calls and whatever fails, an instruction releases and
\* reaches only blocks of the kind it expects, and of its own function.
THEOREM StackAgreesHolds == Spec => []StackAgrees
<1>1. IInv => StackAgrees
  <2> SUFFICES ASSUME IInv PROVE StackAgrees
    OBVIOUS
  <2>1. FindsItsBlocks
    BY FindsRunning, FindsUnwinding DEF FindsItsBlocks
  <2>2. OwnFrame
    <3>1. CASE mode = "running"
      BY <3>1, FindsRunning
    <3>2. CASE mode # "running"
      BY <3>2 DEF OwnFrame
    <3> QED
      BY <3>1, <3>2
  <2> QED
    BY <2>1, <2>2 DEF StackAgrees
<1> QED
  BY <1>1, InvHolds, PTL

\* simplejs_vm_reset: in any program whose code has a shape, the walk has taken
\* every block off the stack when the VM is cleared.
THEOREM NothingLeftHolds == Spec => NothingLeftAtReset
<1>1. IInv /\ [Next]_vars => [mode' = "reset" /\ mode # "reset" => stack = <<>>]_vars
  <2> SUFFICES ASSUME IInv, Next, mode' = "reset", mode # "reset"
               PROVE  stack = <<>>
    OBVIOUS
  <2>1. mode \notin {"stopped", "reset"} => mode' # "reset"
    BY DEF Next, CallMain, Execute, Unwind, Done, VmPush, Overflow, VmRestoreVar, VmRestoreCtx,
           VmFreeVars, VmFreeArgs, VmSaveArgOffset, VmCallProxy, VmReturn, VmPlain, VmFail,
           VmCallNative, VmJump, Step, Running, Return, StartUnwinding, Unwinding, ReversePush,
           ReverseSkip, ReverseRelease, ReverseReturn, ReverseNop, Reset
  <2> QED
    BY <2>1 DEF IInv
<1> QED
  BY <1>1, InvHolds, PTL DEF Spec, NothingLeftAtReset
=============================================================================
