------------------------- MODULE References_proofs -------------------------
(***************************************************************************)
(* Proofs about References, for every number of registers, variables,       *)
(* frames and objects.                                                      *)
(***************************************************************************)
EXTENDS References, FiniteSetTheorems, WellFoundedInduction, TLAPS

-----------------------------------------------------------------------------
(* Numbers                                                                  *)

\* Every set of natural numbers that is not empty has a least element.
LEMMA LeastNumber ==
  ASSUME NEW S \in SUBSET Nat, S # {}
  PROVE  \E n \in S : \A m \in S : n <= m
<1> DEFINE R == OpToRel(<, Nat)
<1>1. IsWellFoundedOn(R, Nat)
  BY NatLessThanWellFounded
<1>2. \A x, y \in Nat : x < y => <<x, y>> \in R
  BY DEF OpToRel
<1> HIDE DEF R
<1>3. PICK n \in S : \A m \in S : ~(<<m, n>> \in R)
  BY <1>1, WFMin
<1>4. n \in Nat /\ \A m \in S : m \in Nat /\ ~(m < n)
  BY <1>2, <1>3
<1> QED
  BY <1>4

\* A set that has 0, and with a number the next one, has all of them.
LEMMA NaturalInduction ==
  ASSUME NEW S, 0 \in S, \A n \in Nat : n \in S => n + 1 \in S
  PROVE  Nat \subseteq S
<1> SUFFICES ASSUME Nat \ S # {}
             PROVE  FALSE
  OBVIOUS
<1>1. PICK n \in Nat \ S : \A m \in Nat \ S : n <= m
  BY LeastNumber
<1>2. n - 1 \in Nat /\ n - 1 \in S
  BY <1>1
<1> QED
  BY <1>1, <1>2

-----------------------------------------------------------------------------
(* No reference leads back to itself                                        *)

\* What the induction needs of the type: val is a map from slots to values.
Memory == val \in [Slots -> Value]

Inv == Memory /\ Acyclic

\* An assignment that is_circular_reference lets through closes no chain: if
\* the new value of v started a chain inside a set of variables whose targets
\* all lie in the set, the part of that set the chain can reach would have
\* been such a set before, because the chain avoids v.
LEMMA OverwriteKeepsAcyclic ==
  ASSUME Inv, NEW v \in Slots, NEW x \in Value, ~Circular(v, x),
         val' = [val EXCEPT ![v] = x]
  PROVE  Inv'
<1>1. Memory'
  BY DEF Inv, Memory
<1>2. ASSUME NEW S \in SUBSET Vars, S # {}, \A s \in S : val'[s] \in S
      PROVE  FALSE
  <2>1. CASE v \notin S
    <3>1. \A s \in S : val[s] \in S
      BY <1>2, <2>1 DEF Inv, Memory, Slots
    <3> QED
      BY <1>2, <3>1 DEF Inv, Acyclic
  <2>2. CASE v \in S
    <3>1. x \in S
      BY <1>2, <2>2 DEF Inv, Memory
    <3>2. PICK R \in SUBSET Vars : x \in R /\ Closed(R) /\ v \notin R
      BY <1>2, <3>1 DEF Circular
    <3>3. \A s \in R \cap S : val[s] \in R \cap S
      <4> TAKE s \in R \cap S
      <4>1. val[s] \in S
        BY <1>2, <3>2 DEF Inv, Memory, Slots
      <4> QED
        BY <4>1, <3>2 DEF Closed
    <3> QED
      BY <3>1, <3>2, <3>3 DEF Inv, Acyclic
  <2> QED
    BY <2>1, <2>2
<1> QED
  BY <1>1, <1>2 DEF Inv, Acyclic

\* simplejs_variable_assign_ex keeps the chains of references acyclic.
LEMMA AssignKeepsAcyclic ==
  ASSUME Inv, NEW v \in Slots, NEW x \in Value, Assign(v, x)
  PROVE  Inv'
<1> DEFINE new == IF Circular(v, x) THEN Plain ELSE x
<1>1. new \in Value /\ ~Circular(v, new)
  BY ReferencesAssumption DEF Circular, Value
<1>2. val' = [val EXCEPT ![v] = new]
  BY DEF Assign
<1> HIDE DEF new
<1> QED
  BY <1>1, <1>2, OverwriteKeepsAcyclic

\* Memory cleared for a new frame starts no chain.
LEMMA ClearKeepsAcyclic ==
  ASSUME Inv, NEW C,
         val' = [s \in Slots |-> IF s \in C THEN Plain ELSE val[s]]
  PROVE  Inv'
<1>1. Memory'
  BY DEF Inv, Memory, Value
<1>2. ASSUME NEW S \in SUBSET Vars, S # {}, \A s \in S : val'[s] \in S
      PROVE  FALSE
  <2>1. \A s \in S : val[s] \in S
    BY <1>2, ReferencesAssumption DEF Slots
  <2> QED
    BY <1>2, <2>1 DEF Inv, Acyclic
<1> QED
  BY <1>1, <1>2 DEF Inv, Acyclic

LEMMA InitEstablishesInv == ASSUME Init PROVE Inv
<1>1. Memory
  BY DEF Init, Memory, Value
<1>2. Acyclic
  BY ReferencesAssumption DEF Init, Acyclic, Slots
<1> QED
  BY <1>1, <1>2 DEF Inv

\* Every opcode preserves the invariant.
LEMMA NextKeepsInv == ASSUME Inv, [Next]_vars PROVE Inv'
<1>1. ASSUME NEW r \in Registers, NEW x \in Objects \union {Plain}, Load(r, x)
      PROVE  Inv'
  BY <1>1, AssignKeepsAcyclic DEF Load, Slots, Value
<1>2. ASSUME NEW r \in Registers, NEW q \in Registers, MovVar(r, q)
      PROVE  Inv'
  BY <1>2, AssignKeepsAcyclic DEF MovVar, Slots, Inv, Memory
<1>3. ASSUME NEW r \in Registers, NEW q \in Registers, GetRefVar(r, q)
      PROVE  Inv'
  <2> DEFINE x == IF val[r] \in Vars THEN val[val[r]] ELSE Plain
  <2>1. x \in Value
    BY DEF Inv, Memory, Slots, Value
  <2>2. Assign(q, x) /\ q \in Slots
    BY <1>3 DEF GetRefVar, Slots
  <2> HIDE DEF x
  <2> QED
    BY <2>1, <2>2, AssignKeepsAcyclic
<1>4. ASSUME NEW r \in Registers, NEW q \in Registers, SetRefVar(r, q)
      PROVE  Inv'
  <2> DEFINE x == IF SafeAssign(val[r], val[q]) THEN val[q] ELSE Plain
  <2>1. x \in Value
    BY DEF Inv, Memory, Slots, Value
  <2>2. Assign(val[r], x) /\ val[r] \in Slots
    BY <1>4 DEF SetRefVar, Slots
  <2> HIDE DEF x
  <2> QED
    BY <2>1, <2>2, AssignKeepsAcyclic
<1>5. ASSUME NEW r \in Registers, NEW v \in Vars,
             GetVar(r, v) \/ SetVar(r, v) \/ GetVarRef(r, v)
      PROVE  Inv'
  <2>1. CASE GetVar(r, v)
    BY <2>1, AssignKeepsAcyclic DEF GetVar, Slots, Inv, Memory
  <2>2. CASE SetVar(r, v)
    BY <2>2, AssignKeepsAcyclic DEF SetVar, Slots, Inv, Memory
  <2>3. CASE GetVarRef(r, v)
    BY <2>3, AssignKeepsAcyclic DEF GetVarRef, Slots, Value
  <2> QED
    BY <1>5, <2>1, <2>2, <2>3
<1>6. ASSUME NEW a \in Args, NEW r \in Registers, SetCallArgVar(a, r)
      PROVE  Inv'
  <2>1. Assign(<<Depth, a>>, val[r])
    BY <1>6 DEF SetCallArgVar
  <2>2. CASE <<Depth, a>> \in Slots
    BY <2>1, <2>2, AssignKeepsAcyclic DEF Slots, Inv, Memory
  <2>3. CASE <<Depth, a>> \notin Slots
    <3>1. val' = val
      BY <2>1, <2>3 DEF Assign, Inv, Memory
    <3> QED
      BY <3>1 DEF Inv, Memory, Acyclic
  <2> QED
    BY <2>2, <2>3
<1>7. ASSUME NEW in \in Registers, NEW r \in Registers, Return(in, r)
      PROVE  Inv'
  <2> DEFINE x == ReturnValue(in)
  <2>1. x \in Value /\ x \notin Vars
    BY ReferencesAssumption DEF ReturnValue, Inv, Memory, Slots, Value
  <2>2. ~Circular(r, x) /\ r \in Slots
    BY <2>1 DEF Circular, Slots
  <2>3. val' = [val EXCEPT ![r] = x]
    BY <1>7 DEF Return
  <2> HIDE DEF x
  <2> QED
    BY <2>1, <2>2, <2>3, OverwriteKeepsAcyclic
<1>8. ASSUME AllocArgs PROVE Inv'
  BY <1>8, ClearKeepsAcyclic DEF AllocArgs
<1>9. ASSUME Call PROVE Inv'
  BY <1>9, ClearKeepsAcyclic DEF Call
<1>10. ASSUME Exit PROVE Inv'
  <2>1. val' = [s \in Slots |-> IF s \in Slots THEN Plain ELSE val[s]]
    BY <1>10 DEF Exit
  <2> QED
    BY <2>1, ClearKeepsAcyclic
<1>11. ASSUME UNCHANGED vars PROVE Inv'
  BY <1>11 DEF vars, Inv, Memory, Acyclic
<1> QED
  BY <1>1, <1>2, <1>3, <1>4, <1>5, <1>6, <1>7, <1>8, <1>9, <1>10, <1>11
  DEF Next, Opcode, Stopped

\* At no point of an execution, whatever the bytecode, do references form a
\* cycle: the loops and recursions of variable.c that follow them terminate.
THEOREM ReferencesAreAcyclic == Spec => []Acyclic
<1>1. Init => Inv
  BY InitEstablishesInv
<1>2. Inv /\ [Next]_vars => Inv'
  BY NextKeepsInv
<1>3. Inv => Acyclic
  BY DEF Inv
<1> QED
  BY <1>1, <1>2, <1>3, PTL DEF Spec

-----------------------------------------------------------------------------
(* The ends of chains                                                       *)

\* The hops of the chain that starts with x in memory w, up to the n-th.
IsChain(w, x, n, h) ==
  h = [i \in 0 .. n |->
         IF i = 0 THEN x ELSE IF h[i - 1] \in Vars THEN w[h[i - 1]] ELSE h[i - 1]]

LEMMA ChainExists ==
  ASSUME NEW w, NEW x, NEW n \in Nat
  PROVE  \E h : IsChain(w, x, n, h)
<1> DEFINE N == {k \in Nat : \E h : IsChain(w, x, k, h)}
<1>1. 0 \in N
  <2>1. IsChain(w, x, 0, [i \in 0 .. 0 |-> x])
    BY DEF IsChain
  <2> QED
    BY <2>1
<1>2. ASSUME NEW k \in Nat, k \in N PROVE k + 1 \in N
  <2>1. PICK h : IsChain(w, x, k, h)
    BY <1>2
  <2>2. \A i \in 0 .. k :
          h[i] = IF i = 0 THEN x ELSE IF h[i - 1] \in Vars THEN w[h[i - 1]] ELSE h[i - 1]
    BY <2>1, Zenon DEF IsChain
  <2> DEFINE last == IF h[k] \in Vars THEN w[h[k]] ELSE h[k]
             g == [i \in 0 .. k + 1 |-> IF i = k + 1 THEN last ELSE h[i]]
  <2>3. \A i \in 0 .. k + 1 :
          g[i] = IF i = 0 THEN x ELSE IF g[i - 1] \in Vars THEN w[g[i - 1]] ELSE g[i - 1]
    <3> TAKE i \in 0 .. k + 1
    <3>1. CASE i = k + 1
      <4>1. g[i] = last /\ g[i - 1] = h[k] /\ i # 0
        <5> HIDE DEF last
        <5> QED
          BY <3>1
      <4> HIDE DEF g
      <4> QED
        BY <4>1, Zenon
    <3>2. CASE i \in 0 .. k
      <4>1. g[i] = h[i] /\ (i # 0 => g[i - 1] = h[i - 1])
        <5> HIDE DEF last
        <5> QED
          BY <3>2
      <4> HIDE DEF g, last
      <4> QED
        BY <3>2, <4>1, <2>2, Zenon
    <3> QED
      BY <3>1, <3>2
  <2>4. g = [i \in 0 .. k + 1 |-> g[i]]
    BY Zenon
  <2> HIDE DEF g
  <2>5. IsChain(w, x, k + 1, g)
    BY <2>3, <2>4 DEF IsChain
  <2> QED
    BY <2>5
<1> HIDE DEF N
<1>3. n \in N
  BY <1>1, <1>2, NaturalInduction
<1> QED
  BY <1>3 DEF N

LEMMA VarsAreFinite == IsFiniteSet(Vars) /\ Cardinality(Vars) \in Nat
<1>1. IsFiniteSet(1 .. MaxDepth)
  BY FS_Interval, ReferencesAssumption
<1>2. IsFiniteSet(Args \union Locals)
  BY FS_Union, ReferencesAssumption
<1>3. IsFiniteSet(Vars)
  BY <1>1, <1>2, FS_Product DEF Vars
<1> QED
  BY <1>3, FS_CardinalityType

\* The end of a chain is where its last hop leads.
LEMMA EndIsTheLastHop ==
  ASSUME NEW w, NEW x
  PROVE  \E h : /\ EndIn(w, x) = h[Cardinality(Vars)]
                /\ h[0] = x
                /\ \A n \in 1 .. Cardinality(Vars) :
                     h[n] = IF h[n - 1] \in Vars THEN w[h[n - 1]] ELSE h[n - 1]
<1> DEFINE C == Cardinality(Vars)
           hop == CHOOSE h : IsChain(w, x, C, h)
<1>1. C \in Nat
  BY VarsAreFinite
<1>2. EndIn(w, x) = hop[C]
  BY DEF EndIn, IsChain
<1> HIDE DEF C
<1>3. IsChain(w, x, C, hop)
  BY <1>1, ChainExists
<1> HIDE DEF hop
<1>4. \A i \in 0 .. C :
        hop[i] = IF i = 0 THEN x ELSE IF hop[i - 1] \in Vars THEN w[hop[i - 1]] ELSE hop[i - 1]
  BY <1>3, Zenon DEF IsChain
<1>5. 0 \in 0 .. C /\ \A n \in 1 .. C : n # 0 /\ n \in 0 .. C
  BY <1>1
<1>6. hop[0] = x /\ \A n \in 1 .. C :
                      hop[n] = IF hop[n - 1] \in Vars THEN w[hop[n - 1]] ELSE hop[n - 1]
  BY <1>4, <1>5, Zenon
<1> QED
  BY <1>2, <1>6 DEF C

\* What holds of the start of a chain, and of every next hop, holds of its end.
LEMMA EndIsIn ==
  ASSUME NEW w, NEW S, NEW x \in S,
         \A y \in S : y \in Vars => w[y] \in S
  PROVE  EndIn(w, x) \in S
<1> DEFINE C == Cardinality(Vars)
<1>1. PICK h : /\ EndIn(w, x) = h[C] /\ h[0] = x
               /\ \A n \in 1 .. C : h[n] = IF h[n - 1] \in Vars THEN w[h[n - 1]] ELSE h[n - 1]
  BY EndIsTheLastHop
<1> DEFINE N == {n \in Nat : n <= C => h[n] \in S}
<1>2. C \in Nat
  BY VarsAreFinite
<1> HIDE DEF C
<1>3. 0 \in N
  BY <1>1
<1>4. ASSUME NEW n \in Nat, n \in N PROVE n + 1 \in N
  <2> SUFFICES ASSUME n + 1 <= C PROVE h[n + 1] \in S
    OBVIOUS
  <2>1. h[n] \in S /\ n + 1 \in 1 .. C /\ (n + 1) - 1 = n
    BY <1>2, <1>4
  <2>2. h[n + 1] = IF h[n] \in Vars THEN w[h[n]] ELSE h[n]
    BY <1>1, <2>1
  <2> QED
    BY <2>1, <2>2
<1> HIDE DEF N
<1>5. C \in N
  BY <1>2, <1>3, <1>4, NaturalInduction
<1> QED
  BY <1>1, <1>2, <1>5 DEF N

\* A chain of references that comes to no end would be circular.  So the chain
\* from what s holds never comes by s, and does not change with it.
LEMMA OverwriteKeepsEnd ==
  ASSUME Inv, NEW s \in Slots, NEW w, \A t \in Vars \ {s} : w[t] = val[t]
  PROVE  EndIn(w, val[s]) = EndIn(val, val[s])
<1> DEFINE C == Cardinality(Vars)
<1>1. PICK h : /\ EndIn(val, val[s]) = h[C] /\ h[0] = val[s]
               /\ \A n \in 1 .. C : h[n] = IF h[n - 1] \in Vars THEN val[h[n - 1]] ELSE h[n - 1]
  BY EndIsTheLastHop
<1>2. PICK g : /\ EndIn(w, val[s]) = g[C] /\ g[0] = val[s]
               /\ \A n \in 1 .. C : g[n] = IF g[n - 1] \in Vars THEN w[g[n - 1]] ELSE g[n - 1]
  BY EndIsTheLastHop
<1>3. C \in Nat
  BY VarsAreFinite
<1> HIDE DEF C
<1>4. ASSUME NEW n \in 0 .. C, h[n] \in Vars, h[n] = s PROVE FALSE
  <2> DEFINE S == {h[i] : i \in 0 .. n}
  <2>1. \A i \in 0 .. n : h[i] \in Vars
    <3> DEFINE N == {k \in Nat : k <= n => h[n - k] \in Vars}
    <3>1. 0 \in N
      BY <1>3, <1>4
    <3>2. ASSUME NEW k \in Nat, k \in N PROVE k + 1 \in N
      <4> SUFFICES ASSUME k + 1 <= n PROVE h[n - (k + 1)] \in Vars
        OBVIOUS
      <4> DEFINE m == n - k
      <4>1. m \in 1 .. C /\ n - (k + 1) = m - 1 /\ h[m] \in Vars
        BY <1>3, <1>4, <3>2
      <4> HIDE DEF m
      <4> QED
        BY <1>1, <4>1
    <3> HIDE DEF N
    <3>3. ASSUME NEW i \in 0 .. n PROVE h[i] \in Vars
      <4>1. n - i \in N /\ n - i <= n /\ n - (n - i) = i
        BY <1>3, <3>1, <3>2, NaturalInduction
      <4> QED
        BY <4>1 DEF N
    <3> QED
      BY <3>3
  <2>2. \A i \in 0 .. n : val[h[i]] \in S
    <3> TAKE i \in 0 .. n
    <3>1. CASE i = n
      BY <1>1, <1>3, <1>4, <3>1
    <3>2. CASE i # n
      <4>1. i + 1 \in 1 .. C /\ i + 1 \in 0 .. n /\ (i + 1) - 1 = i
        BY <1>3, <3>2
      <4>2. h[i + 1] = val[h[i]]
        BY <1>1, <2>1, <4>1
      <4> QED
        BY <4>1, <4>2
    <3> QED
      BY <3>1, <3>2
  <2>3. S # {} /\ S \in SUBSET Vars
    BY <1>3, <2>1
  <2> QED
    BY <2>2, <2>3 DEF Inv, Acyclic
<1> DEFINE N == {n \in Nat : n <= C => g[n] = h[n]}
<1>5. 0 \in N
  BY <1>1, <1>2
<1>6. ASSUME NEW n \in Nat, n \in N PROVE n + 1 \in N
  <2> SUFFICES ASSUME n + 1 <= C PROVE g[n + 1] = h[n + 1]
    OBVIOUS
  <2>1. n + 1 \in 1 .. C /\ n \in 0 .. C /\ (n + 1) - 1 = n /\ g[n] = h[n]
    BY <1>3, <1>6
  <2>2. h[n] \in Vars => w[h[n]] = val[h[n]]
    BY <1>4, <2>1
  <2>3. h[n + 1] = IF h[n] \in Vars THEN val[h[n]] ELSE h[n]
    BY <1>1, <2>1
  <2>4. g[n + 1] = IF g[n] \in Vars THEN w[g[n]] ELSE g[n]
    BY <1>2, <2>1
  <2> QED
    BY <2>1, <2>2, <2>3, <2>4
<1> HIDE DEF N
<1>7. C \in N
  BY <1>3, <1>5, <1>6, NaturalInduction
<1> QED
  BY <1>1, <1>2, <1>3, <1>7 DEF N

-----------------------------------------------------------------------------
(* Types                                                                    *)

TypeOK ==
  /\ frames \in Seq({"pending", "active"}) /\ Depth <= MaxDepth
  /\ Depth > 0 => frames[1] = "active"
  /\ val \in [Slots -> Value]
  /\ count \in [Objects -> Int]

LEMMA DepthType ==
  ASSUME TypeOK
  PROVE  /\ Depth \in Nat
         /\ frames \in Seq({"pending", "active"})
         /\ \A d \in 1 .. Depth : frames[d] \in {"pending", "active"}
  BY DEF TypeOK, Depth

LEMMA AssignType ==
  ASSUME TypeOK, NEW v, NEW x, Assign(v, x), frames' = frames, Inv'
  PROVE  TypeOK'
<1>1. \A y, o : Counts(y, o) \in Int
  BY DEF Counts
<1>2. count' \in [Objects -> Int]
  BY <1>1 DEF Assign, TypeOK
<1> QED
  BY <1>2 DEF TypeOK, Depth, Inv, Memory

LEMMA CountedType ==
  ASSUME NEW S, IsFiniteSet(S), NEW o
  PROVE  CountedAt(S, o) \in Int
<1> DEFINE T == {s \in S : EndIn(val, val[s]) = o}
<1>1. T \in SUBSET S
  OBVIOUS
<1> HIDE DEF T
<1>2. Cardinality(T) \in Nat
  BY <1>1, FS_Subset, FS_CardinalityType
<1> QED
  BY <1>2 DEF CountedAt, T

LEMMA FrameVarsAreFinite == \A d : IsFiniteSet(FrameVars(d))
<1>1. \A d : IsFiniteSet({d})
  BY FS_Singleton
<1> QED
  BY <1>1, FS_Union, FS_Product, ReferencesAssumption DEF FrameVars

LEMMA TypeKept == ASSUME TypeOK, Inv, [Next]_vars PROVE TypeOK'
<1>0. Inv'
  BY NextKeepsInv
<1>1. ASSUME NEW r \in Registers, NEW x \in Objects \union {Plain}, Load(r, x)
      PROVE  TypeOK'
  BY <1>0, <1>1, AssignType DEF Load
<1>2. ASSUME NEW r \in Registers, NEW q \in Registers,
             MovVar(r, q) \/ GetRefVar(r, q) \/ SetRefVar(r, q)
      PROVE  TypeOK'
  BY <1>0, <1>2, AssignType DEF MovVar, GetRefVar, SetRefVar
<1>3. ASSUME NEW r \in Registers, NEW v \in Vars,
             GetVar(r, v) \/ SetVar(r, v) \/ GetVarRef(r, v)
      PROVE  TypeOK'
  BY <1>0, <1>3, AssignType DEF GetVar, SetVar, GetVarRef
<1>4. ASSUME NEW a \in Args, NEW r \in Registers, SetCallArgVar(a, r)
      PROVE  TypeOK'
  BY <1>0, <1>4, AssignType DEF SetCallArgVar
<1>5. ASSUME NEW in \in Registers, NEW r \in Registers, Return(in, r)
      PROVE  TypeOK'
  <2>1. /\ frames' \in Seq({"pending", "active"}) /\ Len(frames') = Depth - 1
        /\ frames'[1] = frames[1]
    BY <1>5, DepthType DEF Return, TypeOK
  <2>2. \A o \in Objects : CountedAt(FrameVars(Depth), o) \in Int
    BY CountedType, FrameVarsAreFinite
  <2>3. \A y, o : Counts(y, o) \in Int
    BY DEF Counts
  <2>4. count' \in [Objects -> Int]
    BY <1>5, <2>2, <2>3 DEF Return, TypeOK
  <2>5. Depth' = Depth - 1 /\ Depth > 1
    BY <1>5, <2>1 DEF Depth, Return
  <2> QED
    BY <1>0, <2>1, <2>4, <2>5, DepthType, ReferencesAssumption DEF TypeOK, Inv, Memory
<1>6. ASSUME AllocArgs PROVE TypeOK'
  <2>1. /\ frames' \in Seq({"pending", "active"}) /\ Len(frames') = Depth + 1
        /\ frames'[1] = frames[1]
    BY <1>6, DepthType DEF AllocArgs, Depth
  <2>2. Depth' = Depth + 1 /\ Depth < MaxDepth /\ 0 < Depth
    BY <1>6, <2>1 DEF Depth, AllocArgs
  <2> QED
    BY <1>0, <1>6, <2>1, <2>2, DepthType, ReferencesAssumption DEF AllocArgs, TypeOK, Inv, Memory
<1>7. ASSUME Call PROVE TypeOK'
  <2>1. /\ frames' \in Seq({"pending", "active"}) /\ Len(frames') = Depth
        /\ \A d \in 1 .. Depth : frames'[d] = "active" \/ frames'[d] = frames[d]
    BY <1>7, DepthType DEF Call, Depth
  <2>2. Depth' = Depth /\ 0 < Depth
    BY <1>7, <2>1 DEF Depth, Call
  <2> QED
    BY <1>0, <1>7, <2>1, <2>2, DepthType DEF Call, TypeOK, Inv, Memory
<1>8. ASSUME Exit PROVE TypeOK'
  <2>1. \A o \in Objects : CountedAt(Registers, o) \in Int /\ CountedAt(FrameVars(1), o) \in Int
    BY CountedType, FrameVarsAreFinite, ReferencesAssumption
  <2>2. count' \in [Objects -> Int]
    BY <1>8, <2>1 DEF Exit, TypeOK
  <2>3. frames' = <<>> /\ Depth' = 0
    BY <1>8 DEF Exit, Depth
  <2> QED
    BY <1>0, <2>2, <2>3, ReferencesAssumption DEF TypeOK, Inv, Memory
<1>9. ASSUME UNCHANGED vars PROVE TypeOK'
  BY <1>9 DEF vars, TypeOK, Depth
<1> QED
  BY <1>1, <1>2, <1>3, <1>4, <1>5, <1>6, <1>7, <1>8, <1>9 DEF Next, Opcode, Stopped

LEMMA InitType == ASSUME Init PROVE TypeOK
<1>1. frames \in Seq({"pending", "active"}) /\ Len(frames) = 1 /\ frames[1] = "active"
  BY DEF Init
<1> QED
  BY <1>1, ReferencesAssumption DEF Init, TypeOK, Depth, Value

\* A step that writes at most slot v of the memory unlocks what it locked.
LEMMA OneWriteKeepsEnds ==
  ASSUME Inv, NEW v, NEW x, val' = [val EXCEPT ![v] = x],
         NEW s \in Slots, val'[s] # val[s]
  PROVE  EndIn(val', val[s]) = EndIn(val, val[s])
<1>1. \A t \in Slots : t # v => val'[t] = val[t]
  BY DEF Inv, Memory
<1>2. s = v
  BY <1>1
<1>3. \A t \in Vars \ {s} : val'[t] = val[t]
  BY <1>1, <1>2 DEF Slots
<1> QED
  BY <1>3, OverwriteKeepsEnd

\* Memory is cleared where no variable lives.
LEMMA ClearKeepsLive ==
  ASSUME TypeOK, AllocArgs \/ Call, NEW s \in LiveSlots
  PROVE  val'[s] = val[s]
<1>1. s \in Slots /\ (s \in LiveVars \/ s \notin Vars)
  BY ReferencesAssumption DEF LiveSlots, Slots, LiveVars
<1>2. CASE AllocArgs
  <2>1. s \notin {Depth + 1} \X Args
    <3> SUFFICES ASSUME s \in {Depth + 1} \X Args PROVE FALSE
      OBVIOUS
    <3>1. s \in Vars /\ s[1] = Depth + 1
      BY <1>2, DepthType, ReferencesAssumption DEF AllocArgs, Vars
    <3>2. s \notin LiveVars
      BY <3>1, DepthType DEF LiveVars
    <3> QED
      BY <1>1, <3>1, <3>2
  <2> QED
    BY <1>1, <1>2, <2>1 DEF AllocArgs
<1>3. CASE Call
  <2>1. s \notin {Depth} \X Locals
    <3> SUFFICES ASSUME s \in {Depth} \X Locals PROVE FALSE
      OBVIOUS
    <3>1. s[1] = Depth /\ s[2] \in Locals
      OBVIOUS
    <3>2. s \notin LiveVars
      BY <1>3, <3>1, ReferencesAssumption DEF LiveVars, Call
    <3>3. s \in Vars
      BY <1>3, <3>1, DepthType, ReferencesAssumption DEF TypeOK, Vars, Call
    <3> QED
      BY <1>1, <3>2, <3>3
  <2> QED
    BY <1>1, <1>3, <2>1 DEF Call
<1> QED
  BY <1>2, <1>3

\* Every step but clearing memory and the exit writes at most one slot.
LEMMA OpcodeWritesOnce ==
  ASSUME Opcode, ~AllocArgs, ~Call, ~Exit
  PROVE  \E v, x : val' = [val EXCEPT ![v] = x]
<1>1. ASSUME NEW v, NEW x, Assign(v, x) PROVE \E u, y : val' = [val EXCEPT ![u] = y]
  BY <1>1 DEF Assign
<1>2. ASSUME NEW r \in Registers, NEW x \in Objects \union {Plain}, Load(r, x)
      PROVE  \E v, y : val' = [val EXCEPT ![v] = y]
  BY <1>1, <1>2 DEF Load
<1>3. ASSUME NEW r \in Registers, NEW q \in Registers,
             MovVar(r, q) \/ GetRefVar(r, q) \/ SetRefVar(r, q)
      PROVE  \E v, x : val' = [val EXCEPT ![v] = x]
  BY <1>1, <1>3 DEF MovVar, GetRefVar, SetRefVar
<1>4. ASSUME NEW r \in Registers, NEW v \in Vars,
             GetVar(r, v) \/ SetVar(r, v) \/ GetVarRef(r, v)
      PROVE  \E u, x : val' = [val EXCEPT ![u] = x]
  BY <1>1, <1>4 DEF GetVar, SetVar, GetVarRef
<1>5. ASSUME NEW a \in Args, NEW r \in Registers, SetCallArgVar(a, r)
      PROVE  \E v, x : val' = [val EXCEPT ![v] = x]
  BY <1>1, <1>5 DEF SetCallArgVar
<1>6. ASSUME NEW in \in Registers, NEW r \in Registers, Return(in, r)
      PROVE  \E v, x : val' = [val EXCEPT ![v] = x]
  BY <1>6 DEF Return
<1> QED
  BY <1>2, <1>3, <1>4, <1>5, <1>6 DEF Opcode

\* Whatever chains there are and whatever is written, an assignment finds at
\* the end of the old value the object it found before it wrote: it unlocks
\* what it locked.
THEOREM AssignUnlocksWhatItLocked == Spec => UnlocksWhatItLocked
<1>1. ASSUME TypeOK, Inv, [Next]_vars, NEW s \in LiveSlots \cap LiveSlots',
             val'[s] # val[s], Depth' > 0
      PROVE  EndIn(val', val[s]) = EndIn(val, val[s])
  <2>1. s \in Slots
    BY DEF LiveSlots, LiveVars, Slots
  <2>2. Opcode
    BY <1>1 DEF Next, Stopped, vars
  <2>3. ~AllocArgs /\ ~Call
    BY <1>1, ClearKeepsLive
  <2>4. ~Exit
    BY <1>1 DEF Exit, Depth
  <2>5. PICK v, x : val' = [val EXCEPT ![v] = x]
    BY <2>2, <2>3, <2>4, OpcodeWritesOnce
  <2> QED
    BY <1>1, <2>1, <2>5, OneWriteKeepsEnds
<1>2. TypeOK /\ Inv /\ [Next]_vars =>
        [\A s \in LiveSlots \cap LiveSlots' :
           val'[s] # val[s] /\ Depth' > 0 =>
             EndIn(val', val[s]) = EndIn(val, val[s])]_vars
  BY <1>1
<1>3. Init => TypeOK /\ Inv
  BY InitType, InitEstablishesInv
<1>4. TypeOK /\ Inv /\ [Next]_vars => TypeOK' /\ Inv'
  BY TypeKept, NextKeepsInv
<1> QED
  BY <1>2, <1>3, <1>4, PTL DEF Spec, UnlocksWhatItLocked

-----------------------------------------------------------------------------
(* Which writes keep the ends of chains                                     *)

\* No chain in memory w is circular.
LoopFree(w) ==
  ~ \E S \in SUBSET Vars : S # {} /\ \A s \in S : w[s] \in S

\* A chain of references that is not circular leaves the variables: it would
\* meet more of them than there are.
LEMMA EndIsNoReference ==
  ASSUME NEW w, LoopFree(w), NEW x
  PROVE  EndIn(w, x) \notin Vars
<1> SUFFICES ASSUME EndIn(w, x) \in Vars PROVE FALSE
  OBVIOUS
<1> DEFINE C == Cardinality(Vars)
<1>1. PICK h : /\ EndIn(w, x) = h[C] /\ h[0] = x
               /\ \A n \in 1 .. C : h[n] = IF h[n - 1] \in Vars THEN w[h[n - 1]] ELSE h[n - 1]
  BY EndIsTheLastHop
<1>2. C \in Nat
  BY VarsAreFinite
<1> HIDE DEF C
<1>3. ASSUME NEW i \in 0 .. C PROVE h[i] \in Vars
  <2> DEFINE N == {k \in Nat : k <= C => h[C - k] \in Vars}
  <2>1. 0 \in N
    BY <1>1, <1>2
  <2>2. ASSUME NEW k \in Nat, k \in N PROVE k + 1 \in N
    <3> SUFFICES ASSUME k + 1 <= C PROVE h[C - (k + 1)] \in Vars
      OBVIOUS
    <3> DEFINE m == C - k
    <3>1. m \in 1 .. C /\ C - (k + 1) = m - 1 /\ h[m] \in Vars
      BY <1>2, <2>2
    <3> HIDE DEF m
    <3> QED
      BY <1>1, <3>1
  <2> HIDE DEF N
  <2>3. C - i \in N /\ C - i <= C /\ C - (C - i) = i
    BY <1>2, <2>1, <2>2, NaturalInduction
  <2> QED
    BY <2>3 DEF N
<1>4. \A n \in 1 .. C : h[n] = w[h[n - 1]]
  <2> TAKE n \in 1 .. C
  <2>1. n - 1 \in 0 .. C
    BY <1>2
  <2> QED
    BY <1>1, <1>3, <2>1
<1>5. ASSUME NEW i \in 0 .. C, NEW j \in 0 .. C, i < j, h[i] = h[j] PROVE FALSE
  <2> DEFINE S == {h[k] : k \in i .. (j - 1)}
  <2>1. ASSUME NEW k \in i .. (j - 1) PROVE w[h[k]] \in S
    <3>1. k + 1 \in 1 .. C /\ (k + 1) - 1 = k
      BY <1>2, <1>5, <2>1
    <3>2. w[h[k]] = h[k + 1]
      BY <1>4, <3>1
    <3>3. CASE k = j - 1
      <4>1. i \in i .. (j - 1) /\ k + 1 = j
        BY <1>5, <3>3
      <4> QED
        BY <1>5, <3>2, <4>1
    <3>4. CASE k # j - 1
      <4>1. k + 1 \in i .. (j - 1)
        BY <1>5, <2>1, <3>4
      <4> QED
        BY <3>2, <4>1
    <3> QED
      BY <3>3, <3>4
  <2>2. i \in i .. (j - 1) /\ \A k \in i .. (j - 1) : k \in 0 .. C
    BY <1>2, <1>5
  <2>3. S # {} /\ S \in SUBSET Vars
    BY <1>3, <2>2
  <2>4. \A s \in S : w[s] \in S
    BY <2>1
  <2> HIDE DEF S
  <2> QED
    BY <2>3, <2>4 DEF LoopFree
<1> DEFINE f == [i \in 0 .. C |-> h[i]]
<1>6. f \in Injection(0 .. C, Vars)
  <2>1. f \in [0 .. C -> Vars]
    BY <1>3
  <2>2. ASSUME NEW i \in 0 .. C, NEW j \in 0 .. C, f[i] = f[j] PROVE i = j
    <3>1. h[i] = h[j]
      BY <2>2
    <3>2. i < j \/ j < i \/ i = j
      BY <1>2
    <3> QED
      BY <1>5, <3>1, <3>2
  <2> HIDE DEF f
  <2> QED
    BY <2>1, <2>2 DEF Injection, IsInjective
<1> HIDE DEF f
<1>7. IsFiniteSet(0 .. C) /\ Cardinality(0 .. C) = C + 1
  <2>1. 0 \in Int /\ C \in Int /\ ~(0 > C)
    BY <1>2
  <2>2. Cardinality(0 .. C) = C - 0 + 1
    BY <2>1, FS_Interval, Zenon
  <2> QED
    BY <1>2, <2>1, <2>2, FS_Interval
<1>8. Cardinality(0 .. C) <= Cardinality(Vars)
  BY <1>6, VarsAreFinite, FS_Injection
<1> QED
  BY <1>2, <1>7, <1>8 DEF C

\* A value that is no reference is the end of its chain.
LEMMA EndOfNoReference ==
  ASSUME NEW w, NEW x, x \notin Vars
  PROVE  EndIn(w, x) = x
<1>1. EndIn(w, x) \in {x}
  BY EndIsIn
<1> QED
  BY <1>1

\* The chain that starts one hop later ends where the chain itself does.
LEMMA EndOfNextHop ==
  ASSUME NEW w, LoopFree(w), NEW x \in Vars
  PROVE  EndIn(w, w[x]) = EndIn(w, x)
<1> DEFINE C == Cardinality(Vars)
<1>1. PICK h : /\ EndIn(w, x) = h[C] /\ h[0] = x
               /\ \A n \in 1 .. C : h[n] = IF h[n - 1] \in Vars THEN w[h[n - 1]] ELSE h[n - 1]
  BY EndIsTheLastHop
<1>2. PICK g : /\ EndIn(w, w[x]) = g[C] /\ g[0] = w[x]
               /\ \A n \in 1 .. C : g[n] = IF g[n - 1] \in Vars THEN w[g[n - 1]] ELSE g[n - 1]
  BY EndIsTheLastHop
<1>3. C \in Nat
  BY VarsAreFinite
<1>4. EndIn(w, x) \notin Vars
  BY EndIsNoReference
<1> HIDE DEF C
<1>5. C # 0
  BY <1>1, <1>4
<1> DEFINE N == {n \in Nat : n + 1 <= C => g[n] = h[n + 1]}
<1>6. 0 \in N
  <2> SUFFICES ASSUME 1 <= C PROVE g[0] = h[1]
    OBVIOUS
  <2>1. 1 \in 1 .. C /\ 1 - 1 = 0
    BY <1>3
  <2> QED
    BY <1>1, <1>2, <2>1
<1>7. ASSUME NEW n \in Nat, n \in N PROVE n + 1 \in N
  <2> SUFFICES ASSUME (n + 1) + 1 <= C PROVE g[n + 1] = h[(n + 1) + 1]
    OBVIOUS
  <2> DEFINE m == n + 1
  <2>1. m \in 1 .. C /\ m + 1 \in 1 .. C /\ m - 1 = n /\ (m + 1) - 1 = m /\ g[n] = h[m]
    BY <1>3, <1>7
  <2> HIDE DEF m
  <2>2. g[m] = IF g[n] \in Vars THEN w[g[n]] ELSE g[n]
    BY <1>2, <2>1
  <2>3. h[m + 1] = IF h[m] \in Vars THEN w[h[m]] ELSE h[m]
    BY <1>1, <2>1
  <2>4. g[m] = h[m + 1]
    BY <2>1, <2>2, <2>3
  <2> QED
    BY <2>4 DEF m
<1> HIDE DEF N
<1>8. C - 1 \in N
  BY <1>3, <1>5, <1>6, <1>7, NaturalInduction
<1>9. g[C - 1] = h[C]
  <2>1. C - 1 \in Nat /\ (C - 1) + 1 = C
    BY <1>3, <1>5
  <2> QED
    BY <1>8, <2>1 DEF N
<1>10. C \in 1 .. C
  BY <1>3, <1>5
<1>11. g[C] = g[C - 1]
  BY <1>1, <1>2, <1>4, <1>9, <1>10
<1> QED
  BY <1>1, <1>2, <1>9, <1>11

\* In memory u the values in S start chains that stay in S, and each hop leads
\* to a value that had the same end in memory w.
KeepsEnds(w, u, S) ==
  \A y \in S \cap Vars : u[y] \in S /\ EndIn(w, u[y]) = EndIn(w, y)

\* Such values have the ends in u that they had in w.
LEMMA EndsKept ==
  ASSUME NEW w, NEW u, LoopFree(u), NEW S, KeepsEnds(w, u, S), NEW x \in S
  PROVE  EndIn(u, x) = EndIn(w, x)
<1> DEFINE T == {y \in S : EndIn(w, y) = EndIn(w, x)}
<1>1. x \in T /\ \A y \in T : y \in Vars => u[y] \in T
  BY DEF KeepsEnds
<1> HIDE DEF T
<1>2. EndIn(u, x) \in T
  BY <1>1, EndIsIn
<1>3. EndIn(u, x) \notin Vars
  BY EndIsNoReference
<1>4. EndIn(w, EndIn(u, x)) = EndIn(u, x)
  BY <1>3, EndOfNoReference
<1> QED
  BY <1>2, <1>4 DEF T

-----------------------------------------------------------------------------
(* Counts                                                                   *)

\* Where the chain of each slot ends.
Ends(w) == [s \in Slots |-> EndIn(w, w[s])]

Holders(e, S, o) == {s \in S : e[s] = o}

\* How many of the slots S hold object o, directly or at the end of a chain.
Held(w, S, o) == Cardinality(Holders(Ends(w), S, o))

\* Counts stay exact: a chain that is not moved from under its start ends at
\* its release where it ended when it was counted.
CInv ==
  /\ TypeOK
  /\ ~moved => \A o \in Objects : count[o] = Held(val, LiveSlots, o)

LEMMA LiveSlotsAreFinite == LiveSlots \subseteq Slots /\ IsFiniteSet(LiveSlots)
<1>1. LiveVars \subseteq Vars
  BY DEF LiveVars
<1>2. IsFiniteSet(LiveVars)
  BY <1>1, VarsAreFinite, FS_Subset
<1> QED
  BY <1>1, <1>2, FS_Union, ReferencesAssumption DEF LiveSlots, Slots

\* Where only the end of slot v changes, there is one holder more of the new
\* end, and one less of the old.
LEMMA HoldersChange ==
  ASSUME NEW S, IsFiniteSet(S), NEW v \in S, NEW w, NEW u,
         \A s \in S \ {v} : u[s] = w[s], NEW o
  PROVE  /\ Cardinality(Holders(w, S, o)) \in Nat
         /\ Cardinality(Holders(u, S, o)) = Cardinality(Holders(w, S, o))
              + (IF u[v] = o THEN 1 ELSE 0) - (IF w[v] = o THEN 1 ELSE 0)
<1> DEFINE T == {s \in S \ {v} : w[s] = o}
           c == Cardinality(T)
<1>1. IsFiniteSet(T) /\ c \in Nat
  <2>1. T \in SUBSET S
    OBVIOUS
  <2>2. IsFiniteSet(T)
    <3> HIDE DEF T
    <3> QED
      BY <2>1, FS_Subset
  <2> QED
    BY <2>2, FS_CardinalityType
<1>2. Holders(w, S, o) = IF w[v] = o THEN T \union {v} ELSE T
  BY DEF Holders
<1>3. Holders(u, S, o) = IF u[v] = o THEN T \union {v} ELSE T
  BY DEF Holders
<1>4. v \notin T
  OBVIOUS
<1> HIDE DEF T
<1>5. Cardinality(T \union {v}) = c + 1
  BY <1>1, <1>4, FS_AddElement
<1>6. Cardinality(Holders(w, S, o)) = IF w[v] = o THEN c + 1 ELSE c
  BY <1>2, <1>5
<1>7. Cardinality(Holders(u, S, o)) = IF u[v] = o THEN c + 1 ELSE c
  BY <1>3, <1>5
<1> HIDE DEF c
<1> QED
  BY <1>1, <1>6, <1>7

LEMMA HeldChange ==
  ASSUME NEW S \in SUBSET Slots, IsFiniteSet(S), NEW v \in S, NEW w, NEW u,
         \A s \in S \ {v} : EndIn(u, u[s]) = EndIn(w, w[s]), NEW o
  PROVE  /\ Held(w, S, o) \in Nat
         /\ Held(u, S, o) = Held(w, S, o) + (IF EndIn(u, u[v]) = o THEN 1 ELSE 0)
                                          - (IF EndIn(w, w[v]) = o THEN 1 ELSE 0)
<1>1. /\ Ends(w)[v] = EndIn(w, w[v]) /\ Ends(u)[v] = EndIn(u, u[v])
      /\ \A s \in S \ {v} : Ends(u)[s] = Ends(w)[s]
  BY DEF Ends
<1>2. /\ Cardinality(Holders(Ends(w), S, o)) \in Nat
      /\ Cardinality(Holders(Ends(u), S, o)) = Cardinality(Holders(Ends(w), S, o))
           + (IF Ends(u)[v] = o THEN 1 ELSE 0) - (IF Ends(w)[v] = o THEN 1 ELSE 0)
  BY <1>1, HoldersChange
<1> QED
  BY <1>1, <1>2 DEF Held

\* Slots that hold the same values, with the same ends, hold the same objects.
LEMMA HeldSame ==
  ASSUME NEW S \in SUBSET Slots, NEW w, NEW u,
         \A s \in S : EndIn(u, u[s]) = EndIn(w, w[s]), NEW o
  PROVE  Held(u, S, o) = Held(w, S, o)
<1>1. Holders(Ends(u), S, o) = Holders(Ends(w), S, o)
  BY DEF Holders, Ends
<1> QED
  BY <1>1 DEF Held

\* What the code discounts at the slots S is what they hold.
LEMMA CountedAtHeld ==
  ASSUME NEW S \in SUBSET Slots, NEW o
  PROVE  CountedAt(S, o) = Held(val, S, o)
<1>1. {s \in S : EndIn(val, val[s]) = o} = Holders(Ends(val), S, o)
  BY DEF Holders, Ends
<1> QED
  BY <1>1 DEF CountedAt, Held

LEMMA AcyclicIsLoopFree == ASSUME Inv, Inv' PROVE LoopFree(val) /\ LoopFree(val')
  BY DEF Inv, Acyclic, LoopFree

\* A write to v that moves no end from under a reference keeps every end: no
\* live chain passes v, or the end of v is what it was.
LEMMA AssignKeepsEnds ==
  ASSUME TypeOK, TypeOK', Inv, Inv', NoWildReference, NEW v \in LiveSlots,
         NEW x \in Value, x \in Vars => x \in LiveVars /\ x # v, ~MovesEnd(v, x),
         val' = [val EXCEPT ![v] = x]
  PROVE  /\ EndIn(val', x) = EndIn(val, x)
         /\ \A s \in LiveSlots \ {v} : EndIn(val', val[s]) = EndIn(val, val[s])
<1>1. LoopFree(val) /\ LoopFree(val')
  BY AcyclicIsLoopFree
<1>2. /\ \A s \in LiveSlots : s \in Slots /\ val[s] \in Value
      /\ \A s \in LiveSlots : val[s] \in Vars => val[s] \in LiveVars
      /\ \A y \in Vars : y \in Slots /\ val[y] \in Value /\ val'[y] \in Value
      /\ \A y \in LiveVars : y \in LiveSlots /\ y \in Vars
      /\ v \in Slots
  <2>1. val \in [Slots -> Value] /\ val' \in [Slots -> Value]
    BY DEF TypeOK
  <2>2. LiveSlots \subseteq Slots /\ Vars \subseteq Slots
    BY LiveSlotsAreFinite DEF Slots
  <2>3. \A y \in LiveVars : y \in LiveSlots /\ y \in Vars
    BY DEF LiveSlots, LiveVars
  <2> QED
    BY <2>1, <2>2, <2>3 DEF NoWildReference, PointsToLive
<1>3. val'[v] = x /\ \A y \in Vars : y # v => val'[y] = val[y]
  BY <1>2 DEF TypeOK
<1>4. CASE Referenced(v)
  <2>1. EndIn(val, x) = EndIn(val, val[v])
    BY <1>4 DEF MovesEnd
  <2>2. KeepsEnds(val, val', Value)
    <3> SUFFICES ASSUME NEW y \in Vars
                 PROVE  val'[y] \in Value /\ EndIn(val, val'[y]) = EndIn(val, y)
      BY DEF KeepsEnds
    <3>1. EndIn(val, val[y]) = EndIn(val, y)
      BY <1>1, EndOfNextHop
    <3>2. CASE y = v
      BY <1>2, <1>3, <2>1, <3>1, <3>2
    <3>3. CASE y # v
      BY <1>2, <1>3, <3>1, <3>3
    <3> QED
      BY <3>2, <3>3
  <2>3. \A y \in Value : EndIn(val', y) = EndIn(val, y)
    BY <1>1, <2>2, EndsKept
  <2> QED
    BY <1>2, <2>3
<1>5. CASE ~Referenced(v)
  <2> DEFINE S == {y \in Value : y \in Vars => y \in LiveVars /\ y # v}
  <2>1. x \in S /\ \A s \in LiveSlots : val[s] \in S
    BY <1>2, <1>5 DEF Referenced
  <2>2. \A y \in S \cap Vars : val'[y] = val[y] /\ y \in LiveSlots
    BY <1>2, <1>3
  <2>3. \A y \in S \cap Vars : val'[y] \in S /\ EndIn(val, val'[y]) = EndIn(val, y)
    <3> TAKE y \in S \cap Vars
    <3>1. EndIn(val, val[y]) = EndIn(val, y)
      BY <1>1, EndOfNextHop
    <3> HIDE DEF S
    <3> QED
      BY <2>1, <2>2, <3>1
  <2> HIDE DEF S
  <2>4. KeepsEnds(val, val', S)
    BY <2>3 DEF KeepsEnds
  <2>5. \A y \in S : EndIn(val', y) = EndIn(val, y)
    BY <1>1, <2>4, EndsKept
  <2> QED
    BY <2>1, <2>5
<1> QED
  BY <1>4, <1>5

LEMMA LiveSlotsStay ==
  ASSUME frames' = frames
  PROVE  LiveSlots' = LiveSlots /\ LiveVars' = LiveVars
  BY DEF LiveSlots, LiveVars, Depth

LEMMA AssignKeepsCounts ==
  ASSUME CInv, Inv, Inv', NoWildReference, TypeOK', NEW v \in LiveSlots,
         NEW x \in Value, x \in Vars => x \in LiveVars,
         Assign(v, x), frames' = frames
  PROVE  CInv'
<1> SUFFICES ASSUME ~moved', NEW o \in Objects
             PROVE  count'[o] = Held(val', LiveSlots', o)
  BY DEF CInv
<1> DEFINE new == IF Circular(v, x) THEN Plain ELSE x
<1>1. /\ val' = [val EXCEPT ![v] = new]
      /\ ~moved /\ ~MovesEnd(v, new)
      /\ count'[o] = count[o] + Counts(new, o) - Counts(val[v], o)
  BY DEF Assign
<1>2. new \in Value /\ (new \in Vars => new \in LiveVars /\ new # v)
  BY ReferencesAssumption DEF Circular, Value
<1> HIDE DEF new
<1>3. TypeOK /\ count[o] \in Int /\ count[o] = Held(val, LiveSlots, o)
  BY <1>1 DEF CInv, TypeOK
<1>4. LiveSlots' = LiveSlots /\ LiveSlots \in SUBSET Slots /\ IsFiniteSet(LiveSlots)
  BY LiveSlotsStay, LiveSlotsAreFinite
<1>5. val'[v] = new /\ \A s \in LiveSlots \ {v} : val'[s] = val[s]
  BY <1>1, <1>3, <1>4 DEF TypeOK
<1>6. /\ EndIn(val', new) = EndIn(val, new)
      /\ \A s \in LiveSlots \ {v} : EndIn(val', val[s]) = EndIn(val, val[s])
  BY <1>1, <1>2, <1>3, AssignKeepsEnds
<1>7. \A s \in LiveSlots \ {v} : EndIn(val', val'[s]) = EndIn(val, val[s])
  BY <1>5, <1>6
<1>8. /\ Held(val, LiveSlots, o) \in Nat
      /\ Held(val', LiveSlots, o) = Held(val, LiveSlots, o)
           + (IF EndIn(val', val'[v]) = o THEN 1 ELSE 0) - (IF EndIn(val, val[v]) = o THEN 1 ELSE 0)
  BY <1>4, <1>7, HeldChange
<1>9. EndIn(val', val'[v]) = EndIn(val, new)
  BY <1>5, <1>6
<1>10. count'[o] = count[o] + (IF EndIn(val, new) = o THEN 1 ELSE 0)
                            - (IF EndIn(val, val[v]) = o THEN 1 ELSE 0)
  BY <1>1 DEF Counts
<1>11. Held(val', LiveSlots, o) = Held(val, LiveSlots, o)
         + (IF EndIn(val, new) = o THEN 1 ELSE 0) - (IF EndIn(val, val[v]) = o THEN 1 ELSE 0)
  BY <1>8, <1>9
<1> QED
  BY <1>3, <1>4, <1>10, <1>11

\* Frames that are pushed or called have cleared variables: no reference leads
\* to them yet, and they hold nothing.
LEMMA ClearKeepsCounts ==
  ASSUME CInv, Inv, Inv', NoWildReference, TypeOK', AllocArgs \/ Call
  PROVE  CInv'
<1> SUFFICES ASSUME ~moved', NEW o \in Objects
             PROVE  count'[o] = Held(val', LiveSlots', o)
  BY DEF CInv
<1>1. ~moved /\ count' = count
  BY DEF AllocArgs, Call
<1>2. TypeOK /\ count[o] = Held(val, LiveSlots, o)
  BY <1>1 DEF CInv
<1>3. \A s \in LiveSlots : val'[s] = val[s]
  BY <1>2, ClearKeepsLive
<1>4. LiveSlots \subseteq LiveSlots' /\ LiveSlots' \subseteq Slots
      /\ \A s \in LiveSlots' \ LiveSlots : val'[s] = Plain
  <2>1. CASE AllocArgs
    <3>1. /\ Depth' = Depth + 1 /\ Depth \in Nat
          /\ \A d \in 1 .. Depth : frames'[d] = frames[d]
          /\ frames'[Depth + 1] = "pending"
      BY <1>2, <2>1, DepthType DEF AllocArgs, Depth
    <3>2. ASSUME NEW s \in Vars
          PROVE  s \in LiveVars' <=> s \in LiveVars \/ s \in {Depth + 1} \X Args
      <4>1. s[1] \in Nat /\ s[1] > 0 /\ s = <<s[1], s[2]>>
        BY ReferencesAssumption DEF Vars
      <4> QED
        BY <3>1, <4>1 DEF LiveVars
    <3>3. LiveVars \subseteq Vars /\ LiveVars' \subseteq Vars
      BY DEF LiveVars
    <3>4. \A s \in Vars : s \in {Depth + 1} \X Args => val'[s] = Plain
      BY <2>1 DEF AllocArgs, Slots
    <3> QED
      BY <3>2, <3>3, <3>4 DEF LiveSlots, Slots
  <2>2. CASE Call
    <3>1. /\ Depth' = Depth /\ Depth \in Nat /\ Depth > 0 /\ frames[Depth] = "pending"
          /\ \A d \in 1 .. Depth - 1 : frames'[d] = frames[d]
          /\ frames'[Depth] = "active"
      BY <1>2, <2>2, DepthType DEF Call, Depth
    <3>2. ASSUME NEW s \in Vars
          PROVE  s \in LiveVars' <=> s \in LiveVars \/ s \in {Depth} \X Locals
      <4>1. s[1] \in Nat /\ s[1] > 0 /\ s[2] \in Args \union Locals /\ s = <<s[1], s[2]>>
        BY ReferencesAssumption DEF Vars
      <4>2. CASE s[1] = Depth
        BY <3>1, <4>1, <4>2, ReferencesAssumption DEF LiveVars
      <4>3. CASE s[1] # Depth
        BY <3>1, <4>1, <4>3 DEF LiveVars
      <4> QED
        BY <4>2, <4>3
    <3>3. LiveVars \subseteq Vars /\ LiveVars' \subseteq Vars
      BY DEF LiveVars
    <3>4. \A s \in Vars : s \in {Depth} \X Locals => val'[s] = Plain
      BY <2>2 DEF Call, Slots
    <3> QED
      BY <3>2, <3>3, <3>4 DEF LiveSlots, Slots
  <2> QED
    BY <2>1, <2>2
<1>5. LoopFree(val) /\ LoopFree(val')
  BY AcyclicIsLoopFree
<1>6. \A s \in LiveSlots : EndIn(val', val'[s]) = EndIn(val, val[s])
  <2> DEFINE S == {y \in Value : y \in Vars => y \in LiveVars}
  <2>1. \A s \in LiveSlots : val[s] \in S
    BY <1>2, LiveSlotsAreFinite DEF TypeOK, NoWildReference, PointsToLive
  <2>2. \A y \in S \cap Vars : y \in LiveSlots
    BY DEF LiveSlots
  <2>3. \A y \in S \cap Vars : val'[y] \in S /\ EndIn(val, val'[y]) = EndIn(val, y)
    <3> TAKE y \in S \cap Vars
    <3>1. EndIn(val, val[y]) = EndIn(val, y)
      BY <1>5, EndOfNextHop
    <3> HIDE DEF S
    <3> QED
      BY <1>3, <2>1, <2>2, <3>1
  <2> HIDE DEF S
  <2>4. KeepsEnds(val, val', S)
    BY <2>3 DEF KeepsEnds
  <2>5. \A y \in S : EndIn(val', y) = EndIn(val, y)
    BY <1>5, <2>4, EndsKept
  <2> QED
    BY <1>3, <2>1, <2>5
<1>7. Holders(Ends(val'), LiveSlots', o) = Holders(Ends(val), LiveSlots, o)
  <2>1. \A s \in LiveSlots' \ LiveSlots : Ends(val')[s] = Plain
    <3>1. EndIn(val', Plain) = Plain
      BY EndOfNoReference, ReferencesAssumption
    <3> QED
      BY <1>4, <3>1 DEF Ends
  <2>2. \A s \in LiveSlots : Ends(val')[s] = Ends(val)[s]
    BY <1>6, LiveSlotsAreFinite DEF Ends
  <2>3. Plain # o
    BY ReferencesAssumption
  <2> QED
    BY <1>4, <2>1, <2>2, <2>3 DEF Holders
<1> QED
  BY <1>1, <1>2, <1>7 DEF Held

Split(S, T, L) == S \union T = L /\ S \cap T = {}

LEMMA HoldersSplit ==
  ASSUME NEW w, NEW S, NEW T, NEW L, IsFiniteSet(L), Split(S, T, L), NEW o
  PROVE  /\ Cardinality(Holders(w, S, o)) \in Nat /\ Cardinality(Holders(w, T, o)) \in Nat
         /\ Cardinality(Holders(w, L, o))
              = Cardinality(Holders(w, S, o)) + Cardinality(Holders(w, T, o))
<1>1. IsFiniteSet(S) /\ IsFiniteSet(T)
  BY FS_Subset DEF Split
<1>2. /\ Holders(w, S, o) \in SUBSET S /\ Holders(w, T, o) \in SUBSET T
      /\ Holders(w, L, o) = Holders(w, S, o) \union Holders(w, T, o)
      /\ Holders(w, S, o) \cap Holders(w, T, o) = {}
  BY DEF Holders, Split
<1>3. IsFiniteSet(Holders(w, S, o)) /\ IsFiniteSet(Holders(w, T, o))
  BY <1>1, <1>2, FS_Subset
<1>4. Cardinality(Holders(w, S, o)) \in Nat /\ Cardinality(Holders(w, T, o)) \in Nat
  BY <1>3, FS_CardinalityType
<1>5. Cardinality(Holders(w, S, o) \cap Holders(w, T, o)) = 0
  BY <1>2, FS_EmptySet
<1>6. Cardinality(Holders(w, S, o) \union Holders(w, T, o))
        = Cardinality(Holders(w, S, o)) + Cardinality(Holders(w, T, o))
            - Cardinality(Holders(w, S, o) \cap Holders(w, T, o))
  BY <1>3, FS_Union
<1> QED
  BY <1>2, <1>4, <1>5, <1>6

LEMMA HeldSplit ==
  ASSUME NEW w, NEW S, NEW T, NEW L, IsFiniteSet(L), Split(S, T, L), NEW o
  PROVE  /\ Held(w, S, o) \in Nat /\ Held(w, T, o) \in Nat
         /\ Held(w, L, o) = Held(w, S, o) + Held(w, T, o)
  BY HoldersSplit DEF Held

\* A call that returns writes a register, which no reference leads to, and
\* discounts the slots that die with the frame.
LEMMA ReturnKeepsCounts ==
  ASSUME CInv, Inv, Inv', TypeOK', NEW in \in Registers, NEW r \in Registers, Return(in, r)
  PROVE  CInv'
<1> SUFFICES ASSUME ~moved', NEW o \in Objects
             PROVE  count'[o] = Held(val', LiveSlots', o)
  BY DEF CInv
<1> DEFINE x == ReturnValue(in)
<1>1. /\ val' = [val EXCEPT ![r] = x] /\ ~moved
      /\ count'[o] = count[o] + Counts(x, o) - Counts(val[r], o)
                              - CountedAt(FrameVars(Depth), o)
  BY DEF Return, CInv, TypeOK
<1>2. TypeOK /\ count[o] \in Int /\ count[o] = Held(val, LiveSlots, o)
  BY <1>1 DEF CInv, TypeOK
<1>3. x \in Value /\ x \notin Vars
  BY <1>2, ReferencesAssumption DEF ReturnValue, TypeOK, Slots, Value
<1> HIDE DEF x
<1>4. /\ LiveSlots' \union FrameVars(Depth) = LiveSlots /\ LiveSlots' \cap FrameVars(Depth) = {}
      /\ r \in LiveSlots' /\ r \notin Vars
  <2>1. /\ Depth' = Depth - 1 /\ Depth \in Nat /\ Depth > 1 /\ Depth <= MaxDepth
        /\ frames[Depth] = "active"
        /\ \A d \in 1 .. Depth - 1 : frames'[d] = frames[d]
    BY <1>2, DepthType DEF Return, Depth, TypeOK
  <2>2. FrameVars(Depth) \subseteq Vars
    BY <2>1, ReferencesAssumption DEF FrameVars, Vars
  <2>3. ASSUME NEW s \in Vars
        PROVE  /\ s \in FrameVars(Depth) <=> s[1] = Depth
               /\ s \in LiveVars <=> s \in LiveVars' \/ s[1] = Depth
               /\ ~(s \in LiveVars' /\ s[1] = Depth)
    <3>1. s[1] \in Nat /\ s[1] > 0 /\ s[2] \in Args \union Locals /\ s = <<s[1], s[2]>>
      BY ReferencesAssumption DEF Vars
    <3> QED
      BY <2>1, <3>1 DEF LiveVars, FrameVars
  <2>4. LiveVars \subseteq Vars /\ LiveVars' \subseteq Vars
    BY DEF LiveVars
  <2> QED
    BY <2>2, <2>3, <2>4, ReferencesAssumption DEF LiveSlots
<1>5. LiveSlots \subseteq Slots /\ IsFiniteSet(LiveSlots)
      /\ LiveSlots' \subseteq LiveSlots /\ FrameVars(Depth) \subseteq LiveSlots
  BY <1>4, LiveSlotsAreFinite
<1>6. IsFiniteSet(LiveSlots')
  BY <1>5, FS_Subset
<1>7. LoopFree(val) /\ LoopFree(val')
  BY AcyclicIsLoopFree
<1>8. \A y \in Value : EndIn(val', y) = EndIn(val, y)
  <2>1. \A y \in Vars : val'[y] = val[y] /\ val[y] \in Value
    BY <1>1, <1>2, <1>4 DEF TypeOK, Slots
  <2>2. \A y \in Vars : EndIn(val, val[y]) = EndIn(val, y)
    BY <1>7, EndOfNextHop
  <2>3. KeepsEnds(val, val', Value)
    BY <2>1, <2>2 DEF KeepsEnds
  <2> QED
    BY <1>7, <2>3, EndsKept
<1>9. val'[r] = x /\ \A s \in LiveSlots' \ {r} : val'[s] = val[s] /\ val[s] \in Value
  BY <1>1, <1>2, <1>4, <1>5 DEF TypeOK
<1>10. /\ EndIn(val', val'[r]) = EndIn(val, x)
       /\ \A s \in LiveSlots' \ {r} : EndIn(val', val'[s]) = EndIn(val, val[s])
  BY <1>3, <1>8, <1>9
<1>11. LiveSlots' \in SUBSET Slots /\ FrameVars(Depth) \in SUBSET Slots
  BY <1>5
<1>12. /\ Held(val, LiveSlots', o) \in Nat
       /\ Held(val', LiveSlots', o) = Held(val, LiveSlots', o)
            + (IF EndIn(val', val'[r]) = o THEN 1 ELSE 0) - (IF EndIn(val, val[r]) = o THEN 1 ELSE 0)
  <2> DEFINE L == LiveSlots'
  <2>1. L \in SUBSET Slots /\ IsFiniteSet(L) /\ r \in L
    BY <1>4, <1>6, <1>11
  <2>2. \A s \in L \ {r} : EndIn(val', val'[s]) = EndIn(val, val[s])
    BY <1>10
  <2> HIDE DEF L
  <2>3. /\ Held(val, L, o) \in Nat
        /\ Held(val', L, o) = Held(val, L, o)
             + (IF EndIn(val', val'[r]) = o THEN 1 ELSE 0) - (IF EndIn(val, val[r]) = o THEN 1 ELSE 0)
    BY <2>1, <2>2, HeldChange
  <2> QED
    BY <2>3 DEF L
<1>13. /\ Held(val, FrameVars(Depth), o) \in Nat
       /\ Held(val, LiveSlots, o) = Held(val, LiveSlots', o) + Held(val, FrameVars(Depth), o)
  <2>1. IsFiniteSet(LiveSlots) /\ Split(LiveSlots', FrameVars(Depth), LiveSlots)
    BY <1>4, <1>5 DEF Split
  <2> QED
    BY <2>1, HeldSplit
<1>14. CountedAt(FrameVars(Depth), o) = Held(val, FrameVars(Depth), o)
  BY <1>11, CountedAtHeld
<1>15. /\ Counts(x, o) = IF EndIn(val', val'[r]) = o THEN 1 ELSE 0
       /\ Counts(val[r], o) = IF EndIn(val, val[r]) = o THEN 1 ELSE 0
  BY <1>10 DEF Counts
<1> QED
  BY <1>1, <1>2, <1>12, <1>13, <1>14, <1>15

LEMMA ExitKeepsCounts ==
  ASSUME CInv, TypeOK', Exit
  PROVE  CInv'
<1> SUFFICES ASSUME ~moved', NEW o \in Objects
             PROVE  count'[o] = Held(val', LiveSlots', o)
  BY DEF CInv
<1>1. TypeOK /\ count[o] \in Int /\ count[o] = Held(val, LiveSlots, o)
  BY DEF CInv, TypeOK, Exit
<1>2. /\ Registers \union FrameVars(1) = LiveSlots /\ Registers \cap FrameVars(1) = {}
      /\ LiveSlots' = Registers
  <2>1. Depth = 1 /\ frames[1] = "active" /\ Depth' = 0
    BY <1>1 DEF Exit, Depth, TypeOK
  <2>2. FrameVars(1) \subseteq Vars
    BY ReferencesAssumption DEF FrameVars, Vars
  <2>3. LiveVars' = {}
    BY <2>1, ReferencesAssumption DEF LiveVars, Vars
  <2>4. ASSUME NEW s \in Vars PROVE s \in LiveVars <=> s \in FrameVars(1)
    <3>1. s[1] \in Nat /\ s[1] > 0 /\ s[2] \in Args \union Locals /\ s = <<s[1], s[2]>>
      BY ReferencesAssumption DEF Vars
    <3> QED
      BY <2>1, <3>1 DEF LiveVars, FrameVars
  <2>5. LiveVars \subseteq Vars
    BY DEF LiveVars
  <2> QED
    BY <2>2, <2>3, <2>4, <2>5, ReferencesAssumption DEF LiveSlots
<1>3. \A s \in Slots : val'[s] = Plain
  BY DEF Exit
<1>4. Held(val', LiveSlots', o) = 0
  <2>1. EndIn(val', Plain) = Plain /\ Plain # o
    BY EndOfNoReference, ReferencesAssumption
  <2>2. \A s \in Registers : Ends(val')[s] = Plain
    BY <1>3, <2>1 DEF Ends, Slots
  <2>3. Holders(Ends(val'), LiveSlots', o) = {}
    BY <1>2, <2>1, <2>2 DEF Holders
  <2> QED
    BY <2>3, FS_EmptySet DEF Held
<1>5. LiveSlots \subseteq Slots /\ IsFiniteSet(LiveSlots)
  BY LiveSlotsAreFinite
<1>6. /\ Held(val, Registers, o) \in Nat /\ Held(val, FrameVars(1), o) \in Nat
      /\ Held(val, LiveSlots, o) = Held(val, Registers, o) + Held(val, FrameVars(1), o)
  <2>1. Split(Registers, FrameVars(1), LiveSlots)
    BY <1>2 DEF Split
  <2> QED
    BY <1>5, <2>1, HeldSplit
<1>7. /\ CountedAt(Registers, o) = Held(val, Registers, o)
      /\ CountedAt(FrameVars(1), o) = Held(val, FrameVars(1), o)
  <2>1. Registers \in SUBSET Slots /\ FrameVars(1) \in SUBSET Slots
    BY <1>2, <1>5
  <2> QED
    BY <2>1, CountedAtHeld
<1>8. count'[o] = count[o] - CountedAt(Registers, o) - CountedAt(FrameVars(1), o)
  BY DEF Exit
<1> QED
  BY <1>1, <1>4, <1>6, <1>7, <1>8

LEMMA NextKeepsCounts == ASSUME CInv, Inv, [Next]_vars PROVE CInv'
<1>0. TypeOK /\ TypeOK' /\ Inv'
  BY TypeKept, NextKeepsInv DEF CInv
<1>1. \A s \in LiveSlots : /\ s \in Slots /\ val[s] \in Value
                           /\ NoWildReference /\ val[s] \in Vars => val[s] \in LiveVars
  BY <1>0, LiveSlotsAreFinite DEF TypeOK, NoWildReference, PointsToLive
<1>2. /\ \A r \in Registers : r \in LiveSlots
      /\ \A v \in OwnVars : v \in LiveVars /\ v \in LiveSlots /\ v \in Value
      /\ Plain \in Value /\ Plain \notin Vars
  BY ReferencesAssumption DEF LiveSlots, OwnVars, LiveVars, Value
<1>3. ASSUME NoWildReference, NEW r \in Registers, NEW x \in Objects \union {Plain}, Load(r, x)
      PROVE  CInv'
  <2>1. x \in Value /\ x \notin Vars
    BY ReferencesAssumption DEF Value
  <2> QED
    BY <1>0, <1>2, <1>3, <2>1, AssignKeepsCounts DEF Load
<1>4. ASSUME NoWildReference, NEW r \in Registers, NEW q \in Registers, MovVar(r, q)
      PROVE  CInv'
  BY <1>0, <1>1, <1>2, <1>4, AssignKeepsCounts DEF MovVar
<1>5. ASSUME NoWildReference, NEW r \in Registers, NEW q \in Registers, GetRefVar(r, q)
      PROVE  CInv'
  <2> DEFINE x == IF val[r] \in Vars THEN val[val[r]] ELSE Plain
  <2>1. x \in Value /\ (x \in Vars => x \in LiveVars)
    BY <1>1, <1>2, <1>5 DEF LiveSlots
  <2>2. Assign(q, x) /\ frames' = frames
    BY <1>5 DEF GetRefVar
  <2> HIDE DEF x
  <2> QED
    BY <1>0, <1>2, <1>5, <2>1, <2>2, AssignKeepsCounts
<1>6. ASSUME NoWildReference, NEW r \in Registers, NEW q \in Registers, SetRefVar(r, q)
      PROVE  CInv'
  <2> DEFINE x == IF SafeAssign(val[r], val[q]) THEN val[q] ELSE Plain
  <2>1. x \in Value /\ (x \in Vars => x \in LiveVars)
    BY <1>1, <1>2, <1>6
  <2>2. Assign(val[r], x) /\ frames' = frames /\ val[r] \in LiveSlots
    BY <1>1, <1>2, <1>6 DEF SetRefVar, LiveSlots
  <2> HIDE DEF x
  <2> QED
    BY <1>0, <1>6, <2>1, <2>2, AssignKeepsCounts
<1>7. ASSUME NoWildReference, NEW r \in Registers, NEW v \in Vars,
             GetVar(r, v) \/ SetVar(r, v) \/ GetVarRef(r, v)
      PROVE  CInv'
  <2>1. v \in OwnVars
    BY <1>7 DEF GetVar, SetVar, GetVarRef
  <2>2. CASE GetVar(r, v)
    BY <1>0, <1>1, <1>2, <1>7, <2>1, <2>2, AssignKeepsCounts DEF GetVar
  <2>3. CASE SetVar(r, v)
    BY <1>0, <1>1, <1>2, <1>7, <2>1, <2>3, AssignKeepsCounts DEF SetVar
  <2>4. CASE GetVarRef(r, v)
    BY <1>0, <1>1, <1>2, <1>7, <2>1, <2>4, AssignKeepsCounts DEF GetVarRef
  <2> QED
    BY <1>7, <2>2, <2>3, <2>4
<1>8. ASSUME NoWildReference, NEW a \in Args, NEW r \in Registers, SetCallArgVar(a, r)
      PROVE  CInv'
  <2>1. <<Depth, a>> \in LiveSlots
    <3>1. Depth \in 1 .. MaxDepth
      BY <1>0, <1>8, DepthType, ReferencesAssumption DEF SetCallArgVar, TypeOK
    <3> QED
      BY <3>1 DEF LiveSlots, LiveVars, Vars
  <2> QED
    BY <1>0, <1>1, <1>2, <1>8, <2>1, AssignKeepsCounts DEF SetCallArgVar
<1>9. ASSUME NoWildReference, NEW in \in Registers, NEW r \in Registers, Return(in, r)
      PROVE  CInv'
  BY <1>0, <1>9, ReturnKeepsCounts
<1>10. ASSUME NoWildReference, AllocArgs \/ Call PROVE CInv'
  BY <1>0, <1>10, ClearKeepsCounts
<1>11. ASSUME NoWildReference, Exit PROVE CInv'
  BY <1>0, <1>11, ExitKeepsCounts
<1>12. ASSUME UNCHANGED vars PROVE CInv'
  BY <1>0, <1>12, LiveSlotsStay DEF vars, CInv
<1> QED
  BY <1>3, <1>4, <1>5, <1>6, <1>7, <1>8, <1>9, <1>10, <1>11, <1>12 DEF Next, Opcode, Stopped

LEMMA InitCounts == ASSUME Init PROVE CInv
<1>1. TypeOK
  BY InitType
<1>2. ASSUME NEW o \in Objects PROVE Held(val, LiveSlots, o) = 0
  <2>1. EndIn(val, Plain) = Plain /\ Plain # o
    BY EndOfNoReference, ReferencesAssumption
  <2>2. \A s \in LiveSlots : Ends(val)[s] = Plain
    BY <2>1, LiveSlotsAreFinite DEF Init, Ends
  <2>3. Holders(Ends(val), LiveSlots, o) = {}
    BY <2>1, <2>2 DEF Holders
  <2> QED
    BY <2>3, FS_EmptySet DEF Held
<1> QED
  BY <1>1, <1>2 DEF CInv, Init

\* The count of every object is the number of live variables and registers
\* whose chain of references ends in it, however long the chains are, until a
\* variable that another refers to gets a value with another end; and none are
\* left once the program has exited.  Whatever the bytecode, up to there
\* nothing is freed early and nothing leaks.
THEOREM CountsAreExact == Spec => []CountsExact
<1>1. Init => CInv /\ Inv
  BY InitCounts, InitEstablishesInv
<1>2. CInv /\ Inv /\ [Next]_vars => CInv' /\ Inv'
  BY NextKeepsCounts, NextKeepsInv
<1>3. CInv => CountsExact
  <2> SUFFICES ASSUME CInv, ~moved, NEW o \in Objects
               PROVE  count[o] = Cardinality({s \in LiveSlots : EndIn(val, val[s]) = o})
    BY DEF CountsExact
  <2>1. LiveSlots \in SUBSET Slots
    BY LiveSlotsAreFinite
  <2>2. {s \in LiveSlots : EndIn(val, val[s]) = o} = Holders(Ends(val), LiveSlots, o)
    BY <2>1 DEF Holders, Ends
  <2> QED
    BY <2>2 DEF CInv, Held
<1> QED
  BY <1>1, <1>2, <1>3, PTL DEF Spec
=============================================================================
