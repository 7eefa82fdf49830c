---------------------------- MODULE FrontEnd_proofs ----------------------------
(***************************************************************************)
(* Proofs about the parser and main, for every text.                       *)
(*                                                                         *)
(* Of a node only its row matters: its type, its scope and the state it    *)
(* ends a statement in.  The rows fit the state (Fits); the open scopes of *)
(* the functions are those of the rows (Agrees); and the slots of a scope  *)
(* follow those of the one around it (Begins), which is why a slot is      *)
(* never given twice and why the highest is counted when a block is left.  *)
(* A function is a method where its node is in a class, and only the scope *)
(* of a function has arguments (Placed), which is why a name is never      *)
(* found in the frame of another function.                                 *)
(* What a step does is stated of constant rows, scopes and functions, and  *)
(* then of the variables (Moved).                                          *)
(***************************************************************************)
EXTENDS FrontEnd, SequenceTheorems, WellFoundedInduction, TLAPS

-----------------------------------------------------------------------------
(* Numbers                                                                  *)

\* Every set of natural numbers that is not empty has a least element.
LEMMA LeastNumber ==
  ASSUME NEW S \in SUBSET Nat, S # {}
  PROVE  \E n \in S : \A m \in S : n <= m
<1> DEFINE R == OpToRel(<, Nat)
<1>1. IsWellFoundedOn(R, Nat)
  BY NatLessThanWellFounded
<1>2. \A x, y \in Nat : x < y => <<x, y>> \in R
  BY DEF OpToRel
<1> HIDE DEF R
<1>3. PICK n \in S : \A m \in S : ~(<<m, n>> \in R)
  BY <1>1, WFMin
<1>4. n \in Nat /\ \A m \in S : m \in Nat /\ ~(m < n)
  BY <1>2, <1>3
<1> QED
  BY <1>4

\* Every set of numbers that are not above n has a greatest element.
LEMMA GreatestNumber ==
  ASSUME NEW n \in Nat, NEW S \in SUBSET (0 .. n), S # {}
  PROVE  \E g \in S : \A m \in S : m <= g
<1> DEFINE T == {n - m : m \in S}
<1>1. T \in SUBSET Nat /\ T # {}
  <2>1. \A m \in S : n - m \in Nat
    OBVIOUS
  <2> QED
    BY <2>1, Zenon
<1> HIDE DEF T
<1>2. PICK t \in T : \A m \in T : t <= m
  BY <1>1, LeastNumber
<1>3. PICK g \in S : t = n - g
  BY DEF T
<1>4. ASSUME NEW m \in S PROVE m <= g
  <2>1. n - m \in T
    BY DEF T
  <2>2. n - g <= n - m
    BY <1>2, <1>3, <2>1
  <2>3. m \in Nat /\ g \in Nat
    OBVIOUS
  <2> QED
    BY <2>2, <2>3
<1> QED
  BY <1>4

\* A set that has 0, and with a number the next one, has all of them.
LEMMA NaturalInduction ==
  ASSUME NEW S, 0 \in S, \A n \in Nat : n \in S => n + 1 \in S
  PROVE  Nat \subseteq S
<1> SUFFICES ASSUME Nat \ S # {}
             PROVE  FALSE
  OBVIOUS
<1>1. PICK n \in Nat \ S : \A m \in Nat \ S : n <= m
  BY LeastNumber
<1>2. n - 1 \in Nat /\ n - 1 \in S
  BY <1>1
<1> QED
  BY <1>1, <1>2

-----------------------------------------------------------------------------
(* The nodes, by what the parser restores of them.                          *)

Kinds == DOMAIN StatesOf \union {"BRANCH"}
States == UNION {StatesOf[t] : t \in DOMAIN StatesOf}
Arms == {"IF", "ELSE_IF", "ELSE"}
ScopeKinds == {"ROOT", "FUNCDECL", "CODEBLOCK", "CLASSDECL"}
Roots == {"ROOT", "FUNCDECL"}

\* A node: only the state in which it ends a statement, and its scope, matter.
Rows == [type : Kinds, saved : States, scope : Nat]

\* A branch and one of its arms go together.
Paired(r, i) ==
  IF r[i].type = "BRANCH"
  THEN i < Len(r) /\ r[i + 1].type \in Arms /\ r[i + 1].saved = r[i].saved
  ELSE r[i].type \in Arms => i > 1 /\ r[i - 1].type = "BRANCH"

\* Each node is resumed in a state of its own, the last one in state s.
Resumed(r, s, i) ==
  r[i].type # "BRANCH" =>
    (IF i = Len(r) THEN s ELSE r[i + 1].saved) \in StatesOf[r[i].type]

\* What is in a function is in its block.
Blocked(r, i) == i < Len(r) /\ r[i].type = "FUNCDECL" => r[i + 1].type = "CODEBLOCK"

Fits(r, s) ==
  /\ r \in Seq(Rows) /\ r # <<>>
  /\ \A i \in 1 .. Len(r) :
       /\ Paired(r, i) /\ Resumed(r, s, i) /\ Blocked(r, i)
       /\ r[i].type = "ROOT" <=> i = 1
       /\ r[i].scope # NoScope <=> r[i].type \in ScopeKinds

\* The last node is never a branch.
LEMMA TopIsNoBranch ==
  ASSUME NEW r, NEW s, Fits(r, s)
  PROVE  /\ Len(r) \in Nat \ {0} /\ r[Len(r)] \in Rows
         /\ r[Len(r)].type \in DOMAIN StatesOf
         /\ s \in StatesOf[r[Len(r)].type]
         /\ s \in States
<1>1. Len(r) \in Nat \ {0} /\ r[Len(r)] \in Rows
  BY DEF Fits
<1>2. r[Len(r)].type # "BRANCH"
  BY <1>1 DEF Fits, Paired
<1>3. r[Len(r)].type \in DOMAIN StatesOf
  BY <1>1, <1>2 DEF Rows, Kinds
<1>4. s \in StatesOf[r[Len(r)].type]
  BY <1>1, <1>2 DEF Fits, Resumed
<1> QED
  BY <1>1, <1>3, <1>4 DEF States

\* A statement goes on.
LEMMA FitsGoesOn ==
  ASSUME NEW r, NEW s, Fits(r, s), NEW t, t \in StatesOf[r[Len(r)].type]
  PROVE  Fits(r, t)
  BY DEF Fits, Resumed

\* A node inside the last one.
LEMMA FitsPushed ==
  ASSUME NEW r, NEW s, Fits(r, s), NEW e \in Rows, NEW t,
         e.type \notin {"ROOT", "BRANCH"} \union Arms,
         e.saved \in StatesOf[r[Len(r)].type], t \in StatesOf[e.type],
         r[Len(r)].type = "FUNCDECL" => e.type = "CODEBLOCK",
         e.scope # NoScope <=> e.type \in ScopeKinds
  PROVE  Fits(Append(r, e), t)
<1> DEFINE q == Append(r, e)
           n == Len(r)
<1>1. n \in Nat \ {0} /\ r \in Seq(Rows) /\ r[n].type # "BRANCH"
  BY TopIsNoBranch DEF Fits, Paired
<1>2. q \in Seq(Rows) /\ Len(q) = n + 1 /\ q[n + 1] = e /\ \A i \in 1 .. n : q[i] = r[i]
  BY <1>1
<1> HIDE DEF q, n
<1>3. ASSUME NEW i \in 1 .. n + 1 PROVE Paired(q, i)
  <2>1. CASE i = n + 1
    BY <1>1, <1>2, <2>1 DEF Paired
  <2>2. CASE i < n
    BY <1>1, <1>2, <2>2 DEF Fits, Paired, n
  <2>3. CASE i = n
    BY <1>1, <1>2, <2>3 DEF Fits, Paired, n
  <2> QED
    BY <1>1, <2>1, <2>2, <2>3
<1>4. ASSUME NEW i \in 1 .. n + 1 PROVE Resumed(q, t, i)
  <2>1. CASE i = n + 1
    BY <1>1, <1>2, <2>1 DEF Resumed
  <2>2. CASE i < n
    BY <1>1, <1>2, <2>2 DEF Fits, Resumed, n
  <2>3. CASE i = n
    BY <1>1, <1>2, <2>3 DEF Resumed, n
  <2> QED
    BY <1>1, <2>1, <2>2, <2>3
<1>5. ASSUME NEW i \in 1 .. n + 1 PROVE Blocked(q, i)
  <2>1. CASE i < n
    BY <1>1, <1>2, <2>1 DEF Fits, Blocked, n
  <2>2. CASE i >= n
    BY <1>1, <1>2, <2>2 DEF Blocked, n
  <2> QED
    BY <1>1, <2>1, <2>2
<1>6. \A i \in 1 .. n + 1 : /\ q[i].type = "ROOT" <=> i = 1
                            /\ q[i].scope # NoScope <=> q[i].type \in ScopeKinds
  BY <1>1, <1>2 DEF Fits, n
<1> QED
  BY <1>1, <1>2, <1>3, <1>4, <1>5, <1>6 DEF Fits, q

\* A branch and its first arm inside the last node.
LEMMA FitsBranched ==
  ASSUME NEW r, NEW s, Fits(r, s), NEW b \in Rows, NEW e \in Rows, NEW t,
         b.type = "BRANCH", e.type \in Arms, b.scope = NoScope, e.scope = NoScope,
         b.saved = s, e.saved = s, t \in StatesOf[e.type],
         r[Len(r)].type # "FUNCDECL"
  PROVE  Fits(Append(Append(r, b), e), t)
<1> DEFINE q == Append(Append(r, b), e)
           n == Len(r)
<1>1. n \in Nat \ {0} /\ r \in Seq(Rows) /\ r[n].type # "BRANCH" /\ s \in StatesOf[r[n].type]
  <2>1. r \in Seq(Rows)
    BY DEF Fits
  <2>2. n \in Nat \ {0} /\ r[n].type \in DOMAIN StatesOf /\ s \in StatesOf[r[n].type]
    BY TopIsNoBranch
  <2>3. r[n].type # "BRANCH"
    BY <2>2 DEF StatesOf
  <2> QED
    BY <2>1, <2>2, <2>3
<1>2. /\ q \in Seq(Rows) /\ Len(q) = n + 2 /\ q[n + 2] = e /\ q[n + 1] = b
      /\ \A i \in 1 .. n : q[i] = r[i]
  BY <1>1
<1>a. r[n].type # "FUNCDECL"
  OBVIOUS
<1> HIDE DEF q, n
<1>3. ASSUME NEW i \in 1 .. n + 2 PROVE Paired(q, i)
  <2>1. CASE i >= n + 1
    BY <1>1, <1>2, <2>1 DEF Paired, Arms
  <2>2. CASE i < n
    BY <1>1, <1>2, <2>2 DEF Fits, Paired, n
  <2>3. CASE i = n
    BY <1>1, <1>2, <2>3 DEF Fits, Paired, n
  <2> QED
    BY <1>1, <2>1, <2>2, <2>3
<1>4. ASSUME NEW i \in 1 .. n + 2 PROVE Resumed(q, t, i)
  <2>1. CASE i >= n + 1
    BY <1>1, <1>2, <2>1 DEF Resumed
  <2>2. CASE i < n
    BY <1>1, <1>2, <2>2 DEF Fits, Resumed, n
  <2>3. CASE i = n
    BY <1>1, <1>2, <2>3 DEF Resumed, n
  <2> QED
    BY <1>1, <2>1, <2>2, <2>3
<1>5. ASSUME NEW i \in 1 .. n + 2 PROVE Blocked(q, i)
  <2>1. CASE i < n
    BY <1>1, <1>2, <2>1 DEF Fits, Blocked, n
  <2>2. CASE i >= n
    BY <1>1, <1>2, <1>a, <2>2 DEF Blocked, Arms
  <2> QED
    BY <1>1, <2>1, <2>2
<1>6. \A i \in 1 .. n + 2 : /\ q[i].type = "ROOT" <=> i = 1
                            /\ q[i].scope # NoScope <=> q[i].type \in ScopeKinds
  <2> TAKE i \in 1 .. n + 2
  <2>1. CASE i <= n
    BY <1>1, <1>2, <2>1 DEF Fits, n
  <2>2. CASE i > n
    BY <1>1, <1>2, <2>2 DEF ScopeKinds, Arms
  <2> QED
    BY <1>1, <2>1, <2>2
<1> QED
  BY <1>1, <1>2, <1>3, <1>4, <1>5, <1>6 DEF Fits, q

\* The nodes before the m-th are resumed in the state it saved, if it is no arm.
LEMMA FitsPopped ==
  ASSUME NEW r, NEW s, Fits(r, s), NEW m \in 2 .. Len(r), r[m].type \notin Arms
  PROVE  Fits(SubSeq(r, 1, m - 1), r[m].saved)
<1> DEFINE q == SubSeq(r, 1, m - 1)
           n == m - 1
<1>1. Len(r) \in Nat /\ r \in Seq(Rows) /\ n \in Nat \ {0} /\ n < Len(r)
  BY DEF Fits
<1>2. q \in Seq(Rows) /\ Len(q) = n /\ \A i \in 1 .. n : q[i] = r[i]
  BY <1>1
<1> HIDE DEF q
<1>3. ASSUME NEW i \in 1 .. n PROVE Paired(q, i)
  <2>1. r[n].type # "BRANCH"
    BY <1>1 DEF Fits, Paired
  <2>2. Paired(r, i)
    BY <1>1 DEF Fits
  <2> QED
    BY <1>1, <1>2, <2>1, <2>2 DEF Paired
<1>4. ASSUME NEW i \in 1 .. n PROVE Resumed(q, r[m].saved, i)
  <2>1. Resumed(r, s, i)
    BY <1>1 DEF Fits
  <2> QED
    BY <1>1, <1>2, <2>1 DEF Resumed
<1>5. ASSUME NEW i \in 1 .. n PROVE Blocked(q, i)
  <2>1. Blocked(r, i)
    BY <1>1 DEF Fits
  <2> QED
    BY <1>1, <1>2, <2>1 DEF Blocked
<1>6. \A i \in 1 .. n : /\ q[i].type = "ROOT" <=> i = 1
                        /\ q[i].scope # NoScope <=> q[i].type \in ScopeKinds
  BY <1>1, <1>2 DEF Fits
<1> QED
  BY <1>1, <1>2, <1>3, <1>4, <1>5, <1>6 DEF Fits, q

\* The last node ends.
LEMMA FitsPop ==
  ASSUME NEW r, NEW s, Fits(r, s), r[Len(r)].type \notin Arms \union {"ROOT"}
  PROVE  Fits(SubSeq(r, 1, Len(r) - 1), r[Len(r)].saved)
<1>1. Len(r) \in 2 .. Len(r)
  BY TopIsNoBranch DEF Fits
<1> QED
  BY <1>1, FitsPopped

\* The last node is an arm and ends with its branch.
LEMMA FitsPopArm ==
  ASSUME NEW r, NEW s, Fits(r, s), r[Len(r)].type \in Arms
  PROVE  /\ Len(r) - 1 \in 2 .. Len(r)
         /\ Fits(SubSeq(r, 1, Len(r) - 2), r[Len(r) - 1].saved)
         /\ r[Len(r) - 1].type = "BRANCH"
<1> DEFINE m == Len(r) - 1
<1>1. Len(r) \in Nat \ {0} /\ m \in 1 .. Len(r) /\ r[m].type = "BRANCH"
  BY TopIsNoBranch DEF Fits, Paired
<1>2. m \in 2 .. Len(r) /\ r[m].type \notin Arms
  BY <1>1 DEF Fits, Arms
<1> HIDE DEF m
<1>3. Fits(SubSeq(r, 1, m - 1), r[m].saved)
  BY <1>2, FitsPopped
<1> QED
  BY <1>1, <1>2, <1>3 DEF m

\* An "else" becomes an "else if".
LEMMA FitsElseIf ==
  ASSUME NEW r, NEW s, Fits(r, s), r[Len(r)].type = "ELSE",
         NEW t, t \in StatesOf["ELSE_IF"]
  PROVE  Fits([r EXCEPT ![Len(r)].type = "ELSE_IF"], t)
<1> DEFINE q == [r EXCEPT ![Len(r)].type = "ELSE_IF"]
           n == Len(r)
<1>1. n \in Nat \ {0} /\ r \in Seq(Rows) /\ r[n] \in Rows
  BY TopIsNoBranch DEF Fits
<1>2. [r[n] EXCEPT !.type = "ELSE_IF"] \in Rows
  BY <1>1 DEF Rows, Kinds, StatesOf
<1>3. /\ q \in Seq(Rows) /\ Len(q) = n /\ q[n] = [r[n] EXCEPT !.type = "ELSE_IF"]
      /\ \A i \in 1 .. n - 1 : q[i] = r[i]
  BY <1>1, <1>2
<1>4. q[n].type = "ELSE_IF" /\ q[n].saved = r[n].saved /\ q[n].scope = r[n].scope
  BY <1>1, <1>3 DEF Rows
<1>5. r[n].type = "ELSE" /\ t \in StatesOf["ELSE_IF"]
  OBVIOUS
<1> HIDE DEF q, n
<1>6. n > 1 /\ r[n - 1].type = "BRANCH"
  <2>1. Paired(r, n)
    BY <1>1 DEF Fits, n
  <2> QED
    BY <1>5, <2>1 DEF Paired, Arms
<1>7. ASSUME NEW i \in 1 .. n PROVE Paired(q, i) /\ Resumed(q, t, i) /\ Blocked(q, i)
  <2>1. Paired(r, i) /\ Resumed(r, s, i) /\ Blocked(r, i)
    BY DEF Fits, n
  <2>2. CASE i = n
    <3>1. Paired(q, i)
      <4>1. q[i - 1].type = "BRANCH" /\ i > 1
        BY <1>1, <1>3, <1>6, <2>2
      <4>2. q[i].type = "ELSE_IF"
        BY <1>4, <2>2
      <4> QED
        BY <4>1, <4>2 DEF Paired
    <3>2. Resumed(q, t, i)
      BY <1>3, <1>4, <1>5, <2>2 DEF Resumed
    <3>3. Blocked(q, i)
      BY <1>1, <1>3, <2>2 DEF Blocked
    <3> QED
      BY <3>1, <3>2, <3>3
  <2>3. CASE i = n - 1
    <3>1. r[i].type = "BRANCH" /\ q[i] = r[i]
      BY <1>1, <1>3, <1>6, <2>3
    <3>2. Paired(q, i)
      <4>1. i < Len(r) /\ i + 1 = n /\ r[n].saved = r[i].saved
        BY <1>1, <2>1, <2>3, <3>1 DEF Paired, n
      <4>2. q[n].type \in Arms /\ q[n].saved = q[i].saved
        BY <1>4, <3>1, <4>1 DEF Arms
      <4> QED
        BY <1>3, <3>1, <4>1, <4>2 DEF Paired, n
    <3>3. Resumed(q, t, i) /\ Blocked(q, i)
      BY <3>1 DEF Resumed, Blocked
    <3> QED
      BY <3>2, <3>3
  <2>4. CASE i < n - 1
    <3>1. q[i] = r[i] /\ q[i + 1] = r[i + 1] /\ (i > 1 => q[i - 1] = r[i - 1])
      BY <1>1, <1>3, <2>4
    <3> QED
      BY <1>1, <1>3, <2>1, <2>4, <3>1 DEF Paired, Resumed, Blocked, n
  <2> QED
    BY <1>1, <2>2, <2>3, <2>4
<1>8. \A i \in 1 .. n : /\ q[i].type = "ROOT" <=> i = 1
                        /\ q[i].scope # NoScope <=> q[i].type \in ScopeKinds
  <2> TAKE i \in 1 .. n
  <2>1. /\ r[i].type = "ROOT" <=> i = 1
        /\ r[i].scope # NoScope <=> r[i].type \in ScopeKinds
    BY DEF Fits, n
  <2>2. CASE i = n
    BY <1>4, <1>5, <2>1, <2>2 DEF ScopeKinds
  <2>3. CASE i < n
    BY <1>1, <1>3, <2>1, <2>3
  <2> QED
    BY <1>1, <2>2, <2>3
<1> QED
  BY <1>1, <1>3, <1>7, <1>8 DEF Fits, q

-----------------------------------------------------------------------------
(* The scopes of the nodes, by functions.                                   *)

ScopesIn(q) ==
  LET open[n \in 0 .. Len(q)] ==
        IF n = 0 THEN <<>> ELSE WithScope(open[n - 1], q[n])
  IN open[Len(q)]

\* The scopes of the nodes up to each of the first m.
Openings(q, m) ==
  {o \in [0 .. m -> Seq(Seq(Nat))] :
     o = [n \in 0 .. m |-> IF n = 0 THEN <<>> ELSE WithScope(o[n - 1], q[n])]}

\* A sequence without elements has none to change.
LEMMA NothingToChange ==
  ASSUME NEW T, NEW f \in [1 .. 0 -> T], NEW i, NEW x
  PROVE  [f EXCEPT ![i] = x] \in [1 .. 0 -> T]
<1> DEFINE g == [f EXCEPT ![i] = x]
<1>1. 1 .. 0 = {}
  OBVIOUS
<1>2. g = [y \in {} |-> IF y = i THEN x ELSE f[y]]
  BY <1>1
<1>3. g = [y \in {} |-> g[y]]
  BY <1>2
<1> HIDE DEF g
<1>4. g \in [{} -> T]
  BY <1>3
<1> QED
  BY <1>1, <1>4 DEF g

\* A node more leaves lists of scopes.
LEMMA WithScopeType ==
  ASSUME NEW open \in Seq(Seq(Nat)), NEW e, e.scope \in Nat
  PROVE  WithScope(open, e) \in Seq(Seq(Nat))
<1>1. CASE e.type \in {"ROOT", "FUNCDECL"}
  <2>1. WithScope(open, e) = Append(open, <<e.scope>>)
    BY <1>1 DEF WithScope
  <2> QED
    BY <2>1
<1>2. CASE e.type \notin {"ROOT", "FUNCDECL"} /\ e.scope # NoScope
  <2>1. WithScope(open, e) = [open EXCEPT ![Len(open)] = Append(@, e.scope)]
    BY <1>2 DEF WithScope
  <2>2. CASE open = <<>>
    <3>1. open \in [1 .. 0 -> Seq(Nat)]
      BY <2>2
    <3> DEFINE x == Append(open[Len(open)], e.scope)
    <3>2. WithScope(open, e) = [open EXCEPT ![Len(open)] = x]
      BY <2>1
    <3> HIDE DEF x
    <3>3. [open EXCEPT ![Len(open)] = x] \in [1 .. 0 -> Seq(Nat)]
      BY <3>1, NothingToChange
    <3> QED
      BY <3>2, <3>3, SeqDef
  <2>3. CASE open # <<>>
    <3>1. Len(open) \in 1 .. Len(open) /\ open[Len(open)] \in Seq(Nat)
      BY <2>3
    <3>2. Append(open[Len(open)], e.scope) \in Seq(Nat)
      BY <3>1
    <3> QED
      BY <2>1, <3>1, <3>2
  <2> QED
    BY <2>2, <2>3
<1>3. CASE e.type \notin {"ROOT", "FUNCDECL"} /\ e.scope = NoScope
  <2>1. WithScope(open, e) = open
    BY <1>3 DEF WithScope
  <2> QED
    BY <2>1
<1> QED
  BY <1>1, <1>2, <1>3

\* The lists of scopes after a node follow from those before it.
LEMMA OpeningsExtend ==
  ASSUME NEW q, NEW m \in Nat, NEW o \in Openings(q, m), q[m + 1].scope \in Nat
  PROVE  [n \in 0 .. m + 1 |-> IF n = m + 1 THEN WithScope(o[m], q[m + 1]) ELSE o[n]]
           \in Openings(q, m + 1)
<1> DEFINE p == [n \in 0 .. m + 1 |-> IF n = m + 1 THEN WithScope(o[m], q[m + 1]) ELSE o[n]]
<1>1. /\ o \in [0 .. m -> Seq(Seq(Nat))]
      /\ \A n \in 0 .. m : o[n] = IF n = 0 THEN <<>> ELSE WithScope(o[n - 1], q[n])
  BY DEF Openings
<1>2. WithScope(o[m], q[m + 1]) \in Seq(Seq(Nat))
  BY <1>1, WithScopeType
<1>3. p \in [0 .. m + 1 -> Seq(Seq(Nat))]
  BY <1>1, <1>2
<1>4. ASSUME NEW n \in 0 .. m + 1
      PROVE  p[n] = IF n = 0 THEN <<>> ELSE WithScope(p[n - 1], q[n])
  <2>1. CASE n = m + 1
    BY <2>1
  <2>2. CASE n \in 0 .. m
    BY <1>1, <2>2
  <2> QED
    BY <2>1, <2>2
<1> HIDE DEF p
<1>5. p = [n \in 0 .. m + 1 |-> IF n = 0 THEN <<>> ELSE WithScope(p[n - 1], q[n])]
  BY <1>3, <1>4
<1> QED
  BY <1>3, <1>5 DEF Openings, p

\* The nodes have such lists, so the choice in ScopesAround is not vacuous.
LEMMA OpeningsExist ==
  ASSUME NEW q \in Seq(Rows)
  PROVE  Openings(q, Len(q)) # {}
<1> DEFINE S == {m \in Nat : m <= Len(q) => Openings(q, m) # {}}
<1>1. 0 \in S
  <2> DEFINE o == [n \in 0 .. 0 |-> <<>>]
  <2>1. o \in Openings(q, 0)
    BY DEF Openings
  <2> QED
    BY <2>1
<1>2. ASSUME NEW m \in Nat, m \in S PROVE m + 1 \in S
  <2> SUFFICES ASSUME m + 1 <= Len(q) PROVE Openings(q, m + 1) # {}
    OBVIOUS
  <2>1. PICK o \in Openings(q, m) : TRUE
    BY <1>2
  <2>2. q[m + 1].scope \in Nat
    <3>1. q[m + 1] \in Rows
      OBVIOUS
    <3> QED
      BY <3>1 DEF Rows
  <2> HIDE DEF S
  <2> QED
    BY <2>1, <2>2, OpeningsExtend
<1> HIDE DEF S
<1>3. Len(q) \in S
  BY <1>1, <1>2, NaturalInduction
<1> QED
  BY <1>3 DEF S

\* The recursion over the nodes gives the last of the openings.
LEMMA ScopesInIs ==
  ASSUME NEW q, Len(q) \in Nat, NEW o \in Openings(q, Len(q))
  PROVE  ScopesIn(q) = o[Len(q)]
<1> DEFINE m == Len(q)
           f == CHOOSE f : f = [n \in 0 .. m |->
                                  IF n = 0 THEN <<>> ELSE WithScope(f[n - 1], q[n])]
<1>1. o = [n \in 0 .. m |-> IF n = 0 THEN <<>> ELSE WithScope(o[n - 1], q[n])]
  BY DEF Openings
<1>2. f = [n \in 0 .. m |-> IF n = 0 THEN <<>> ELSE WithScope(f[n - 1], q[n])]
  BY <1>1
<1>3. ScopesIn(q) = f[m]
  BY DEF ScopesIn
<1> HIDE DEF f
<1> DEFINE S == {n \in Nat : n <= m => f[n] = o[n]}
<1>4. 0 \in S
  BY <1>1, <1>2
<1>5. ASSUME NEW n \in Nat, n \in S PROVE n + 1 \in S
  <2> SUFFICES ASSUME n + 1 <= m PROVE f[n + 1] = o[n + 1]
    OBVIOUS
  <2>1. f[n + 1] = WithScope(f[n], q[n + 1]) /\ o[n + 1] = WithScope(o[n], q[n + 1])
    BY <1>1, <1>2
  <2> QED
    BY <1>5, <2>1
<1> HIDE DEF S
<1>6. m \in S
  BY <1>4, <1>5, NaturalInduction
<1> QED
  BY <1>3, <1>6 DEF S

\* A node more.
LEMMA ScopesInPushed ==
  ASSUME NEW r \in Seq(Rows), NEW e \in Rows
  PROVE  /\ ScopesIn(r) \in Seq(Seq(Nat))
         /\ ScopesIn(Append(r, e)) = WithScope(ScopesIn(r), e)
<1> DEFINE q == Append(r, e)
           m == Len(r)
<1>1. m \in Nat /\ Len(q) = m + 1 /\ q[m + 1] = e /\ \A n \in 1 .. m : q[n] = r[n]
  OBVIOUS
<1>2. PICK o \in Openings(r, m) : TRUE
  BY OpeningsExist
<1>3. ScopesIn(r) = o[m] /\ o[m] \in Seq(Seq(Nat))
  <2>1. ScopesIn(r) = o[m]
    BY <1>1, <1>2, ScopesInIs
  <2>2. o \in [0 .. m -> Seq(Seq(Nat))]
    BY <1>2 DEF Openings
  <2> QED
    BY <1>1, <2>1, <2>2
<1> HIDE DEF q
<1>4. o \in Openings(q, m)
  BY <1>1, <1>2 DEF Openings
<1> DEFINE p == [n \in 0 .. m + 1 |-> IF n = m + 1 THEN WithScope(o[m], q[m + 1]) ELSE o[n]]
<1>5. p \in Openings(q, m + 1)
  BY <1>1, <1>4, OpeningsExtend DEF Rows
<1>6. p[m + 1] = WithScope(o[m], e)
  BY <1>1
<1> HIDE DEF p
<1>7. ScopesIn(q) = p[m + 1]
  BY <1>1, <1>5, ScopesInIs
<1> QED
  BY <1>3, <1>6, <1>7 DEF q

\* A node less.
LEMMA ScopesInPopped ==
  ASSUME NEW r \in Seq(Rows), r # <<>>
  PROVE  /\ SubSeq(r, 1, Len(r) - 1) \in Seq(Rows)
         /\ ScopesIn(r) = WithScope(ScopesIn(SubSeq(r, 1, Len(r) - 1)), r[Len(r)])
<1> DEFINE q == SubSeq(r, 1, Len(r) - 1)
<1>1. q \in Seq(Rows) /\ r[Len(r)] \in Rows /\ r = Append(q, r[Len(r)])
  OBVIOUS
<1> HIDE DEF q
<1>2. ScopesIn(Append(q, r[Len(r)])) = WithScope(ScopesIn(q), r[Len(r)])
  BY <1>1, ScopesInPushed
<1> QED
  BY <1>1, <1>2 DEF q

\* Nothing depends on the rest of a node.
LEMMA ScopesInAlike ==
  ASSUME NEW q, NEW r \in Seq(Rows), Len(q) = Len(r),
         \A i \in 1 .. Len(r) : q[i].type = r[i].type /\ q[i].scope = r[i].scope
  PROVE  ScopesIn(q) = ScopesIn(r)
<1>1. PICK o \in Openings(r, Len(r)) : TRUE
  BY OpeningsExist
<1>2. \A n \in 1 .. Len(r) : \A open : WithScope(open, q[n]) = WithScope(open, r[n])
  BY DEF WithScope
<1>4. Len(r) \in Nat
  OBVIOUS
<1>3. o \in Openings(q, Len(q))
  <2>1. /\ o \in [0 .. Len(r) -> Seq(Seq(Nat))]
        /\ \A n \in 0 .. Len(r) : o[n] = IF n = 0 THEN <<>> ELSE WithScope(o[n - 1], r[n])
    BY <1>1 DEF Openings
  <2>2. ASSUME NEW n \in 0 .. Len(r)
        PROVE  o[n] = IF n = 0 THEN <<>> ELSE WithScope(o[n - 1], q[n])
    <3>1. CASE n = 0
      BY <2>1, <3>1
    <3>2. CASE n \in 1 .. Len(r)
      <4>1. n # 0 /\ n \in 0 .. Len(r)
        BY <1>4, <3>2
      <4>2. o[n] = IF n = 0 THEN <<>> ELSE WithScope(o[n - 1], r[n])
        BY <2>1, <4>1
      <4>3. o[n] = WithScope(o[n - 1], r[n])
        BY <4>1, <4>2
      <4>4. WithScope(o[n - 1], q[n]) = WithScope(o[n - 1], r[n])
        BY <1>2, <3>2
      <4> QED
        BY <4>1, <4>3, <4>4
    <3> QED
      BY <3>1, <3>2
  <2>3. o = [n \in 0 .. Len(r) |-> IF n = 0 THEN <<>> ELSE WithScope(o[n - 1], q[n])]
    BY <2>1, <2>2
  <2> QED
    BY <2>1, <2>3 DEF Openings
<1> QED
  BY <1>1, <1>3, ScopesInIs

\* Every function has a scope; a function other than the program has a second
\* one when the parser is in its block.
LEMMA ScopesInFunctions ==
  ASSUME NEW r, NEW s, Fits(r, s)
  PROVE  LET open == ScopesIn(r) IN
         /\ open \in Seq(Seq(Nat)) /\ open # <<>>
         /\ \A k \in 1 .. Len(open) : open[k] # <<>>
         /\ r[Len(r)].type # "FUNCDECL" /\ Len(open) > 1 => Len(open[Len(open)]) > 1
<1> DEFINE Good(open, e) ==
             /\ open \in Seq(Seq(Nat)) /\ open # <<>>
             /\ \A k \in 1 .. Len(open) : open[k] # <<>>
             /\ e.type # "FUNCDECL" /\ Len(open) > 1 => Len(open[Len(open)]) > 1
<1>1. r \in Seq(Rows) /\ Len(r) \in Nat \ {0}
  BY DEF Fits
<1>2. PICK o \in Openings(r, Len(r)) : TRUE
  BY <1>1, OpeningsExist
<1>3. /\ o \in [0 .. Len(r) -> Seq(Seq(Nat))]
      /\ \A n \in 0 .. Len(r) : o[n] = IF n = 0 THEN <<>> ELSE WithScope(o[n - 1], r[n])
  BY <1>2 DEF Openings
<1> DEFINE S == {n \in Nat : n + 1 <= Len(r) => Good(o[n + 1], r[n + 1])}
<1>4. 0 \in S
  <2>1. r[1].type = "ROOT" /\ r[1].scope \in Nat
    <3>1. r[1] \in Rows /\ 1 \in 1 .. Len(r)
      BY <1>1
    <3> QED
      BY <3>1 DEF Fits, Rows
  <2>2. o[1] = WithScope(<<>>, r[1])
    BY <1>1, <1>3
  <2>3. o[1] = <<<<r[1].scope>>>>
    BY <2>1, <2>2 DEF WithScope
  <2>4. o[1] \in Seq(Seq(Nat)) /\ Len(o[1]) = 1 /\ o[1][1] # <<>>
    BY <2>1, <2>3
  <2>5. Good(o[1], r[1])
    BY <2>4
  <2> HIDE DEF Good
  <2> QED
    BY <2>5
<1>5. ASSUME NEW m \in Nat, m \in S PROVE m + 1 \in S
  <2> SUFFICES ASSUME m + 2 <= Len(r) PROVE Good(o[m + 2], r[m + 2])
    OBVIOUS
  <2> DEFINE p == o[m + 1]
             e == r[m + 2]
  <2>1. Good(p, r[m + 1])
    BY <1>1, <1>5
  <2>2. o[m + 2] = WithScope(p, e) /\ o[m + 2] \in Seq(Seq(Nat))
    BY <1>1, <1>3
  <2>3. e.scope \in Nat /\ (e.scope # NoScope <=> e.type \in ScopeKinds)
        /\ (r[m + 1].type = "FUNCDECL" => e.type = "CODEBLOCK")
        /\ e.type # "ROOT"
    <3>1. m + 1 \in 1 .. Len(r) /\ m + 2 \in 1 .. Len(r) /\ e \in Rows
      BY <1>1
    <3>2. Blocked(r, m + 1) /\ (r[m + 2].type = "ROOT" <=> m + 2 = 1)
          /\ (r[m + 2].scope # NoScope <=> r[m + 2].type \in ScopeKinds)
      BY <3>1 DEF Fits
    <3> QED
      BY <3>1, <3>2 DEF Rows, Blocked
  <2> HIDE DEF p, e
  <2>4. CASE e.type = "FUNCDECL"
    <3>1. o[m + 2] = Append(p, <<e.scope>>)
      BY <2>2, <2>4 DEF WithScope
    <3>2. /\ Len(o[m + 2]) = Len(p) + 1 /\ o[m + 2][Len(p) + 1] = <<e.scope>>
          /\ \A k \in 1 .. Len(p) : o[m + 2][k] = p[k]
      BY <2>1, <2>3, <3>1
    <3>3. o[m + 2] # <<>> /\ \A k \in 1 .. Len(o[m + 2]) : o[m + 2][k] # <<>>
      <4>1. <<e.scope>> # <<>> /\ Len(p) \in Nat /\ \A k \in 1 .. Len(p) : p[k] # <<>>
        BY <2>1
      <4>2. ASSUME NEW k \in 1 .. Len(p) + 1 PROVE o[m + 2][k] # <<>>
        <5>1. CASE k = Len(p) + 1
          BY <3>2, <4>1, <5>1
        <5>2. CASE k \in 1 .. Len(p)
          BY <3>2, <4>1, <5>2
        <5> QED
          BY <4>1, <5>1, <5>2
      <4> QED
        BY <2>2, <3>2, <4>1, <4>2
    <3> QED
      BY <2>2, <2>4, <3>3 DEF e
  <2>5. CASE e.type \in {"CODEBLOCK", "CLASSDECL"}
    <3>1. o[m + 2] = [p EXCEPT ![Len(p)] = Append(@, e.scope)]
      BY <2>2, <2>3, <2>5 DEF WithScope, ScopeKinds
    <3>2. Len(p) \in 1 .. Len(p) /\ p[Len(p)] \in Seq(Nat) /\ p[Len(p)] # <<>>
      BY <2>1
    <3>3. Len(Append(p[Len(p)], e.scope)) > 1
      BY <2>3, <3>2
    <3>4. /\ Len(o[m + 2]) = Len(p) /\ o[m + 2][Len(p)] = Append(p[Len(p)], e.scope)
          /\ \A k \in 1 .. Len(p) - 1 : o[m + 2][k] = p[k]
      <4> DEFINE x == Append(p[Len(p)], e.scope)
      <4>1. p \in Seq(Seq(Nat)) /\ Len(p) \in Nat
        BY <2>1
      <4>2. o[m + 2] = [p EXCEPT ![Len(p)] = x]
        BY <3>1
      <4> HIDE DEF x
      <4>3. /\ Len([p EXCEPT ![Len(p)] = x]) = Len(p) /\ [p EXCEPT ![Len(p)] = x][Len(p)] = x
            /\ \A k \in 1 .. Len(p) - 1 : [p EXCEPT ![Len(p)] = x][k] = p[k]
        BY <3>2, <4>1
      <4> QED
        BY <4>2, <4>3 DEF x
    <3>5. \A k \in 1 .. Len(p) : o[m + 2][k] # <<>>
      <4> TAKE k \in 1 .. Len(p)
      <4>1. CASE k = Len(p)
        BY <3>2, <3>3, <3>4, <4>1
      <4>2. CASE k \in 1 .. Len(p) - 1
        BY <2>1, <3>4, <4>2
      <4> QED
        BY <2>1, <4>1, <4>2
    <3> QED
      BY <2>2, <3>2, <3>3, <3>4, <3>5
  <2>6. CASE e.type \notin ScopeKinds
    <3>1. o[m + 2] = p
      BY <2>2, <2>3, <2>6 DEF WithScope, ScopeKinds
    <3> QED
      BY <2>1, <2>3, <2>6, <3>1 DEF ScopeKinds
  <2> QED
    BY <2>3, <2>4, <2>5, <2>6 DEF ScopeKinds
<1> HIDE DEF S, Good
<1>6. Len(r) - 1 \in S
  BY <1>1, <1>4, <1>5, NaturalInduction
<1>7. Good(o[Len(r)], r[Len(r)])
  BY <1>1, <1>6 DEF S
<1>8. ScopesIn(r) = o[Len(r)]
  BY <1>1, <1>2, ScopesInIs
<1> QED
  BY <1>7, <1>8 DEF Good

-----------------------------------------------------------------------------
(* The slots of the open scopes.                                            *)

VarRecords == [name : Identifiers \union {""}, index : Nat]
ScopeRecords ==
  [vars : Seq(VarRecords), args : Seq(Identifiers),
   functions : Seq([name : Identifiers \union {""}])]
FunctionRecords ==
  [scopes : Seq(Nat), current : Nat, slots : Nat, highest : Nat, class : BOOLEAN]

VarsOf(sc, s) == sc[s].vars

\* Where the slots of the scopes in q begin, which take the first m: each scope
\* has the slots that follow those of the one around it.
Begins(sc, q, m) ==
  {b \in [1 .. Len(q) + 1 -> Nat] :
     /\ b[1] = 0 /\ b[Len(q) + 1] = m
     /\ \A a, c \in 1 .. Len(q) + 1 : a <= c => b[a] <= b[c]
     /\ \A a \in 1 .. Len(q) :
          /\ b[a + 1] = b[a] + Len(VarsOf(sc, q[a]))
          /\ \A k \in 1 .. Len(VarsOf(sc, q[a])) : VarsOf(sc, q[a])[k].index = b[a] + k - 1}

\* Scopes of which an inner one is newer.
Ordered(sc, q) ==
  /\ q \in Seq(Nat)
  /\ \A a \in 1 .. Len(q) : q[a] \in 1 .. Len(sc)
  /\ \A a, c \in 1 .. Len(q) : a < c => q[a] < q[c]

\* The open scopes of a function, and its slots.
Orderly(sc, f) ==
  /\ Ordered(sc, f.scopes)
  /\ Begins(sc, f.scopes, f.current) # {}
  /\ f.highest <= f.slots \/ f.highest <= f.current

SameSlots(v, w) == Len(v) = Len(w) /\ \A k \in 1 .. Len(v) : v[k].index = w[k].index

LEMMA VarsType ==
  ASSUME NEW sc \in Seq(ScopeRecords), NEW s \in 1 .. Len(sc)
  PROVE  VarsOf(sc, s) \in Seq(VarRecords)
<1>1. sc[s] \in ScopeRecords
  OBVIOUS
<1> QED
  BY <1>1 DEF VarsOf, ScopeRecords

\* Only the slots of its own scopes matter to a function.
LEMMA BeginsAlike ==
  ASSUME NEW sc, NEW tc, NEW q \in Seq(Nat), NEW m, Begins(sc, q, m) # {},
         \A a \in 1 .. Len(q) : SameSlots(VarsOf(sc, q[a]), VarsOf(tc, q[a]))
  PROVE  Begins(tc, q, m) # {}
<1>1. PICK b \in Begins(sc, q, m) : TRUE
  OBVIOUS
<1>2. \A a \in 1 .. Len(q) :
          /\ b[a + 1] = b[a] + Len(VarsOf(sc, q[a]))
          /\ \A k \in 1 .. Len(VarsOf(sc, q[a])) : VarsOf(sc, q[a])[k].index = b[a] + k - 1
  BY <1>1 DEF Begins
<1>3. ASSUME NEW a \in 1 .. Len(q)
      PROVE  /\ b[a + 1] = b[a] + Len(VarsOf(tc, q[a]))
             /\ \A k \in 1 .. Len(VarsOf(tc, q[a])) : VarsOf(tc, q[a])[k].index = b[a] + k - 1
  BY <1>2 DEF SameSlots
<1>4. b \in Begins(tc, q, m)
  BY <1>1, <1>3 DEF Begins
<1> QED
  BY <1>4

\* A scope without variables in the innermost one.
LEMMA BeginsInside ==
  ASSUME NEW sc, NEW q \in Seq(Nat), NEW m \in Nat, Begins(sc, q, m) # {},
         NEW s \in Nat, VarsOf(sc, s) = <<>>
  PROVE  Begins(sc, Append(q, s), m) # {}
<1> DEFINE p == Append(q, s)
           n == Len(q)
<1>1. PICK b \in Begins(sc, q, m) : TRUE
  OBVIOUS
<1> DEFINE d == [a \in 1 .. n + 2 |-> IF a = n + 2 THEN m ELSE b[a]]
<1>2. /\ b \in [1 .. n + 1 -> Nat] /\ b[1] = 0 /\ b[n + 1] = m
      /\ \A a, c \in 1 .. n + 1 : a <= c => b[a] <= b[c]
  BY <1>1 DEF Begins
<1>3. n \in Nat /\ Len(p) = n + 1 /\ p[n + 1] = s /\ \A a \in 1 .. n : p[a] = q[a]
  OBVIOUS
<1>4. \A a \in 1 .. n :
        /\ b[a + 1] = b[a] + Len(VarsOf(sc, q[a]))
        /\ \A k \in 1 .. Len(VarsOf(sc, q[a])) : VarsOf(sc, q[a])[k].index = b[a] + k - 1
  BY <1>1 DEF Begins
<1> HIDE DEF p, n
<1>5. d \in [1 .. n + 2 -> Nat] /\ d[n + 2] = m /\ \A a \in 1 .. n + 1 : d[a] = b[a]
  BY <1>2, <1>3
<1> HIDE DEF d
<1>6. \A a, c \in 1 .. n + 2 : a <= c => d[a] <= d[c]
  <2> TAKE a, c \in 1 .. n + 2
  <2>1. CASE a = n + 2
    BY <1>3, <1>5, <2>1
  <2>2. CASE a \in 1 .. n + 1 /\ c = n + 2
    <3>1. n + 1 \in 1 .. n + 1 /\ a <= n + 1
      BY <1>3, <2>2
    <3>2. b[a] <= m
      BY <1>2, <2>2, <3>1
    <3> QED
      BY <1>5, <2>2, <3>2
  <2>3. CASE a \in 1 .. n + 1 /\ c \in 1 .. n + 1
    BY <1>2, <1>5, <2>3
  <2> QED
    BY <1>3, <2>1, <2>2, <2>3
<1>7. ASSUME NEW a \in 1 .. n + 1
      PROVE  /\ d[a + 1] = d[a] + Len(VarsOf(sc, p[a]))
             /\ \A k \in 1 .. Len(VarsOf(sc, p[a])) : VarsOf(sc, p[a])[k].index = d[a] + k - 1
  <2>1. CASE a = n + 1
    <3>1. d[a] = m /\ d[a + 1] = m /\ VarsOf(sc, p[a]) = <<>>
      BY <1>2, <1>3, <1>5, <2>1
    <3> QED
      BY <3>1
  <2>2. CASE a \in 1 .. n
    <3>1. d[a] = b[a] /\ d[a + 1] = b[a + 1] /\ p[a] = q[a]
      BY <1>3, <1>5, <2>2
    <3> QED
      BY <1>4, <2>2, <3>1
  <2> QED
    BY <1>3, <2>1, <2>2
<1>8. d[1] = 0
  BY <1>2, <1>3, <1>5
<1>9. d \in Begins(sc, p, m)
  BY <1>3, <1>5, <1>6, <1>7, <1>8 DEF Begins
<1> QED
  BY <1>9 DEF p

LEMMA OneMore ==
  ASSUME NEW x \in Nat, NEW l \in Nat, NEW m, m = x + l
  PROVE  m + 1 = x + (l + 1)
  OBVIOUS

\* A variable more in the innermost scope.
LEMMA BeginsDeclares ==
  ASSUME NEW sc, NEW tc, NEW q \in Seq(Nat), q # <<>>, NEW m \in Nat, Begins(sc, q, m) # {},
         \A a \in 1 .. Len(q) : VarsOf(sc, q[a]) \in Seq(VarRecords),
         NEW v \in VarRecords, v.index = m,
         VarsOf(tc, q[Len(q)]) = Append(VarsOf(sc, q[Len(q)]), v),
         \A a \in 1 .. Len(q) - 1 : SameSlots(VarsOf(sc, q[a]), VarsOf(tc, q[a]))
  PROVE  Begins(tc, q, m + 1) # {}
<1> DEFINE n == Len(q)
<1>1. PICK b \in Begins(sc, q, m) : TRUE
  OBVIOUS
<1> DEFINE d == [a \in 1 .. n + 1 |-> IF a = n + 1 THEN m + 1 ELSE b[a]]
<1>2. /\ b \in [1 .. n + 1 -> Nat] /\ b[1] = 0 /\ b[n + 1] = m
      /\ \A a, c \in 1 .. n + 1 : a <= c => b[a] <= b[c]
  BY <1>1 DEF Begins
<1>3. n \in Nat \ {0}
  OBVIOUS
<1>4. \A a \in 1 .. n :
        /\ b[a + 1] = b[a] + Len(VarsOf(sc, q[a]))
        /\ \A k \in 1 .. Len(VarsOf(sc, q[a])) : VarsOf(sc, q[a])[k].index = b[a] + k - 1
  BY <1>1 DEF Begins
<1>5. /\ VarsOf(sc, q[n]) \in Seq(VarRecords)
      /\ VarsOf(tc, q[n]) = Append(VarsOf(sc, q[n]), v)
      /\ \A a \in 1 .. n - 1 : SameSlots(VarsOf(sc, q[a]), VarsOf(tc, q[a]))
  BY <1>3
<1> HIDE DEF n
<1>6. d \in [1 .. n + 1 -> Nat] /\ d[n + 1] = m + 1 /\ \A a \in 1 .. n : d[a] = b[a]
  BY <1>2, <1>3
<1> HIDE DEF d
<1>7. \A a, c \in 1 .. n + 1 : a <= c => d[a] <= d[c]
  <2> TAKE a, c \in 1 .. n + 1
  <2>1. CASE a = n + 1
    BY <1>3, <1>6, <2>1
  <2>2. CASE a \in 1 .. n /\ c = n + 1
    <3>1. b[a] <= m /\ b[a] \in Nat
      BY <1>2, <1>3, <2>2
    <3> QED
      BY <1>6, <2>2, <3>1
  <2>3. CASE a \in 1 .. n /\ c \in 1 .. n
    BY <1>2, <1>6, <2>3
  <2> QED
    BY <1>3, <2>1, <2>2, <2>3
<1>8. ASSUME NEW a \in 1 .. n
      PROVE  /\ d[a + 1] = d[a] + Len(VarsOf(tc, q[a]))
             /\ \A k \in 1 .. Len(VarsOf(tc, q[a])) : VarsOf(tc, q[a])[k].index = d[a] + k - 1
  <2>1. CASE a = n
    <3> DEFINE us == VarsOf(sc, q[n])
               vs == VarsOf(tc, q[n])
    <3>1. us \in Seq(VarRecords) /\ vs = Append(us, v)
      BY <1>5
    <3>2. /\ b[n] \in Nat /\ m = b[n] + Len(us)
          /\ \A k \in 1 .. Len(us) : us[k].index = b[n] + k - 1
      BY <1>2, <1>3, <1>4
    <3> HIDE DEF us, vs
    <3>3. Len(us) \in Nat /\ Len(vs) = Len(us) + 1 /\ vs[Len(us) + 1] = v
          /\ \A k \in 1 .. Len(us) : vs[k] = us[k]
      BY <3>1
    <3>6. d[n] = b[n] /\ d[n + 1] = m + 1
      BY <1>3, <1>6
    <3>4. d[n + 1] = d[n] + Len(vs)
      <4>1. b[n] \in Nat /\ m = b[n] + Len(us)
        BY <3>2
      <4>2. Len(us) \in Nat /\ Len(vs) = Len(us) + 1
        BY <3>3
      <4> DEFINE l == Len(us)
      <4>3. l \in Nat /\ Len(vs) = l + 1 /\ m = b[n] + l
        BY <4>1, <4>2
      <4> HIDE DEF l
      <4>4. m + 1 = b[n] + (l + 1)
        BY <4>1, <4>3, OneMore, Zenon
      <4> QED
        BY <3>6, <4>3, <4>4, Zenon
    <3>5. ASSUME NEW k \in 1 .. Len(vs) PROVE vs[k].index = d[n] + k - 1
      <4>1. CASE k = Len(us) + 1
        <5>1. vs[k] = v /\ v.index = m
          BY <3>3, <4>1
        <5> QED
          BY <3>2, <3>3, <3>6, <4>1, <5>1
      <4>2. CASE k \in 1 .. Len(us)
        BY <3>2, <3>3, <3>6, <4>2
      <4> QED
        BY <3>3, <4>1, <4>2
    <3> QED
      BY <2>1, <3>4, <3>5 DEF vs
  <2>2. CASE a \in 1 .. n - 1
    <3>1. d[a] = b[a] /\ d[a + 1] = b[a + 1] /\ SameSlots(VarsOf(sc, q[a]), VarsOf(tc, q[a]))
      BY <1>3, <1>5, <1>6, <2>2
    <3> QED
      BY <1>4, <3>1 DEF SameSlots
  <2> QED
    BY <1>3, <2>1, <2>2
<1>9. d[1] = 0
  BY <1>2, <1>3, <1>6
<1>10. d \in Begins(tc, q, m + 1)
  BY <1>3, <1>6, <1>7, <1>8, <1>9 DEF Begins, n
<1> QED
  BY <1>10

\* The innermost scope ends.
LEMMA BeginsLeft ==
  ASSUME NEW sc, NEW q \in Seq(Nat), q # <<>>, NEW m \in Nat, Begins(sc, q, m) # {},
         VarsOf(sc, q[Len(q)]) \in Seq(VarRecords)
  PROVE  LET l == Len(VarsOf(sc, q[Len(q)])) IN
         m - l \in Nat /\ Begins(sc, SubSeq(q, 1, Len(q) - 1), m - l) # {}
<1> DEFINE n == Len(q) - 1
           l == Len(VarsOf(sc, q[Len(q)]))
           p == SubSeq(q, 1, n)
<1>1. PICK b \in Begins(sc, q, m) : TRUE
  OBVIOUS
<1> DEFINE d == [a \in 1 .. n + 1 |-> b[a]]
<1>2. n \in Nat /\ Len(q) = n + 1 /\ Len(p) = n /\ l \in Nat /\ \A a \in 1 .. n : p[a] = q[a]
  <2>1. Len(q) \in Nat \ {0}
    OBVIOUS
  <2>2. n \in Nat /\ Len(q) = n + 1
    BY <2>1
  <2>3. Len(p) = n /\ \A a \in 1 .. n : p[a] = q[a]
    BY <2>2
  <2> QED
    BY <2>2, <2>3
<1>3. /\ b \in [1 .. n + 2 -> Nat] /\ b[1] = 0 /\ b[n + 2] = m
      /\ \A a, c \in 1 .. n + 2 : a <= c => b[a] <= b[c]
  <2>1. (n + 1) + 1 = n + 2
    BY <1>2
  <2> QED
    BY <1>1, <1>2, <2>1 DEF Begins
<1>4. \A a \in 1 .. n + 1 :
        /\ b[a + 1] = b[a] + Len(VarsOf(sc, q[a]))
        /\ \A k \in 1 .. Len(VarsOf(sc, q[a])) : VarsOf(sc, q[a])[k].index = b[a] + k - 1
  BY <1>1, <1>2 DEF Begins
<1>12. l = Len(VarsOf(sc, q[n + 1])) /\ n + 1 \in 1 .. n + 1
  BY <1>2
<1> HIDE DEF p, n, l
<1>5. b[(n + 1) + 1] = b[n + 1] + l
  BY <1>4, <1>12
<1>6. b[n + 1] \in Nat /\ m - l = b[n + 1]
  <2>1. (n + 1) + 1 = n + 2 /\ n + 1 \in 1 .. n + 2
    BY <1>2
  <2>2. b[n + 1] \in Nat /\ m = b[n + 1] + l
    BY <1>3, <1>5, <2>1
  <2> QED
    BY <1>2, <2>2
<1>7. d \in [1 .. n + 1 -> Nat] /\ \A a \in 1 .. n + 1 : d[a] = b[a]
  BY <1>2, <1>3
<1> HIDE DEF d
<1>8. \A a, c \in 1 .. n + 1 : a <= c => d[a] <= d[c]
  BY <1>2, <1>3, <1>7
<1>9. ASSUME NEW a \in 1 .. n
      PROVE  /\ d[a + 1] = d[a] + Len(VarsOf(sc, p[a]))
             /\ \A k \in 1 .. Len(VarsOf(sc, p[a])) : VarsOf(sc, p[a])[k].index = d[a] + k - 1
  <2>1. a \in 1 .. n + 1 /\ a + 1 \in 1 .. n + 1
    BY <1>2
  <2>2. d[a] = b[a] /\ d[a + 1] = b[a + 1]
    BY <1>7, <2>1
  <2>3. p[a] = q[a]
    BY <1>2
  <2> QED
    BY <1>4, <2>1, <2>2, <2>3
<1>10. d[1] = 0 /\ d[n + 1] = m - l
  BY <1>2, <1>3, <1>6, <1>7
<1>11. d \in Begins(sc, p, m - l)
  BY <1>2, <1>7, <1>8, <1>9, <1>10 DEF Begins
<1> QED
  BY <1>6, <1>11 DEF p, n, l

-----------------------------------------------------------------------------
(* What happens to the innermost function.                                  *)

LEMMA FunctionType ==
  ASSUME NEW f \in FunctionRecords
  PROVE  /\ f.scopes \in Seq(Nat) /\ f.current \in Nat /\ f.slots \in Nat
         /\ f.highest \in Nat /\ f.class \in BOOLEAN
  BY DEF FunctionRecords

\* What a function counts depends on the slots of its open scopes only.
LEMMA OrderlyAlike ==
  ASSUME NEW sc, NEW tc, Len(sc) \in Nat, Len(tc) \in Nat, Len(sc) <= Len(tc),
         NEW f \in FunctionRecords, Orderly(sc, f),
         \A a \in 1 .. Len(f.scopes) :
           SameSlots(VarsOf(sc, f.scopes[a]), VarsOf(tc, f.scopes[a]))
  PROVE  Orderly(tc, f)
<1>1. Begins(tc, f.scopes, f.current) # {}
  BY FunctionType, BeginsAlike DEF Orderly
<1>2. Ordered(tc, f.scopes)
  BY DEF Orderly, Ordered
<1> QED
  BY <1>1, <1>2 DEF Orderly

\* A new scope opens inside all others.
LEMMA OrderedInside ==
  ASSUME NEW sc, NEW q, Ordered(sc, q), NEW s \in 1 .. Len(sc),
         \A a \in 1 .. Len(q) : q[a] < s
  PROVE  Ordered(sc, Append(q, s))
<1> DEFINE p == Append(q, s)
           n == Len(q)
<1>1. q \in Seq(Nat) /\ s \in Nat
  BY DEF Ordered
<1>2. /\ p \in Seq(Nat) /\ n \in Nat /\ Len(p) = n + 1 /\ p[n + 1] = s
      /\ \A a \in 1 .. n : p[a] = q[a]
  BY <1>1
<1> HIDE DEF p
<1>3. ASSUME NEW a \in 1 .. n + 1 PROVE p[a] \in 1 .. Len(sc)
  <2>1. CASE a = n + 1
    BY <1>2, <2>1
  <2>2. CASE a \in 1 .. n
    BY <1>2, <2>2 DEF Ordered
  <2> QED
    BY <1>2, <2>1, <2>2
<1>4. ASSUME NEW a \in 1 .. n + 1, NEW c \in 1 .. n + 1, a < c PROVE p[a] < p[c]
  <2>1. CASE c = n + 1
    <3>1. a \in 1 .. n /\ p[c] = s
      BY <1>2, <1>4, <2>1
    <3>2. p[a] = q[a] /\ q[a] < s
      BY <1>2, <3>1
    <3> QED
      BY <3>1, <3>2
  <2>2. CASE c \in 1 .. n
    <3>1. a \in 1 .. n /\ p[a] = q[a] /\ p[c] = q[c]
      BY <1>2, <1>4, <2>2
    <3> QED
      BY <1>4, <2>2, <3>1 DEF Ordered
  <2> QED
    BY <1>2, <2>1, <2>2
<1> QED
  BY <1>2, <1>3, <1>4 DEF Ordered, p

\* A block, or a class, begins.
LEMMA OrderlyInside ==
  ASSUME NEW sc, NEW f \in FunctionRecords, Orderly(sc, f),
         NEW s \in 1 .. Len(sc), VarsOf(sc, s) = <<>>, \A a \in 1 .. Len(f.scopes) : f.scopes[a] < s
  PROVE  LET g == [f EXCEPT !.scopes = Append(@, s)] IN
         /\ g \in FunctionRecords /\ Orderly(sc, g) /\ g.scopes = Append(f.scopes, s)
<1> DEFINE g == [f EXCEPT !.scopes = Append(@, s)]
<1>1. s \in Nat /\ Append(f.scopes, s) \in Seq(Nat)
  BY FunctionType
<1>2. g \in FunctionRecords /\ g.scopes = Append(f.scopes, s) /\ g.current = f.current
      /\ g.highest = f.highest /\ g.slots = f.slots
  BY <1>1 DEF FunctionRecords
<1>3. Ordered(sc, Append(f.scopes, s))
  BY OrderedInside DEF Orderly
<1>4. Begins(sc, Append(f.scopes, s), f.current) # {}
  BY <1>1, FunctionType, BeginsInside DEF Orderly
<1> HIDE DEF g
<1> QED
  BY <1>2, <1>3, <1>4 DEF Orderly, g

\* A function begins.
LEMMA OrderlyFunction ==
  ASSUME NEW sc, NEW s \in 1 .. Len(sc), VarsOf(sc, s) = <<>>, NEW class \in BOOLEAN
  PROVE  LET f == Function(s, class) IN
         /\ f \in FunctionRecords /\ Orderly(sc, f) /\ f.scopes = <<s>>
<1> DEFINE f == Function(s, class)
           q == <<s>>
<1>1. s \in Nat /\ q \in Seq(Nat) /\ Len(q) = 1 /\ q[1] = s
  OBVIOUS
<1>2. f \in FunctionRecords /\ f.scopes = q /\ f.current = 0 /\ f.highest = 0 /\ f.slots = 0
  BY <1>1 DEF Function, FunctionRecords
<1> HIDE DEF f, q
<1>3. Ordered(sc, q)
  BY <1>1 DEF Ordered
<1>4. [a \in 1 .. 2 |-> 0] \in Begins(sc, q, 0)
  BY <1>1 DEF Begins
<1>5. Orderly(sc, f)
  BY <1>2, <1>3, <1>4 DEF Orderly
<1> QED
  BY <1>2, <1>5 DEF f, q

\* A variable or a class is declared.
LEMMA OrderlyDeclares ==
  ASSUME NEW sc \in Seq(ScopeRecords), NEW tc, Len(tc) \in Nat, Len(sc) <= Len(tc),
         NEW f \in FunctionRecords, Orderly(sc, f), f.scopes # <<>>,
         NEW v \in VarRecords, v.index = f.current,
         VarsOf(tc, Last(f.scopes)) = Append(VarsOf(sc, Last(f.scopes)), v),
         \A s \in 1 .. Len(sc) :
           s # Last(f.scopes) => SameSlots(VarsOf(sc, s), VarsOf(tc, s))
  PROVE  LET g == TookSlot(f) IN
         /\ g \in FunctionRecords /\ Orderly(tc, g) /\ g.scopes = f.scopes
<1> DEFINE g == TookSlot(f)
           q == f.scopes
           n == Len(q)
<1>1. /\ q \in Seq(Nat) /\ n \in Nat \ {0} /\ Last(q) = q[n]
      /\ f.current \in Nat /\ f.highest \in Nat /\ f.slots \in Nat
  BY FunctionType DEF Last
<1>2. /\ g \in FunctionRecords /\ g.scopes = f.scopes /\ g.current = f.current + 1
      /\ g.slots = f.slots
      /\ g.highest = IF f.highest > f.current THEN f.highest ELSE f.current + 1
  <2> DEFINE h == IF f.highest > f.current THEN f.highest ELSE f.current + 1
             c == f.current + 1
  <2>1. h \in Nat /\ c \in Nat
    BY <1>1
  <2>2. g = [f EXCEPT !.current = c, !.highest = h]
    BY DEF TookSlot
  <2>3. h = IF f.highest > f.current THEN f.highest ELSE f.current + 1
    OBVIOUS
  <2>4. c = f.current + 1
    OBVIOUS
  <2> HIDE DEF g, h, c
  <2>5. /\ g \in FunctionRecords /\ g.scopes = f.scopes /\ g.current = c
        /\ g.slots = f.slots /\ g.highest = h
    BY <2>1, <2>2 DEF FunctionRecords
  <2> QED
    BY <2>3, <2>4, <2>5
<1>9. \A s \in 1 .. Len(sc) : s # q[n] => SameSlots(VarsOf(sc, s), VarsOf(tc, s))
  BY <1>1
<1>10. VarsOf(tc, q[n]) = Append(VarsOf(sc, q[n]), v)
  BY <1>1
<1> HIDE DEF g
<1>3. /\ \A a \in 1 .. n : q[a] \in 1 .. Len(sc)
      /\ \A a, c \in 1 .. n : a < c => q[a] < q[c]
      /\ Begins(sc, q, f.current) # {}
  BY DEF Orderly, Ordered
<1> HIDE DEF q, n
<1>4. \A a \in 1 .. n : VarsOf(sc, q[a]) \in Seq(VarRecords)
  BY <1>3, VarsType
<1>11. n = Len(q) /\ q = f.scopes
  BY DEF n, q
<1>5. ASSUME NEW a \in 1 .. n - 1 PROVE SameSlots(VarsOf(sc, q[a]), VarsOf(tc, q[a]))
  <2>1. q[a] # q[n] /\ q[a] \in 1 .. Len(sc)
    <3>1. a \in 1 .. n /\ n \in 1 .. n /\ a < n
      BY <1>1
    <3>2. q[a] \in Nat /\ q[n] \in Nat /\ q[a] < q[n]
      BY <1>1, <1>3, <3>1
    <3> QED
      BY <1>3, <3>1, <3>2
  <2> QED
    BY <1>9, <2>1
<1>6. Begins(tc, q, f.current + 1) # {}
  <2>1. q # <<>>
    BY <1>1, <1>11
  <2> QED
    BY <1>1, <1>3, <1>4, <1>5, <1>10, <1>11, <2>1, BeginsDeclares
<1>7. Ordered(tc, q)
  BY <1>1, <1>3, <1>11, SMTT(20) DEF Ordered
<1>8. g.highest <= g.slots \/ g.highest <= g.current
  BY <1>1, <1>2 DEF Orderly
<1> QED
  BY <1>2, <1>6, <1>7, <1>8, <1>11 DEF Orderly, g

\* What leaving the innermost scope leaves.
LeftIn(sc, f) ==
  [f EXCEPT !.slots = IF @ < f.current THEN f.current ELSE @,
            !.current = @ - Len(sc[Last(f.scopes)].vars),
            !.scopes = Front(@)]

\* So it stays when the innermost scope is closed.
LEMMA OrderedFront ==
  ASSUME NEW sc, NEW q, Ordered(sc, q), q # <<>>
  PROVE  Ordered(sc, SubSeq(q, 1, Len(q) - 1)) /\ SubSeq(q, 1, Len(q) - 1) \in Seq(Nat)
<1> DEFINE p == SubSeq(q, 1, Len(q) - 1)
           n == Len(q) - 1
<1>1. q \in Seq(Nat) /\ Len(q) = n + 1 /\ n \in Nat
  BY DEF Ordered
<1>2. p \in Seq(Nat) /\ Len(p) = n /\ \A a \in 1 .. n : p[a] = q[a]
  BY <1>1
<1> HIDE DEF p, n
<1> QED
  BY <1>1, <1>2 DEF Ordered, p

\* A scope that is left gives back its slots, and the highest of them was counted.
LEMMA OrderlyLeft ==
  ASSUME NEW sc \in Seq(ScopeRecords), NEW f \in FunctionRecords, Orderly(sc, f),
         f.scopes # <<>>
  PROVE  LET g == LeftIn(sc, f) IN
         /\ g \in FunctionRecords /\ Orderly(sc, g)
         /\ g.scopes = SubSeq(f.scopes, 1, Len(f.scopes) - 1)
         /\ g.highest <= g.slots
<1> DEFINE g == LeftIn(sc, f)
           q == f.scopes
           l == Len(VarsOf(sc, q[Len(q)]))
<1>1. /\ q \in Seq(Nat) /\ Len(q) \in 1 .. Len(q)
      /\ f.current \in Nat /\ f.highest \in Nat /\ f.slots \in Nat
  BY FunctionType
<1>2. VarsOf(sc, q[Len(q)]) \in Seq(VarRecords)
  BY <1>1, VarsType DEF Orderly, Ordered
<1>3. f.current - l \in Nat /\ Begins(sc, SubSeq(q, 1, Len(q) - 1), f.current - l) # {}
  BY <1>1, <1>2, BeginsLeft DEF Orderly
<1>4. Ordered(sc, SubSeq(q, 1, Len(q) - 1)) /\ SubSeq(q, 1, Len(q) - 1) \in Seq(Nat)
  BY OrderedFront DEF Orderly
<1>5. g = [f EXCEPT !.slots = IF f.slots < f.current THEN f.current ELSE f.slots,
                    !.current = f.current - l,
                    !.scopes = SubSeq(q, 1, Len(q) - 1)]
  BY DEF LeftIn, Last, Front, VarsOf
<1> DEFINE p == SubSeq(q, 1, Len(q) - 1)
           m == f.current - l
           t == IF f.slots < f.current THEN f.current ELSE f.slots
<1>6. t \in Nat /\ f.slots <= t /\ f.current <= t
  BY <1>1
<1> HIDE DEF g, p, m, t
<1>7. g = [f EXCEPT !.slots = t, !.current = m, !.scopes = p]
  BY <1>5 DEF p, m, t
<1>8. p \in Seq(Nat) /\ m \in Nat
  BY <1>3, <1>4 DEF p, m
<1>9. /\ g \in FunctionRecords /\ g.scopes = p /\ g.current = m /\ g.slots = t
      /\ g.highest = f.highest
  BY <1>6, <1>7, <1>8 DEF FunctionRecords
<1>10. g.highest <= g.slots
  BY <1>1, <1>6, <1>9 DEF Orderly
<1>11. Orderly(sc, g)
  BY <1>3, <1>4, <1>9, <1>10 DEF Orderly, p, m
<1> QED
  BY <1>9, <1>10, <1>11 DEF g, p

-----------------------------------------------------------------------------
(* All functions.                                                           *)

Below(p, q) == \A a \in 1 .. Len(p), c \in 1 .. Len(q) : p[a] < q[c]

\* A function declares nothing beside its block.
Bare(sc, f) == f.scopes # <<>> => VarsOf(sc, f.scopes[1]) = <<>>

\* Inner functions have newer scopes.
ScopesOk(sc, fs) ==
  /\ sc \in Seq(ScopeRecords) /\ fs \in Seq(FunctionRecords)
  /\ \A k \in 1 .. Len(fs) : Orderly(sc, fs[k])
  /\ \A k, l \in 1 .. Len(fs) : k < l => Below(fs[k].scopes, fs[l].scopes)
  /\ \A k \in 2 .. Len(fs) : Bare(sc, fs[k])

\* A scope that is bare stays so while its slots are the same.
LEMMA BareAlike ==
  ASSUME NEW sc, NEW tc \in Seq(ScopeRecords), NEW f \in FunctionRecords,
         Ordered(sc, f.scopes), Len(sc) <= Len(tc), Len(sc) \in Nat, Bare(sc, f),
         \A a \in 1 .. Len(f.scopes) :
           SameSlots(VarsOf(sc, f.scopes[a]), VarsOf(tc, f.scopes[a]))
  PROVE  Bare(tc, f)
<1> SUFFICES ASSUME f.scopes # <<>> PROVE VarsOf(tc, f.scopes[1]) = <<>>
  BY DEF Bare
<1>1. 1 \in 1 .. Len(f.scopes)
  BY FunctionType
<1>2. f.scopes[1] \in 1 .. Len(tc)
  BY <1>1 DEF Ordered
<1>3. VarsOf(tc, f.scopes[1]) \in Seq(VarRecords)
  BY <1>2, VarsType
<1>4. VarsOf(sc, f.scopes[1]) = <<>>
  BY DEF Bare
<1>5. Len(VarsOf(tc, f.scopes[1])) = 0
  BY <1>1, <1>4 DEF SameSlots
<1> QED
  BY <1>3, <1>5

\* The innermost function changes, and the scopes of no other do.
LEMMA ScopesOkTop ==
  ASSUME NEW sc, NEW fs, ScopesOk(sc, fs), fs # <<>>,
         NEW tc \in Seq(ScopeRecords), Len(sc) <= Len(tc),
         NEW g \in FunctionRecords, Orderly(tc, g), Len(fs) > 1 => Bare(tc, g),
         \A k \in 1 .. Len(fs) - 1 :
           /\ Below(fs[k].scopes, g.scopes)
           /\ \A a \in 1 .. Len(fs[k].scopes) :
                SameSlots(VarsOf(sc, fs[k].scopes[a]), VarsOf(tc, fs[k].scopes[a]))
  PROVE  ScopesOk(tc, [fs EXCEPT ![Len(fs)] = g])
<1> DEFINE n == Len(fs)
           gs == [fs EXCEPT ![n] = g]
<1>1. /\ sc \in Seq(ScopeRecords) /\ fs \in Seq(FunctionRecords) /\ n \in Nat \ {0}
      /\ Len(sc) \in Nat /\ Len(tc) \in Nat
  BY DEF ScopesOk
<1>2. /\ gs \in Seq(FunctionRecords) /\ Len(gs) = n /\ gs[n] = g
      /\ \A k \in 1 .. n - 1 : gs[k] = fs[k]
  BY <1>1
<1> HIDE DEF gs, n
<1>3. ASSUME NEW k \in 1 .. n PROVE Orderly(tc, gs[k]) /\ (k > 1 => Bare(tc, gs[k]))
  <2>1. CASE k = n
    BY <1>1, <1>2, <2>1 DEF n
  <2>2. CASE k \in 1 .. n - 1
    <3>1. fs[k] \in FunctionRecords /\ Orderly(sc, fs[k]) /\ (k > 1 => Bare(sc, fs[k]))
      BY <1>1, <2>2 DEF ScopesOk, n
    <3>2. \A a \in 1 .. Len(fs[k].scopes) :
            SameSlots(VarsOf(sc, fs[k].scopes[a]), VarsOf(tc, fs[k].scopes[a]))
      BY <2>2 DEF n
    <3>3. Orderly(tc, fs[k])
      BY <1>1, <3>1, <3>2, OrderlyAlike
    <3>4. k > 1 => Bare(tc, fs[k])
      BY <1>1, <3>1, <3>2, BareAlike DEF Orderly
    <3> QED
      BY <1>2, <2>2, <3>3, <3>4
  <2> QED
    BY <1>1, <2>1, <2>2
<1>4. ASSUME NEW k \in 1 .. n, NEW l \in 1 .. n, k < l
      PROVE  Below(gs[k].scopes, gs[l].scopes)
  <2>1. k \in 1 .. n - 1 /\ gs[k] = fs[k]
    BY <1>1, <1>2, <1>4
  <2>2. CASE l = n
    BY <1>2, <2>1, <2>2 DEF n
  <2>3. CASE l \in 1 .. n - 1
    BY <1>1, <1>2, <1>4, <2>1, <2>3 DEF ScopesOk, n
  <2> QED
    BY <1>1, <2>2, <2>3
<1>5. \A k \in 1 .. Len(gs) : Orderly(tc, gs[k])
  BY <1>2, <1>3
<1>6. \A k \in 2 .. Len(gs) : Bare(tc, gs[k])
  BY <1>1, <1>2, <1>3
<1>7. \A k, l \in 1 .. Len(gs) : k < l => Below(gs[k].scopes, gs[l].scopes)
  BY <1>2, <1>4
<1>8. ScopesOk(tc, gs)
  BY <1>2, <1>5, <1>6, <1>7 DEF ScopesOk
<1> QED
  BY <1>8 DEF gs, n

\* Scopes are added, and no variable but by name changes.
LEMMA ScopesOkAlike ==
  ASSUME NEW sc, NEW fs, ScopesOk(sc, fs),
         NEW tc \in Seq(ScopeRecords), Len(sc) <= Len(tc),
         \A s \in 1 .. Len(sc) : SameSlots(VarsOf(sc, s), VarsOf(tc, s))
  PROVE  ScopesOk(tc, fs)
<1>1. sc \in Seq(ScopeRecords) /\ fs \in Seq(FunctionRecords)
      /\ Len(sc) \in Nat /\ Len(tc) \in Nat /\ Len(fs) \in Nat
  BY DEF ScopesOk
<1>2. ASSUME NEW k \in 1 .. Len(fs)
      PROVE  Orderly(tc, fs[k]) /\ (k > 1 => Bare(tc, fs[k]))
  <2>1. fs[k] \in FunctionRecords /\ Orderly(sc, fs[k]) /\ (k > 1 => Bare(sc, fs[k]))
    BY <1>1 DEF ScopesOk
  <2>2. \A a \in 1 .. Len(fs[k].scopes) :
          SameSlots(VarsOf(sc, fs[k].scopes[a]), VarsOf(tc, fs[k].scopes[a]))
    BY <2>1 DEF Orderly, Ordered
  <2>3. Orderly(tc, fs[k])
    BY <1>1, <2>1, <2>2, OrderlyAlike
  <2>4. k > 1 => Bare(tc, fs[k])
    BY <1>1, <2>1, <2>2, BareAlike DEF Orderly
  <2> QED
    BY <2>3, <2>4
<1> QED
  BY <1>1, <1>2 DEF ScopesOk

\* A function begins in the innermost one.
LEMMA ScopesOkFunction ==
  ASSUME NEW sc, NEW fs, ScopesOk(sc, fs),
         NEW g \in FunctionRecords, Orderly(sc, g), Bare(sc, g),
         \A k \in 1 .. Len(fs) : Below(fs[k].scopes, g.scopes)
  PROVE  ScopesOk(sc, Append(fs, g))
<1> DEFINE n == Len(fs)
           gs == Append(fs, g)
<1>1. sc \in Seq(ScopeRecords) /\ fs \in Seq(FunctionRecords) /\ n \in Nat
  BY DEF ScopesOk
<1>2. /\ gs \in Seq(FunctionRecords) /\ Len(gs) = n + 1 /\ gs[n + 1] = g
      /\ \A k \in 1 .. n : gs[k] = fs[k]
  BY <1>1
<1> HIDE DEF gs, n
<1>3. ASSUME NEW k \in 1 .. n + 1 PROVE Orderly(sc, gs[k]) /\ (k > 1 => Bare(sc, gs[k]))
  <2>1. CASE k = n + 1
    BY <1>2, <2>1
  <2>2. CASE k \in 1 .. n
    BY <1>1, <1>2, <2>2 DEF ScopesOk, n
  <2> QED
    BY <1>1, <2>1, <2>2
<1>4. ASSUME NEW k \in 1 .. n + 1, NEW l \in 1 .. n + 1, k < l
      PROVE  Below(gs[k].scopes, gs[l].scopes)
  <2>1. k \in 1 .. n /\ gs[k] = fs[k]
    BY <1>1, <1>2, <1>4
  <2>2. CASE l = n + 1
    BY <1>2, <2>1, <2>2 DEF n
  <2>3. CASE l \in 1 .. n
    BY <1>1, <1>2, <1>4, <2>1, <2>3 DEF ScopesOk, n
  <2> QED
    BY <1>1, <2>2, <2>3
<1> QED
  BY <1>1, <1>2, <1>3, <1>4 DEF ScopesOk, gs

\* The innermost function ends.
LEMMA ScopesOkFront ==
  ASSUME NEW sc, NEW fs, ScopesOk(sc, fs), fs # <<>>
  PROVE  ScopesOk(sc, SubSeq(fs, 1, Len(fs) - 1))
<1> DEFINE n == Len(fs) - 1
           gs == SubSeq(fs, 1, n)
<1>1. sc \in Seq(ScopeRecords) /\ fs \in Seq(FunctionRecords) /\ n \in Nat /\ Len(fs) = n + 1
  BY DEF ScopesOk
<1>2. gs \in Seq(FunctionRecords) /\ Len(gs) = n /\ \A k \in 1 .. n : gs[k] = fs[k]
  BY <1>1
<1> HIDE DEF gs, n
<1>3. ASSUME NEW k \in 1 .. n PROVE Orderly(sc, gs[k]) /\ (k > 1 => Bare(sc, gs[k]))
  BY <1>1, <1>2 DEF ScopesOk
<1>4. ASSUME NEW k \in 1 .. n, NEW l \in 1 .. n, k < l
      PROVE  Below(gs[k].scopes, gs[l].scopes)
  BY <1>1, <1>2, <1>4 DEF ScopesOk
<1> QED
  BY <1>1, <1>2, <1>3, <1>4 DEF ScopesOk, gs, n

-----------------------------------------------------------------------------
(* Slots.                                                                   *)

OpenVarsIn(sc, f) ==
  UNION {{<<s, k>> : k \in DOMAIN sc[s].vars} : s \in Range(f.scopes)}

SlotIn(sc, v) == sc[v[1]].vars[v[2]].index

\* Each slot below the current one is taken, by one variable.
LEMMA OrderlySlots ==
  ASSUME NEW sc \in Seq(ScopeRecords), NEW f \in FunctionRecords, Orderly(sc, f)
  PROVE  LET vs == OpenVarsIn(sc, f) IN
         /\ \A v, w \in vs : v # w => SlotIn(sc, v) # SlotIn(sc, w)
         /\ {SlotIn(sc, v) : v \in vs} = 0 .. f.current - 1
<1> DEFINE q == f.scopes
           n == Len(q)
           m == f.current
           U(a) == VarsOf(sc, q[a])
<1>1. q \in Seq(Nat) /\ n \in Nat /\ m \in Nat
  BY FunctionType
<1>2. PICK b \in Begins(sc, q, m) : TRUE
  BY DEF Orderly
<1>3. /\ b \in [1 .. n + 1 -> Nat] /\ b[1] = 0 /\ b[n + 1] = m
      /\ \A a, c \in 1 .. n + 1 : a <= c => b[a] <= b[c]
      /\ \A a \in 1 .. n : /\ b[a + 1] = b[a] + Len(U(a))
                           /\ \A k \in 1 .. Len(U(a)) : U(a)[k].index = b[a] + k - 1
  BY <1>2 DEF Begins
<1>4. /\ \A a \in 1 .. n : q[a] \in 1 .. Len(sc)
      /\ \A a, c \in 1 .. n : a < c => q[a] < q[c]
  BY DEF Orderly, Ordered
<1>5. \A a \in 1 .. n : U(a) \in Seq(VarRecords) /\ Len(U(a)) \in Nat
                        /\ DOMAIN U(a) = 1 .. Len(U(a))
  BY <1>4, VarsType
<1>6. \A v : v \in OpenVarsIn(sc, f) <=>
               \E a \in 1 .. n : \E k \in 1 .. Len(U(a)) : v = <<q[a], k>>
  <2>1. Range(q) = {q[a] : a \in 1 .. n}
    BY <1>1, RangeEquality
  <2> QED
    BY <1>5, <2>1 DEF OpenVarsIn, VarsOf
<1>7. \A a \in 1 .. n : \A k \in 1 .. Len(U(a)) : SlotIn(sc, <<q[a], k>>) = b[a] + k - 1
  BY <1>3 DEF SlotIn, VarsOf
<1> HIDE DEF q, n, m, U
<1>8. ASSUME NEW v \in OpenVarsIn(sc, f), NEW w \in OpenVarsIn(sc, f), v # w
      PROVE  SlotIn(sc, v) # SlotIn(sc, w)
  <2>1. PICK a \in 1 .. n : \E k \in 1 .. Len(U(a)) : v = <<q[a], k>>
    BY <1>6
  <2>1b. PICK k \in 1 .. Len(U(a)) : v = <<q[a], k>>
    BY <2>1
  <2>2. PICK c \in 1 .. n : \E l \in 1 .. Len(U(c)) : w = <<q[c], l>>
    BY <1>6
  <2>2b. PICK l \in 1 .. Len(U(c)) : w = <<q[c], l>>
    BY <2>2
  <2>3. SlotIn(sc, v) = b[a] + k - 1 /\ SlotIn(sc, w) = b[c] + l - 1
    BY <1>7, <2>1b, <2>2b
  <2>4. k \in Nat /\ l \in Nat /\ b[a] \in Nat /\ b[c] \in Nat /\ k > 0 /\ l > 0
    BY <1>1, <1>3, <1>5
  <2>5. CASE a = c
    BY <1>8, <2>1b, <2>2b, <2>3, <2>4, <2>5
  <2>6. CASE a < c
    <3>1. a + 1 \in 1 .. n + 1 /\ c \in 1 .. n + 1 /\ a + 1 <= c
      BY <1>1, <2>6
    <3>2. b[a] + Len(U(a)) <= b[c] /\ Len(U(a)) \in Nat /\ k <= Len(U(a))
      BY <1>3, <1>5, <3>1
    <3> QED
      BY <2>3, <2>4, <3>2
  <2>7. CASE c < a
    <3>1. c + 1 \in 1 .. n + 1 /\ a \in 1 .. n + 1 /\ c + 1 <= a
      BY <1>1, <2>7
    <3>2. b[c] + Len(U(c)) <= b[a] /\ Len(U(c)) \in Nat /\ l <= Len(U(c))
      BY <1>3, <1>5, <3>1
    <3> QED
      BY <2>3, <2>4, <3>2
  <2> QED
    BY <1>1, <2>5, <2>6, <2>7
<1>9. ASSUME NEW v \in OpenVarsIn(sc, f) PROVE SlotIn(sc, v) \in 0 .. m - 1
  <2>1. PICK a \in 1 .. n : \E k \in 1 .. Len(U(a)) : v = <<q[a], k>>
    BY <1>6
  <2>1b. PICK k \in 1 .. Len(U(a)) : v = <<q[a], k>>
    BY <2>1
  <2>2. SlotIn(sc, v) = b[a] + k - 1
    BY <1>7, <2>1b
  <2>3. a \in 1 .. n + 1 /\ a + 1 \in 1 .. n + 1 /\ n + 1 \in 1 .. n + 1 /\ a + 1 <= n + 1
    BY <1>1
  <2>4. b[a] \in Nat /\ b[a] + Len(U(a)) <= m /\ Len(U(a)) \in Nat /\ k \in 1 .. Len(U(a))
    BY <1>3, <1>5, <2>3
  <2> QED
    BY <1>1, <2>2, <2>4
<1>10. ASSUME NEW x \in 0 .. m - 1 PROVE \E v \in OpenVarsIn(sc, f) : SlotIn(sc, v) = x
  <2> DEFINE S == {a \in Nat : a \in 1 .. n + 1 /\ x < b[a]}
  <2>1. S # {} /\ S \subseteq Nat
    <3>1. n + 1 \in S
      BY <1>1, <1>3
    <3> QED
      BY <3>1
  <2>2. PICK c \in S : \A d \in S : c <= d
    BY <2>1, LeastNumber
  <2>3. c \in 1 .. n + 1 /\ x < b[c] /\ c # 1
    BY <1>1, <1>3, <2>2
  <2> DEFINE a == c - 1
  <2>4. a \in 1 .. n /\ a + 1 = c /\ a \notin S
    BY <1>1, <2>2, <2>3
  <2>5. b[a] \in Nat /\ b[a] <= x /\ b[c] = b[a] + Len(U(a)) /\ Len(U(a)) \in Nat
    BY <1>1, <1>3, <1>5, <2>4
  <2> DEFINE k == x - b[a] + 1
  <2>6. k \in 1 .. Len(U(a)) /\ b[a] + k - 1 = x
    BY <1>1, <2>3, <2>5
  <2> HIDE DEF a, k, S
  <2>7. <<q[a], k>> \in OpenVarsIn(sc, f) /\ SlotIn(sc, <<q[a], k>>) = x
    BY <1>6, <1>7, <2>4, <2>6
  <2> QED
    BY <2>7
<1>11. {SlotIn(sc, v) : v \in OpenVarsIn(sc, f)} = 0 .. m - 1
  BY <1>9, <1>10
<1> QED
  BY <1>8, <1>11 DEF m

-----------------------------------------------------------------------------
(* The stack of nodes, and its rows.                                        *)

Row(e) == [type |-> e.type, saved |-> e.saved, scope |-> e.scope]
RowsOf(q) == [i \in 1 .. Len(q) |-> Row(q[i])]

Entries(S) ==
  [type : S, saved : S, scope : S, branchLast : S, step : S, ends : S, start : S]

Shaped(q) == \E S : q \in Seq(Entries(S))

\* A node, as it is pushed.
LEMMA EntryType ==
  ASSUME NEW type, NEW saved
  PROVE  LET e == Entry(type, saved) IN
         /\ \E S : e \in Entries(S)
         /\ Row(e) = [type |-> type, saved |-> saved, scope |-> NoScope]
<1> DEFINE e == Entry(type, saved)
           S == {type, saved, NoScope, FALSE, "", {}, 0}
<1>1. e \in Entries(S)
  BY DEF Entry, Entries
<1>2. e.type = type /\ e.saved = saved /\ e.scope = NoScope
  BY DEF Entry
<1> QED
  BY <1>1, <1>2 DEF Row

\* The nodes that have a scope, and expressions.
LEMMA EntryWithScope ==
  ASSUME NEW type, NEW saved, NEW scope
  PROVE  LET e == [Entry(type, saved) EXCEPT !.scope = scope] IN
         /\ \E S : e \in Entries(S)
         /\ Row(e) = [type |-> type, saved |-> saved, scope |-> scope]
<1> DEFINE e == [Entry(type, saved) EXCEPT !.scope = scope]
           S == {type, saved, scope, FALSE, "", {}, 0}
<1>1. e \in Entries(S)
  BY DEF Entry, Entries
<1>2. e.type = type /\ e.saved = saved /\ e.scope = scope
  BY DEF Entry
<1> QED
  BY <1>1, <1>2 DEF Row

LEMMA EntryWithEnds ==
  ASSUME NEW type, NEW saved, NEW ends
  PROVE  LET e == [Entry(type, saved) EXCEPT !.ends = ends] IN
         /\ \E S : e \in Entries(S)
         /\ Row(e) = [type |-> type, saved |-> saved, scope |-> NoScope]
<1> DEFINE e == [Entry(type, saved) EXCEPT !.ends = ends]
           S == {type, saved, NoScope, FALSE, "", ends, 0}
<1>1. e \in Entries(S)
  BY DEF Entry, Entries
<1>2. e.type = type /\ e.saved = saved /\ e.scope = NoScope
  BY DEF Entry
<1> QED
  BY <1>1, <1>2 DEF Row

LEMMA RowsType ==
  ASSUME NEW q, Shaped(q)
  PROVE  /\ Len(q) \in Nat /\ Len(RowsOf(q)) = Len(q)
         /\ \A i \in 1 .. Len(q) : /\ RowsOf(q)[i] = Row(q[i])
                                   /\ RowsOf(q)[i].type = q[i].type
                                   /\ RowsOf(q)[i].saved = q[i].saved
                                   /\ RowsOf(q)[i].scope = q[i].scope
<1>1. PICK S : q \in Seq(Entries(S))
  BY DEF Shaped
<1>2. Len(q) \in Nat
  BY <1>1
<1>3. Len(RowsOf(q)) = Len(q)
  BY <1>2 DEF RowsOf
<1> QED
  BY <1>2, <1>3 DEF RowsOf, Row

\* The last node is replaced by another one.
LEMMA RowsReplaced ==
  ASSUME NEW q, Shaped(q), q # <<>>, NEW e, \E S : e \in Entries(S)
  PROVE  LET p == [q EXCEPT ![Len(q)] = e] IN
         /\ Shaped(p) /\ Len(p) = Len(q)
         /\ RowsOf(p) = [RowsOf(q) EXCEPT ![Len(q)] = Row(e)]
<1> DEFINE p == [q EXCEPT ![Len(q)] = e]
           n == Len(q)
<1>1. PICK S : q \in Seq(Entries(S))
  BY DEF Shaped
<1>2. PICK T : e \in Entries(T)
  OBVIOUS
<1> DEFINE U == S \union T
<1>3. \A x : x \in Entries(S) \/ x \in Entries(T) => x \in Entries(U)
  BY DEF Entries
<1> HIDE DEF U
<1>4. n \in Nat \ {0} /\ q \in Seq(Entries(U)) /\ e \in Entries(U)
  BY <1>1, <1>2, <1>3
<1>5. /\ p \in Seq(Entries(U)) /\ Len(p) = n /\ p[n] = e
      /\ \A i \in 1 .. n : i # n => p[i] = q[i]
  BY <1>4
<1> HIDE DEF p, n
<1>6. RowsOf(p) = [i \in 1 .. n |-> IF i = n THEN Row(e) ELSE Row(q[i])]
  BY <1>5 DEF RowsOf
<1>7. [RowsOf(q) EXCEPT ![n] = Row(e)]
        = [i \in 1 .. n |-> IF i = n THEN Row(e) ELSE Row(q[i])]
  BY DEF RowsOf, n
<1> QED
  BY <1>5, <1>6, <1>7 DEF Shaped, p, n

\* The rows of a stack with a node more, and of one with some nodes fewer.
LEMMA RowsAppended ==
  ASSUME NEW q, Shaped(q), NEW e, \E S : e \in Entries(S)
  PROVE  LET p == Append(q, e) IN
         /\ Shaped(p) /\ Len(p) = Len(q) + 1
         /\ RowsOf(p) = Append(RowsOf(q), Row(e))
<1> DEFINE p == Append(q, e)
           n == Len(q)
<1>1. PICK S : q \in Seq(Entries(S))
  BY DEF Shaped
<1>2. PICK T : e \in Entries(T)
  OBVIOUS
<1> DEFINE U == S \union T
<1>3. \A x : x \in Entries(S) \/ x \in Entries(T) => x \in Entries(U)
  BY DEF Entries
<1> HIDE DEF U
<1>4. n \in Nat /\ q \in Seq(Entries(U)) /\ e \in Entries(U)
  BY <1>1, <1>2, <1>3
<1>5. /\ p \in Seq(Entries(U)) /\ Len(p) = n + 1 /\ p[n + 1] = e
      /\ \A i \in 1 .. n : p[i] = q[i]
  BY <1>4
<1> HIDE DEF p
<1>6. RowsOf(p) = [i \in 1 .. n + 1 |-> IF i = n + 1 THEN Row(e) ELSE Row(q[i])]
  BY <1>4, <1>5 DEF RowsOf
<1>7. Append(RowsOf(q), Row(e))
        = [i \in 1 .. n + 1 |-> IF i = n + 1 THEN Row(e) ELSE Row(q[i])]
  <2> DEFINE r == RowsOf(q)
             x == Row(e)
  <2>1. r \in Seq({Row(q[i]) : i \in 1 .. n}) /\ Len(r) = n
    BY <1>4 DEF RowsOf
  <2>2. \A i \in 1 .. n : r[i] = Row(q[i])
    BY DEF RowsOf
  <2> HIDE DEF r, x, n
  <2> DEFINE W == {Row(q[i]) : i \in 1 .. n} \union {x}
             z == Append(r, x)
  <2>3. n \in Nat /\ r \in Seq(W) /\ x \in W
    BY <1>4, <2>1
  <2> HIDE DEF W
  <2>4. z \in [1 .. n + 1 -> W] /\ z[n + 1] = x /\ \A i \in 1 .. n : z[i] = r[i]
    <3>1. z \in Seq(W) /\ Len(z) = n + 1
      BY <2>1, <2>3
    <3>2. z[n + 1] = x /\ \A i \in 1 .. n : z[i] = r[i]
      BY <2>1, <2>3
    <3> HIDE DEF z
    <3> QED
      BY <3>1, <3>2
  <2> HIDE DEF z
  <2>5. z = [i \in 1 .. n + 1 |-> IF i = n + 1 THEN x ELSE Row(q[i])]
    BY <2>2, <2>3, <2>4
  <2> QED
    BY <2>5 DEF r, x, z
<1> QED
  BY <1>5, <1>6, <1>7 DEF Shaped, p

LEMMA RowsBefore ==
  ASSUME NEW q, Shaped(q), NEW m \in 0 .. Len(q)
  PROVE  LET p == SubSeq(q, 1, m) IN
         Shaped(p) /\ Len(p) = m /\ RowsOf(p) = SubSeq(RowsOf(q), 1, m)
<1> DEFINE p == SubSeq(q, 1, m)
<1>1. PICK S : q \in Seq(Entries(S))
  BY DEF Shaped
<1>2. Len(q) \in Nat /\ m \in Nat /\ m <= Len(q)
  BY <1>1
<1>3. p \in Seq(Entries(S)) /\ Len(p) = m /\ \A i \in 1 .. m : p[i] = q[i]
  BY <1>1, <1>2
<1> HIDE DEF p
<1>4. RowsOf(p) = [i \in 1 .. m |-> Row(q[i])]
  BY <1>3 DEF RowsOf
<1>5. SubSeq(RowsOf(q), 1, m) = [i \in 1 .. m |-> Row(q[i])]
  <2> DEFINE r == RowsOf(q)
  <2>1. r \in Seq({Row(q[i]) : i \in 1 .. Len(q)}) /\ Len(r) = Len(q)
    BY <1>2 DEF RowsOf
  <2>2. \A i \in 1 .. Len(q) : r[i] = Row(q[i])
    BY DEF RowsOf
  <2> HIDE DEF r
  <2>3. SubSeq(r, 1, m) = [i \in 1 .. m |-> r[i]]
    BY <1>2, <2>1
  <2> QED
    BY <1>2, <2>2, <2>3 DEF r
<1> QED
  BY <1>3, <1>4, <1>5 DEF Shaped, p

\* What the parser notes of the last node is not in its row.
LEMMA RowsMarked ==
  ASSUME NEW q, Shaped(q), q # <<>>, NEW x
  PROVE  /\ LET p == [q EXCEPT ![Len(q)].step = x] IN
            Shaped(p) /\ Len(p) = Len(q) /\ RowsOf(p) = RowsOf(q)
         /\ LET p == [q EXCEPT ![Len(q)].start = x] IN
            Shaped(p) /\ Len(p) = Len(q) /\ RowsOf(p) = RowsOf(q)
         /\ LET p == [q EXCEPT ![Len(q)].branchLast = x] IN
            Shaped(p) /\ Len(p) = Len(q) /\ RowsOf(p) = RowsOf(q)
<1> DEFINE n == Len(q)
<1>1. PICK S : q \in Seq(Entries(S))
  BY DEF Shaped
<1>2. n \in 1 .. n /\ q[n] \in Entries(S)
  BY <1>1
<1>3. ASSUME NEW e, \E T : e \in Entries(T), Row(e) = Row(q[n])
      PROVE  LET p == [q EXCEPT ![n] = e] IN
             Shaped(p) /\ Len(p) = Len(q) /\ RowsOf(p) = RowsOf(q)
  <2>1. [RowsOf(q) EXCEPT ![n] = Row(e)] = RowsOf(q)
    BY <1>2, <1>3 DEF RowsOf
  <2> QED
    BY <1>3, <2>1, RowsReplaced
<1> DEFINE y == q[n]
           T == S \union {x}
           e1 == [y EXCEPT !.step = x]
           e2 == [y EXCEPT !.start = x]
           e3 == [y EXCEPT !.branchLast = x]
<1>4. y \in Entries(S)
  BY <1>2
<1> HIDE DEF y
<1>5. /\ e1 \in Entries(T) /\ e2 \in Entries(T) /\ e3 \in Entries(T)
      /\ e1.type = y.type /\ e1.saved = y.saved /\ e1.scope = y.scope
      /\ e2.type = y.type /\ e2.saved = y.saved /\ e2.scope = y.scope
      /\ e3.type = y.type /\ e3.saved = y.saved /\ e3.scope = y.scope
  BY <1>4 DEF Entries
<1> HIDE DEF e1, e2, e3, T, n
<1>6. Row(e1) = Row(q[n]) /\ Row(e2) = Row(q[n]) /\ Row(e3) = Row(q[n])
  BY <1>5 DEF Row, y
<1>7. /\ [q EXCEPT ![n].step = x] = [q EXCEPT ![n] = e1]
      /\ [q EXCEPT ![n].start = x] = [q EXCEPT ![n] = e2]
      /\ [q EXCEPT ![n].branchLast = x] = [q EXCEPT ![n] = e3]
  BY DEF e1, e2, e3, y
<1>8. (\E U : e1 \in Entries(U)) /\ (\E U : e2 \in Entries(U)) /\ (\E U : e3 \in Entries(U))
  BY <1>5
<1>9. LET p == [q EXCEPT ![n].step = x] IN
      Shaped(p) /\ Len(p) = Len(q) /\ RowsOf(p) = RowsOf(q)
  <2>1. LET p == [q EXCEPT ![n] = e1] IN
        Shaped(p) /\ Len(p) = Len(q) /\ RowsOf(p) = RowsOf(q)
    BY <1>3, <1>6, <1>8
  <2> QED
    BY <1>7, <2>1
<1>10. LET p == [q EXCEPT ![n].start = x] IN
       Shaped(p) /\ Len(p) = Len(q) /\ RowsOf(p) = RowsOf(q)
  <2>1. LET p == [q EXCEPT ![n] = e2] IN
        Shaped(p) /\ Len(p) = Len(q) /\ RowsOf(p) = RowsOf(q)
    BY <1>3, <1>6, <1>8
  <2> QED
    BY <1>7, <2>1
<1>11. LET p == [q EXCEPT ![n].branchLast = x] IN
       Shaped(p) /\ Len(p) = Len(q) /\ RowsOf(p) = RowsOf(q)
  <2>1. LET p == [q EXCEPT ![n] = e3] IN
        Shaped(p) /\ Len(p) = Len(q) /\ RowsOf(p) = RowsOf(q)
    BY <1>3, <1>6, <1>8
  <2> QED
    BY <1>7, <2>1
<1> QED
  BY <1>9, <1>10, <1>11 DEF n

-----------------------------------------------------------------------------
(* The open scopes of the functions are those of the nodes.                 *)

ScopesFor(fs) == [k \in 1 .. Len(fs) |-> fs[k].scopes]

Agrees(r, sc, fs) == ScopesOk(sc, fs) /\ ScopesFor(fs) = ScopesIn(r)

\* The function the parser is in.
LEMMA InFunction ==
  ASSUME NEW r, NEW s, Fits(r, s), NEW sc, NEW fs, Agrees(r, sc, fs)
  PROVE  LET f == fs[Len(fs)] IN
         /\ sc \in Seq(ScopeRecords) /\ Len(sc) \in Nat
         /\ fs \in Seq(FunctionRecords) /\ Len(fs) \in Nat \ {0}
         /\ Len(fs) = Len(ScopesIn(r))
         /\ \A k \in 1 .. Len(fs) : fs[k].scopes = ScopesIn(r)[k] /\ fs[k].scopes # <<>>
         /\ f \in FunctionRecords /\ Orderly(sc, f)
         /\ f.scopes \in Seq(Nat) /\ Len(f.scopes) \in Nat \ {0}
         /\ r[Len(r)].type # "FUNCDECL" /\ Len(fs) > 1 => Len(f.scopes) > 1
<1>1. sc \in Seq(ScopeRecords) /\ fs \in Seq(FunctionRecords) /\ Len(fs) \in Nat /\ Len(sc) \in Nat
  BY DEF Agrees, ScopesOk
<1>2. Len(fs) = Len(ScopesIn(r)) /\ \A k \in 1 .. Len(fs) : fs[k].scopes = ScopesIn(r)[k]
  <2>1. Len(ScopesFor(fs)) = Len(fs) /\ \A k \in 1 .. Len(fs) : ScopesFor(fs)[k] = fs[k].scopes
    BY <1>1 DEF ScopesFor
  <2> QED
    BY <2>1 DEF Agrees
<1>3. /\ ScopesIn(r) \in Seq(Seq(Nat)) /\ ScopesIn(r) # <<>>
      /\ \A k \in 1 .. Len(ScopesIn(r)) : ScopesIn(r)[k] # <<>>
      /\ r[Len(r)].type # "FUNCDECL" /\ Len(ScopesIn(r)) > 1
           => Len(ScopesIn(r)[Len(ScopesIn(r))]) > 1
  BY ScopesInFunctions
<1>4. Len(fs) \in Nat \ {0}
  BY <1>1, <1>2, <1>3
<1>5. fs[Len(fs)] \in FunctionRecords /\ Orderly(sc, fs[Len(fs)])
  BY <1>1, <1>4 DEF Agrees, ScopesOk
<1>6. fs[Len(fs)].scopes = ScopesIn(r)[Len(fs)] /\ fs[Len(fs)].scopes # <<>>
  BY <1>2, <1>3, <1>4
<1>7. fs[Len(fs)].scopes \in Seq(Nat)
  BY <1>5, FunctionType
<1>8. Len(fs[Len(fs)].scopes) \in Nat \ {0}
  BY <1>6, <1>7
<1>9. r[Len(r)].type # "FUNCDECL" /\ Len(fs) > 1 => Len(fs[Len(fs)].scopes) > 1
  BY <1>2, <1>3, <1>6
<1> QED
  BY <1>1, <1>2, <1>3, <1>4, <1>5, <1>7, <1>8, <1>9

LEMMA ScopesForTop ==
  ASSUME NEW fs \in Seq(FunctionRecords), fs # <<>>, NEW g
  PROVE  LET gs == [fs EXCEPT ![Len(fs)] = g] IN
         /\ ScopesFor(gs) = [ScopesFor(fs) EXCEPT ![Len(fs)] = g.scopes]
         /\ Len(gs) = Len(fs)
<1> DEFINE n == Len(fs)
           gs == [fs EXCEPT ![n] = g]
<1>1. n \in Nat \ {0} /\ Len(gs) = n /\ gs[n] = g /\ \A k \in 1 .. n : k # n => gs[k] = fs[k]
  OBVIOUS
<1> HIDE DEF gs
<1>2. ScopesFor(gs) = [k \in 1 .. n |-> IF k = n THEN g.scopes ELSE fs[k].scopes]
  BY <1>1 DEF ScopesFor
<1>3. [ScopesFor(fs) EXCEPT ![n] = g.scopes]
        = [k \in 1 .. n |-> IF k = n THEN g.scopes ELSE fs[k].scopes]
  BY <1>1 DEF ScopesFor
<1> QED
  BY <1>1, <1>2, <1>3 DEF gs

LEMMA ScopesForType ==
  ASSUME NEW fs \in Seq(FunctionRecords)
  PROVE  /\ ScopesFor(fs) \in Seq(Seq(Nat)) /\ Len(ScopesFor(fs)) = Len(fs)
         /\ \A k \in 1 .. Len(fs) : ScopesFor(fs)[k] = fs[k].scopes
<1>1. \A k \in 1 .. Len(fs) : fs[k].scopes \in Seq(Nat)
  BY FunctionType
<1> QED
  BY <1>1 DEF ScopesFor

LEMMA ScopesForFunction ==
  ASSUME NEW fs \in Seq(FunctionRecords), NEW g \in FunctionRecords
  PROVE  ScopesFor(Append(fs, g)) = Append(ScopesFor(fs), g.scopes)
<1> DEFINE n == Len(fs)
           gs == Append(fs, g)
           p == ScopesFor(gs)
           q == Append(ScopesFor(fs), g.scopes)
<1>1. /\ n \in Nat /\ gs \in Seq(FunctionRecords) /\ Len(gs) = n + 1 /\ gs[n + 1] = g
      /\ \A k \in 1 .. n : gs[k] = fs[k]
  OBVIOUS
<1>2. /\ ScopesFor(fs) \in Seq(Seq(Nat)) /\ Len(ScopesFor(fs)) = n
      /\ \A k \in 1 .. n : ScopesFor(fs)[k] = fs[k].scopes
  BY ScopesForType
<1>3. g.scopes \in Seq(Nat)
  BY FunctionType
<1>4. /\ q \in Seq(Seq(Nat)) /\ Len(q) = n + 1 /\ q[n + 1] = g.scopes
      /\ \A k \in 1 .. n : q[k] = fs[k].scopes
  BY <1>1, <1>2, <1>3
<1>5. /\ p \in Seq(Seq(Nat)) /\ Len(p) = n + 1
      /\ \A k \in 1 .. n + 1 : p[k] = gs[k].scopes
  BY <1>1, ScopesForType
<1> HIDE DEF p, q, gs, n
<1>6. ASSUME NEW k \in 1 .. n + 1 PROVE p[k] = q[k]
  <2>1. CASE k = n + 1
    BY <1>1, <1>4, <1>5, <2>1
  <2>2. CASE k \in 1 .. n
    <3>1. gs[k].scopes = fs[k].scopes
      BY <1>1, <2>2
    <3> QED
      BY <1>4, <1>5, <2>2, <3>1
  <2> QED
    BY <1>1, <2>1, <2>2
<1>7. p = q
  BY <1>1, <1>4, <1>5, <1>6
<1> QED
  BY <1>7 DEF p, q, gs

LEMMA ScopesForFront ==
  ASSUME NEW fs \in Seq(FunctionRecords), fs # <<>>
  PROVE  ScopesFor(SubSeq(fs, 1, Len(fs) - 1)) = SubSeq(ScopesFor(fs), 1, Len(fs) - 1)
<1> DEFINE n == Len(fs) - 1
           gs == SubSeq(fs, 1, n)
           p == ScopesFor(gs)
           q == SubSeq(ScopesFor(fs), 1, n)
<1>1. /\ n \in Nat /\ gs \in Seq(FunctionRecords) /\ Len(gs) = n /\ Len(fs) = n + 1
      /\ \A k \in 1 .. n : gs[k] = fs[k]
  <2>1. n \in Nat /\ Len(fs) = n + 1
    OBVIOUS
  <2> HIDE DEF n
  <2> QED
    BY <2>1
<1>2. /\ ScopesFor(fs) \in Seq(Seq(Nat)) /\ Len(ScopesFor(fs)) = n + 1
      /\ \A k \in 1 .. n + 1 : ScopesFor(fs)[k] = fs[k].scopes
  BY <1>1, ScopesForType
<1>4. q \in Seq(Seq(Nat)) /\ Len(q) = n /\ \A k \in 1 .. n : q[k] = fs[k].scopes
  BY <1>1, <1>2
<1>5. p \in Seq(Seq(Nat)) /\ Len(p) = n /\ \A k \in 1 .. n : p[k] = gs[k].scopes
  BY <1>1, ScopesForType
<1> HIDE DEF p, q, gs, n
<1>6. \A k \in 1 .. n : p[k] = q[k]
  BY <1>1, <1>4, <1>5
<1>7. p = q
  BY <1>1, <1>4, <1>5, <1>6
<1> QED
  BY <1>7 DEF p, q, gs, n

\* Names are given, or found to be used.
LEMMA AgreesAlike ==
  ASSUME NEW r, NEW sc, NEW fs, Agrees(r, sc, fs),
         NEW tc \in Seq(ScopeRecords), Len(sc) <= Len(tc),
         \A s \in 1 .. Len(sc) : SameSlots(VarsOf(sc, s), VarsOf(tc, s))
  PROVE  Agrees(r, tc, fs)
  BY ScopesOkAlike DEF Agrees

\* A node without a scope begins.
LEMMA AgreesPushed ==
  ASSUME NEW r \in Seq(Rows), NEW sc, NEW fs, Agrees(r, sc, fs),
         NEW e \in Rows, e.scope = NoScope, e.type \notin Roots
  PROVE  Agrees(Append(r, e), sc, fs)
<1>1. ScopesIn(Append(r, e)) = WithScope(ScopesIn(r), e)
  BY ScopesInPushed
<1>2. WithScope(ScopesIn(r), e) = ScopesIn(r)
  BY DEF WithScope, Roots
<1> QED
  BY <1>1, <1>2 DEF Agrees

\* A node without a scope ends.
LEMMA AgreesPopped ==
  ASSUME NEW r \in Seq(Rows), r # <<>>, NEW sc, NEW fs, Agrees(r, sc, fs),
         r[Len(r)].scope = NoScope, r[Len(r)].type \notin Roots
  PROVE  Agrees(SubSeq(r, 1, Len(r) - 1), sc, fs)
<1>1. ScopesIn(r) = WithScope(ScopesIn(SubSeq(r, 1, Len(r) - 1)), r[Len(r)])
  BY ScopesInPopped
<1>2. \A open : WithScope(open, r[Len(r)]) = open
  BY DEF WithScope, Roots
<1> QED
  BY <1>1, <1>2 DEF Agrees

LEMMA ScopeAdded ==
  ASSUME NEW sc \in Seq(ScopeRecords)
  PROVE  LET tc == Append(sc, Scope) IN
         /\ tc \in Seq(ScopeRecords) /\ Len(tc) = Len(sc) + 1
         /\ VarsOf(tc, Len(sc) + 1) = <<>>
         /\ \A s \in 1 .. Len(sc) : VarsOf(tc, s) = VarsOf(sc, s)
                                    /\ SameSlots(VarsOf(sc, s), VarsOf(tc, s))
         /\ tc[Len(sc) + 1].args = <<>>
         /\ \A s \in 1 .. Len(sc) : tc[s].args = sc[s].args
<1> DEFINE tc == Append(sc, Scope)
<1>1. Scope \in ScopeRecords /\ Scope.vars = <<>> /\ Scope.args = <<>>
  <2>1. \A T : <<>> \in Seq(T)
    OBVIOUS
  <2>2. Scope \in ScopeRecords /\ Scope.vars = <<>>
    BY <2>1 DEF Scope, ScopeRecords
  <2>3. Scope.args = <<>>
    BY DEF Scope
  <2> QED
    BY <2>2, <2>3
<1>2. /\ tc \in Seq(ScopeRecords) /\ Len(tc) = Len(sc) + 1 /\ tc[Len(sc) + 1] = Scope
      /\ \A s \in 1 .. Len(sc) : tc[s] = sc[s]
  BY <1>1
<1> HIDE DEF tc
<1>3. VarsOf(tc, Len(sc) + 1) = <<>>
  BY <1>1, <1>2 DEF VarsOf
<1>4. \A s \in 1 .. Len(sc) : VarsOf(tc, s) = VarsOf(sc, s)
  BY <1>2 DEF VarsOf
<1>5. tc[Len(sc) + 1].args = <<>> /\ \A s \in 1 .. Len(sc) : tc[s].args = sc[s].args
  BY <1>1, <1>2
<1> QED
  BY <1>2, <1>3, <1>4, <1>5 DEF SameSlots, tc

\* The innermost function changes.
LEMMA AgreesTop ==
  ASSUME NEW r, NEW s, Fits(r, s), NEW sc, NEW fs, Agrees(r, sc, fs),
         NEW tc \in Seq(ScopeRecords), Len(sc) <= Len(tc),
         NEW g \in FunctionRecords, Orderly(tc, g), Len(fs) > 1 => Bare(tc, g),
         \A k \in 1 .. Len(fs) - 1 : Below(fs[k].scopes, g.scopes),
         \A k \in 1 .. Len(fs) - 1 : \A a \in 1 .. Len(fs[k].scopes) :
           SameSlots(VarsOf(sc, fs[k].scopes[a]), VarsOf(tc, fs[k].scopes[a])),
         NEW q, ScopesIn(q) = [ScopesIn(r) EXCEPT ![Len(fs)] = g.scopes]
  PROVE  Agrees(q, tc, [fs EXCEPT ![Len(fs)] = g])
<1>1. ScopesOk(sc, fs) /\ ScopesFor(fs) = ScopesIn(r)
  BY DEF Agrees
<1>2. fs \in Seq(FunctionRecords) /\ fs # <<>>
  BY InFunction
<1>3. ScopesOk(tc, [fs EXCEPT ![Len(fs)] = g])
  BY <1>1, <1>2, ScopesOkTop
<1>4. ScopesFor([fs EXCEPT ![Len(fs)] = g]) = ScopesIn(q)
  BY <1>1, <1>2, ScopesForTop
<1> QED
  BY <1>3, <1>4 DEF Agrees

\* The scopes of the functions around the innermost one are older than its own.
LEMMA AroundBelow ==
  ASSUME NEW r, NEW s, Fits(r, s), NEW sc, NEW fs, Agrees(r, sc, fs),
         NEW k \in 1 .. Len(fs) - 1, NEW a \in 1 .. Len(fs[k].scopes)
  PROVE  /\ fs[k].scopes[a] \in 1 .. Len(sc)
         /\ \A c \in 1 .. Len(fs[Len(fs)].scopes) : fs[k].scopes[a] < fs[Len(fs)].scopes[c]
<1>1. Len(fs) \in Nat \ {0} /\ ScopesOk(sc, fs)
  BY InFunction DEF Agrees
<1>2. k \in 1 .. Len(fs) /\ k < Len(fs) /\ Len(fs) \in 1 .. Len(fs)
  BY <1>1
<1>3. Orderly(sc, fs[k]) /\ Below(fs[k].scopes, fs[Len(fs)].scopes)
  BY <1>1, <1>2 DEF ScopesOk
<1>4. fs[k].scopes[a] \in 1 .. Len(sc)
  BY <1>3 DEF Orderly, Ordered
<1> QED
  BY <1>3, <1>4 DEF Below

\* A block begins, or the members of a class.
LEMMA AgreesInside ==
  ASSUME NEW r, NEW s, Fits(r, s), NEW sc, NEW fs, Agrees(r, sc, fs),
         NEW e \in Rows, e.type \notin Roots, e.scope = Len(sc) + 1
  PROVE  Agrees(Append(r, e), Append(sc, Scope),
                [fs EXCEPT ![Len(fs)].scopes = Append(@, Len(sc) + 1)])
<1> DEFINE n == Len(fs)
           f == fs[n]
           x == Len(sc) + 1
           tc == Append(sc, Scope)
           g == [f EXCEPT !.scopes = Append(@, x)]
<1>1. /\ sc \in Seq(ScopeRecords) /\ fs \in Seq(FunctionRecords) /\ n \in Nat \ {0}
      /\ Len(sc) \in Nat /\ f \in FunctionRecords /\ Orderly(sc, f)
      /\ f.scopes \in Seq(Nat) /\ Len(f.scopes) \in Nat \ {0} /\ ScopesOk(sc, fs)
      /\ n = Len(ScopesIn(r)) /\ f.scopes = ScopesIn(r)[n]
  BY InFunction DEF Agrees
<1>2. /\ tc \in Seq(ScopeRecords) /\ Len(tc) = x /\ VarsOf(tc, x) = <<>>
      /\ \A y \in 1 .. Len(sc) : VarsOf(tc, y) = VarsOf(sc, y)
                                 /\ SameSlots(VarsOf(sc, y), VarsOf(tc, y))
  BY <1>1, ScopeAdded
<1>3. [fs EXCEPT ![n].scopes = Append(@, x)] = [fs EXCEPT ![n] = g]
  OBVIOUS
<1>9. e.type \notin Roots /\ e.scope = x
  OBVIOUS
<1>10. x = Len(sc) + 1 /\ f = fs[n] /\ n = Len(fs)
  OBVIOUS
<1> HIDE DEF tc, x, f, n
<1>4. \A a \in 1 .. Len(f.scopes) : f.scopes[a] \in 1 .. Len(sc)
  BY <1>1 DEF Orderly, Ordered
<1>5. Orderly(tc, f)
  <2>1. \A a \in 1 .. Len(f.scopes) : SameSlots(VarsOf(sc, f.scopes[a]), VarsOf(tc, f.scopes[a]))
    BY <1>2, <1>4
  <2>2. Len(tc) \in Nat /\ Len(sc) <= Len(tc)
    BY <1>1, <1>2, <1>10
  <2> QED
    BY <1>1, <2>1, <2>2, OrderlyAlike
<1>6. g \in FunctionRecords /\ Orderly(tc, g) /\ g.scopes = Append(f.scopes, x)
  <2>1. x \in 1 .. Len(tc)
    BY <1>1, <1>2, <1>10
  <2>2. \A a \in 1 .. Len(f.scopes) : f.scopes[a] < x
    BY <1>1, <1>4, <1>10
  <2> QED
    BY <1>1, <1>2, <1>5, <2>1, <2>2, OrderlyInside
<1> HIDE DEF g
<1>7. n > 1 => Bare(tc, g)
  <2> SUFFICES ASSUME n > 1 PROVE Bare(tc, g)
    OBVIOUS
  <2>1. Bare(sc, f)
    BY <1>1, <1>10 DEF ScopesOk
  <2>2. VarsOf(sc, f.scopes[1]) = <<>> /\ f.scopes[1] \in 1 .. Len(sc)
    BY <1>1, <1>4, <2>1 DEF Bare
  <2>3. g.scopes[1] = f.scopes[1]
    BY <1>1, <1>6
  <2> QED
    BY <1>2, <2>2, <2>3 DEF Bare
<1>8. ASSUME NEW k \in 1 .. n - 1, NEW a \in 1 .. Len(fs[k].scopes)
      PROVE  /\ SameSlots(VarsOf(sc, fs[k].scopes[a]), VarsOf(tc, fs[k].scopes[a]))
             /\ \A c \in 1 .. Len(g.scopes) : fs[k].scopes[a] < g.scopes[c]
  <2>1. /\ fs[k].scopes[a] \in 1 .. Len(sc)
        /\ \A c \in 1 .. Len(f.scopes) : fs[k].scopes[a] < f.scopes[c]
    BY <1>10, AroundBelow
  <2>2. ASSUME NEW c \in 1 .. Len(g.scopes) PROVE fs[k].scopes[a] < g.scopes[c]
    <3>1. CASE c \in 1 .. Len(f.scopes)
      <4>1. g.scopes[c] = f.scopes[c]
        BY <1>1, <1>6, <3>1
      <4>2. fs[k].scopes[a] < f.scopes[c]
        BY <2>1, <3>1
      <4> QED
        BY <4>1, <4>2
    <3>2. CASE c = Len(f.scopes) + 1
      <4>1. g.scopes[c] = x
        BY <1>1, <1>6, <3>2
      <4>2. fs[k].scopes[a] \in 1 .. Len(sc) /\ Len(sc) \in Nat
        BY <1>1, <2>1
      <4> QED
        BY <1>10, <4>1, <4>2
    <3> QED
      BY <1>1, <1>6, <3>1, <3>2
  <2> QED
    BY <1>2, <2>1, <2>2
<1>11. ScopesIn(Append(r, e)) = [ScopesIn(r) EXCEPT ![n] = g.scopes]
  <2>1. ScopesIn(Append(r, e)) = WithScope(ScopesIn(r), e)
    BY ScopesInPushed DEF Fits
  <2>2. e.scope # NoScope
    BY <1>1, <1>9, <1>10 DEF NoScope
  <2>3. WithScope(ScopesIn(r), e) = [ScopesIn(r) EXCEPT ![n] = Append(ScopesIn(r)[n], x)]
    BY <1>1, <1>9, <2>2 DEF WithScope, Roots
  <2> QED
    BY <1>1, <1>6, <2>1, <2>3
<1>12. Agrees(Append(r, e), tc, [fs EXCEPT ![n] = g])
  <2>1. \A k \in 1 .. n - 1 : Below(fs[k].scopes, g.scopes)
    BY <1>8 DEF Below
  <2>2. Len(sc) <= Len(tc)
    BY <1>1, <1>2, <1>10
  <2> QED
    BY <1>2, <1>6, <1>7, <1>8, <1>10, <1>11, <2>1, <2>2, AgreesTop
<1> QED
  BY <1>3, <1>12 DEF tc, x, n

\* A function begins.
LEMMA AgreesFunction ==
  ASSUME NEW r, NEW s, Fits(r, s), NEW sc, NEW fs, Agrees(r, sc, fs),
         NEW e \in Rows, e.type \in Roots, e.scope = Len(sc) + 1, NEW class \in BOOLEAN
  PROVE  Agrees(Append(r, e), Append(sc, Scope), Append(fs, Function(Len(sc) + 1, class)))
<1> DEFINE n == Len(fs)
           x == Len(sc) + 1
           tc == Append(sc, Scope)
           g == Function(x, class)
<1>1. /\ sc \in Seq(ScopeRecords) /\ fs \in Seq(FunctionRecords) /\ n \in Nat \ {0}
      /\ Len(sc) \in Nat /\ ScopesOk(sc, fs) /\ ScopesFor(fs) = ScopesIn(r)
  BY InFunction DEF Agrees
<1>2. /\ tc \in Seq(ScopeRecords) /\ Len(tc) = x /\ VarsOf(tc, x) = <<>>
      /\ \A y \in 1 .. Len(sc) : VarsOf(tc, y) = VarsOf(sc, y)
                                 /\ SameSlots(VarsOf(sc, y), VarsOf(tc, y))
  BY <1>1, ScopeAdded
<1>3. x \in 1 .. Len(tc)
  BY <1>1, <1>2
<1> HIDE DEF tc
<1>4. g \in FunctionRecords /\ Orderly(tc, g) /\ g.scopes = <<x>>
  BY <1>2, <1>3, OrderlyFunction
<1>5. ScopesOk(tc, fs)
  BY <1>1, <1>2, ScopesOkAlike
<1> HIDE DEF g
<1>6. Bare(tc, g)
  BY <1>2, <1>4 DEF Bare
<1>7. ASSUME NEW k \in 1 .. n PROVE Below(fs[k].scopes, g.scopes)
  <2>1. \A a \in 1 .. Len(fs[k].scopes) : fs[k].scopes[a] \in 1 .. Len(sc)
    BY <1>1 DEF ScopesOk, Orderly, Ordered
  <2>2. Len(g.scopes) = 1 /\ g.scopes[1] = x
    BY <1>4
  <2> QED
    BY <1>1, <2>1, <2>2 DEF Below
<1>8. ScopesOk(tc, Append(fs, g))
  BY <1>4, <1>5, <1>6, <1>7, ScopesOkFunction
<1>9. ScopesIn(Append(r, e)) = Append(ScopesIn(r), <<x>>)
  <2>1. ScopesIn(Append(r, e)) = WithScope(ScopesIn(r), e)
    BY ScopesInPushed DEF Fits
  <2> QED
    BY <2>1 DEF WithScope, Roots
<1>10. ScopesFor(Append(fs, g)) = Append(ScopesFor(fs), <<x>>)
  BY <1>1, <1>4, ScopesForFunction
<1> QED
  BY <1>1, <1>8, <1>9, <1>10 DEF Agrees, tc, g

Declared(sc, y, v) == [sc EXCEPT ![y].vars = Append(@, v)]

LEMMA VariableAdded ==
  ASSUME NEW sc \in Seq(ScopeRecords), NEW y \in 1 .. Len(sc), NEW v \in VarRecords,
         NEW tc, tc = Declared(sc, y, v)
  PROVE  /\ tc \in Seq(ScopeRecords) /\ Len(tc) = Len(sc)
         /\ VarsOf(tc, y) = Append(VarsOf(sc, y), v)
         /\ \A z \in 1 .. Len(sc) : z # y => VarsOf(tc, z) = VarsOf(sc, z)
                                             /\ SameSlots(VarsOf(sc, z), VarsOf(tc, z))
         /\ \A z \in 1 .. Len(sc) : tc[z].args = sc[z].args
<1> DEFINE us == Append(sc[y].vars, v)
           x == sc[y]
           t == [x EXCEPT !.vars = us]
<1>1. x \in ScopeRecords /\ x.vars \in Seq(VarRecords)
  <2>1. x \in ScopeRecords
    OBVIOUS
  <2> HIDE DEF x
  <2> QED
    BY <2>1 DEF ScopeRecords
<1>2. us \in Seq(VarRecords)
  BY <1>1
<1> HIDE DEF us, x
<1>3. t \in ScopeRecords /\ t.vars = us /\ t.args = x.args
  <2>1. t \in ScopeRecords /\ t.vars = us
    BY <1>1, <1>2 DEF ScopeRecords
  <2>2. t.args = x.args
    BY <1>1 DEF ScopeRecords
  <2> QED
    BY <2>1, <2>2
<1> DEFINE w == [sc EXCEPT ![y] = t]
<1>5. tc = w
  BY DEF Declared, t, us, x
<1> HIDE DEF t
<1>9. /\ w \in Seq(ScopeRecords) /\ Len(w) = Len(sc) /\ w[y] = t
      /\ \A z \in 1 .. Len(sc) : z # y => w[z] = sc[z]
  BY <1>3
<1> HIDE DEF w
<1>4. /\ tc \in Seq(ScopeRecords) /\ Len(tc) = Len(sc) /\ tc[y] = t
      /\ \A z \in 1 .. Len(sc) : z # y => tc[z] = sc[z]
  BY <1>5, <1>9
<1>6. VarsOf(tc, y) = Append(VarsOf(sc, y), v)
  BY <1>3, <1>4 DEF VarsOf, us
<1>7. \A z \in 1 .. Len(sc) : z # y => VarsOf(tc, z) = VarsOf(sc, z)
  BY <1>4 DEF VarsOf
<1>8. \A z \in 1 .. Len(sc) : tc[z].args = sc[z].args
  BY <1>3, <1>4 DEF x
<1> QED
  BY <1>4, <1>6, <1>7, <1>8 DEF SameSlots

\* A variable, or a class, is declared in the innermost scope.
LEMMA AgreesDeclares ==
  ASSUME NEW r, NEW s, Fits(r, s), NEW sc, NEW fs, Agrees(r, sc, fs),
         r[Len(r)].type # "FUNCDECL"
  PROVE  LET f == fs[Len(fs)]
             tc == [sc EXCEPT ![Last(f.scopes)].vars =
                      Append(@, [name |-> "", index |-> f.current])]
         IN /\ Agrees(r, tc, [fs EXCEPT ![Len(fs)] = TookSlot(@)])
            /\ Len(tc) = Len(sc) /\ \A z \in 1 .. Len(sc) : tc[z].args = sc[z].args
<1> DEFINE n == Len(fs)
           f == fs[n]
           y == Last(f.scopes)
           v == [name |-> "", index |-> f.current]
           tc == [sc EXCEPT ![y].vars = Append(@, v)]
           g == TookSlot(f)
<1>1. /\ sc \in Seq(ScopeRecords) /\ fs \in Seq(FunctionRecords) /\ n \in Nat \ {0}
      /\ Len(sc) \in Nat /\ f \in FunctionRecords /\ Orderly(sc, f)
      /\ f.scopes \in Seq(Nat) /\ Len(f.scopes) \in Nat \ {0} /\ ScopesOk(sc, fs)
      /\ n = Len(ScopesIn(r)) /\ f.scopes = ScopesIn(r)[n]
      /\ n > 1 => Len(f.scopes) > 1
  BY InFunction DEF Agrees
<1>2. y = f.scopes[Len(f.scopes)]
  BY DEF Last
<1>3. v \in VarRecords /\ v.index = f.current
  BY <1>1, FunctionType DEF VarRecords
<1>9. f = fs[n] /\ n = Len(fs)
  OBVIOUS
<1> HIDE DEF v, y, f, n
<1>4. y \in 1 .. Len(sc)
  BY <1>1, <1>2 DEF Orderly, Ordered
<1>14. tc = Declared(sc, y, v)
  BY DEF Declared
<1> HIDE DEF tc
<1>5. /\ tc \in Seq(ScopeRecords) /\ Len(tc) = Len(sc)
      /\ VarsOf(tc, y) = Append(VarsOf(sc, y), v)
      /\ \A z \in 1 .. Len(sc) : z # y => VarsOf(tc, z) = VarsOf(sc, z)
                                          /\ SameSlots(VarsOf(sc, z), VarsOf(tc, z))
      /\ \A z \in 1 .. Len(sc) : tc[z].args = sc[z].args
  BY <1>1, <1>3, <1>4, <1>14, VariableAdded, SMTT(20)
<1>6. g \in FunctionRecords /\ Orderly(tc, g) /\ g.scopes = f.scopes
  <2>1. /\ VarsOf(tc, Last(f.scopes)) = Append(VarsOf(sc, Last(f.scopes)), v)
        /\ \A z \in 1 .. Len(sc) : z # Last(f.scopes) => SameSlots(VarsOf(sc, z), VarsOf(tc, z))
    BY <1>5 DEF y
  <2>2. Len(tc) \in Nat /\ Len(sc) <= Len(tc) /\ f.scopes # <<>>
    BY <1>1, <1>5
  <2> QED
    BY <1>1, <1>3, <2>1, <2>2, OrderlyDeclares
<1> HIDE DEF g
<1>7. n > 1 => Bare(tc, g)
  <2> SUFFICES ASSUME n > 1 PROVE Bare(tc, g)
    OBVIOUS
  <2>1. Bare(sc, f) /\ f.scopes # <<>>
    BY <1>1, <1>9 DEF ScopesOk
  <2>2. VarsOf(sc, f.scopes[1]) = <<>> /\ f.scopes[1] \in 1 .. Len(sc)
    BY <1>1, <2>1 DEF Bare, Orderly, Ordered
  <2>3. f.scopes[1] # y
    BY <1>1, <1>2 DEF Orderly, Ordered
  <2> QED
    BY <1>5, <1>6, <2>2, <2>3 DEF Bare
<1>8. ASSUME NEW k \in 1 .. n - 1, NEW a \in 1 .. Len(fs[k].scopes)
      PROVE  /\ SameSlots(VarsOf(sc, fs[k].scopes[a]), VarsOf(tc, fs[k].scopes[a]))
             /\ \A c \in 1 .. Len(g.scopes) : fs[k].scopes[a] < g.scopes[c]
  <2>1. /\ fs[k].scopes[a] \in 1 .. Len(sc)
        /\ \A c \in 1 .. Len(f.scopes) : fs[k].scopes[a] < f.scopes[c]
    BY <1>9, AroundBelow
  <2>2. fs[k].scopes[a] < y
    <3>1. Len(f.scopes) \in 1 .. Len(f.scopes)
      BY <1>1
    <3> QED
      BY <1>2, <2>1, <3>1
  <2>3. fs[k].scopes[a] # y
    BY <1>4, <2>1, <2>2
  <2> QED
    BY <1>5, <1>6, <2>1, <2>3
<1>10. ScopesIn(r) = [ScopesIn(r) EXCEPT ![n] = g.scopes]
  <2>1. ScopesIn(r) \in Seq(Seq(Nat))
    BY ScopesInFunctions
  <2> QED
    BY <1>1, <1>6, <2>1
<1>11. Agrees(r, tc, [fs EXCEPT ![n] = g])
  <2>1. \A k \in 1 .. n - 1 : Below(fs[k].scopes, g.scopes)
    BY <1>8 DEF Below
  <2>2. Len(sc) <= Len(tc)
    BY <1>1, <1>5
  <2> QED
    BY <1>5, <1>6, <1>7, <1>8, <1>9, <1>10, <2>1, <2>2, AgreesTop
<1>12. Len(tc) = Len(sc) /\ \A z \in 1 .. Len(sc) : tc[z].args = sc[z].args
  BY <1>5
<1> QED
  BY <1>11, <1>12 DEF tc, y, v, f, n, g

\* The scope of the last node, which is no function, is left.
LEMMA AgreesLeft ==
  ASSUME NEW r, NEW s, Fits(r, s), NEW sc, NEW fs, Agrees(r, sc, fs)
  PROVE  LET g == LeftIn(sc, fs[Len(fs)]) IN
         /\ g \in FunctionRecords /\ g.highest <= g.slots
         /\ (r[Len(r)].type \in ScopeKinds \ Roots =>
               Agrees(SubSeq(r, 1, Len(r) - 1), sc, [fs EXCEPT ![Len(fs)] = g]))
<1> DEFINE n == Len(fs)
           f == fs[n]
           g == LeftIn(sc, f)
           p == SubSeq(r, 1, Len(r) - 1)
           e == r[Len(r)]
<1>1. /\ sc \in Seq(ScopeRecords) /\ fs \in Seq(FunctionRecords) /\ n \in Nat \ {0}
      /\ Len(sc) \in Nat /\ f \in FunctionRecords /\ Orderly(sc, f)
      /\ f.scopes \in Seq(Nat) /\ Len(f.scopes) \in Nat \ {0} /\ ScopesOk(sc, fs)
      /\ n = Len(ScopesIn(r)) /\ f.scopes = ScopesIn(r)[n]
  BY InFunction DEF Agrees
<1>9. f = fs[n] /\ n = Len(fs)
  OBVIOUS
<1> HIDE DEF f, n
<1>2. /\ g \in FunctionRecords /\ Orderly(sc, g) /\ g.highest <= g.slots
      /\ g.scopes = SubSeq(f.scopes, 1, Len(f.scopes) - 1)
  BY <1>1, OrderlyLeft, SMTT(20)
<1> HIDE DEF g
<1>3. ASSUME e.type \in ScopeKinds \ Roots PROVE Agrees(p, sc, [fs EXCEPT ![n] = g])
  <2>1. Fits(p, e.saved) /\ e \in Rows
    BY <1>3, FitsPop, TopIsNoBranch DEF ScopeKinds, Roots, Arms
  <2>2. ScopesIn(p) \in Seq(Seq(Nat)) /\ ScopesIn(p) # <<>>
    BY <2>1, ScopesInFunctions
  <2>3. ScopesIn(r) = WithScope(ScopesIn(p), e)
    BY ScopesInPopped DEF Fits
  <2>4. e.scope # NoScope /\ e.scope \in Nat
    BY <1>3, <2>1, TopIsNoBranch DEF Fits, Rows
  <2> DEFINE o == ScopesIn(p)
  <2>5. ScopesIn(r) = [o EXCEPT ![Len(o)] = Append(@, e.scope)]
    BY <1>3, <2>3, <2>4 DEF WithScope, Roots
  <2> HIDE DEF o, e, p
  <2>6. Len(o) = n /\ f.scopes = Append(o[n], e.scope) /\ o[n] \in Seq(Nat)
    BY <1>1, <2>2, <2>5 DEF o
  <2>7. g.scopes = o[n]
    BY <1>2, <2>4, <2>6
  <2>8. o = [ScopesIn(r) EXCEPT ![n] = g.scopes]
    <3>1. o \in [1 .. n -> Seq(Nat)] /\ n \in 1 .. n
      BY <1>1, <2>2, <2>6 DEF o
    <3>2. [[o EXCEPT ![n] = Append(@, e.scope)] EXCEPT ![n] = o[n]] = o
      BY <3>1
    <3> QED
      BY <2>5, <2>6, <2>7, <3>2
  <2>9. n > 1 => Bare(sc, g)
    <3> SUFFICES ASSUME n > 1, g.scopes # <<>> PROVE VarsOf(sc, g.scopes[1]) = <<>>
      BY DEF Bare
    <3>1. Bare(sc, f)
      BY <1>1, <1>9 DEF ScopesOk
    <3>2. VarsOf(sc, f.scopes[1]) = <<>>
      BY <1>1, <3>1 DEF Bare
    <3>3. g.scopes[1] = f.scopes[1]
      BY <2>4, <2>6, <2>7
    <3> QED
      BY <3>2, <3>3
  <2>10. ASSUME NEW k \in 1 .. n - 1 PROVE Below(fs[k].scopes, g.scopes)
    <3> SUFFICES ASSUME NEW a \in 1 .. Len(fs[k].scopes), NEW c \in 1 .. Len(g.scopes)
                 PROVE  fs[k].scopes[a] < g.scopes[c]
      BY DEF Below
    <3>1. \A d \in 1 .. Len(f.scopes) : fs[k].scopes[a] < f.scopes[d]
      BY <1>9, AroundBelow
    <3>2. c \in 1 .. Len(f.scopes) /\ g.scopes[c] = f.scopes[c]
      BY <2>4, <2>6, <2>7
    <3> QED
      BY <3>1, <3>2
  <2>11. Len(sc) <= Len(sc)
    BY <1>1
  <2>12. \A v : SameSlots(v, v)
    BY DEF SameSlots
  <2> QED
    BY <1>1, <1>2, <1>9, <2>8, <2>9, <2>10, <2>11, <2>12, AgreesTop DEF o
<1> QED
  BY <1>2, <1>3 DEF g, f, n

\* A function ends.
LEMMA AgreesFunctionEnds ==
  ASSUME NEW r, NEW s, Fits(r, s), NEW sc, NEW fs, Agrees(r, sc, fs),
         r[Len(r)].type = "FUNCDECL"
  PROVE  /\ Agrees(SubSeq(r, 1, Len(r) - 1), sc, SubSeq(fs, 1, Len(fs) - 1))
         /\ fs[Len(fs)].highest <= fs[Len(fs)].slots
<1> DEFINE n == Len(fs)
           f == fs[n]
           p == SubSeq(r, 1, Len(r) - 1)
           e == r[Len(r)]
<1>1. /\ sc \in Seq(ScopeRecords) /\ fs \in Seq(FunctionRecords) /\ n \in Nat \ {0}
      /\ Len(sc) \in Nat /\ f \in FunctionRecords /\ Orderly(sc, f)
      /\ f.scopes \in Seq(Nat) /\ Len(f.scopes) \in Nat \ {0} /\ ScopesOk(sc, fs)
      /\ n = Len(ScopesIn(r)) /\ f.scopes = ScopesIn(r)[n] /\ ScopesFor(fs) = ScopesIn(r)
  BY InFunction DEF Agrees
<1>9. f = fs[n] /\ n = Len(fs)
  OBVIOUS
<1>2. Fits(p, e.saved) /\ e \in Rows
  BY FitsPop, TopIsNoBranch DEF Arms
<1>3. ScopesIn(p) \in Seq(Seq(Nat)) /\ ScopesIn(p) # <<>>
  BY <1>2, ScopesInFunctions
<1>4. ScopesIn(r) = WithScope(ScopesIn(p), e)
  BY ScopesInPopped DEF Fits
<1> DEFINE o == ScopesIn(p)
<1>5. ScopesIn(r) = Append(o, <<e.scope>>)
  BY <1>4 DEF WithScope
<1>6. e.scope \in Nat
  BY <1>2 DEF Rows
<1> HIDE DEF o, e, p, f, n
<1>7. o \in Seq(Seq(Nat)) /\ Len(o) \in Nat \ {0} /\ <<e.scope>> \in Seq(Nat)
  BY <1>3, <1>6 DEF o
<1>8. n = Len(o) + 1 /\ f.scopes = <<e.scope>> /\ SubSeq(ScopesIn(r), 1, n - 1) = o
  BY <1>1, <1>5, <1>7
<1>10. Agrees(p, sc, SubSeq(fs, 1, n - 1))
  <2>1. fs # <<>>
    BY <1>1, <1>9
  <2>2. ScopesFor(SubSeq(fs, 1, n - 1)) = o
    BY <1>1, <1>8, <1>9, <2>1, ScopesForFront
  <2>3. ScopesOk(sc, SubSeq(fs, 1, n - 1))
    BY <1>1, <1>9, <2>1, ScopesOkFront
  <2> QED
    BY <2>2, <2>3 DEF Agrees, o
<1>11. VarsOf(sc, f.scopes[1]) = <<>> /\ Len(f.scopes) = 1
  <2>1. n \in 2 .. Len(fs) /\ ScopesOk(sc, fs)
    BY <1>1, <1>7, <1>8, <1>9
  <2>2. Bare(sc, f)
    BY <1>9, <2>1 DEF ScopesOk
  <2> QED
    BY <1>8, <2>2 DEF Bare
<1>12. f.current = 0
  <2> DEFINE q == f.scopes
  <2>1. PICK b \in Begins(sc, q, f.current) : TRUE
    BY <1>1 DEF Orderly
  <2>2. b[1] = 0 /\ b[2] = f.current /\ b[2] = b[1] + Len(VarsOf(sc, q[1]))
    BY <1>11, <2>1 DEF Begins
  <2> QED
    BY <1>11, <2>2
<1>13. f.highest <= f.slots
  BY <1>1, <1>12, FunctionType DEF Orderly
<1> QED
  BY <1>10, <1>13 DEF p, n, f

-----------------------------------------------------------------------------
(* Whose scope a node has.                                                  *)

InClass(r, i) == i > 1 /\ r[i - 1].type = "CLASSDECL"
Inner == {"CODEBLOCK", "CLASSDECL"}

\* Each node has a scope of its own, and only a function takes arguments.
OwnScopes(r, sc) ==
  /\ \A i \in 1 .. Len(r) : r[i].scope <= Len(sc)
  /\ \A i, j \in 1 .. Len(r) : i # j /\ r[i].scope # NoScope => r[i].scope # r[j].scope
  /\ \A i \in 1 .. Len(r) : r[i].type \in Inner => sc[r[i].scope].args = <<>>

\* The functions that are methods are those of which the node is in a class.
Methods(r, fs) ==
  \A k \in 1 .. Len(fs), i \in 1 .. Len(r) :
    r[i].scope = fs[k].scopes[1] => (fs[k].class <=> InClass(r, i))

Placed(r, sc, fs) == OwnScopes(r, sc) /\ Methods(r, fs)

\* The first scope of a function is one of those there are.
LEMMA Heads ==
  ASSUME NEW r, NEW s, Fits(r, s), NEW sc, NEW fs, Agrees(r, sc, fs), NEW k \in 1 .. Len(fs)
  PROVE  fs[k].scopes[1] \in 1 .. Len(sc) /\ Len(fs[k].scopes) \in Nat \ {0}
<1>1. fs[k] \in FunctionRecords /\ Orderly(sc, fs[k]) /\ fs[k].scopes # <<>>
  BY InFunction DEF Agrees, ScopesOk
<1>2. fs[k].scopes \in Seq(Nat)
  BY <1>1, FunctionType
<1>3. Len(fs[k].scopes) \in Nat \ {0}
  BY <1>1, <1>2
<1> QED
  BY <1>1, <1>3 DEF Orderly, Ordered

\* A node that can stand for another one.
SameNode(x, y) ==
  /\ y.scope = x.scope
  /\ y.type = x.type \/ {x.type, y.type} \cap Inner = {}

\* The nodes are the same but for some at the end, and so are the functions;
\* the blocks get no argument.
LEMMA PlacedAlike ==
  ASSUME NEW r, NEW sc, NEW fs, Placed(r, sc, fs), Len(r) \in Nat, Len(fs) \in Nat,
         Len(sc) \in Nat,
         NEW q, Len(q) \in 0 .. Len(r), \A i \in 1 .. Len(q) : SameNode(r[i], q[i]),
         NEW tc, Len(tc) \in Nat, Len(sc) <= Len(tc),
         \A i \in 1 .. Len(q) :
           r[i].type \in Inner => tc[r[i].scope].args = sc[r[i].scope].args,
         \A i \in 1 .. Len(q) : r[i].scope \in Nat,
         NEW gs, Len(gs) \in 0 .. Len(fs),
         \A k \in 1 .. Len(gs) :
           gs[k].class = fs[k].class /\ gs[k].scopes[1] = fs[k].scopes[1]
  PROVE  Placed(q, tc, gs)
<1>1. \A i \in 1 .. Len(q) : i \in 1 .. Len(r) /\ SameNode(r[i], q[i])
  OBVIOUS
<1>2. \A k \in 1 .. Len(gs) : k \in 1 .. Len(fs)
  OBVIOUS
<1>3. OwnScopes(q, tc)
  <2>1. ASSUME NEW i \in 1 .. Len(q) PROVE q[i].scope <= Len(tc)
    <3>1. r[i].scope <= Len(sc) /\ q[i].scope = r[i].scope /\ r[i].scope \in Nat
      BY <1>1 DEF Placed, OwnScopes, SameNode
    <3> QED
      BY <3>1
  <2>2. ASSUME NEW i \in 1 .. Len(q), NEW j \in 1 .. Len(q), i # j, q[i].scope # NoScope
        PROVE  q[i].scope # q[j].scope
    BY <1>1, <2>2 DEF Placed, OwnScopes, SameNode
  <2>3. ASSUME NEW i \in 1 .. Len(q), q[i].type \in Inner
        PROVE  tc[q[i].scope].args = <<>>
    BY <1>1, <2>3 DEF Placed, OwnScopes, SameNode
  <2> QED
    BY <2>1, <2>2, <2>3 DEF OwnScopes
<1>4. ASSUME NEW i \in 1 .. Len(q) PROVE InClass(q, i) <=> InClass(r, i)
  <2>1. CASE i = 1
    BY <2>1 DEF InClass
  <2>2. CASE i > 1
    <3>1. SameNode(r[i - 1], q[i - 1])
      BY <1>1, <2>2
    <3>2. q[i - 1].type = "CLASSDECL" <=> r[i - 1].type = "CLASSDECL"
      BY <3>1 DEF SameNode, Inner
    <3> QED
      BY <3>2 DEF InClass
  <2> QED
    BY <2>1, <2>2
<1>5. Methods(q, gs)
  <2> SUFFICES ASSUME NEW k \in 1 .. Len(gs), NEW i \in 1 .. Len(q),
                      q[i].scope = gs[k].scopes[1]
               PROVE  gs[k].class <=> InClass(q, i)
    BY DEF Methods
  <2>1. r[i].scope = fs[k].scopes[1] /\ gs[k].class = fs[k].class
    BY <1>1 DEF SameNode
  <2>2. fs[k].class <=> InClass(r, i)
    BY <1>1, <1>2, <2>1 DEF Placed, Methods
  <2> QED
    BY <1>4, <2>1, <2>2
<1> QED
  BY <1>3, <1>5 DEF Placed

\* A node without a scope begins, even inside of a branch.
LEMMA PlacedPlain ==
  ASSUME NEW r \in Seq(Rows), NEW sc, Len(sc) \in Nat, NEW fs, Placed(r, sc, fs),
         \A k \in 1 .. Len(fs) : fs[k].scopes[1] # NoScope,
         NEW e, e.scope = NoScope, e.type \notin Inner
  PROVE  Placed(Append(r, e), sc, fs)
<1> DEFINE n == Len(r)
           q == Append(r, e)
<1>1. n \in Nat /\ Len(q) = n + 1 /\ q[n + 1] = e /\ \A i \in 1 .. n : q[i] = r[i]
  <2> DEFINE W == Rows \union {e}
  <2>1. r \in Seq(W) /\ e \in W
    OBVIOUS
  <2> HIDE DEF W
  <2> QED
    BY <2>1
<1> HIDE DEF q
<1>2. \A i \in 1 .. n + 1 : i = n + 1 \/ i \in 1 .. n
  BY <1>1
<1>3. OwnScopes(q, sc)
  <2>1. ASSUME NEW i \in 1 .. n + 1 PROVE q[i].scope <= Len(sc)
    BY <1>1, <1>2 DEF Placed, OwnScopes, NoScope
  <2>2. ASSUME NEW i \in 1 .. n + 1, NEW j \in 1 .. n + 1, i # j, q[i].scope # NoScope
        PROVE  q[i].scope # q[j].scope
    BY <1>1, <1>2, <2>2, ZenonT(30) DEF Placed, OwnScopes
  <2>3. ASSUME NEW i \in 1 .. n + 1, q[i].type \in Inner PROVE sc[q[i].scope].args = <<>>
    BY <1>1, <1>2, <2>3, Zenon DEF Placed, OwnScopes
  <2> QED
    BY <1>1, <2>1, <2>2, <2>3 DEF OwnScopes
<1>4. Methods(q, fs)
  <2> SUFFICES ASSUME NEW k \in 1 .. Len(fs), NEW i \in 1 .. n + 1,
                      q[i].scope = fs[k].scopes[1]
               PROVE  fs[k].class <=> InClass(q, i)
    BY <1>1 DEF Methods
  <2>1. i \in 1 .. n
    BY <1>1, <1>2, Zenon
  <2>2. fs[k].class <=> InClass(r, i)
    BY <1>1, <2>1 DEF Placed, Methods
  <2>3. InClass(q, i) <=> InClass(r, i)
    BY <1>1, <2>1, SMTT(20) DEF InClass
  <2> QED
    BY <2>2, <2>3
<1> QED
  BY <1>3, <1>4 DEF Placed, q

\* A node begins, with a new scope.
LEMMA PlacedPushed ==
  ASSUME NEW r \in Seq(Rows), NEW s, Fits(r, s), NEW sc, NEW fs, Agrees(r, sc, fs),
         Placed(r, sc, fs), NEW e \in Rows,
         NEW tc,
         \A y \in 1 .. Len(sc) : tc[y].args = sc[y].args,
         e.scope = Len(sc) + 1, Len(tc) = Len(sc) + 1, tc[Len(tc)].args = <<>>
  PROVE  Placed(Append(r, e), tc, fs)
<1> DEFINE n == Len(r)
           q == Append(r, e)
<1>1. n \in Nat /\ Len(q) = n + 1 /\ q[n + 1] = e /\ \A i \in 1 .. n : q[i] = r[i]
  OBVIOUS
<1>2. Len(sc) \in Nat
  BY InFunction
<1>3. \A i \in 1 .. n : r[i].scope \in Nat /\ r[i].scope <= Len(sc)
                        /\ (r[i].type \in Inner => r[i].scope # NoScope)
  <2>1. \A i \in 1 .. n : r[i] \in Rows
    OBVIOUS
  <2>2. \A i \in 1 .. n : r[i].type \in Inner => r[i].scope # NoScope
    BY DEF Fits, ScopeKinds, Inner
  <2> QED
    BY <2>1, <2>2 DEF Placed, OwnScopes, Rows
<1>4. e.scope > Len(sc) /\ e.scope \in Nat
  BY <1>2
<1>9. e.scope = Len(tc) /\ tc[e.scope].args = <<>>
  OBVIOUS
<1>10. /\ Len(tc) \in Nat /\ Len(sc) <= Len(tc)
       /\ \A y \in 1 .. Len(sc) : tc[y].args = sc[y].args
  BY <1>2
<1> HIDE DEF q
<1>5. OwnScopes(q, tc)
  <2>1. ASSUME NEW i \in 1 .. n + 1 PROVE q[i].scope <= Len(tc)
    <3>1. CASE i = n + 1
      BY <1>1, <1>9, <1>10, <3>1
    <3>2. CASE i \in 1 .. n
      <4>1. q[i].scope \in Nat /\ q[i].scope <= Len(sc)
        BY <1>1, <1>3, <3>2
      <4> QED
        BY <1>2, <1>10, <4>1
    <3> QED
      BY <1>1, <3>1, <3>2
  <2>2. ASSUME NEW i \in 1 .. n + 1, NEW j \in 1 .. n + 1, i # j, q[i].scope # NoScope
        PROVE  q[i].scope # q[j].scope
    <3>1. CASE i \in 1 .. n /\ j \in 1 .. n
      BY <1>1, <2>2, <3>1 DEF Placed, OwnScopes
    <3>2. CASE i = n + 1 /\ j \in 1 .. n
      <4>1. q[i].scope > Len(sc) /\ q[j].scope <= Len(sc) /\ q[j].scope \in Nat
        BY <1>1, <1>3, <1>4, <2>2, <3>2
      <4> QED
        BY <1>2, <1>10, <4>1
    <3>3. CASE i \in 1 .. n /\ j = n + 1
      <4>1. q[i].scope <= Len(sc) /\ q[i].scope \in Nat
        BY <1>1, <1>3, <3>3
      <4>2. q[j].scope > Len(sc)
        BY <1>1, <1>4, <3>3
      <4>3. ASSUME NEW a \in Nat, a <= Len(sc), NEW b, b > Len(sc) PROVE a # b
        BY <1>2, <4>3
      <4> QED
        BY <4>1, <4>2, <4>3
    <3> QED
      BY <1>1, <2>2, <3>1, <3>2, <3>3
  <2>3. ASSUME NEW i \in 1 .. n + 1, q[i].type \in Inner PROVE tc[q[i].scope].args = <<>>
    <3>1. CASE i = n + 1
      BY <1>1, <1>9, <2>3, <3>1
    <3>2. CASE i \in 1 .. n
      <4>1. q[i] = r[i] /\ r[i].scope \in 1 .. Len(sc)
        BY <1>1, <1>2, <1>3, <2>3, <3>2 DEF NoScope
      <4>2. sc[r[i].scope].args = <<>>
        BY <2>3, <3>2, <4>1 DEF Placed, OwnScopes
      <4> QED
        BY <1>10, <4>1, <4>2
    <3> QED
      BY <1>1, <3>1, <3>2
  <2> QED
    BY <1>1, <2>1, <2>2, <2>3 DEF OwnScopes
<1>6. Methods(q, fs)
  <2> SUFFICES ASSUME NEW k \in 1 .. Len(fs), NEW i \in 1 .. n + 1,
                      q[i].scope = fs[k].scopes[1]
               PROVE  fs[k].class <=> InClass(q, i)
    BY <1>1 DEF Methods
  <2>1. fs[k].scopes[1] \in 1 .. Len(sc)
    BY Heads
  <2>2. i \in 1 .. n
    <3>1. ASSUME i = n + 1 PROVE FALSE
      <4>1. e.scope \in 1 .. Len(sc)
        BY <1>1, <2>1, <3>1
      <4> QED
        BY <1>2, <1>4, <4>1
    <3> QED
      BY <1>1, <3>1
  <2>3. fs[k].class <=> InClass(r, i)
    BY <1>1, <2>2 DEF Placed, Methods
  <2>4. InClass(q, i) <=> InClass(r, i)
    BY <1>1, <2>2 DEF InClass
  <2> QED
    BY <2>3, <2>4
<1> QED
  BY <1>5, <1>6 DEF Placed, q

\* A function begins, in a node or not in one of a class.
LEMMA PlacedFunction ==
  ASSUME NEW r, Len(r) \in Nat \ {0}, NEW sc, NEW fs \in Seq(FunctionRecords),
         Placed(r, sc, fs), r[Len(r)].scope # NoScope,
         NEW class, class <=> InClass(r, Len(r))
  PROVE  Placed(r, sc, Append(fs, Function(r[Len(r)].scope, class)))
<1> DEFINE n == Len(fs)
           y == r[Len(r)].scope
           g == Function(y, class)
           gs == Append(fs, g)
<1>1. g.class = class /\ g.scopes[1] = y
  BY DEF Function
<1>2. n \in Nat /\ Len(gs) = n + 1 /\ gs[n + 1] = g /\ \A k \in 1 .. n : gs[k] = fs[k]
  <2> DEFINE W == FunctionRecords \union {g}
  <2>1. fs \in Seq(W) /\ g \in W
    OBVIOUS
  <2> HIDE DEF W, g
  <2> QED
    BY <2>1
<1> HIDE DEF gs, g
<1>3. ASSUME NEW k \in 1 .. n + 1, NEW i \in 1 .. Len(r), r[i].scope = gs[k].scopes[1]
      PROVE  gs[k].class <=> InClass(r, i)
  <2>1. CASE k = n + 1
    <3>1. r[i].scope = r[Len(r)].scope
      BY <1>1, <1>2, <1>3, <2>1
    <3>2. i = Len(r)
      BY <3>1 DEF Placed, OwnScopes
    <3> QED
      BY <1>1, <1>2, <2>1, <3>2
  <2>2. CASE k \in 1 .. n
    BY <1>2, <1>3, <2>2 DEF Placed, Methods
  <2> QED
    BY <1>2, <2>1, <2>2
<1>4. Methods(r, gs)
  BY <1>2, <1>3 DEF Methods
<1> QED
  BY <1>4 DEF Placed, gs, g

\* The nodes stay, or only the first n of them; and so do the functions.
LEMMA PlacedStays ==
  ASSUME NEW r, NEW s, Fits(r, s), NEW sc, NEW fs, Agrees(r, sc, fs), Placed(r, sc, fs),
         NEW tc, Len(tc) \in Nat, Len(sc) <= Len(tc),
         \A i \in 1 .. Len(r) :
           r[i].type \in Inner => tc[r[i].scope].args = sc[r[i].scope].args,
         NEW gs, Len(gs) \in 0 .. Len(fs),
         \A k \in 1 .. Len(gs) :
           gs[k].class = fs[k].class /\ gs[k].scopes[1] = fs[k].scopes[1]
  PROVE  Placed(r, tc, gs) /\ \A n \in 0 .. Len(r) : Placed(SubSeq(r, 1, n), tc, gs)
<1>1. r \in Seq(Rows) /\ Len(r) \in Nat /\ Len(sc) \in Nat /\ Len(fs) \in Nat
  BY InFunction DEF Fits
<1>2. \A i \in 1 .. Len(r) : r[i].scope \in Nat
  <2>1. \A i \in 1 .. Len(r) : r[i] \in Rows
    BY <1>1
  <2> QED
    BY <2>1 DEF Rows
<1>3. \A x : SameNode(x, x)
  BY DEF SameNode
<1>4. ASSUME NEW n \in 0 .. Len(r), NEW q, Len(q) = n, \A i \in 1 .. n : q[i] = r[i]
      PROVE  Placed(q, tc, gs)
  <2>1. \A i \in 1 .. Len(q) : SameNode(r[i], q[i])
    BY <1>3, <1>4
  <2>2. \A i \in 1 .. Len(q) : i \in 1 .. Len(r)
    BY <1>1, <1>4
  <2> QED
    BY <1>1, <1>2, <1>4, <2>1, <2>2, PlacedAlike
<1>5. Placed(r, tc, gs)
  BY <1>1, <1>4
<1>6. ASSUME NEW n \in 0 .. Len(r) PROVE Placed(SubSeq(r, 1, n), tc, gs)
  <2> DEFINE q == SubSeq(r, 1, n)
  <2>1. Len(q) = n /\ \A i \in 1 .. n : q[i] = r[i]
    BY <1>1
  <2> HIDE DEF q
  <2>2. Placed(q, tc, gs)
    BY <1>4, <2>1
  <2> QED
    BY <2>2 DEF q
<1> QED
  BY <1>5, <1>6

\* Only the first n nodes and m functions stay.
LEMMA PlacedBefore ==
  ASSUME NEW r, NEW s, Fits(r, s), NEW sc, NEW fs, Agrees(r, sc, fs), Placed(r, sc, fs),
         NEW n \in 0 .. Len(r)
  PROVE  /\ Placed(SubSeq(r, 1, n), sc, fs)
         /\ \A m \in 0 .. Len(fs) : Placed(SubSeq(r, 1, n), sc, SubSeq(fs, 1, m))
<1>1. fs \in Seq(FunctionRecords) /\ Len(fs) \in Nat /\ Len(sc) \in Nat
  BY InFunction
<1>2. Len(sc) <= Len(sc) /\ Len(fs) \in 0 .. Len(fs)
  BY <1>1
<1>3. Placed(SubSeq(r, 1, n), sc, fs)
  BY <1>1, <1>2, PlacedStays
<1>4. ASSUME NEW m \in 0 .. Len(fs) PROVE Placed(SubSeq(r, 1, n), sc, SubSeq(fs, 1, m))
  <2> DEFINE gs == SubSeq(fs, 1, m)
  <2>1. Len(gs) = m /\ \A k \in 1 .. m : gs[k] = fs[k]
    BY <1>1
  <2> HIDE DEF gs
  <2>2. \A k \in 1 .. Len(gs) : gs[k].class = fs[k].class /\ gs[k].scopes[1] = fs[k].scopes[1]
    BY <2>1
  <2>3. Placed(SubSeq(r, 1, n), sc, gs)
    BY <1>1, <1>2, <2>1, <2>2, PlacedStays
  <2> QED
    BY <2>3 DEF gs
<1> QED
  BY <1>3, <1>4

\* The innermost function changes, but not its own scope.
LEMMA PlacedTop ==
  ASSUME NEW r, NEW s, Fits(r, s), NEW sc, NEW fs, Agrees(r, sc, fs), Placed(r, sc, fs),
         NEW tc, Len(tc) \in Nat, Len(sc) <= Len(tc),
         \A y \in 1 .. Len(sc) : tc[y].args = sc[y].args,
         NEW g, g.class = fs[Len(fs)].class, g.scopes[1] = fs[Len(fs)].scopes[1]
  PROVE  LET gs == [fs EXCEPT ![Len(fs)] = g] IN
         Placed(r, tc, gs) /\ \A n \in 0 .. Len(r) : Placed(SubSeq(r, 1, n), tc, gs)
<1> DEFINE gs == [fs EXCEPT ![Len(fs)] = g]
<1>1. fs \in Seq(FunctionRecords) /\ Len(fs) \in Nat \ {0} /\ Len(sc) \in Nat
  BY InFunction
<1>2. Len(gs) = Len(fs) /\ gs[Len(fs)] = g /\ \A k \in 1 .. Len(fs) : k # Len(fs) => gs[k] = fs[k]
  BY <1>1
<1> HIDE DEF gs
<1>3. \A k \in 1 .. Len(gs) : gs[k].class = fs[k].class /\ gs[k].scopes[1] = fs[k].scopes[1]
  BY <1>2
<1>4. ASSUME NEW i \in 1 .. Len(r), r[i].type \in Inner
      PROVE  tc[r[i].scope].args = sc[r[i].scope].args
  <2>1. r[i].scope \in 1 .. Len(sc)
    <3>1. r[i] \in Rows /\ r[i].scope # NoScope
      BY <1>4 DEF Fits, Inner, ScopeKinds
    <3>2. r[i].scope <= Len(sc)
      BY DEF Placed, OwnScopes
    <3>3. r[i].scope \in Nat
      BY <3>1 DEF Rows
    <3> QED
      BY <1>1, <3>1, <3>2, <3>3 DEF NoScope
  <2> QED
    BY <2>1
<1>5. Len(gs) \in 0 .. Len(fs)
  BY <1>1, <1>2
<1> QED
  BY <1>3, <1>4, <1>5, PlacedStays DEF gs

\* A block or a class begins: its scope is the last one of the function.
LEMMA PlacedInside ==
  ASSUME NEW r, NEW s, Fits(r, s), NEW sc, NEW fs, Agrees(r, sc, fs), Placed(r, sc, fs),
         NEW e \in Rows, e.scope = Len(sc) + 1
  PROVE  Placed(Append(r, e), Append(sc, Scope),
                [fs EXCEPT ![Len(fs)].scopes = Append(@, Len(sc) + 1)])
<1> DEFINE tc == Append(sc, Scope)
           q == Append(r, e)
           f == fs[Len(fs)]
           g == [f EXCEPT !.scopes = Append(f.scopes, Len(sc) + 1)]
           gs == [fs EXCEPT ![Len(fs)] = g]
<1>1. /\ r \in Seq(Rows) /\ Len(sc) \in Nat /\ sc \in Seq(ScopeRecords)
      /\ fs \in Seq(FunctionRecords) /\ Len(fs) \in Nat \ {0}
      /\ f \in FunctionRecords /\ f.scopes \in Seq(Nat) /\ Len(f.scopes) \in Nat \ {0}
  BY InFunction DEF Fits
<1>2. /\ Len(tc) = Len(sc) + 1 /\ tc[Len(sc) + 1].args = <<>>
      /\ \A y \in 1 .. Len(sc) : tc[y].args = sc[y].args
  BY <1>1, ScopeAdded
<1> HIDE DEF tc, f
<1>3. g.class = f.class /\ g.scopes[1] = f.scopes[1]
  BY <1>1 DEF FunctionRecords
<1>4. Placed(q, tc, fs)
  BY <1>1, <1>2, PlacedPushed
<1>5. \A k \in 1 .. Len(fs) : gs[k].class = fs[k].class /\ gs[k].scopes[1] = fs[k].scopes[1]
  <2> HIDE DEF g
  <2> QED
    BY <1>1, <1>3 DEF f
<1>6. Len(gs) = Len(fs)
  BY <1>1
<1>7. [fs EXCEPT ![Len(fs)].scopes = Append(@, Len(sc) + 1)] = gs
  BY DEF f
<1> HIDE DEF gs
<1>8. Len(q) \in Nat /\ \A i \in 1 .. Len(q) : q[i].scope \in Nat
  <2>1. q \in Seq(Rows)
    BY <1>1
  <2>2. \A i \in 1 .. Len(q) : q[i] \in Rows
    BY <2>1
  <2> QED
    BY <2>1, <2>2 DEF Rows
<1>9. \A x : SameNode(x, x)
  BY DEF SameNode
<1> HIDE DEF q
<1>10. Len(tc) \in Nat /\ Len(tc) <= Len(tc) /\ Len(q) \in 0 .. Len(q) /\ Len(gs) \in 0 .. Len(fs)
  BY <1>1, <1>2, <1>6, <1>8
<1>11. Placed(q, tc, gs)
  BY <1>1, <1>4, <1>5, <1>6, <1>8, <1>9, <1>10, PlacedAlike
<1> QED
  BY <1>7, <1>11 DEF q, tc

\* A function begins.
LEMMA PlacedMethod ==
  ASSUME NEW r, NEW s, Fits(r, s), NEW sc, NEW fs, Agrees(r, sc, fs), Placed(r, sc, fs),
         NEW e \in Rows, e.scope = Len(sc) + 1, e.scope # NoScope,
         NEW class \in BOOLEAN, class <=> r[Len(r)].type = "CLASSDECL"
  PROVE  Placed(Append(r, e), Append(sc, Scope), Append(fs, Function(Len(sc) + 1, class)))
<1> DEFINE tc == Append(sc, Scope)
           q == Append(r, e)
<1>1. /\ r \in Seq(Rows) /\ Len(r) \in Nat \ {0} /\ Len(sc) \in Nat /\ sc \in Seq(ScopeRecords)
      /\ fs \in Seq(FunctionRecords)
  BY InFunction, TopIsNoBranch DEF Fits
<1>2. /\ Len(tc) = Len(sc) + 1 /\ tc[Len(sc) + 1].args = <<>>
      /\ \A y \in 1 .. Len(sc) : tc[y].args = sc[y].args
  BY <1>1, ScopeAdded
<1> HIDE DEF tc
<1>3. Placed(q, tc, fs)
  BY <1>1, <1>2, PlacedPushed
<1>4. Len(q) = Len(r) + 1 /\ q[Len(r) + 1] = e /\ q[Len(r)] = r[Len(r)]
  BY <1>1
<1> HIDE DEF q
<1>5. Len(q) \in Nat \ {0} /\ q[Len(q)].scope = Len(sc) + 1 /\ q[Len(q)].scope # NoScope
  BY <1>1, <1>4
<1>6. class <=> InClass(q, Len(q))
  <2>1. Len(q) > 1 /\ Len(q) - 1 = Len(r)
    BY <1>1, <1>4
  <2> QED
    BY <1>4, <2>1 DEF InClass
<1>7. Placed(q, tc, Append(fs, Function(q[Len(q)].scope, class)))
  BY <1>1, <1>3, <1>5, <1>6, PlacedFunction
<1> QED
  BY <1>5, <1>7 DEF q, tc

\* A variable is declared: it is no argument.
LEMMA PlacedDeclares ==
  ASSUME NEW r, NEW s, Fits(r, s), NEW sc, NEW fs, Agrees(r, sc, fs), Placed(r, sc, fs),
         r[Len(r)].type # "FUNCDECL"
  PROVE  LET f == fs[Len(fs)] IN
         Placed(r, [sc EXCEPT ![Last(f.scopes)].vars =
                       Append(@, [name |-> "", index |-> f.current])],
                [fs EXCEPT ![Len(fs)] = TookSlot(@)])
<1> DEFINE f == fs[Len(fs)]
           tc == [sc EXCEPT ![Last(f.scopes)].vars =
                    Append(@, [name |-> "", index |-> f.current])]
           g == TookSlot(f)
<1>1. Len(tc) = Len(sc) /\ \A z \in 1 .. Len(sc) : tc[z].args = sc[z].args
  BY AgreesDeclares, ZenonT(40)
<1>2. Len(sc) \in Nat /\ f \in FunctionRecords
  BY InFunction
<1> HIDE DEF tc, f
<1>3. g.class = f.class /\ g.scopes = f.scopes
  BY <1>2 DEF TookSlot, FunctionRecords
<1> HIDE DEF g
<1>4. Placed(r, tc, [fs EXCEPT ![Len(fs)] = g])
  <2>1. Len(tc) \in Nat /\ Len(sc) <= Len(tc)
    BY <1>1, <1>2
  <2> QED
    BY <1>1, <1>3, <2>1, PlacedTop DEF f
<1>5. [fs EXCEPT ![Len(fs)] = TookSlot(@)] = [fs EXCEPT ![Len(fs)] = g]
  BY DEF g, f
<1> QED
  BY <1>4, <1>5 DEF tc, f

\* A block or a class ends.
LEMMA PlacedLeft ==
  ASSUME NEW r, NEW s, Fits(r, s), NEW sc, NEW fs, Agrees(r, sc, fs), Placed(r, sc, fs),
         r[Len(r)].type \in ScopeKinds \ Roots
  PROVE  Placed(SubSeq(r, 1, Len(r) - 1), sc, [fs EXCEPT ![Len(fs)] = LeftIn(sc, fs[Len(fs)])])
<1> DEFINE f == fs[Len(fs)]
           g == LeftIn(sc, f)
           gs == [fs EXCEPT ![Len(fs)] = g]
           p == SubSeq(r, 1, Len(r) - 1)
<1>1. /\ Len(r) \in Nat \ {0} /\ Len(sc) \in Nat /\ fs \in Seq(FunctionRecords)
      /\ Len(fs) \in Nat \ {0} /\ f \in FunctionRecords
      /\ f.scopes \in Seq(Nat) /\ Len(f.scopes) \in Nat \ {0}
  BY InFunction, TopIsNoBranch
<1>2. Agrees(p, sc, gs) /\ Fits(p, r[Len(r)].saved)
  BY AgreesLeft, FitsPop DEF ScopeKinds, Roots, Arms
<1>3. gs[Len(fs)] = g /\ Len(gs) = Len(fs)
  BY <1>1
<1> HIDE DEF gs, p, f
<1>4. g.scopes # <<>>
  BY <1>1, <1>2, <1>3, InFunction
<1>5. g.class = f.class /\ g.scopes = SubSeq(f.scopes, 1, Len(f.scopes) - 1)
  BY <1>1 DEF LeftIn, FunctionRecords, Front
<1>6. g.scopes[1] = f.scopes[1]
  <2> HIDE DEF g
  <2> QED
    BY <1>1, <1>4, <1>5
<1> HIDE DEF g
<1>7. Placed(p, sc, gs)
  <2>1. Len(sc) <= Len(sc) /\ Len(r) - 1 \in 0 .. Len(r)
    BY <1>1
  <2> QED
    BY <1>1, <1>5, <1>6, <2>1, PlacedTop DEF f, gs, p
<1> QED
  BY <1>7 DEF p, gs, g, f
-----------------------------------------------------------------------------
(* The scopes of the innermost function are those of its nodes.             *)

\* No function begins between a node and the m-th.
SameFunction(r, i, m) == \A j \in i + 1 .. m : r[j].type \notin Roots

\* The last list of open has the scopes of the nodes of the innermost function
\* up to the m-th one, and the scope of the function first.
Gathers(r, open, m) ==
  /\ open \in Seq(Seq(Nat)) /\ open # <<>> /\ open[Len(open)] # <<>>
  /\ \A i \in 1 .. m : SameFunction(r, i, m) =>
       /\ r[i].scope # NoScope =>
            \E a \in 1 .. Len(open[Len(open)]) : open[Len(open)][a] = r[i].scope
       /\ r[i].type \in Roots => open[Len(open)][1] = r[i].scope

\* A list of scopes is added for a function.
LEMMA GathersFunction ==
  ASSUME NEW r \in Seq(Rows), NEW m \in Nat, m + 1 \in 1 .. Len(r),
         NEW p \in Seq(Seq(Nat)), r[m + 1].type \in Roots
  PROVE  Gathers(r, WithScope(p, r[m + 1]), m + 1)
<1> DEFINE y == r[m + 1].scope
           o == Append(p, <<y>>)
<1>1. WithScope(p, r[m + 1]) = o
  BY DEF WithScope, Roots
<1>2. y \in Nat
  <2>1. r[m + 1] \in Rows
    OBVIOUS
  <2> QED
    BY <2>1 DEF Rows
<1>3. o \in Seq(Seq(Nat)) /\ o # <<>> /\ o[Len(o)] = <<y>>
  <2> DEFINE T == Seq(Nat)
             x == <<y>>
  <2>1. x \in T /\ p \in Seq(T)
    BY <1>2
  <2> HIDE DEF T, x, y
  <2>2. Append(p, x) \in Seq(T) /\ Len(Append(p, x)) = Len(p) + 1
        /\ Append(p, x)[Len(p) + 1] = x /\ Len(p) \in Nat
    BY <2>1
  <2>3. Len(Append(p, x)) # 0
    BY <2>2
  <2>4. Append(p, x) # <<>>
    <3>1. Len(<<>>) = 0
      OBVIOUS
    <3> QED
      BY <2>3, <3>1, Zenon
  <2> QED
    BY <2>2, <2>4 DEF T, x
<1>4. ASSUME NEW i \in 1 .. m + 1, SameFunction(r, i, m + 1) PROVE i = m + 1
  <2> SUFFICES ASSUME i # m + 1 PROVE FALSE
    OBVIOUS
  <2>1. m + 1 \in i + 1 .. m + 1
    OBVIOUS
  <2> QED
    BY <1>4, <2>1 DEF SameFunction
<1>5. Len(<<y>>) = 1 /\ <<y>>[1] = y /\ <<y>> # <<>> /\ 1 \in 1 .. 1
  OBVIOUS
<1> HIDE DEF o
<1>6. Gathers(r, o, m + 1)
  BY <1>3, <1>4, <1>5 DEF Gathers
<1> QED
  BY <1>1, <1>6

\* A scope is added for a block or a class.
LEMMA GathersInner ==
  ASSUME NEW r \in Seq(Rows), NEW m \in Nat, m + 1 \in 1 .. Len(r),
         NEW p, Gathers(r, p, m), r[m + 1].type \notin Roots
  PROVE  Gathers(r, WithScope(p, r[m + 1]), m + 1)
<1> DEFINE y == r[m + 1].scope
           l == Len(p)
           u == p[l]
           v == Append(u, y)
           o == [p EXCEPT ![l] = v]
<1>1. y \in Nat /\ l \in Nat \ {0} /\ u \in Seq(Nat) /\ u # <<>> /\ p \in Seq(Seq(Nat))
  <2>1. r[m + 1] \in Rows
    OBVIOUS
  <2> QED
    BY <2>1 DEF Rows, Gathers
<1>2. ASSUME NEW i \in 1 .. m, SameFunction(r, i, m + 1)
      PROVE  SameFunction(r, i, m)
  BY <1>2 DEF SameFunction
<1>3. \A i \in 1 .. m : SameFunction(r, i, m) =>
        /\ r[i].scope # NoScope => \E a \in 1 .. Len(u) : u[a] = r[i].scope
        /\ r[i].type \in Roots => u[1] = r[i].scope
  BY DEF Gathers
<1>4. CASE y = NoScope
  <2>1. WithScope(p, r[m + 1]) = p
    BY <1>4 DEF WithScope, Roots
  <2> HIDE DEF l, u
  <2>2. ASSUME NEW i \in 1 .. m + 1, SameFunction(r, i, m + 1)
        PROVE  /\ r[i].scope # NoScope => \E a \in 1 .. Len(u) : u[a] = r[i].scope
               /\ r[i].type \in Roots => u[1] = r[i].scope
    <3>1. CASE i = m + 1
      BY <1>4, <3>1
    <3>2. CASE i \in 1 .. m
      BY <1>2, <1>3, <2>2, <3>2
    <3> QED
      BY <3>1, <3>2
  <2>3. Gathers(r, p, m + 1)
    BY <1>1, <2>2 DEF Gathers, u, l
  <2> QED
    BY <2>1, <2>3
<1>5. CASE y # NoScope
  <2>1. WithScope(p, r[m + 1]) = o
    BY <1>5 DEF WithScope, Roots
  <2> HIDE DEF u, l
  <2>2. /\ v \in Seq(Nat) /\ Len(v) = Len(u) + 1 /\ v[Len(u) + 1] = y
        /\ Len(u) \in Nat \ {0} /\ \A a \in 1 .. Len(u) : v[a] = u[a]
    BY <1>1
  <2> HIDE DEF v
  <2>3. o \in Seq(Seq(Nat)) /\ Len(o) = l /\ o[l] = v
    BY <1>1, <2>2 DEF l
  <2> HIDE DEF o
  <2>4. ASSUME NEW i \in 1 .. m + 1, SameFunction(r, i, m + 1)
        PROVE  /\ r[i].scope # NoScope => \E a \in 1 .. Len(v) : v[a] = r[i].scope
               /\ r[i].type \in Roots => v[1] = r[i].scope
    <3>1. CASE i = m + 1
      BY <2>2, <3>1
    <3>2. CASE i \in 1 .. m
      <4>1. /\ r[i].scope # NoScope => \E a \in 1 .. Len(u) : u[a] = r[i].scope
            /\ r[i].type \in Roots => u[1] = r[i].scope
        BY <1>2, <1>3, <2>4, <3>2
      <4> QED
        BY <2>2, <4>1
    <3> QED
      BY <3>1, <3>2
  <2>5. o # <<>> /\ o[Len(o)] = v /\ v # <<>>
    BY <1>1, <2>2, <2>3
  <2>6. Gathers(r, o, m + 1)
    BY <2>3, <2>4, <2>5 DEF Gathers
  <2> QED
    BY <2>1, <2>6
<1> QED
  BY <1>4, <1>5

LEMMA ScopesGathered ==
  ASSUME NEW r, NEW s, Fits(r, s)
  PROVE  Gathers(r, ScopesIn(r), Len(r))
<1>1. r \in Seq(Rows) /\ Len(r) \in Nat \ {0} /\ r[1].type = "ROOT"
  <2>1. r \in Seq(Rows) /\ Len(r) \in Nat \ {0}
    BY DEF Fits
  <2>2. 1 \in 1 .. Len(r)
    BY <2>1
  <2> QED
    BY <2>1, <2>2 DEF Fits
<1>2. PICK o \in Openings(r, Len(r)) : TRUE
  BY <1>1, OpeningsExist
<1>3. /\ o \in [0 .. Len(r) -> Seq(Seq(Nat))]
      /\ \A n \in 0 .. Len(r) : o[n] = IF n = 0 THEN <<>> ELSE WithScope(o[n - 1], r[n])
  BY <1>2 DEF Openings
<1> DEFINE S == {n \in Nat : n + 1 <= Len(r) => Gathers(r, o[n + 1], n + 1)}
<1>4. 0 \in S
  <2>1. o[1] = WithScope(<<>>, r[1])
    BY <1>1, <1>3
  <2>2. Gathers(r, WithScope(<<>>, r[0 + 1]), 0 + 1)
    <3>1. 0 \in Nat /\ 0 + 1 = 1 /\ 1 \in 1 .. Len(r) /\ <<>> \in Seq(Seq(Nat))
          /\ r[1].type \in Roots
      BY <1>1 DEF Roots
    <3> QED
      BY <1>1, <3>1, GathersFunction
  <2> QED
    BY <2>1, <2>2
<1>5. ASSUME NEW n \in Nat, n \in S PROVE n + 1 \in S
  <2> SUFFICES ASSUME n + 2 <= Len(r) PROVE Gathers(r, o[n + 2], n + 2)
    OBVIOUS
  <2> DEFINE m == n + 1
  <2>1. m \in Nat /\ m + 1 \in 1 .. Len(r) /\ m + 1 = n + 2 /\ m \in 0 .. Len(r)
    BY <1>1
  <2>2. Gathers(r, o[m], m)
    BY <1>5, <2>1
  <2> HIDE DEF S, m
  <2>3. o[m + 1] = WithScope(o[m], r[m + 1]) /\ o[m] \in Seq(Seq(Nat))
    BY <1>1, <1>3, <2>1
  <2>4. Gathers(r, WithScope(o[m], r[m + 1]), m + 1)
    BY <1>1, <2>1, <2>2, <2>3, GathersFunction, GathersInner
  <2> QED
    BY <2>1, <2>3, <2>4
<1> HIDE DEF S
<1>6. Len(r) - 1 \in S
  BY <1>1, <1>4, <1>5, NaturalInduction
<1>7. Gathers(r, o[Len(r)], Len(r))
  BY <1>1, <1>6 DEF S
<1>8. ScopesIn(r) = o[Len(r)]
  BY <1>1, <1>2, ScopesInIs
<1> QED
  BY <1>7, <1>8

\* The node of the innermost function.
LEMMA RootNode ==
  ASSUME NEW r, NEW s, Fits(r, s)
  PROVE  \E p \in 1 .. Len(r) : r[p].type \in Roots /\ SameFunction(r, p, Len(r))
<1> DEFINE S == {p \in 1 .. Len(r) : r[p].type \in Roots}
<1>1. Len(r) \in Nat \ {0} /\ 1 \in S
  <2>1. Len(r) \in Nat \ {0}
    BY TopIsNoBranch
  <2>2. 1 \in 1 .. Len(r)
    BY <2>1
  <2> QED
    BY <2>1, <2>2 DEF Fits, Roots
<1>2. S \in SUBSET (0 .. Len(r)) /\ S # {}
  BY <1>1
<1>3. PICK p \in S : \A m \in S : m <= p
  BY <1>1, <1>2, GreatestNumber
<1>4. p \in 1 .. Len(r) /\ r[p].type \in Roots
  OBVIOUS
<1>5. SameFunction(r, p, Len(r))
  <2> SUFFICES ASSUME NEW j \in p + 1 .. Len(r), r[j].type \in Roots PROVE FALSE
    BY DEF SameFunction
  <2>1. j \in S
    BY <1>1, <1>4
  <2>2. j <= p
    BY <1>3, <2>1
  <2> QED
    BY <1>1, <1>4, <2>2
<1> QED
  BY <1>4, <1>5

-----------------------------------------------------------------------------
(* The steps of the parser, on nodes q in state s with scopes sc and functions *)
(* fs.                                                                        *)

Good(q, s, sc, fs) ==
  /\ Shaped(q) /\ Fits(RowsOf(q), s) /\ Agrees(RowsOf(q), sc, fs)
  /\ Placed(RowsOf(q), sc, fs)

PushedOn(q, e) == Append([q EXCEPT ![Len(q)].branchLast = e.type = "BRANCH"], e)

\* The node that the parser parses.
LEMMA TopOf ==
  ASSUME NEW q, NEW s, Shaped(q), Fits(RowsOf(q), s)
  PROVE  /\ q # <<>> /\ Len(q) \in Nat \ {0} /\ Len(RowsOf(q)) = Len(q)
         /\ Last(q) = q[Len(q)]
         /\ RowsOf(q)[Len(q)].type = Last(q).type
         /\ RowsOf(q)[Len(q)].saved = Last(q).saved
         /\ RowsOf(q)[Len(q)].scope = Last(q).scope
         /\ RowsOf(q) \in Seq(Rows)
         /\ Last(q).type \in DOMAIN StatesOf /\ s \in StatesOf[Last(q).type]
         /\ Last(q).scope # NoScope <=> Last(q).type \in ScopeKinds
<1>1. Len(q) \in Nat /\ Len(RowsOf(q)) = Len(q)
  BY RowsType
<1>2. Len(RowsOf(q)) \in Nat \ {0} /\ RowsOf(q) \in Seq(Rows)
  BY TopIsNoBranch DEF Fits
<1>3. Len(q) \in 1 .. Len(q) /\ Last(q) = q[Len(q)]
  BY <1>1, <1>2 DEF Last
<1>4. /\ RowsOf(q)[Len(q)].type = Last(q).type
      /\ RowsOf(q)[Len(q)].saved = Last(q).saved
      /\ RowsOf(q)[Len(q)].scope = Last(q).scope
  BY <1>3, RowsType
<1>5. Last(q).type \in DOMAIN StatesOf /\ s \in StatesOf[Last(q).type]
  BY <1>1, <1>4, TopIsNoBranch
<1>6. Last(q).scope # NoScope <=> Last(q).type \in ScopeKinds
  BY <1>1, <1>3, <1>4 DEF Fits
<1>7. q # <<>>
  <2>1. Len(<<>>) = 0
    OBVIOUS
  <2> QED
    BY <1>1, <1>2, <2>1
<1> QED
  BY <1>1, <1>2, <1>3, <1>4, <1>5, <1>6, <1>7

LEMMA RowsPushed ==
  ASSUME NEW q, Shaped(q), q # <<>>, NEW e, \E S : e \in Entries(S)
  PROVE  Shaped(PushedOn(q, e)) /\ RowsOf(PushedOn(q, e)) = Append(RowsOf(q), Row(e))
<1> DEFINE x == e.type = "BRANCH"
           p == [q EXCEPT ![Len(q)].branchLast = x]
<1> HIDE DEF x
<1>1. Shaped(p) /\ RowsOf(p) = RowsOf(q)
  BY RowsMarked
<1> HIDE DEF p
<1>2. Shaped(Append(p, e)) /\ RowsOf(Append(p, e)) = Append(RowsOf(q), Row(e))
  BY <1>1, RowsAppended
<1> QED
  BY <1>2 DEF PushedOn, p, x

\* A statement goes on in another state of its node.
LEMMA GoodGoesOn ==
  ASSUME NEW q, NEW s, NEW sc, NEW fs, Good(q, s, sc, fs), NEW t, t \in StatesOf[Last(q).type]
  PROVE  Good(q, t, sc, fs)
<1>1. /\ Shaped(q) /\ Fits(RowsOf(q), s) /\ Agrees(RowsOf(q), sc, fs)
      /\ Placed(RowsOf(q), sc, fs)
  BY DEF Good
<1>2. RowsOf(q)[Len(RowsOf(q))].type = Last(q).type
  BY <1>1, TopOf
<1>3. Fits(RowsOf(q), t)
  BY <1>1, <1>2, FitsGoesOn
<1> QED
  BY <1>1, <1>3 DEF Good

\* The step and the start of a node do not matter.
LEMMA GoodMarked ==
  ASSUME NEW q, NEW s, NEW sc, NEW fs, Good(q, s, sc, fs), NEW x
  PROVE  /\ Good([q EXCEPT ![Len(q)].step = x], s, sc, fs)
         /\ Good([q EXCEPT ![Len(q)].start = x], s, sc, fs)
  BY TopOf, RowsMarked, ZenonT(40) DEF Good

\* Names are given: the slots stay, and the blocks have no argument.
LEMMA GoodNamed ==
  ASSUME NEW q, NEW s, NEW sc, NEW fs, Good(q, s, sc, fs),
         NEW tc \in Seq(ScopeRecords), Len(sc) <= Len(tc),
         \A y \in 1 .. Len(sc) : SameSlots(VarsOf(sc, y), VarsOf(tc, y)),
         \A i \in 1 .. Len(q) :
           q[i].type \in Inner => tc[q[i].scope].args = sc[q[i].scope].args
  PROVE  Good(q, s, tc, fs)
<1> DEFINE r == RowsOf(q)
<1>1. Shaped(q) /\ Fits(r, s) /\ Agrees(r, sc, fs) /\ Placed(r, sc, fs)
  BY DEF Good
<1>2. \A i \in 1 .. Len(r) : r[i].type \in Inner => tc[r[i].scope].args = sc[r[i].scope].args
  BY <1>1, RowsType
<1>3. Len(tc) \in Nat /\ Len(fs) \in Nat
  BY <1>1, InFunction
<1>4. Agrees(r, tc, fs)
  BY <1>1, AgreesAlike
<1> HIDE DEF r
<1>5. Len(fs) \in 0 .. Len(fs)
  BY <1>3
<1>6. Placed(r, tc, fs)
  BY <1>1, <1>2, <1>3, <1>5, PlacedStays
<1> QED
  BY <1>1, <1>4, <1>6 DEF Good, r

\* A node without a scope begins.
Plain == DOMAIN StatesOf \ (ScopeKinds \union Arms)

\* A node without a scope is pushed.
LEMMA GoodPushed ==
  ASSUME NEW q, NEW s, NEW sc, NEW fs, Good(q, s, sc, fs), Last(q).type # "FUNCDECL",
         NEW type \in Plain, NEW saved, saved \in StatesOf[Last(q).type],
         NEW t, t \in StatesOf[type],
         NEW e, \E S : e \in Entries(S),
         Row(e) = [type |-> type, saved |-> saved, scope |-> NoScope]
  PROVE  Good(PushedOn(q, e), t, sc, fs)
<1> DEFINE r == RowsOf(q)
           x == [type |-> type, saved |-> saved, scope |-> NoScope]
<1>1. /\ Shaped(q) /\ q # <<>> /\ Fits(r, s) /\ Agrees(r, sc, fs) /\ r \in Seq(Rows)
      /\ Placed(r, sc, fs)
      /\ r[Len(r)].type = Last(q).type /\ Last(q).type \in DOMAIN StatesOf
  BY TopOf DEF Good
<1>2. saved \in States /\ type \in Kinds /\ NoScope \in Nat
  BY <1>1 DEF States, Kinds, Plain, NoScope
<1>3. x \in Rows /\ x.type = type /\ x.saved = saved /\ x.scope = NoScope
  BY <1>2 DEF Rows
<1>4. type \notin {"ROOT", "BRANCH"} \union Arms /\ type \notin Roots /\ type \notin ScopeKinds
  BY DEF Plain, ScopeKinds, Roots, StatesOf
<1>5. Shaped(PushedOn(q, e)) /\ RowsOf(PushedOn(q, e)) = Append(r, x)
  BY <1>1, RowsPushed
<1> HIDE DEF r, x
<1>6. Fits(Append(r, x), t)
  BY <1>1, <1>3, <1>4, FitsPushed
<1>7. Agrees(Append(r, x), sc, fs)
  BY <1>1, <1>3, <1>4, AgreesPushed
<1>8. Placed(Append(r, x), sc, fs)
  <2>1. type \notin Inner
    BY <1>4 DEF Inner, ScopeKinds
  <2>2. Len(sc) \in Nat /\ \A k \in 1 .. Len(fs) : fs[k].scopes[1] # NoScope
    BY <1>1, InFunction, Heads DEF NoScope
  <2> QED
    BY <1>1, <1>3, <2>1, <2>2, PlacedPlain
<1> QED
  BY <1>5, <1>6, <1>7, <1>8 DEF Good

\* A block begins.
LEMMA GoodBlock ==
  ASSUME NEW q, NEW s, NEW sc, NEW fs, Good(q, s, sc, fs),
         NEW saved, saved \in StatesOf[Last(q).type]
  PROVE  Good(PushedOn(q, [Entry("CODEBLOCK", saved) EXCEPT !.scope = Len(sc) + 1]),
              "CODEBLOCK", Append(sc, Scope),
              [fs EXCEPT ![Len(fs)].scopes = Append(@, Len(sc) + 1)])
<1> DEFINE r == RowsOf(q)
           y == Len(sc) + 1
           x == [type |-> "CODEBLOCK", saved |-> saved, scope |-> y]
           e == [Entry("CODEBLOCK", saved) EXCEPT !.scope = y]
<1>1. /\ Shaped(q) /\ q # <<>> /\ Fits(r, s) /\ Agrees(r, sc, fs) /\ r \in Seq(Rows)
      /\ Placed(r, sc, fs)
      /\ r[Len(r)].type = Last(q).type /\ Last(q).type \in DOMAIN StatesOf
  BY TopOf DEF Good
<1>2. saved \in States /\ "CODEBLOCK" \in Kinds /\ y \in Nat /\ y # NoScope
  <2>1. Len(sc) \in Nat
    BY <1>1, InFunction
  <2> QED
    BY <1>1, <2>1 DEF States, Kinds, StatesOf, NoScope
<1>3. x \in Rows /\ x.type = "CODEBLOCK" /\ x.saved = saved /\ x.scope = y
  BY <1>2 DEF Rows
<1>4. /\ "CODEBLOCK" \notin {"ROOT", "BRANCH"} \union Arms /\ "CODEBLOCK" \notin Roots
      /\ "CODEBLOCK" \in ScopeKinds /\ "CODEBLOCK" \in StatesOf["CODEBLOCK"]
  BY DEF Arms, ScopeKinds, Roots, StatesOf
<1> HIDE DEF y
<1>5. (\E S : e \in Entries(S)) /\ Row(e) = x
  BY EntryWithScope
<1> HIDE DEF e
<1>6. Shaped(PushedOn(q, e)) /\ RowsOf(PushedOn(q, e)) = Append(r, x)
  BY <1>1, <1>5, RowsPushed
<1> HIDE DEF r, x
<1>7. Fits(Append(r, x), "CODEBLOCK")
  BY <1>1, <1>2, <1>3, <1>4, FitsPushed
<1>8. Agrees(Append(r, x), Append(sc, Scope), [fs EXCEPT ![Len(fs)].scopes = Append(@, y)])
  BY <1>1, <1>3, <1>4, AgreesInside DEF y
<1>9. Placed(Append(r, x), Append(sc, Scope), [fs EXCEPT ![Len(fs)].scopes = Append(@, y)])
  <2>1. x.scope = Len(sc) + 1 /\ x.scope # NoScope
    BY <1>2, <1>3 DEF y
  <2> QED
    BY <1>1, <1>3, <2>1, PlacedInside DEF y
<1> QED
  BY <1>6, <1>7, <1>8, <1>9 DEF Good, e, y

\* A class is declared and begins.
LEMMA GoodClass ==
  ASSUME NEW q, NEW s, NEW sc, NEW fs, Good(q, s, sc, fs),
         Last(q).type # "FUNCDECL", NEW saved, saved \in StatesOf[Last(q).type]
  PROVE  LET f == fs[Len(fs)] IN
         Good(PushedOn(q, [Entry("CLASSDECL", saved) EXCEPT !.scope = Len(sc) + 1]),
              "CLASSDECL_NAME",
              Append([sc EXCEPT ![Last(f.scopes)].vars =
                        Append(@, [name |-> "", index |-> f.current])], Scope),
              [fs EXCEPT ![Len(fs)] = [TookSlot(f) EXCEPT !.scopes = Append(@, Len(sc) + 1)]])
<1> DEFINE r == RowsOf(q)
           f == fs[Len(fs)]
           y == Len(sc) + 1
           x == [type |-> "CLASSDECL", saved |-> saved, scope |-> y]
           e == [Entry("CLASSDECL", saved) EXCEPT !.scope = y]
           tc == [sc EXCEPT ![Last(f.scopes)].vars =
                    Append(@, [name |-> "", index |-> f.current])]
           gs == [fs EXCEPT ![Len(fs)] = TookSlot(@)]
<1>1. /\ Shaped(q) /\ q # <<>> /\ Fits(r, s) /\ Agrees(r, sc, fs) /\ r \in Seq(Rows)
      /\ Placed(r, sc, fs)
      /\ r[Len(r)].type = Last(q).type /\ Last(q).type \in DOMAIN StatesOf
  BY TopOf DEF Good
<1>2. /\ saved \in States /\ "CLASSDECL" \in Kinds /\ y \in Nat /\ y # NoScope
      /\ sc \in Seq(ScopeRecords) /\ Len(fs) \in Nat \ {0} /\ fs \in Seq(FunctionRecords)
  <2>1. Len(sc) \in Nat /\ sc \in Seq(ScopeRecords)
        /\ Len(fs) \in Nat \ {0} /\ fs \in Seq(FunctionRecords)
    BY <1>1, InFunction
  <2> QED
    BY <1>1, <2>1 DEF States, Kinds, StatesOf, NoScope
<1>3. x \in Rows /\ x.type = "CLASSDECL" /\ x.saved = saved /\ x.scope = y
  BY <1>2 DEF Rows
<1>4. /\ "CLASSDECL" \notin {"ROOT", "BRANCH"} \union Arms /\ "CLASSDECL" \notin Roots
      /\ "CLASSDECL" \in ScopeKinds /\ "CLASSDECL_NAME" \in StatesOf["CLASSDECL"]
  BY DEF Arms, ScopeKinds, Roots, StatesOf
<1>5. Agrees(r, tc, gs) /\ Placed(r, tc, gs)
  BY <1>1, AgreesDeclares, PlacedDeclares
<1>6. Len(tc) = Len(sc) /\ Len(gs) = Len(fs) /\ gs[Len(gs)] = TookSlot(f)
  BY <1>2
<1>7. [gs EXCEPT ![Len(gs)].scopes = Append(@, y)]
        = [fs EXCEPT ![Len(fs)] = [TookSlot(f) EXCEPT !.scopes = Append(@, y)]]
  <2> DEFINE g == TookSlot(f)
             h == [g EXCEPT !.scopes = Append(@, y)]
  <2>1. gs = [fs EXCEPT ![Len(fs)] = g]
    OBVIOUS
  <2>2. [gs EXCEPT ![Len(gs)].scopes = Append(@, y)] = [gs EXCEPT ![Len(gs)] = h]
    BY <1>6
  <2> HIDE DEF h, g, gs
  <2>3. [gs EXCEPT ![Len(gs)] = h] = [fs EXCEPT ![Len(fs)] = h]
    BY <1>2, <1>6, <2>1
  <2> QED
    BY <2>2, <2>3 DEF h, g
<1> HIDE DEF tc, gs
<1>8. x.scope = Len(tc) + 1
  BY <1>3, <1>6
<1> HIDE DEF y
<1>9. (\E S : e \in Entries(S)) /\ Row(e) = x
  BY EntryWithScope
<1> HIDE DEF e
<1>10. Shaped(PushedOn(q, e)) /\ RowsOf(PushedOn(q, e)) = Append(r, x)
  BY <1>1, <1>9, RowsPushed
<1> HIDE DEF r, x
<1>11. Fits(Append(r, x), "CLASSDECL_NAME")
  BY <1>1, <1>2, <1>3, <1>4, FitsPushed
<1>12. Agrees(Append(r, x), Append(tc, Scope), [gs EXCEPT ![Len(gs)].scopes = Append(@, y)])
  <2>1. Agrees(Append(r, x), Append(tc, Scope),
               [gs EXCEPT ![Len(gs)].scopes = Append(@, Len(tc) + 1)])
    BY <1>1, <1>3, <1>4, <1>5, <1>8, AgreesInside
  <2> QED
    BY <1>3, <1>8, <2>1
<1>14. Placed(Append(r, x), Append(tc, Scope), [gs EXCEPT ![Len(gs)].scopes = Append(@, y)])
  <2>1. x.scope # NoScope
    BY <1>2, <1>3
  <2>2. Placed(Append(r, x), Append(tc, Scope),
               [gs EXCEPT ![Len(gs)].scopes = Append(@, Len(tc) + 1)])
    BY <1>1, <1>3, <1>5, <1>8, <2>1, PlacedInside
  <2> QED
    BY <1>3, <1>8, <2>2
<1>13. Good(PushedOn(q, e), "CLASSDECL_NAME", Append(tc, Scope),
            [fs EXCEPT ![Len(fs)] = [TookSlot(f) EXCEPT !.scopes = Append(@, y)]])
  BY <1>7, <1>10, <1>11, <1>12, <1>14 DEF Good
<1> QED
  BY <1>13 DEF e, y, tc

\* A function begins.
LEMMA GoodFunction ==
  ASSUME NEW q, NEW s, NEW sc, NEW fs, Good(q, s, sc, fs),
         Last(q).type # "FUNCDECL", NEW saved, saved \in StatesOf[Last(q).type],
         NEW class \in BOOLEAN, class <=> Last(q).type = "CLASSDECL"
  PROVE  Good(PushedOn(q, [Entry("FUNCDECL", saved) EXCEPT !.scope = Len(sc) + 1]),
              "FUNCDECL_NAME", Append(sc, Scope), Append(fs, Function(Len(sc) + 1, class)))
<1> DEFINE r == RowsOf(q)
           y == Len(sc) + 1
           x == [type |-> "FUNCDECL", saved |-> saved, scope |-> y]
           e == [Entry("FUNCDECL", saved) EXCEPT !.scope = y]
<1>1. /\ Shaped(q) /\ q # <<>> /\ Fits(r, s) /\ Agrees(r, sc, fs) /\ r \in Seq(Rows)
      /\ Placed(r, sc, fs)
      /\ r[Len(r)].type = Last(q).type /\ Last(q).type \in DOMAIN StatesOf
  BY TopOf DEF Good
<1>2. saved \in States /\ "FUNCDECL" \in Kinds /\ y \in Nat /\ y # NoScope
  <2>1. Len(sc) \in Nat
    BY <1>1, InFunction
  <2> QED
    BY <1>1, <2>1 DEF States, Kinds, StatesOf, NoScope
<1>3. x \in Rows /\ x.type = "FUNCDECL" /\ x.saved = saved /\ x.scope = y
  BY <1>2 DEF Rows
<1>4. /\ "FUNCDECL" \notin {"ROOT", "BRANCH"} \union Arms /\ "FUNCDECL" \in Roots
      /\ "FUNCDECL" \in ScopeKinds /\ "FUNCDECL_NAME" \in StatesOf["FUNCDECL"]
  BY DEF Arms, ScopeKinds, Roots, StatesOf
<1> HIDE DEF y
<1>5. (\E S : e \in Entries(S)) /\ Row(e) = x
  BY EntryWithScope
<1> HIDE DEF e
<1>6. Shaped(PushedOn(q, e)) /\ RowsOf(PushedOn(q, e)) = Append(r, x)
  BY <1>1, <1>5, RowsPushed
<1> HIDE DEF r, x
<1>7. Fits(Append(r, x), "FUNCDECL_NAME")
  BY <1>1, <1>2, <1>3, <1>4, FitsPushed
<1>8. Agrees(Append(r, x), Append(sc, Scope), Append(fs, Function(y, class)))
  BY <1>1, <1>3, <1>4, AgreesFunction DEF y
<1>9. Placed(Append(r, x), Append(sc, Scope), Append(fs, Function(y, class)))
  <2>1. x.scope = Len(sc) + 1 /\ x.scope # NoScope
    BY <1>2, <1>3 DEF y
  <2>2. class <=> r[Len(r)].type = "CLASSDECL"
    BY <1>1
  <2>3. Placed(Append(r, x), Append(sc, Scope), Append(fs, Function(Len(sc) + 1, class)))
    BY <1>1, <1>3, <2>1, <2>2, PlacedMethod
  <2> QED
    BY <2>3 DEF y
<1> QED
  BY <1>6, <1>7, <1>8, <1>9 DEF Good, e, y

\* An "if" or an "else" begins.
LEMMA GoodBranched ==
  ASSUME NEW q, NEW s, NEW sc, NEW fs, Good(q, s, sc, fs), Last(q).type # "FUNCDECL",
         NEW p, Shaped(p), RowsOf(p) = RowsOf(q),
         NEW type \in Arms, NEW t, t \in StatesOf[type]
  PROVE  Good(Append(Append(p, Entry("BRANCH", s)), Entry(type, s)), t, sc, fs)
<1> DEFINE r == RowsOf(q)
           x == [type |-> "BRANCH", saved |-> s, scope |-> NoScope]
           y == [type |-> type, saved |-> s, scope |-> NoScope]
           u == Append(p, Entry("BRANCH", s))
           v == Append(u, Entry(type, s))
<1>1. /\ Fits(r, s) /\ Agrees(r, sc, fs) /\ r \in Seq(Rows) /\ Placed(r, sc, fs)
      /\ r[Len(r)].type = Last(q).type
  BY TopOf DEF Good
<1>2. s \in States /\ "BRANCH" \in Kinds /\ type \in Kinds /\ NoScope \in Nat
      /\ "BRANCH" \notin Roots /\ type \notin Roots
  BY <1>1, TopIsNoBranch DEF Kinds, StatesOf, NoScope, Arms, Roots
<1>3. x \in Rows /\ x.type = "BRANCH" /\ x.saved = s /\ x.scope = NoScope
  BY <1>2 DEF Rows
<1>4. y \in Rows /\ y.type = type /\ y.saved = s /\ y.scope = NoScope
  BY <1>2 DEF Rows
<1>5. Shaped(u) /\ RowsOf(u) = Append(r, x)
  BY EntryType, RowsAppended
<1>6. Shaped(v) /\ RowsOf(v) = Append(Append(r, x), y)
  <2> HIDE DEF u, x
  <2> QED
    BY <1>5, EntryType, RowsAppended
<1> HIDE DEF u, v, x, y, r
<1>7. Fits(Append(Append(r, x), y), t)
  BY <1>1, <1>3, <1>4, FitsBranched
<1>8. Agrees(Append(r, x), sc, fs)
  BY <1>1, <1>2, <1>3, AgreesPushed
<1>9. Append(r, x) \in Seq(Rows)
  BY <1>1, <1>3
<1>10. Agrees(Append(Append(r, x), y), sc, fs)
  BY <1>2, <1>4, <1>8, <1>9, AgreesPushed
<1>11. Placed(Append(Append(r, x), y), sc, fs)
  <2>1. Len(sc) \in Nat /\ \A k \in 1 .. Len(fs) : fs[k].scopes[1] # NoScope
    BY <1>1, InFunction, Heads DEF NoScope
  <2>2. x.type \notin Inner /\ y.type \notin Inner
    BY <1>3, <1>4 DEF Inner, Arms
  <2>3. Placed(Append(r, x), sc, fs)
    BY <1>1, <1>3, <2>1, <2>2, PlacedPlain
  <2> QED
    BY <1>4, <1>9, <2>1, <2>2, <2>3, PlacedPlain
<1> QED
  BY <1>6, <1>7, <1>10, <1>11 DEF Good, v, u

\* An "else" is an "else if".
LEMMA GoodElseIf ==
  ASSUME NEW q, NEW s, NEW sc, NEW fs, Good(q, s, sc, fs), Last(q).type = "ELSE",
         NEW t, t \in StatesOf["ELSE_IF"]
  PROVE  Good([q EXCEPT ![Len(q)].type = "ELSE_IF"], t, sc, fs)
<1> DEFINE r == RowsOf(q)
           n == Len(q)
           e == [q[n] EXCEPT !.type = "ELSE_IF"]
           p == [q EXCEPT ![n] = e]
<1>1. /\ Shaped(q) /\ q # <<>> /\ Fits(r, s) /\ Agrees(r, sc, fs) /\ r \in Seq(Rows)
      /\ Placed(r, sc, fs)
      /\ Len(r) = n /\ n \in Nat \ {0} /\ r[n].type = "ELSE" /\ r[n] \in Rows
  BY TopOf, TopIsNoBranch DEF Good
<1>2. PICK S : q \in Seq(Entries(S))
  BY <1>1 DEF Shaped
<1>3. q[n] \in Entries(S)
  BY <1>1, <1>2
<1>4. e \in Entries(S \union {"ELSE_IF"}) /\ e.type = "ELSE_IF"
      /\ e.saved = q[n].saved /\ e.scope = q[n].scope
  <2> DEFINE x == q[n]
  <2>1. x \in Entries(S)
    BY <1>3
  <2> HIDE DEF x
  <2>2. LET z == [x EXCEPT !.type = "ELSE_IF"] IN
        z \in Entries(S \union {"ELSE_IF"}) /\ z.type = "ELSE_IF"
        /\ z.saved = x.saved /\ z.scope = x.scope
    BY <2>1 DEF Entries
  <2> QED
    BY <2>2 DEF x
<1>5. [q EXCEPT ![n].type = "ELSE_IF"] = p
  OBVIOUS
<1>6. r[n] = [type |-> q[n].type, saved |-> q[n].saved, scope |-> q[n].scope]
  BY <1>1, RowsType DEF Row
<1> HIDE DEF e, n
<1>7. Shaped(p) /\ RowsOf(p) = [r EXCEPT ![n] = Row(e)]
  BY <1>1, <1>4, RowsReplaced DEF n
<1>8. Row(e) = [r[n] EXCEPT !.type = "ELSE_IF"]
  BY <1>4, <1>6 DEF Row
<1> HIDE DEF r, p
<1>9. RowsOf(p) = [r EXCEPT ![Len(r)].type = "ELSE_IF"]
  BY <1>1, <1>7, <1>8
<1>10. Fits([r EXCEPT ![Len(r)].type = "ELSE_IF"], t)
  BY <1>1, FitsElseIf
<1>11. ScopesIn(RowsOf(p)) = ScopesIn(r)
  <2>1. \A o : WithScope(o, Row(e)) = WithScope(o, r[n])
    <3>1. r[n].scope = NoScope
      BY <1>1 DEF Fits, ScopeKinds
    <3>2. Row(e).scope = r[n].scope /\ Row(e).type = "ELSE_IF"
      BY <1>4, <1>6 DEF Row
    <3> QED
      BY <1>1, <3>1, <3>2 DEF WithScope
  <2>2. PICK o \in Openings(r, n) : TRUE
    BY <1>1, OpeningsExist
  <2>3. Len(RowsOf(p)) = n /\ RowsOf(p)[n] = Row(e)
        /\ \A i \in 1 .. n : i # n => RowsOf(p)[i] = r[i]
    BY <1>1, <1>7
  <2>4. ASSUME NEW i \in 1 .. n, NEW z PROVE WithScope(z, RowsOf(p)[i]) = WithScope(z, r[i])
    <3>1. CASE i = n
      BY <2>1, <2>3, <3>1
    <3>2. CASE i # n
      BY <2>3, <3>2
    <3> QED
      BY <3>1, <3>2
  <2>5. o \in Openings(RowsOf(p), n)
    <3>1. /\ o \in [0 .. n -> Seq(Seq(Nat))]
          /\ \A i \in 0 .. n : o[i] = IF i = 0 THEN <<>> ELSE WithScope(o[i - 1], r[i])
      BY <2>2 DEF Openings
    <3>2. ASSUME NEW i \in 0 .. n
          PROVE  o[i] = IF i = 0 THEN <<>> ELSE WithScope(o[i - 1], RowsOf(p)[i])
      <4>1. CASE i = 0
        BY <3>1, <4>1
      <4>2. CASE i # 0
        <5>1. i \in 1 .. n
          BY <1>1, <4>2
        <5> QED
          BY <2>4, <3>1, <4>2, <5>1
      <4> QED
        BY <4>1, <4>2
    <3> QED
      BY <3>1, <3>2 DEF Openings
  <2> QED
    BY <1>1, <2>2, <2>3, <2>5, ScopesInIs
<1>12. Agrees(RowsOf(p), sc, fs)
  BY <1>1, <1>11 DEF Agrees
<1>13. Placed(RowsOf(p), sc, fs)
  <2> DEFINE w == RowsOf(p)
  <2>1. Len(w) = n /\ w[n] = Row(e) /\ \A i \in 1 .. n : i # n => w[i] = r[i]
    BY <1>1, <1>7
  <2>2. SameNode(r[n], Row(e))
    BY <1>1, <1>4, <1>6 DEF SameNode, Row, Inner
  <2>3. \A i \in 1 .. n : SameNode(r[i], w[i])
    BY <2>1, <2>2 DEF SameNode
  <2> HIDE DEF w
  <2>4. Len(sc) \in Nat /\ Len(fs) \in Nat
    BY <1>1, InFunction
  <2>5. /\ Len(sc) <= Len(sc) /\ Len(fs) \in 0 .. Len(fs) /\ Len(w) \in 0 .. Len(r)
        /\ \A i \in 1 .. Len(w) : r[i].scope \in Nat
    <3>1. \A i \in 1 .. Len(w) : r[i] \in Rows
      BY <1>1, <2>1
    <3> QED
      BY <1>1, <2>1, <2>4, <3>1 DEF Rows
  <2>6. Placed(w, sc, fs)
    BY <1>1, <2>1, <2>3, <2>4, <2>5, PlacedAlike
  <2> QED
    BY <2>6 DEF w
<1> QED
  BY <1>5, <1>7, <1>9, <1>10, <1>12, <1>13 DEF Good, n

\* A node without a scope ends.
LEMMA GoodPopped ==
  ASSUME NEW q, NEW s, NEW sc, NEW fs, Good(q, s, sc, fs), Last(q).type \in Plain
  PROVE  Good(SubSeq(q, 1, Len(q) - 1), q[Len(q)].saved, sc, fs)
<1> DEFINE r == RowsOf(q)
           n == Len(q)
<1>1. /\ Shaped(q) /\ Fits(r, s) /\ Agrees(r, sc, fs) /\ r \in Seq(Rows) /\ r # <<>>
      /\ Placed(r, sc, fs)
      /\ Len(r) = n /\ n \in Nat \ {0} /\ r[n].type \in Plain
      /\ r[n].saved = q[n].saved /\ r[n].scope = NoScope
  <2>1. /\ Shaped(q) /\ Fits(r, s) /\ Agrees(r, sc, fs) /\ r \in Seq(Rows) /\ r # <<>>
        /\ Placed(r, sc, fs)
    BY TopOf DEF Good, Fits
  <2>2. /\ Len(r) = n /\ n \in Nat \ {0} /\ r[n].type \in Plain
        /\ r[n].saved = q[n].saved
    BY <2>1, TopOf
  <2>3. r[n].scope = NoScope
    BY <2>1, <2>2, TopOf DEF Plain
  <2> QED
    BY <2>1, <2>2, <2>3
<1>2. r[n].type \notin Arms \union {"ROOT"} /\ r[n].type \notin Roots
  BY <1>1 DEF Plain, ScopeKinds, Roots
<1> HIDE DEF r, n
<1>3. Fits(SubSeq(r, 1, n - 1), r[n].saved)
  BY <1>1, <1>2, FitsPop
<1>4. Agrees(SubSeq(r, 1, n - 1), sc, fs)
  BY <1>1, <1>2, AgreesPopped
<1>5. Shaped(SubSeq(q, 1, n - 1)) /\ RowsOf(SubSeq(q, 1, n - 1)) = SubSeq(r, 1, n - 1)
  <2>1. n - 1 \in 0 .. Len(q)
    BY <1>1 DEF n
  <2> QED
    BY <1>1, <2>1, RowsBefore DEF r
<1>6. Placed(SubSeq(r, 1, n - 1), sc, fs)
  BY <1>1, PlacedBefore
<1> QED
  BY <1>1, <1>3, <1>4, <1>5, <1>6 DEF Good, n

\* A branch ends.
LEMMA GoodPoppedArm ==
  ASSUME NEW q, NEW s, NEW sc, NEW fs, Good(q, s, sc, fs), Last(q).type \in Arms
  PROVE  Good(SubSeq(q, 1, Len(q) - 2), q[Len(q) - 1].saved, sc, fs)
<1> DEFINE r == RowsOf(q)
           n == Len(q)
           p == SubSeq(r, 1, n - 1)
<1>1. /\ Shaped(q) /\ Fits(r, s) /\ Agrees(r, sc, fs) /\ r \in Seq(Rows) /\ r # <<>>
      /\ Placed(r, sc, fs)
      /\ Len(r) = n /\ n \in Nat \ {0} /\ r[n].type \in Arms
  BY TopOf DEF Good, Fits
<1>2. n - 1 \in 2 .. n /\ Fits(SubSeq(r, 1, n - 2), r[n - 1].saved) /\ r[n - 1].type = "BRANCH"
  BY <1>1, FitsPopArm
<1>3. r[n - 1].saved = q[n - 1].saved
  <2>1. n - 1 \in 1 .. n
    BY <1>2
  <2> QED
    BY <1>1, <2>1, RowsType
<1>4. r[n].scope = NoScope /\ r[n - 1].scope = NoScope
  BY <1>1, <1>2 DEF Fits, ScopeKinds, Arms
<1> HIDE DEF r, n
<1>5. Agrees(p, sc, fs)
  <2>1. r[n].type \notin Roots
    BY <1>1 DEF Arms, Roots
  <2> QED
    BY <1>1, <1>4, <2>1, AgreesPopped
<1>6. p \in Seq(Rows) /\ Len(p) = n - 1 /\ p[n - 1] = r[n - 1] /\ p # <<>>
      /\ SubSeq(p, 1, n - 2) = SubSeq(r, 1, n - 2)
  <2>1. p \in Seq(Rows) /\ Len(p) = n - 1 /\ \A i \in 1 .. n - 1 : p[i] = r[i]
    BY <1>1, <1>2
  <2> HIDE DEF p
  <2>2. p # <<>> /\ p[n - 1] = r[n - 1]
    BY <1>2, <2>1
  <2>3. SubSeq(p, 1, n - 2) = [i \in 1 .. n - 2 |-> p[i]]
    BY <1>1, <1>2, <2>1
  <2>4. SubSeq(r, 1, n - 2) = [i \in 1 .. n - 2 |-> r[i]]
    BY <1>1, <1>2
  <2>5. \A i \in 1 .. n - 2 : p[i] = r[i]
    BY <1>1, <2>1
  <2> QED
    BY <2>1, <2>2, <2>3, <2>4, <2>5
<1> HIDE DEF p
<1>7. Agrees(SubSeq(r, 1, n - 2), sc, fs)
  <2>1. p[Len(p)].scope = NoScope /\ p[Len(p)].type \notin Roots
    BY <1>2, <1>4, <1>6 DEF Roots
  <2>2. Agrees(SubSeq(p, 1, Len(p) - 1), sc, fs)
    BY <1>5, <1>6, <2>1, AgreesPopped
  <2>3. Len(p) - 1 = n - 2
    BY <1>1, <1>6
  <2> QED
    BY <1>6, <2>2, <2>3
<1>8. Shaped(SubSeq(q, 1, n - 2)) /\ RowsOf(SubSeq(q, 1, n - 2)) = SubSeq(r, 1, n - 2)
  <2>1. n - 2 \in 0 .. Len(q)
    BY <1>1, <1>2 DEF n
  <2> QED
    BY <1>1, <2>1, RowsBefore DEF r
<1>9. Placed(SubSeq(r, 1, n - 2), sc, fs)
  <2>1. n - 2 \in 0 .. Len(r)
    BY <1>1, <1>2
  <2> QED
    BY <1>1, <2>1, PlacedBefore
<1> QED
  BY <1>2, <1>3, <1>7, <1>8, <1>9 DEF Good, n

\* A block or a class ends.
LEMMA GoodClosed ==
  ASSUME NEW q, NEW s, NEW sc, NEW fs, Good(q, s, sc, fs), Last(q).type \in ScopeKinds \ Roots
  PROVE  Good(SubSeq(q, 1, Len(q) - 1), q[Len(q)].saved, sc,
              [fs EXCEPT ![Len(fs)] = LeftIn(sc, fs[Len(fs)])])
<1> DEFINE r == RowsOf(q)
           n == Len(q)
<1>1. /\ Shaped(q) /\ Fits(r, s) /\ Agrees(r, sc, fs) /\ Placed(r, sc, fs)
      /\ Len(r) = n /\ n \in Nat \ {0} /\ r[n].type \in ScopeKinds \ Roots
      /\ r[n].saved = q[n].saved
  BY TopOf DEF Good
<1>2. r[n].type \notin Arms \union {"ROOT"}
  BY <1>1 DEF ScopeKinds, Roots, Arms
<1> HIDE DEF r, n
<1>3. Fits(SubSeq(r, 1, n - 1), r[n].saved)
  BY <1>1, <1>2, FitsPop
<1>4. Agrees(SubSeq(r, 1, n - 1), sc, [fs EXCEPT ![Len(fs)] = LeftIn(sc, fs[Len(fs)])])
  BY <1>1, AgreesLeft
<1>5. Shaped(SubSeq(q, 1, n - 1)) /\ RowsOf(SubSeq(q, 1, n - 1)) = SubSeq(r, 1, n - 1)
  <2>1. n - 1 \in 0 .. Len(q)
    BY <1>1 DEF n
  <2> QED
    BY <1>1, <2>1, RowsBefore DEF r
<1>6. Placed(SubSeq(r, 1, n - 1), sc, [fs EXCEPT ![Len(fs)] = LeftIn(sc, fs[Len(fs)])])
  BY <1>1, PlacedLeft
<1> QED
  BY <1>1, <1>3, <1>4, <1>5, <1>6 DEF Good, n

\* A function ends.
LEMMA GoodFunctionEnds ==
  ASSUME NEW q, NEW s, NEW sc, NEW fs, Good(q, s, sc, fs), Last(q).type = "FUNCDECL"
  PROVE  /\ Good(SubSeq(q, 1, Len(q) - 1), q[Len(q)].saved, sc, SubSeq(fs, 1, Len(fs) - 1))
         /\ fs[Len(fs)].highest <= fs[Len(fs)].slots
<1> DEFINE r == RowsOf(q)
           n == Len(q)
<1>1. /\ Shaped(q) /\ Fits(r, s) /\ Agrees(r, sc, fs) /\ Placed(r, sc, fs)
      /\ Len(r) = n /\ n \in Nat \ {0} /\ r[n].type = "FUNCDECL"
      /\ r[n].saved = q[n].saved
  BY TopOf DEF Good
<1>2. r[n].type \notin Arms \union {"ROOT"}
  BY <1>1 DEF Arms
<1> HIDE DEF r, n
<1>3. Fits(SubSeq(r, 1, n - 1), r[n].saved)
  BY <1>1, <1>2, FitsPop
<1>4. /\ Agrees(SubSeq(r, 1, n - 1), sc, SubSeq(fs, 1, Len(fs) - 1))
      /\ fs[Len(fs)].highest <= fs[Len(fs)].slots
  BY <1>1, AgreesFunctionEnds
<1>5. Shaped(SubSeq(q, 1, n - 1)) /\ RowsOf(SubSeq(q, 1, n - 1)) = SubSeq(r, 1, n - 1)
  <2>1. n - 1 \in 0 .. Len(q)
    BY <1>1 DEF n
  <2> QED
    BY <1>1, <2>1, RowsBefore DEF r
<1>6. Placed(SubSeq(r, 1, n - 1), sc, SubSeq(fs, 1, Len(fs) - 1))
  <2>1. n - 1 \in 0 .. Len(r) /\ Len(fs) - 1 \in 0 .. Len(fs)
    BY <1>1, InFunction
  <2> QED
    BY <1>1, <2>1, PlacedBefore
<1> QED
  BY <1>1, <1>3, <1>4, <1>5, <1>6 DEF Good, n

\* A variable is declared.
LEMMA GoodDeclared ==
  ASSUME NEW q, NEW s, NEW sc, NEW fs, Good(q, s, sc, fs), Last(q).type # "FUNCDECL"
  PROVE  LET f == fs[Len(fs)] IN
         Good(PushedOn(q, Entry("VARDECL", s)), "VARDECL_NAME",
              [sc EXCEPT ![Last(f.scopes)].vars =
                 Append(@, [name |-> "", index |-> f.current])],
              [fs EXCEPT ![Len(fs)] = TookSlot(@)])
<1> DEFINE f == fs[Len(fs)]
           tc == [sc EXCEPT ![Last(f.scopes)].vars =
                    Append(@, [name |-> "", index |-> f.current])]
           gs == [fs EXCEPT ![Len(fs)] = TookSlot(@)]
<1>1. Good(q, s, tc, gs)
  <2>1. RowsOf(q)[Len(RowsOf(q))].type # "FUNCDECL" /\ Fits(RowsOf(q), s)
    BY TopOf DEF Good
  <2>2. Agrees(RowsOf(q), tc, gs) /\ Placed(RowsOf(q), tc, gs)
    BY <2>1, AgreesDeclares, PlacedDeclares DEF Good
  <2> HIDE DEF tc, gs
  <2> QED
    BY <2>2 DEF Good
<1>2. s \in StatesOf[Last(q).type]
  BY TopOf DEF Good
<1>3. "VARDECL" \in Plain /\ "VARDECL_NAME" \in StatesOf["VARDECL"]
  BY DEF Plain, StatesOf, ScopeKinds, Arms
<1>4. /\ \E S : Entry("VARDECL", s) \in Entries(S)
      /\ Row(Entry("VARDECL", s)) = [type |-> "VARDECL", saved |-> s, scope |-> NoScope]
  BY EntryType
<1> HIDE DEF tc, gs
<1>5. Good(PushedOn(q, Entry("VARDECL", s)), "VARDECL_NAME", tc, gs)
  BY <1>1, <1>2, <1>3, <1>4, GoodPushed
<1> QED
  BY <1>5 DEF tc, gs

-----------------------------------------------------------------------------
(* Names.                                                                   *)

Names == Identifiers \union {""}
NameRecords == [name : Names]

\* A name is given to the last of a list.
LEMMA RenamedType ==
  ASSUME NEW name \in Names
  PROVE  /\ \A list \in Seq(VarRecords) : /\ Renamed(list, name) \in Seq(VarRecords)
                                          /\ SameSlots(list, Renamed(list, name))
         /\ \A list \in Seq(NameRecords) : Renamed(list, name) \in Seq(NameRecords)
<1>1. ASSUME NEW list \in Seq(VarRecords)
      PROVE  Renamed(list, name) \in Seq(VarRecords) /\ SameSlots(list, Renamed(list, name))
  <2> DEFINE n == Len(list)
             x == list[n]
             e == [x EXCEPT !.name = name]
             p == [list EXCEPT ![n] = e]
  <2>1. Renamed(list, name) = p
    BY DEF Renamed
  <2>2. CASE list = <<>>
    <3>1. p = <<>>
      BY <2>2
    <3> QED
      BY <2>1, <2>2, <3>1 DEF SameSlots
  <2>3. CASE list # <<>>
    <3>1. x \in VarRecords /\ n \in 1 .. n
      BY <2>3
    <3> HIDE DEF x
    <3>2. e \in VarRecords /\ e.index = x.index
      BY <3>1 DEF VarRecords, Names
    <3> HIDE DEF e
    <3>3. /\ p \in Seq(VarRecords) /\ Len(p) = n /\ p[n] = e
          /\ \A k \in 1 .. n : k # n => p[k] = list[k]
      BY <3>1, <3>2
    <3> HIDE DEF p
    <3>4. \A k \in 1 .. n : list[k].index = p[k].index
      BY <3>1, <3>2, <3>3 DEF x
    <3> QED
      BY <2>1, <3>3, <3>4 DEF SameSlots
  <2> QED
    BY <2>2, <2>3
<1>2. ASSUME NEW list \in Seq(NameRecords) PROVE Renamed(list, name) \in Seq(NameRecords)
  <2> DEFINE n == Len(list)
             x == list[n]
             e == [x EXCEPT !.name = name]
             p == [list EXCEPT ![n] = e]
  <2>1. Renamed(list, name) = p
    BY DEF Renamed
  <2>2. CASE list = <<>>
    <3>1. p = <<>>
      BY <2>2
    <3> QED
      BY <2>1, <2>2, <3>1
  <2>3. CASE list # <<>>
    <3>1. x \in NameRecords /\ n \in 1 .. n
      BY <2>3
    <3> HIDE DEF x
    <3>2. e \in NameRecords
      BY <3>1 DEF NameRecords
    <3> HIDE DEF e
    <3>3. p \in Seq(NameRecords)
      BY <3>1, <3>2
    <3> QED
      BY <2>1, <3>3
  <2> QED
    BY <2>2, <2>3
<1> QED
  BY <1>1, <1>2

Replaced(sc, y, x) == [sc EXCEPT ![y] = x]

\* Another record for a scope, with the same slots; y may be no scope.
LEMMA ScopeReplaced ==
  ASSUME NEW sc \in Seq(ScopeRecords), NEW y, NEW x,
         y \in 1 .. Len(sc) => x \in ScopeRecords /\ SameSlots(sc[y].vars, x.vars)
  PROVE  LET tc == Replaced(sc, y, x) IN
         /\ tc \in Seq(ScopeRecords) /\ Len(tc) = Len(sc)
         /\ \A z \in 1 .. Len(sc) : SameSlots(VarsOf(sc, z), VarsOf(tc, z))
         /\ \A z \in 1 .. Len(sc) : z # y \/ x.args = sc[z].args => tc[z].args = sc[z].args
<1> USE DEF Replaced
<1> DEFINE tc == [sc EXCEPT ![y] = x]
<1>1. CASE y \in 1 .. Len(sc)
  <2>1. /\ tc \in Seq(ScopeRecords) /\ Len(tc) = Len(sc) /\ tc[y] = x
        /\ \A z \in 1 .. Len(sc) : z # y => tc[z] = sc[z]
    BY <1>1
  <2> HIDE DEF tc
  <2>2. \A z \in 1 .. Len(sc) : SameSlots(VarsOf(sc, z), VarsOf(tc, z))
    BY <1>1, <2>1 DEF VarsOf, SameSlots
  <2>3. \A z \in 1 .. Len(sc) : z # y \/ x.args = sc[z].args => tc[z].args = sc[z].args
    BY <2>1
  <2> QED
    BY <2>1, <2>2, <2>3 DEF tc
<1>2. CASE y \notin 1 .. Len(sc)
  <2>1. tc = sc
    BY <1>2
  <2> HIDE DEF tc
  <2> QED
    BY <2>1 DEF SameSlots, tc
<1> QED
  BY <1>1, <1>2

\* A name is given to the last variable or function of a scope, or to one
\* argument more.
RenamedIn(sc, y, name) ==
  {[sc EXCEPT ![y].vars = Renamed(@, name)],
   [sc EXCEPT ![y].functions = Renamed(@, name)]}
NamedIn(sc, y, name) ==
  RenamedIn(sc, y, name) \union {[sc EXCEPT ![y].args = Append(@, name)]}

\* A declaration gets its name, in a scope of whatever function.
LEMMA ScopeNamed ==
  ASSUME NEW sc \in Seq(ScopeRecords), NEW y, NEW name \in Identifiers,
         NEW tc \in NamedIn(sc, y, name)
  PROVE  /\ tc \in Seq(ScopeRecords) /\ Len(tc) = Len(sc)
         /\ \A z \in 1 .. Len(sc) : SameSlots(VarsOf(sc, z), VarsOf(tc, z))
         /\ \A z \in 1 .. Len(sc) :
              z # y \/ tc \in RenamedIn(sc, y, name) => tc[z].args = sc[z].args
<1> DEFINE c == sc[y]
           v == Renamed(c.vars, name)
           f == Renamed(c.functions, name)
           a == Append(c.args, name)
           x1 == [c EXCEPT !.vars = v]
           x2 == [c EXCEPT !.functions = f]
           x3 == [c EXCEPT !.args = a]
<1>1. /\ tc \in {[sc EXCEPT ![y] = x1], [sc EXCEPT ![y] = x2], [sc EXCEPT ![y] = x3]}
      /\ tc \in RenamedIn(sc, y, name) <=> tc \in {[sc EXCEPT ![y] = x1], [sc EXCEPT ![y] = x2]}
  BY DEF NamedIn, RenamedIn
<1>2. ASSUME y \in 1 .. Len(sc)
      PROVE  /\ x1 \in ScopeRecords /\ SameSlots(sc[y].vars, x1.vars)
             /\ x2 \in ScopeRecords /\ SameSlots(sc[y].vars, x2.vars)
             /\ x3 \in ScopeRecords /\ SameSlots(sc[y].vars, x3.vars)
             /\ x1.args = sc[y].args /\ x2.args = sc[y].args
  <2>1. c \in ScopeRecords
    BY <1>2
  <2> HIDE DEF c, v, f, a
  <2>2. /\ c.vars \in Seq(VarRecords) /\ c.functions \in Seq(NameRecords)
        /\ c.args \in Seq(Identifiers)
    BY <2>1 DEF ScopeRecords, NameRecords, Names
  <2>3. /\ v \in Seq(VarRecords) /\ SameSlots(c.vars, v) /\ f \in Seq(NameRecords)
        /\ a \in Seq(Identifiers)
    <3>1. name \in Names
      BY DEF Names
    <3> QED
      BY <2>2, <3>1, RenamedType DEF v, f, a
  <2> HIDE DEF x1, x2, x3
  <2>4. x1 \in ScopeRecords /\ x1.vars = v
    BY <2>1, <2>3 DEF ScopeRecords, x1
  <2>5. x2 \in ScopeRecords /\ x2.vars = c.vars
    BY <2>1, <2>3 DEF ScopeRecords, NameRecords, Names, x2
  <2>6. x3 \in ScopeRecords /\ x3.vars = c.vars
    BY <2>1, <2>3 DEF ScopeRecords, x3
  <2>7. SameSlots(c.vars, c.vars)
    BY DEF SameSlots
  <2>8. x1.args = c.args
    BY <2>1 DEF ScopeRecords, x1
  <2>9. x2.args = c.args
    BY <2>1 DEF ScopeRecords, x2
  <2> QED
    BY <2>3, <2>4, <2>5, <2>6, <2>7, <2>8, <2>9 DEF c
<1> HIDE DEF x1, x2, x3
<1>3. ASSUME NEW x, tc = [sc EXCEPT ![y] = x],
             y \in 1 .. Len(sc) => x \in ScopeRecords /\ SameSlots(sc[y].vars, x.vars)
      PROVE  /\ tc \in Seq(ScopeRecords) /\ Len(tc) = Len(sc)
             /\ \A z \in 1 .. Len(sc) : SameSlots(VarsOf(sc, z), VarsOf(tc, z))
             /\ \A z \in 1 .. Len(sc) : z # y \/ x.args = sc[z].args => tc[z].args = sc[z].args
  <2> DEFINE w == Replaced(sc, y, x)
  <2>2. tc = w /\ (y \in 1 .. Len(sc) => x \in ScopeRecords /\ SameSlots(sc[y].vars, x.vars))
    BY <1>3 DEF Replaced
  <2>1. /\ w \in Seq(ScopeRecords) /\ Len(w) = Len(sc)
        /\ \A z \in 1 .. Len(sc) : SameSlots(VarsOf(sc, z), VarsOf(w, z))
        /\ \A z \in 1 .. Len(sc) : z # y \/ x.args = sc[z].args => w[z].args = sc[z].args
    BY <2>2, ScopeReplaced
  <2> HIDE DEF w
  <2> QED
    BY <2>1, <2>2
<1>4. CASE tc \in {[sc EXCEPT ![y] = x1], [sc EXCEPT ![y] = x2]}
  <2>1. PICK x \in {x1, x2} : tc = [sc EXCEPT ![y] = x]
    BY <1>4
  <2>2. y \in 1 .. Len(sc) => /\ x \in ScopeRecords /\ SameSlots(sc[y].vars, x.vars)
                             /\ x.args = sc[y].args
    BY <1>2, <2>1
  <2>3. /\ tc \in Seq(ScopeRecords) /\ Len(tc) = Len(sc)
        /\ \A z \in 1 .. Len(sc) : SameSlots(VarsOf(sc, z), VarsOf(tc, z))
        /\ \A z \in 1 .. Len(sc) : z # y \/ x.args = sc[z].args => tc[z].args = sc[z].args
    BY <1>3, <2>1, <2>2
  <2> QED
    BY <2>2, <2>3
<1>5. CASE tc \notin {[sc EXCEPT ![y] = x1], [sc EXCEPT ![y] = x2]}
  <2>1. tc = [sc EXCEPT ![y] = x3] /\ tc \notin RenamedIn(sc, y, name)
    BY <1>1, <1>5
  <2>2. /\ tc \in Seq(ScopeRecords) /\ Len(tc) = Len(sc)
        /\ \A z \in 1 .. Len(sc) : SameSlots(VarsOf(sc, z), VarsOf(tc, z))
        /\ \A z \in 1 .. Len(sc) : z # y \/ x3.args = sc[z].args => tc[z].args = sc[z].args
    BY <1>2, <1>3, <2>1
  <2> QED
    BY <2>1, <2>2
<1> QED
  BY <1>4, <1>5

\* A scope has a function more, which has no name yet.
LEMMA ScopeHasFunction ==
  ASSUME NEW sc \in Seq(ScopeRecords), NEW y
  PROVE  LET tc == [sc EXCEPT ![y].functions = Append(@, [name |-> ""])] IN
         /\ tc \in Seq(ScopeRecords) /\ Len(tc) = Len(sc)
         /\ \A z \in 1 .. Len(sc) : SameSlots(VarsOf(sc, z), VarsOf(tc, z))
                                    /\ tc[z].args = sc[z].args
<1> DEFINE c == sc[y]
           w == [name |-> ""]
           f == Append(c.functions, w)
           x == [c EXCEPT !.functions = f]
<1>1. [sc EXCEPT ![y].functions = Append(@, [name |-> ""])] = [sc EXCEPT ![y] = x]
  OBVIOUS
<1>2. ASSUME y \in 1 .. Len(sc)
      PROVE  x \in ScopeRecords /\ SameSlots(sc[y].vars, x.vars) /\ x.args = sc[y].args
  <2>1. c \in ScopeRecords
    BY <1>2
  <2> HIDE DEF c, f
  <2>2. c.functions \in Seq(NameRecords) /\ w \in NameRecords
    BY <2>1 DEF ScopeRecords, NameRecords, Names
  <2>3. f \in Seq(NameRecords)
    <3> HIDE DEF w
    <3> QED
      BY <2>2 DEF f
  <2>4. x \in ScopeRecords /\ x.vars = c.vars
    BY <2>1, <2>3 DEF ScopeRecords, NameRecords, Names
  <2>5. x.args = c.args
    BY <2>1 DEF ScopeRecords
  <2> QED
    BY <2>4, <2>5 DEF SameSlots, c
<1> DEFINE tc == Replaced(sc, y, x)
<1>3. /\ tc \in Seq(ScopeRecords) /\ Len(tc) = Len(sc)
      /\ \A z \in 1 .. Len(sc) : SameSlots(VarsOf(sc, z), VarsOf(tc, z))
                                 /\ tc[z].args = sc[z].args
  <2> HIDE DEF x
  <2>1. /\ tc \in Seq(ScopeRecords) /\ Len(tc) = Len(sc)
        /\ \A z \in 1 .. Len(sc) : SameSlots(VarsOf(sc, z), VarsOf(tc, z))
        /\ \A z \in 1 .. Len(sc) : z # y \/ x.args = sc[z].args => tc[z].args = sc[z].args
    BY <1>2, ScopeReplaced
  <2> QED
    BY <1>2, <2>1
<1>4. [sc EXCEPT ![y].functions = Append(@, [name |-> ""])] = tc
  BY <1>1 DEF Replaced
<1> HIDE DEF tc
<1> QED
  BY <1>3, <1>4

-----------------------------------------------------------------------------
(* The steps of the parser.                                                 *)

Now == Good(stack, state, scopes, functions)

\* A step goes on, or the parser stops where it is.
Moved ==
  \/ status' \in {"error", "aborted"} /\ UNCHANGED <<state, stack, finished>>
  \/ /\ status' = status
     /\ Good(stack', state', scopes', functions')
     /\ \A f \in finished' : f \in finished \/ f.highest <= f.slots

\* The node on top, and the state it is in.
LEMMA NowTop ==
  ASSUME Now
  PROVE  /\ stack # <<>> /\ Len(stack) \in Nat \ {0} /\ TopNode = stack[Len(stack)]
         /\ TopNode.type \in DOMAIN StatesOf /\ state \in StatesOf[TopNode.type]
         /\ Current = functions[Len(functions)] /\ scopes \in Seq(ScopeRecords)
  BY TopOf, InFunction DEF Now, Good, TopNode, Current, Last

\* A node that is in a state that only it has.
LEMMA Owners ==
  ASSUME NEW t \in DOMAIN StatesOf, NEW s \in StatesOf[t]
  PROVE  /\ s = "IDLE" => t = "ROOT"
         /\ s = "CODEBLOCK" => t = "CODEBLOCK"
         /\ s = "EXPRESSION" => t = "EXPRESSION"
         /\ s \in {"BRANCH_IF", "BRANCH_IF_EXPR", "BRANCH_CODE"} => t \in {"IF", "ELSE_IF"}
         /\ s = "BRANCH_ELSE" => t = "ELSE"
         /\ s = "BRANCH_END" => t \in Arms
         /\ s \in {"WHILE_LOOP_ARGS", "WHILE_LOOP_CONDITION", "WHILE_LOOP_CODE",
                   "WHILE_LOOP_END"} => t = "WHILE_LOOP"
         /\ s \in {"FOR_LOOP_ARGS", "FOR_LOOP_FIRST", "FOR_LOOP_INIT", "FOR_LOOP_CONDITION",
                   "FOR_LOOP_STEP", "FOR_LOOP_CODE", "FOR_LOOP_END"} => t = "FOR_LOOP"
         /\ s \in {"RETURN_EXPRESSION", "RETURN_END"} => t = "RETURN"
         /\ s = "LABEL_NAME" => t = "LABEL"
         /\ s = "GOTO_NAME" => t = "GOTO"
         /\ s \in {"FUNCDECL_NAME", "FUNCDECL_ARGS", "FUNCDECL_BLOCK", "FUNCDECL_END"}
              => t = "FUNCDECL"
         /\ s \in {"CLASSDECL_NAME", "CLASSDECL_FLAGS", "CLASSDECL_IDLE"} => t = "CLASSDECL"
         /\ s = "VARDECL_IDLE" => t = "VARDECL_LIST"
         /\ s \in {"VARDECL_NAME", "VARDECL_END"} => t = "VARDECL"
  BY DEF StatesOf, IfStates, Arms

\* Blocks and classes have scopes.
LEMMA BlockScopes ==
  ASSUME Now, NEW i \in 1 .. Len(stack), stack[i].type \in Inner
  PROVE  stack[i].scope \in 1 .. Len(scopes)
<1> DEFINE r == RowsOf(stack)
<1>1. /\ Fits(r, state) /\ Placed(r, scopes, functions) /\ Len(scopes) \in Nat
      /\ Len(r) = Len(stack) /\ r[i].type = stack[i].type /\ r[i].scope = stack[i].scope
      /\ r \in Seq(Rows)
  BY TopOf, RowsType, InFunction DEF Now, Good
<1> HIDE DEF r
<1>2. r[i].scope <= Len(scopes) /\ r[i] \in Rows /\ r[i].scope # NoScope
  BY <1>1 DEF Placed, OwnScopes, Fits, Inner, ScopeKinds
<1> QED
  BY <1>1, <1>2 DEF Rows, NoScope

\* What each way to go on, to push a node or to pop it, does to the nodes and scopes.
LEMMA MovesGood ==
  ASSUME Good(stack', state', scopes', functions'), Runs, UNCHANGED finished
  PROVE  Moved
  BY DEF Moved, Runs

LEMMA MovesError ==
  ASSUME Error
  PROVE  Moved
  BY DEF Moved, Error, ParserStays, ScopesStay

LEMMA MovesStays ==
  ASSUME Now, ParserStays, Runs
  PROVE  Moved
<1>1. Good(stack', state', scopes', functions') /\ UNCHANGED finished
  BY DEF Now, ParserStays, ScopesStay
<1> QED
  BY <1>1, MovesGood

LEMMA MovesGoes ==
  ASSUME Now, NEW t, t \in StatesOf[TopNode.type], Goes(t), ScopesStay, Runs
  PROVE  Moved
<1>1. Good(stack, t, scopes, functions)
  BY GoodGoesOn DEF Now, TopNode
<1>2. Good(stack', state', scopes', functions') /\ UNCHANGED finished
  BY <1>1 DEF Goes, ScopesStay
<1> QED
  BY <1>2, MovesGood

LEMMA MovesMarks ==
  ASSUME Now, NEW x, Mark(x), NEW t, t \in StatesOf[TopNode.type], state' = t, ScopesStay, Runs
  PROVE  Moved
<1>1. Good(stack, t, scopes, functions)
  BY GoodGoesOn DEF Now, TopNode
<1>2. Good([stack EXCEPT ![Len(stack)].step = x], t, scopes, functions)
  BY <1>1, GoodMarked
<1>3. Good(stack', state', scopes', functions') /\ UNCHANGED finished
  BY <1>2 DEF Mark, ScopesStay
<1> QED
  BY <1>3, MovesGood

LEMMA MovesPushes ==
  ASSUME Now, TopNode.type # "FUNCDECL", NEW type \in Plain,
         NEW saved, saved \in StatesOf[TopNode.type], NEW t, t \in StatesOf[type],
         stack' = Pushed(Entry(type, saved)), state' = t, ScopesStay, Runs
  PROVE  Moved
<1>1. /\ \E S : Entry(type, saved) \in Entries(S)
      /\ Row(Entry(type, saved)) = [type |-> type, saved |-> saved, scope |-> NoScope]
  BY EntryType
<1>2. Good(PushedOn(stack, Entry(type, saved)), t, scopes, functions)
  BY <1>1, GoodPushed DEF Now, TopNode
<1>3. Good(stack', state', scopes', functions') /\ UNCHANGED finished
  BY <1>2 DEF Pushed, PushedOn, ScopesStay
<1> QED
  BY <1>3, MovesGood

LEMMA MovesExpression ==
  ASSUME Now, TopNode.type # "FUNCDECL", NEW saved, saved \in StatesOf[TopNode.type],
         NEW ends, PushExpression(saved, ends), ScopesStay, Runs
  PROVE  Moved
<1> DEFINE e == [Entry("EXPRESSION", saved) EXCEPT !.ends = ends]
<1>1. /\ \E S : e \in Entries(S)
      /\ Row(e) = [type |-> "EXPRESSION", saved |-> saved, scope |-> NoScope]
  BY EntryWithEnds
<1>2. "EXPRESSION" \in Plain /\ "EXPRESSION" \in StatesOf["EXPRESSION"]
  BY DEF Plain, StatesOf, ScopeKinds, Arms
<1>3. stack' = PushedOn(stack, e) /\ state' = "EXPRESSION"
  BY DEF PushExpression, Pushed, PushedOn
<1> HIDE DEF e
<1>4. Good(PushedOn(stack, e), "EXPRESSION", scopes, functions)
  BY <1>1, <1>2, GoodPushed DEF Now, TopNode
<1>5. Good(stack', state', scopes', functions') /\ UNCHANGED finished
  BY <1>3, <1>4 DEF ScopesStay
<1> QED
  BY <1>5, MovesGood

LEMMA MovesBlock ==
  ASSUME Now, NEW saved, saved \in StatesOf[TopNode.type], AddCodeblock(saved), Runs
  PROVE  Moved
<1>1. Good(PushedOn(stack, [Entry("CODEBLOCK", saved) EXCEPT !.scope = Len(scopes) + 1]),
           "CODEBLOCK", Append(scopes, Scope),
           [functions EXCEPT ![Len(functions)].scopes = Append(@, Len(scopes) + 1)])
  BY GoodBlock DEF Now, TopNode
<1>2. Good(stack', state', scopes', functions') /\ UNCHANGED finished
  BY <1>1 DEF AddCodeblock, Pushed, PushedOn
<1> QED
  BY <1>2, MovesGood

LEMMA MovesClass ==
  ASSUME Now, TopNode.type # "FUNCDECL", AddClass, Runs
  PROVE  Moved
<1> DEFINE f == functions[Len(functions)]
<1>1. state \in StatesOf[Last(stack).type] /\ Current = f /\ CurrentScope = Last(f.scopes)
  BY NowTop DEF TopNode, CurrentScope
<1>2. Good(PushedOn(stack, [Entry("CLASSDECL", state) EXCEPT !.scope = Len(scopes) + 1]),
           "CLASSDECL_NAME",
           Append([scopes EXCEPT ![Last(f.scopes)].vars =
                     Append(@, [name |-> "", index |-> f.current])], Scope),
           [functions EXCEPT ![Len(functions)] =
              [TookSlot(f) EXCEPT !.scopes = Append(@, Len(scopes) + 1)]])
  BY <1>1, GoodClass DEF Now, TopNode
<1>3. Good(stack', state', scopes', functions') /\ UNCHANGED finished
  BY <1>1, <1>2 DEF AddClass, Pushed, PushedOn
<1> QED
  BY <1>3, MovesGood

LEMMA MovesFunction ==
  ASSUME Now, TopNode.type # "FUNCDECL", NEW class \in BOOLEAN, AddFunction(class), Runs,
         class <=> TopNode.type = "CLASSDECL"
  PROVE  Moved
<1> DEFINE tc == [scopes EXCEPT ![CurrentScope].functions = Append(@, [name |-> ""])]
<1>1. state \in StatesOf[Last(stack).type] /\ scopes \in Seq(ScopeRecords)
  BY NowTop DEF TopNode
<1>2. /\ tc \in Seq(ScopeRecords) /\ Len(tc) = Len(scopes)
      /\ \A z \in 1 .. Len(scopes) : SameSlots(VarsOf(scopes, z), VarsOf(tc, z))
                                     /\ tc[z].args = scopes[z].args
  BY <1>1, ScopeHasFunction
<1>3. /\ stack' = PushedOn(stack, [Entry("FUNCDECL", state) EXCEPT !.scope = Len(scopes) + 1])
      /\ state' = "FUNCDECL_NAME" /\ scopes' = Append(tc, Scope)
      /\ functions' = Append(functions, Function(Len(scopes) + 1, class))
      /\ UNCHANGED finished
  BY DEF AddFunction, Pushed, PushedOn
<1> HIDE DEF tc
<1>4. Good(stack, state, tc, functions)
  <2>1. Len(scopes) <= Len(tc)
    BY <1>1, <1>2
  <2>2. \A i \in 1 .. Len(stack) :
          stack[i].type \in Inner => tc[stack[i].scope].args = scopes[stack[i].scope].args
    BY <1>2, BlockScopes
  <2> QED
    BY <1>2, <2>1, <2>2, GoodNamed DEF Now
<1>5. Good(PushedOn(stack, [Entry("FUNCDECL", state) EXCEPT !.scope = Len(tc) + 1]),
           "FUNCDECL_NAME", Append(tc, Scope),
           Append(functions, Function(Len(tc) + 1, class)))
  BY <1>1, <1>4, GoodFunction DEF TopNode
<1>6. Good(stack', state', scopes', functions')
  BY <1>2, <1>3, <1>5
<1> QED
  BY <1>3, <1>6, MovesGood

LEMMA MovesPops ==
  ASSUME Now, TopNode.type \in Plain, Pop(1), ScopesStay, Runs
  PROVE  Moved
<1>1. Good(SubSeq(stack, 1, Len(stack) - 1), stack[Len(stack)].saved, scopes, functions)
  BY GoodPopped DEF Now, TopNode
<1>2. Len(stack) - 1 + 1 = Len(stack)
  BY NowTop
<1>3. Good(stack', state', scopes', functions') /\ UNCHANGED finished
  BY <1>1, <1>2 DEF Pop, ScopesStay
<1> QED
  BY <1>3, MovesGood

LEMMA MovesPopsArm ==
  ASSUME Now, TopNode.type \in Arms, Pop(2), ScopesStay, Runs
  PROVE  Moved
<1>1. Good(SubSeq(stack, 1, Len(stack) - 2), stack[Len(stack) - 1].saved, scopes, functions)
  BY GoodPoppedArm DEF Now, TopNode
<1>2. Len(stack) - 2 + 1 = Len(stack) - 1
  BY NowTop
<1>3. Good(stack', state', scopes', functions') /\ UNCHANGED finished
  BY <1>1, <1>2 DEF Pop, ScopesStay
<1> QED
  BY <1>3, MovesGood

LEMMA MovesCloses ==
  ASSUME Now, TopNode.type \in {"CODEBLOCK", "CLASSDECL"}, CloseScope
  PROVE  Moved
<1>1. TopNode.type \in ScopeKinds \ Roots
  BY DEF ScopeKinds, Roots
<1>2. Good(SubSeq(stack, 1, Len(stack) - 1), stack[Len(stack)].saved, scopes,
           [functions EXCEPT ![Len(functions)] = LeftIn(scopes, functions[Len(functions)])])
  BY <1>1, GoodClosed DEF Now, TopNode
<1>3. Len(stack) - 1 + 1 = Len(stack) /\ Current = functions[Len(functions)]
  BY NowTop
<1>4. Left(Current) = LeftIn(scopes, functions[Len(functions)])
  BY <1>3 DEF Left, LeftIn
<1>5. Good(stack', state', scopes', functions') /\ UNCHANGED finished /\ Runs
  BY <1>2, <1>3, <1>4 DEF CloseScope, LeaveCodeblock, Pop
<1> QED
  BY <1>5, MovesGood

\* A name is given, in whatever scope, or an argument to one that is no block's;
\* the node may go on in another state.
LEMMA MovesNames ==
  ASSUME Now, NEW y, NEW name \in Identifiers,
         scopes' \in NamedIn(scopes, y, name),
         \/ scopes' \in RenamedIn(scopes, y, name)
         \/ \A i \in 1 .. Len(stack) : stack[i].type \in Inner => stack[i].scope # y,
         NEW t, t \in StatesOf[TopNode.type], state' = t,
         NEW x, stack' = stack \/ Mark(x), UNCHANGED <<functions, finished>>, Runs
  PROVE  Moved
<1>1. scopes \in Seq(ScopeRecords)
  BY NowTop
<1>2. /\ scopes' \in Seq(ScopeRecords) /\ Len(scopes') = Len(scopes)
      /\ \A z \in 1 .. Len(scopes) : SameSlots(VarsOf(scopes, z), VarsOf(scopes', z))
  BY <1>1, ScopeNamed
<1>3. Good(stack, t, scopes, functions)
  BY GoodGoesOn DEF Now, TopNode
<1>4. Good(stack, t, scopes', functions)
  <2> DEFINE tc == scopes'
  <2>1. Len(scopes) <= Len(tc)
    BY <1>1, <1>2
  <2>2. \A z \in 1 .. Len(scopes) :
          z # y \/ tc \in RenamedIn(scopes, y, name) => tc[z].args = scopes[z].args
    BY <1>1, ScopeNamed
  <2>3. \A i \in 1 .. Len(stack) :
          stack[i].type \in Inner => tc[stack[i].scope].args = scopes[stack[i].scope].args
    BY <2>2, BlockScopes
  <2>4. /\ tc \in Seq(ScopeRecords)
        /\ \A z \in 1 .. Len(scopes) : SameSlots(VarsOf(scopes, z), VarsOf(tc, z))
    BY <1>2
  <2> HIDE DEF tc
  <2>5. Good(stack, t, tc, functions)
    BY <1>3, <2>1, <2>3, <2>4, GoodNamed
  <2> QED
    BY <2>5 DEF tc
<1>5. Good([stack EXCEPT ![Len(stack)].step = x], t, scopes', functions)
  BY <1>4, GoodMarked
<1>6. Good(stack', state', scopes', functions')
  BY <1>4, <1>5 DEF Mark
<1> QED
  BY <1>6, MovesGood

-----------------------------------------------------------------------------
(* The actions of the parser.                                               *)

\* What each statement pushes and does.
LEMMA OpeningFits ==
  ASSUME NEW t \in DOMAIN Opening
  PROVE  Opening[t][1] \in Plain /\ Opening[t][2] \in StatesOf[Opening[t][1]]
<1>1. t \in {"return", "var", "label", "goto", "while", "for"}
  BY DEF Opening
<1>2. CASE t \in {"return", "var"}
  BY <1>2 DEF Opening, StatesOf, Plain, ScopeKinds, Arms
<1>3. CASE t \in {"label", "goto"}
  BY <1>3 DEF Opening, StatesOf, Plain, ScopeKinds, Arms
<1>4. CASE t \in {"while", "for"}
  BY <1>4 DEF Opening, StatesOf, Plain, ScopeKinds, Arms
<1> QED
  BY <1>1, <1>2, <1>3, <1>4

LEMMA OpenMoves ==
  ASSUME Now, TopNode.type # "FUNCDECL", NEW t \in DOMAIN Opening, Open(t)
  PROVE  Moved
<1>1. Opening[t][1] \in Plain /\ Opening[t][2] \in StatesOf[Opening[t][1]]
  BY OpeningFits
<1>2. state \in StatesOf[TopNode.type]
  BY NowTop
<1> QED
  BY <1>1, <1>2, MovesPushes DEF Open, Push

LEMMA IfMoves ==
  ASSUME Now, TopNode.type # "FUNCDECL", If
  PROVE  Moved
<1> DEFINE x == Entry("BRANCH", state).type = "BRANCH"
           p == [stack EXCEPT ![Len(stack)].branchLast = x]
<1>1. stack' = Append(Append(p, Entry("BRANCH", state)), Entry("IF", state))
      /\ state' = "BRANCH_IF" /\ ScopesStay /\ Runs
  BY DEF If, Pushed
<1> HIDE DEF x
<1>2. Shaped(p) /\ RowsOf(p) = RowsOf(stack)
  BY NowTop, RowsMarked DEF Now, Good
<1> HIDE DEF p
<1>3. "IF" \in Arms /\ "BRANCH_IF" \in StatesOf["IF"]
  BY DEF Arms, StatesOf, IfStates
<1>4. Good(stack', state', scopes, functions)
  BY <1>1, <1>2, <1>3, GoodBranched DEF Now, TopNode
<1> QED
  BY <1>1, <1>4, MovesGood DEF ScopesStay

LEMMA ElseMoves ==
  ASSUME Now, TopNode.type # "FUNCDECL", Else
  PROVE  Moved
<1>1. CASE TopNode.branchLast
  <2> DEFINE b == Entry("BRANCH", state)
             e == Entry("ELSE", state)
  <2>1. stack' = stack \o <<b, e>> /\ state' = "BRANCH_ELSE" /\ ScopesStay /\ Runs
    BY <1>1 DEF Else
  <2>2. PICK S : stack \in Seq(Entries(S))
    BY DEF Now, Good, Shaped
  <2> HIDE DEF b, e
  <2>3. stack \o <<b, e>> = Append(Append(stack, b), e)
    <3> DEFINE W == Entries(S) \union {b, e}
    <3>1. stack \in Seq(W) /\ b \in W /\ e \in W
      BY <2>2
    <3> HIDE DEF W
    <3> QED
      BY <3>1
  <2>4. "ELSE" \in Arms /\ "BRANCH_ELSE" \in StatesOf["ELSE"]
    BY DEF Arms, StatesOf
  <2>5. Good(stack', state', scopes, functions)
    BY <2>1, <2>3, <2>4, GoodBranched DEF Now, Good, TopNode, b, e
  <2> QED
    BY <2>1, <2>5, MovesGood DEF ScopesStay
<1>2. CASE ~TopNode.branchLast
  BY <1>2 DEF Else, Moved, ParserStays, ScopesStay
<1> QED
  BY <1>1, <1>2

LEMMA ExpressionStatementMoves ==
  ASSUME Now, TopNode.type # "FUNCDECL", NEW saved, saved \in StatesOf[TopNode.type],
         ExpressionStatement(saved)
  PROVE  Moved
  BY MovesExpression DEF ExpressionStatement

LEMMA StatementMoves ==
  ASSUME Now, NEW s \in {"IDLE", "CODEBLOCK"}, Statement(s)
  PROVE  Moved
<1>1. /\ TopNode.type \notin {"FUNCDECL", "CLASSDECL"} /\ state \in StatesOf[TopNode.type]
      /\ state = s
      /\ s = "CODEBLOCK" => TopNode.type = "CODEBLOCK"
  BY NowTop, Owners DEF Statement, At
<1>2. CASE Token = ";" /\ Advance /\ ParserStays /\ Runs
  BY <1>2, MovesStays
<1>3. CASE Token = "function" /\ Advance /\ AddFunction(FALSE) /\ Runs
  BY <1>1, <1>3, MovesFunction
<1>4. CASE Token = "class" /\ Advance /\ AddClass /\ Runs
  BY <1>1, <1>4, MovesClass
<1>5. CASE Token \in DOMAIN Opening /\ Open(Token)
  BY <1>1, <1>5, OpenMoves
<1>6. CASE If
  BY <1>1, <1>6, IfMoves
<1>7. CASE Else
  BY <1>1, <1>7, ElseMoves
<1>8. CASE AddCodeblock(state) /\ Runs
  BY <1>1, <1>8, MovesBlock
<1>9. CASE s = "CODEBLOCK" /\ CloseScope
  BY <1>1, <1>9, MovesCloses
<1>10. CASE ExpressionStatement(state)
  BY <1>1, <1>10, ExpressionStatementMoves
<1> QED
  BY <1>2, <1>3, <1>4, <1>5, <1>6, <1>7, <1>8, <1>9, <1>10 DEF Statement

\* What the states of the statements do.
LEMMA ExpectMoves ==
  ASSUME Now, NEW s, NEW t, NEW next, Expect(s, t, next), next \in StatesOf[TopNode.type]
  PROVE  Moved
  BY MovesGoes, MovesError DEF Expect

LEMMA ExpectExpressionMoves ==
  ASSUME Now, NEW s, NEW t, NEW next, NEW ends, ExpectExpression(s, t, next, ends),
         next \in StatesOf[TopNode.type], TopNode.type # "FUNCDECL"
  PROVE  Moved
  BY MovesExpression, MovesError DEF ExpectExpression

LEMMA CodeMoves ==
  ASSUME Now, TopNode.type # "FUNCDECL", NEW next, next \in StatesOf[TopNode.type], Code(next)
  PROVE  Moved
<1>1. CASE AddCodeblock(next) /\ Runs
  BY <1>1, MovesBlock
<1>2. CASE /\ Token \in {"return", "goto"}
           /\ stack' = Pushed(Entry(Opening[Token][1], next)) /\ state' = Opening[Token][2]
           /\ ScopesStay /\ Runs
  <2>1. Token \in DOMAIN Opening
    BY <1>2 DEF Opening
  <2>2. Opening[Token][1] \in Plain /\ Opening[Token][2] \in StatesOf[Opening[Token][1]]
    BY <2>1, OpeningFits
  <2> QED
    BY <1>2, <2>2, MovesPushes
<1>3. CASE ExpressionStatement(next)
  BY <1>3, ExpressionStatementMoves
<1> QED
  BY <1>1, <1>2, <1>3 DEF Code

LEMMA EndOfNodeMoves ==
  ASSUME Now, NEW s, EndOfNode(s, 1), TopNode.type \in Plain
  PROVE  Moved
  BY MovesPops DEF EndOfNode

LEMMA BranchMoves ==
  ASSUME Now, Branch
  PROVE  Moved
<1>1. TopNode.type \in DOMAIN StatesOf /\ state \in StatesOf[TopNode.type]
  BY NowTop
<1>2. ASSUME state \in {"BRANCH_IF", "BRANCH_IF_EXPR", "BRANCH_CODE"}
      PROVE  TopNode.type # "FUNCDECL" /\ StatesOf[TopNode.type] = IfStates
  <2>1. TopNode.type \in {"IF", "ELSE_IF"}
    BY <1>1, <1>2, Owners
  <2> QED
    BY <2>1 DEF StatesOf
<1>3. CASE ExpectExpression("BRANCH_IF", "(", "BRANCH_IF_EXPR", BranchEnds)
  <2>1. state = "BRANCH_IF"
    BY <1>3 DEF ExpectExpression, At
  <2>2. TopNode.type # "FUNCDECL" /\ "BRANCH_IF_EXPR" \in StatesOf[TopNode.type]
    BY <1>2, <2>1 DEF IfStates
  <2> QED
    BY <1>3, <2>2, ExpectExpressionMoves
<1>4. CASE Expect("BRANCH_IF_EXPR", ")", "BRANCH_CODE")
  <2>1. state = "BRANCH_IF_EXPR"
    BY <1>4 DEF Expect, At
  <2>2. "BRANCH_CODE" \in StatesOf[TopNode.type]
    BY <1>2, <2>1 DEF IfStates
  <2> QED
    BY <1>4, <2>2, ExpectMoves
<1>5. CASE BranchElse
  <2>1. TopNode.type = "ELSE" /\ stack # <<>>
    BY <1>1, <1>5, Owners, NowTop DEF BranchElse, At
  <2>2. CASE /\ stack' = [stack EXCEPT ![Len(stack)].type = "ELSE_IF"] /\ state' = "BRANCH_IF"
             /\ ScopesStay /\ Runs
    <3>1. "BRANCH_IF" \in StatesOf["ELSE_IF"]
      BY DEF StatesOf, IfStates
    <3>2. Good([stack EXCEPT ![Len(stack)].type = "ELSE_IF"], "BRANCH_IF", scopes, functions)
      BY <2>1, <3>1, GoodElseIf DEF Now, TopNode
    <3>3. Good(stack', state', scopes', functions') /\ UNCHANGED finished
      BY <2>2, <3>2 DEF ScopesStay
    <3> QED
      BY <2>2, <3>3, MovesGood
  <2>3. CASE Code("BRANCH_END")
    <3>1. "BRANCH_END" \in StatesOf["ELSE"]
      BY DEF StatesOf
    <3> QED
      BY <2>1, <2>3, <3>1, CodeMoves
  <2> QED
    BY <1>5, <2>2, <2>3 DEF BranchElse
<1>6. CASE At("BRANCH_CODE") /\ Code("BRANCH_END")
  BY <1>2, <1>6, CodeMoves DEF IfStates, At
<1>7. CASE EndOfNode("BRANCH_END", 2)
  <2>1. TopNode.type \in Arms
    BY <1>1, <1>7, Owners DEF EndOfNode, At
  <2> QED
    BY <1>7, <2>1, MovesPopsArm DEF EndOfNode
<1> QED
  BY <1>3, <1>4, <1>5, <1>6, <1>7 DEF Branch

LEMMA WhileMoves ==
  ASSUME Now, While
  PROVE  Moved
<1>1. TopNode.type = "WHILE_LOOP"
  BY NowTop, Owners DEF While, Expect, ExpectExpression, EndOfNode, At
<1>2. TopNode.type \in Plain
  BY <1>1 DEF Plain, StatesOf, ScopeKinds, Arms
<1>3. {"WHILE_LOOP_CONDITION", "WHILE_LOOP_CODE", "WHILE_LOOP_END"} \subseteq StatesOf[TopNode.type]
  BY <1>1 DEF StatesOf
<1> QED
  BY <1>1, <1>2, <1>3, ExpectExpressionMoves, ExpectMoves, CodeMoves, EndOfNodeMoves DEF While

LEMMA ForMoves ==
  ASSUME Now, For
  PROVE  Moved
<1>1. TopNode.type = "FOR_LOOP"
  BY NowTop, Owners DEF For, ForFirst, Expect, ExpectExpression, EndOfNode, At
<1>2. TopNode.type \in Plain
  BY <1>1 DEF Plain, StatesOf, ScopeKinds, Arms
<1>3. {"FOR_LOOP_FIRST", "FOR_LOOP_INIT", "FOR_LOOP_CONDITION", "FOR_LOOP_STEP",
       "FOR_LOOP_CODE", "FOR_LOOP_END"} \subseteq StatesOf[TopNode.type]
  BY <1>1 DEF StatesOf
<1>4. CASE ForFirst
  <2>1. CASE /\ stack' = Pushed(Entry("VARDECL_LIST", "FOR_LOOP_INIT"))
             /\ state' = "VARDECL_IDLE" /\ ScopesStay /\ Runs
    <3>1. "VARDECL_LIST" \in Plain /\ "VARDECL_IDLE" \in StatesOf["VARDECL_LIST"]
      BY DEF Plain, StatesOf, ScopeKinds, Arms
    <3> QED
      BY <1>1, <1>3, <2>1, <3>1, MovesPushes
  <2>2. CASE ExpressionStatement("FOR_LOOP_INIT")
    BY <1>1, <1>3, <2>2, ExpressionStatementMoves
  <2> QED
    BY <1>4, <2>1, <2>2 DEF ForFirst
<1>5. CASE ~ForFirst
  BY <1>1, <1>2, <1>3, <1>5, ExpectExpressionMoves, ExpectMoves, CodeMoves, EndOfNodeMoves DEF For
<1> QED
  BY <1>4, <1>5

LEMMA ReturnMoves ==
  ASSUME Now, ReturnStatement
  PROVE  Moved
<1>1. TopNode.type = "RETURN"
  BY NowTop, Owners DEF ReturnStatement, EndOfNode, At
<1>2. TopNode.type \in Plain /\ "RETURN_END" \in StatesOf[TopNode.type]
  BY <1>1 DEF Plain, StatesOf, ScopeKinds, Arms
<1> QED
  BY <1>1, <1>2, MovesPops, ExpressionStatementMoves, EndOfNodeMoves DEF ReturnStatement

LEMMA JumpMoves ==
  ASSUME Now, NEW s \in {"LABEL_NAME", "GOTO_NAME"}, Jump(s)
  PROVE  Moved
<1>1. TopNode.type \in {"LABEL", "GOTO"} /\ state \in StatesOf[TopNode.type]
  BY NowTop, Owners DEF Jump, At
<1>2. TopNode.type \in Plain
  BY <1>1 DEF Plain, StatesOf, ScopeKinds, Arms
<1>3. CASE Mark("named") /\ UNCHANGED state /\ ScopesStay /\ Runs
  BY <1>1, <1>3, MovesMarks
<1>4. CASE Pop(1) /\ ScopesStay /\ Runs
  BY <1>2, <1>4, MovesPops
<1>5. CASE Error
  BY <1>5, MovesError
<1> QED
  BY <1>3, <1>4, <1>5 DEF Jump

\* The states of the declarations.
LEMMA DeclarationStates ==
  /\ StatesOf["FUNCDECL"] = {"FUNCDECL_NAME", "FUNCDECL_ARGS", "FUNCDECL_BLOCK", "FUNCDECL_END"}
  /\ StatesOf["CLASSDECL"] = {"CLASSDECL_NAME", "CLASSDECL_FLAGS", "CLASSDECL_IDLE"}
  /\ StatesOf["VARDECL_LIST"] = {"VARDECL_IDLE"}
  /\ StatesOf["VARDECL"] = {"VARDECL_NAME", "VARDECL_END"}
  /\ {"VARDECL_LIST", "VARDECL"} \subseteq Plain
  BY DEF StatesOf, Plain, ScopeKinds, Arms

\* An argument goes to the scope of the function on top, which is no block's.
LEMMA ArgumentsOf ==
  ASSUME Now, TopNode.type = "FUNCDECL",
         NEW i \in 1 .. Len(stack), stack[i].type \in Inner
  PROVE  stack[i].scope # Current.scopes[1]
<1> DEFINE r == RowsOf(stack)
           n == Len(stack)
           o == ScopesIn(r)
<1>1. /\ Fits(r, state) /\ Placed(r, scopes, functions) /\ n \in Nat \ {0} /\ Len(r) = n
      /\ r[n].type = "FUNCDECL" /\ r[i].type \in Inner /\ r[i].scope = stack[i].scope
  BY TopOf, RowsType DEF Now, Good, TopNode
<1>2. Current.scopes = o[Len(o)]
  BY InFunction, NowTop DEF Now, Good
<1> HIDE DEF r
<1>3. o[Len(o)][1] = r[n].scope
  <2>1. Gathers(r, o, n)
    BY <1>1, ScopesGathered
  <2>2. n \in 1 .. n /\ SameFunction(r, n, n) /\ r[n].type \in Roots
    BY <1>1 DEF SameFunction, Roots
  <2> QED
    BY <2>1, <2>2 DEF Gathers
<1>4. i # n /\ r[i].scope # NoScope
  BY <1>1 DEF Inner, Fits, ScopeKinds
<1>5. r[i].scope # r[n].scope
  BY <1>1, <1>4 DEF Placed, OwnScopes
<1> QED
  BY <1>1, <1>2, <1>3, <1>5

LEMMA FunctionMoves ==
  ASSUME Now, FunctionName \/ FunctionArgs \/ FunctionBlock
  PROVE  Moved
<1>1. TopNode.type = "FUNCDECL" /\ state \in StatesOf[TopNode.type]
  BY NowTop, Owners DEF FunctionName, FunctionArgs, FunctionBlock, At
<1>2. {"FUNCDECL_ARGS", "FUNCDECL_BLOCK", "FUNCDECL_END"} \subseteq StatesOf[TopNode.type]
  BY <1>1, DeclarationStates
<1>3. CASE Error
  BY <1>3, MovesError
<1>4. ASSUME NEW x, Mark(x), state' \in StatesOf[TopNode.type], ScopesStay, Runs PROVE Moved
  BY <1>4, MovesMarks
<1>5. CASE FunctionName /\ ~Error
  <2>1. CASE /\ Token \in Identifiers /\ Mark("named") /\ UNCHANGED state
             /\ LET parent == Last(functions[Len(functions) - 1].scopes) IN
                scopes' = [scopes EXCEPT ![parent].functions = Renamed(@, Token)]
             /\ UNCHANGED <<functions, finished>> /\ Runs
    <3> DEFINE y == Last(functions[Len(functions) - 1].scopes)
    <3>1. scopes' \in RenamedIn(scopes, y, Token)
      BY <2>1 DEF RenamedIn
    <3> HIDE DEF y
    <3> QED
      BY <1>1, <2>1, <3>1, MovesNames DEF NamedIn
  <2>2. CASE /\ stack' = [stack EXCEPT ![Len(stack)].step = ""] /\ state' = "FUNCDECL_ARGS"
             /\ ScopesStay /\ Runs
    BY <1>2, <1>4, <2>2 DEF Mark
  <2> QED
    BY <1>5, <2>1, <2>2 DEF FunctionName
<1>6. CASE FunctionArgs /\ ~Error
  <2>1. CASE /\ Token \in Identifiers /\ Mark("argument") /\ UNCHANGED state
             /\ scopes' = [scopes EXCEPT ![Current.scopes[1]].args = Append(@, Token)]
             /\ UNCHANGED <<functions, finished>> /\ Runs
    <3> DEFINE y == Current.scopes[1]
    <3>1. scopes' \in NamedIn(scopes, y, Token)
      BY <2>1 DEF NamedIn
    <3>2. \A i \in 1 .. Len(stack) : stack[i].type \in Inner => stack[i].scope # y
      BY <1>1, ArgumentsOf
    <3> HIDE DEF y
    <3> QED
      BY <1>1, <2>1, <3>1, <3>2, MovesNames
  <2>2. CASE Mark("") /\ UNCHANGED state /\ ScopesStay /\ Runs
    BY <1>1, <1>4, <2>2
  <2>3. CASE Goes("FUNCDECL_BLOCK") /\ ScopesStay /\ Runs
    BY <1>2, <2>3, MovesGoes
  <2> QED
    BY <1>6, <2>1, <2>2, <2>3 DEF FunctionArgs
<1>7. CASE FunctionBlock /\ ~Error
  <2>1. AddCodeblock("FUNCDECL_END") /\ Runs
    BY <1>7 DEF FunctionBlock
  <2> QED
    BY <1>2, <2>1, MovesBlock
<1> QED
  BY <1>3, <1>5, <1>6, <1>7

\* The slots the function has taken are no more than those it counts.
LEMMA FunctionEndMoves ==
  ASSUME Now, FunctionEnd
  PROVE  Moved
<1>1. TopNode.type = "FUNCDECL" /\ Current = functions[Len(functions)]
      /\ Len(stack) - 1 + 1 = Len(stack)
  BY NowTop, Owners DEF FunctionEnd, At
<1>2. /\ Good(SubSeq(stack, 1, Len(stack) - 1), stack[Len(stack)].saved, scopes,
              SubSeq(functions, 1, Len(functions) - 1))
      /\ Current.highest <= Current.slots
  BY <1>1, GoodFunctionEnds DEF Now, TopNode
<1>3. /\ stack' = SubSeq(stack, 1, Len(stack) - 1) /\ state' = stack[Len(stack)].saved
      /\ scopes' = scopes /\ functions' = SubSeq(functions, 1, Len(functions) - 1)
      /\ finished' = finished \union {[slots |-> Current.slots, highest |-> Current.highest]}
      /\ status' = status
  BY <1>1 DEF FunctionEnd, Pop, Front, Runs
<1>4. ASSUME NEW f \in finished' PROVE f \in finished \/ f.highest <= f.slots
  BY <1>2, <1>3
<1>5. Good(stack', state', scopes', functions')
  BY <1>2, <1>3
<1> QED
  BY <1>3, <1>4, <1>5 DEF Moved

LEMMA ClassMoves ==
  ASSUME Now, ClassName \/ ClassFlags \/ ClassIdle
  PROVE  Moved
<1>1. TopNode.type = "CLASSDECL" /\ state \in StatesOf[TopNode.type]
  BY NowTop, Owners DEF ClassName, ClassFlags, ClassIdle, At
<1>2. {"CLASSDECL_FLAGS", "CLASSDECL_IDLE"} \subseteq StatesOf[TopNode.type]
  BY <1>1, DeclarationStates
<1>3. CASE Error
  BY <1>3, MovesError
<1>4. CASE ClassName /\ ~Error
  <2> DEFINE y == Current.scopes[Len(Current.scopes) - 1]
  <2>1. /\ Token \in Identifiers /\ Goes("CLASSDECL_FLAGS")
        /\ scopes' = [scopes EXCEPT ![y].vars = Renamed(@, Token)]
        /\ UNCHANGED <<functions, finished>> /\ Runs
    BY <1>4 DEF ClassName
  <2>2. scopes' \in RenamedIn(scopes, y, Token)
    BY <2>1 DEF RenamedIn
  <2> HIDE DEF y
  <2> QED
    BY <1>2, <2>1, <2>2, MovesNames DEF Goes, NamedIn
<1>5. CASE ClassFlags /\ ~Error
  <2>1. CASE Mark("extends") /\ UNCHANGED state /\ ScopesStay /\ Runs
    BY <1>1, <2>1, MovesMarks
  <2>2. CASE Mark("extended") /\ UNCHANGED state /\ ScopesStay /\ Runs
    BY <1>1, <2>2, MovesMarks
  <2>3. CASE Goes("CLASSDECL_IDLE") /\ ScopesStay /\ Runs
    BY <1>2, <2>3, MovesGoes
  <2> QED
    BY <1>5, <2>1, <2>2, <2>3 DEF ClassFlags
<1>6. CASE ClassIdle /\ ~Error
  <2>1. CASE ParserStays /\ Runs
    BY <2>1, MovesStays
  <2>2. CASE CloseScope
    BY <1>1, <2>2, MovesCloses
  <2>3. CASE Open("var")
    <3>1. "var" \in DOMAIN Opening
      BY DEF Opening
    <3> QED
      BY <1>1, <2>3, <3>1, OpenMoves
  <2>4. CASE AddFunction(TRUE) /\ Runs
    BY <1>1, <2>4, MovesFunction
  <2> QED
    BY <1>6, <2>1, <2>2, <2>3, <2>4 DEF ClassIdle
<1> QED
  BY <1>3, <1>4, <1>5, <1>6

LEMMA VariableMoves ==
  ASSUME Now, VarIdle \/ VarName \/ VarEnd
  PROVE  Moved
<1>1. /\ TopNode.type \in {"VARDECL_LIST", "VARDECL"} /\ state \in StatesOf[TopNode.type]
      /\ VarName => TopNode.type = "VARDECL"
  BY NowTop, Owners DEF VarIdle, VarName, VarEnd, At
<1>2. TopNode.type \in Plain
  BY <1>1, DeclarationStates
<1>3. CASE Error
  BY <1>3, MovesError
<1>4. CASE Pop(1) /\ ScopesStay /\ Runs
  BY <1>2, <1>4, MovesPops
<1>5. CASE VarIdle /\ ~Error /\ ~(Pop(1) /\ ScopesStay /\ Runs)
  <2> DEFINE f == functions[Len(functions)]
  <2>1. /\ Declare(CurrentScope) /\ Push("VARDECL", "VARDECL_NAME") /\ Runs
        /\ functions' = [functions EXCEPT ![Len(functions)] = TookSlot(@)]
        /\ UNCHANGED finished
    BY <1>5 DEF VarIdle
  <2>2. Good(PushedOn(stack, Entry("VARDECL", state)), "VARDECL_NAME",
             [scopes EXCEPT ![Last(f.scopes)].vars =
                Append(@, [name |-> "", index |-> f.current])],
             [functions EXCEPT ![Len(functions)] = TookSlot(@)])
    BY <1>1, GoodDeclared DEF Now, TopNode
  <2>3. Current = f /\ CurrentScope = Last(f.scopes)
    BY NowTop DEF CurrentScope
  <2>4. Good(stack', state', scopes', functions')
    BY <2>1, <2>2, <2>3 DEF Declare, Push, Pushed, PushedOn
  <2> QED
    BY <2>1, <2>4, MovesGood
<1>6. CASE VarName /\ ~Error /\ ~(Pop(1) /\ ScopesStay /\ Runs)
  <2>1. CASE /\ Token \in Identifiers
             /\ scopes' = [scopes EXCEPT ![CurrentScope].vars = Renamed(@, Token)]
             /\ UNCHANGED <<state, stack, functions, finished>> /\ Runs
    <3> DEFINE y == CurrentScope
    <3>1. scopes' \in RenamedIn(scopes, y, Token)
      BY <2>1 DEF RenamedIn
    <3> HIDE DEF y
    <3> QED
      BY <1>1, <2>1, <3>1, MovesNames DEF NamedIn
  <2>2. CASE PushExpression("VARDECL_END", VariableEnds) /\ ScopesStay /\ Runs
    <3>1. "VARDECL_END" \in StatesOf[TopNode.type]
      BY <1>1, <1>6, DeclarationStates
    <3> QED
      BY <1>1, <2>2, <3>1, MovesExpression
  <2> QED
    BY <1>6, <2>1, <2>2 DEF VarName
<1>7. CASE VarEnd /\ ~Error /\ ~(Pop(1) /\ ScopesStay /\ Runs)
  BY <1>7 DEF VarEnd
<1> QED
  BY <1>3, <1>4, <1>5, <1>6, <1>7

\* A round of the parser.
LEMMA ParserMoves ==
  ASSUME Now, ParserStep
  PROVE  /\ Moved /\ status = "running" /\ calls = <<>> /\ result = NoResult
         /\ UNCHANGED <<calls, result>>
<1>1. status = "running" /\ calls = <<>> /\ result = NoResult
  BY DEF ParserStep, Statement, Branch, BranchElse, While, For, ForFirst, ReturnStatement, Jump,
     Declaration, FunctionName, FunctionArgs, FunctionBlock, FunctionEnd, ClassName, ClassFlags,
     ClassIdle, VarIdle, VarName, VarEnd, Expect, ExpectExpression, EndOfNode, At
<1>2. Moved
  <2>1. CASE \E s \in {"IDLE", "CODEBLOCK"} : Statement(s)
    BY <2>1, StatementMoves
  <2>2. CASE Branch \/ While \/ For \/ ReturnStatement
    BY <2>2, BranchMoves, WhileMoves, ForMoves, ReturnMoves
  <2>3. CASE \E s \in {"LABEL_NAME", "GOTO_NAME"} : Jump(s)
    BY <2>3, JumpMoves
  <2>4. CASE Declaration
    BY <2>4, FunctionMoves, FunctionEndMoves, ClassMoves, VariableMoves DEF Declaration
  <2> QED
    BY <2>1, <2>2, <2>3, <2>4 DEF ParserStep
<1> QED
  BY <1>1, <1>2 DEF ParserStep

-----------------------------------------------------------------------------
(* The inductive invariant of the parser.                                   *)

\* While an expression is parsed its node is the last one.  The scopes are not
\* those of the nodes any more once the parser has left the last codeblock.
ParserTidy ==
  /\ Shaped(stack) /\ Fits(RowsOf(stack), state)
  /\ result # NoResult => calls = <<>>
  /\ calls # <<>> \/ result # NoResult => state = "EXPRESSION"
  /\ status = "running" => /\ Agrees(RowsOf(stack), scopes, functions)
                           /\ Placed(RowsOf(stack), scopes, functions)
  /\ \A f \in finished : f.highest <= f.slots
  /\ status = "done" => Current.highest <= Current.slots

\* The program is in its root, and has a scope.
LEMMA InitTidy ==
  ASSUME ParserInit
  PROVE  ParserTidy
<1> DEFINE e == [Entry("ROOT", "IDLE") EXCEPT !.scope = 1]
           x == [type |-> "ROOT", saved |-> "IDLE", scope |-> 1]
           r == RowsOf(stack)
           sc == <<Scope>>
           f == Function(1, FALSE)
<1>1. /\ stack = <<e>> /\ state = "IDLE" /\ scopes = sc /\ functions = <<f>>
      /\ finished = {} /\ calls = <<>> /\ result = NoResult /\ status = "running"
  BY DEF ParserInit
<1>2. (\E S : e \in Entries(S)) /\ Row(e) = x
  BY EntryWithScope
<1>3. x \in Rows /\ x.type = "ROOT" /\ x.scope = 1
  BY DEF Rows, Kinds, States, StatesOf
<1>4. "IDLE" \in StatesOf["ROOT"] /\ 1 # NoScope
  BY DEF StatesOf, NoScope
<1> HIDE DEF e, x
<1>5. Shaped(stack)
  <2>1. PICK S : e \in Entries(S)
    BY <1>2
  <2>2. <<e>> \in Seq(Entries(S))
    BY <2>1
  <2> QED
    BY <1>1, <2>2 DEF Shaped
<1>6. Len(r) = 1 /\ r[1] = x
  <2>1. Len(stack) = 1 /\ stack[1] = e
    BY <1>1
  <2> QED
    BY <1>2, <1>5, <2>1, RowsType
<1>7. r = <<x>>
  <2>1. r = [i \in 1 .. Len(stack) |-> Row(stack[i])] /\ Len(stack) = 1
    BY <1>1 DEF RowsOf
  <2> HIDE DEF r
  <2> QED
    BY <1>6, <2>1
<1> HIDE DEF r
<1>8. Fits(r, "IDLE")
  <2>1. r \in Seq(Rows) /\ r # <<>>
    BY <1>3, <1>7
  <2>2. Paired(r, 1) /\ Resumed(r, "IDLE", 1) /\ Blocked(r, 1)
    BY <1>3, <1>4, <1>6 DEF Paired, Resumed, Blocked, Arms
  <2>3. r[1].scope # NoScope <=> r[1].type \in ScopeKinds
    BY <1>3, <1>4, <1>6 DEF ScopeKinds
  <2> QED
    BY <1>3, <1>6, <2>1, <2>2, <2>3 DEF Fits
<1>9. ScopesIn(r) = <<<<1>>>>
  <2> DEFINE none == <<>>
  <2>1. none \in Seq(Rows) /\ Len(none) = 0 /\ Append(none, x) = r
    BY <1>3, <1>7
  <2>2. PICK o \in Openings(none, 0) : TRUE
    BY <2>1, OpeningsExist
  <2>3. o[0] = <<>>
    BY <2>2 DEF Openings
  <2>4. ScopesIn(none) = <<>>
    BY <2>1, <2>2, <2>3, ScopesInIs
  <2> HIDE DEF none
  <2>5. ScopesIn(r) = WithScope(ScopesIn(none), x)
    BY <1>3, <2>1, ScopesInPushed
  <2>6. ScopesIn(r) = Append(<<>>, <<x.scope>>)
    BY <1>3, <2>4, <2>5 DEF WithScope
  <2> QED
    BY <1>3, <2>6
<1>10. /\ sc \in Seq(ScopeRecords) /\ Len(sc) = 1 /\ VarsOf(sc, 1) = <<>>
  <2> DEFINE none == <<>>
  <2>1. none \in Seq(ScopeRecords) /\ Len(none) = 0 /\ Append(none, Scope) = sc
    OBVIOUS
  <2> HIDE DEF none
  <2>2. /\ Append(none, Scope) \in Seq(ScopeRecords) /\ Len(Append(none, Scope)) = Len(none) + 1
        /\ VarsOf(Append(none, Scope), Len(none) + 1) = <<>>
    BY <2>1, ScopeAdded
  <2>3. Len(none) + 1 = 1
    BY <2>1
  <2> HIDE DEF sc
  <2>4. VarsOf(sc, Len(none) + 1) = <<>>
    BY <2>1, <2>2
  <2> QED
    BY <2>1, <2>2, <2>3, <2>4
<1> HIDE DEF sc
<1>11. f \in FunctionRecords /\ Orderly(sc, f) /\ f.scopes = <<1>>
  <2>1. 1 \in 1 .. Len(sc)
    BY <1>10
  <2> QED
    BY <1>10, <2>1, OrderlyFunction
<1> HIDE DEF f
<1>12. ScopesOk(sc, functions) /\ ScopesFor(functions) = ScopesIn(r)
  <2> DEFINE fs == <<f>>
  <2>1. fs \in Seq(FunctionRecords) /\ Len(fs) = 1 /\ fs[1] = f
    BY <1>11
  <2>3. functions = fs
    BY <1>1
  <2> HIDE DEF fs
  <2>2. ScopesFor(fs) \in Seq(Seq(Nat)) /\ Len(ScopesFor(fs)) = 1 /\ ScopesFor(fs)[1] = <<1>>
    <3>1. /\ ScopesFor(fs) \in Seq(Seq(Nat)) /\ Len(ScopesFor(fs)) = Len(fs)
          /\ \A k \in 1 .. Len(fs) : ScopesFor(fs)[k] = fs[k].scopes
      BY <2>1, ScopesForType
    <3>2. 1 \in 1 .. Len(fs)
      BY <2>1
    <3> QED
      BY <1>11, <2>1, <3>1, <3>2
  <2>4. ScopesOk(sc, fs)
    BY <1>10, <1>11, <2>1 DEF ScopesOk
  <2>5. ScopesFor(fs) = <<<<1>>>>
    BY <2>2
  <2> QED
    BY <1>9, <2>3, <2>4, <2>5
<1>13. Placed(r, sc, functions)
  <2>1. /\ Len(functions) = 1 /\ functions[1].scopes[1] = 1
        /\ functions[1].class = FALSE
    BY <1>1 DEF f, Function
  <2>2. OwnScopes(r, sc)
    BY <1>3, <1>6, <1>10 DEF OwnScopes, Inner
  <2>3. Methods(r, functions)
    BY <1>6, <2>1 DEF Methods, InClass
  <2> QED
    BY <2>2, <2>3 DEF Placed
<1> QED
  BY <1>1, <1>5, <1>8, <1>12, <1>13 DEF ParserTidy, Agrees, r

\* What the expression parser does to the variables the parser tests.
LEMMA ExpressionMoves ==
  ASSUME ExpressionStep
  PROVE  status' \in {status, "over"} /\ (calls' = <<>> \/ result' = result)
  BY DEF ExpressionStep, Operand, EndOfExpression, NoOperator, Operator, Property, Arguments,
     Separator, EndOfCall, Unexpected, Fail, Return, Continues

\* The invariant is inductive: whatever the next token, a step keeps it or stops.
LEMMA StepTidy ==
  ASSUME ParserTidy, Step
  PROVE  ParserTidy'
<1>1. CASE status = "running" /\ (Read \/ ExpressionStep \/ RunsOffTheEnd)
           /\ UNCHANGED <<state, stack, scopes, functions, finished>>
  <2>1. UNCHANGED <<state, stack, scopes, functions, finished>>
    BY <1>1
  <2>2. CASE Read
    <3>1. UNCHANGED <<calls, result, status>>
      BY <2>2 DEF Read
    <3> QED
      BY <2>1, <3>1 DEF ParserTidy, Current
  <2>3. CASE ExpressionStep \/ RunsOffTheEnd
    <3>1. calls # <<>> /\ result = NoResult /\ state = "EXPRESSION"
      BY <2>3 DEF ExpressionStep, RunsOffTheEnd, ParserTidy
    <3>2. status' \in {"running", "over", "wild"} /\ (calls' = <<>> \/ result' = result)
      BY <1>1, <2>3, ExpressionMoves DEF RunsOffTheEnd
    <3> QED
      BY <1>1, <2>1, <3>1, <3>2 DEF ParserTidy
  <2> QED
    BY <1>1, <2>2, <2>3
<1>2. CASE ParserStep
  <2>1. status = "running"
    BY <1>2 DEF ParserStep, Statement, Branch, BranchElse, While, For, ForFirst, ReturnStatement,
       Jump, Declaration, FunctionName, FunctionArgs, FunctionBlock, FunctionEnd, ClassName,
       ClassFlags, ClassIdle, VarIdle, VarName, VarEnd, Expect, ExpectExpression, EndOfNode, At
  <2>2. Now
    BY <2>1 DEF ParserTidy, Now, Good
  <2>3. Moved /\ calls' = <<>> /\ result' = NoResult
    BY <1>2, <2>2, ParserMoves
  <2>4. CASE status' \in {"error", "aborted"} /\ UNCHANGED <<state, stack, finished>>
    BY <2>3, <2>4 DEF ParserTidy
  <2>5. CASE /\ status' = status
             /\ Good(stack', state', scopes', functions')
             /\ \A f \in finished' : f \in finished \/ f.highest <= f.slots
    BY <2>1, <2>3, <2>5 DEF ParserTidy, Good
  <2> QED
    BY <2>3, <2>4, <2>5 DEF Moved
<1>3. CASE BeginExpression
  <2>1. /\ status = "running" /\ state = "EXPRESSION" /\ result = NoResult
        /\ stack' = [stack EXCEPT ![Len(stack)].start = pos]
        /\ UNCHANGED <<result, status, state, scopes, functions, finished>>
    BY <1>3 DEF BeginExpression, At, ScopesStay
  <2>2. Good([stack EXCEPT ![Len(stack)].start = pos], state, scopes, functions)
    BY <2>1, GoodMarked DEF ParserTidy, Good
  <2>3. Good(stack', state', scopes', functions')
    BY <2>1, <2>2
  <2> QED
    BY <2>1, <2>3 DEF ParserTidy, Good
<1>4. CASE EndExpression
  <2>1. /\ status = "running" /\ result # NoResult /\ result' = NoResult /\ Pop(1) /\ ScopesStay
        /\ UNCHANGED <<calls, status>>
    BY <1>4 DEF EndExpression
  <2>2. Now /\ calls = <<>> /\ state = "EXPRESSION"
    BY <2>1 DEF ParserTidy, Now, Good
  <2>3. TopNode.type = "EXPRESSION"
    BY <2>2, NowTop, Owners
  <2>4. "EXPRESSION" \in Plain
    BY DEF Plain, StatesOf, ScopeKinds, Arms
  <2>5. Moved
    BY <2>1, <2>2, <2>3, <2>4, MovesPops DEF Runs
  <2>6. Good(stack', state', scopes', functions') /\ UNCHANGED finished
    BY <2>1, <2>5 DEF Moved, ScopesStay
  <2> QED
    BY <2>1, <2>2, <2>6 DEF ParserTidy, Good
<1>5. CASE Finish
  <2> DEFINE g == LeftIn(scopes, functions[Len(functions)])
  <2>1. /\ status = "running" /\ calls = <<>> /\ result = NoResult
        /\ functions' = [functions EXCEPT ![Len(functions)] = Left(Current)]
        /\ UNCHANGED <<calls, result, state, stack, finished>>
        /\ status' \in {"wild", "done"}
    BY <1>5 DEF Finish, LeaveCodeblock
  <2>2. Now
    BY <2>1 DEF ParserTidy, Now, Good
  <2>3. Left(Current) = g
    BY <2>2, NowTop DEF Left, LeftIn
  <2>4. functions \in Seq(FunctionRecords) /\ Len(functions) \in Nat \ {0}
    BY <2>2, InFunction DEF Now, Good
  <2>5. g.highest <= g.slots
    BY <2>2, AgreesLeft DEF Now, Good
  <2> HIDE DEF g
  <2>6. Current' = g
    <3>1. Len(functions') = Len(functions) /\ functions'[Len(functions)] = g
      BY <2>1, <2>3, <2>4
    <3> QED
      BY <3>1 DEF Current, Last
  <2> QED
    BY <2>1, <2>5, <2>6 DEF ParserTidy
<1> QED
  BY <1>1, <1>2, <1>3, <1>4, <1>5 DEF Step

\* It holds all along main, which starts the parser once the tokens are made.
LEMMA FrontTidy ==
  FrontSpec => []ParserTidy
<1>1. FrontInit => ParserTidy
  BY InitTidy DEF FrontInit
<1>2. ParserTidy /\ [FrontNext]_frontVars => ParserTidy'
  <2> SUFFICES ASSUME ParserTidy, [FrontNext]_frontVars PROVE ParserTidy'
    OBVIOUS
  <2>1. CASE Parse
    BY <2>1, StepTidy DEF Parse
  <2>2. CASE ~Parse
    <3>1. UNCHANGED <<calls, result, status, state, stack, scopes, functions, finished>>
      BY <2>2 DEF FrontNext, FrontStep, AfterTokens, Tokenize, Tokenized, NotTokenized, Parsed,
         NotParsed, Compile, Execute, GiveBack, frontVars, vars, expressionVars
    <3> QED
      BY <3>1 DEF ParserTidy, Current
  <2> QED
    BY <2>1, <2>2
<1> QED
  BY <1>1, <1>2, PTL DEF FrontSpec

-----------------------------------------------------------------------------
(* What follows from it.                                                    *)

\* A state of the parser always belongs to the node that it parses, and what a
\* statement returns to belongs to the node around it; and the scopes that
\* declarations go to are always those in which names are looked up.
THEOREM ContextsAlwaysFit == FrontSpec => []ContextsFit
<1>1. ParserTidy => ContextsFit
  <2> SUFFICES ASSUME ParserTidy PROVE ContextsFit
    OBVIOUS
  <2> DEFINE r == RowsOf(stack)
  <2>1. /\ Len(stack) \in Nat \ {0} /\ Len(r) = Len(stack) /\ r \in Seq(Rows)
        /\ Fits(r, state)
    BY TopOf DEF ParserTidy
  <2>2. \A i \in 1 .. Len(stack) : /\ r[i].type = stack[i].type
                                   /\ r[i].saved = stack[i].saved
                                   /\ r[i].scope = stack[i].scope
    BY RowsType DEF ParserTidy
  <2>3. DOMAIN stack = 1 .. Len(stack)
    BY <2>1 DEF ParserTidy, Shaped
  <2>4. ScopesAgree
    <3> SUFFICES ASSUME status = "running"
                 PROVE  [k \in DOMAIN functions |-> functions[k].scopes] = ScopesAround
      BY DEF ScopesAgree
    <3>1. ScopesFor(functions) = ScopesIn(r) /\ functions \in Seq(FunctionRecords)
      BY DEF ParserTidy, Agrees, ScopesOk
    <3> HIDE DEF r
    <3>2. ScopesIn(stack) = ScopesIn(r)
      BY <2>1, <2>2, ScopesInAlike
    <3>3. ScopesAround = ScopesIn(stack)
      BY DEF ScopesAround, ScopesIn
    <3>4. [k \in DOMAIN functions |-> functions[k].scopes] = ScopesFor(functions)
      BY <3>1 DEF ScopesFor
    <3> QED
      BY <3>1, <3>2, <3>3, <3>4
  <2> HIDE DEF r
  <2>5. ASSUME NEW i \in 1 .. Len(stack)
        PROVE  IF stack[i].type = "BRANCH"
               THEN /\ i < Len(stack)
                    /\ stack[i + 1].type \in {"IF", "ELSE_IF", "ELSE"}
                    /\ stack[i + 1].saved = stack[i].saved
               ELSE /\ Restores(i) \in StatesOf[stack[i].type]
                    /\ stack[i].type \in {"IF", "ELSE_IF", "ELSE"} => stack[i - 1].type = "BRANCH"
    <3>1. Paired(r, i) /\ Resumed(r, state, i)
      BY <2>1 DEF Fits
    <3>2. CASE stack[i].type = "BRANCH"
      <4>1. r[i].type = "BRANCH" /\ r[i].saved = stack[i].saved
        BY <2>2, <3>2
      <4>2. i < Len(r) /\ r[i + 1].type \in Arms /\ r[i + 1].saved = r[i].saved
        BY <3>1, <4>1 DEF Paired
      <4>3. r[i + 1].type = stack[i + 1].type /\ r[i + 1].saved = stack[i + 1].saved
        BY <2>1, <2>2, <4>2
      <4> QED
        BY <2>1, <3>2, <4>1, <4>2, <4>3 DEF Arms
    <3>3. CASE stack[i].type # "BRANCH"
      <4>1. r[i].type = stack[i].type /\ r[i].type # "BRANCH"
        BY <2>2, <3>3
      <4>2. Restores(i) \in StatesOf[stack[i].type]
        <5>1. CASE i = Len(stack)
          BY <2>1, <3>1, <4>1, <5>1 DEF Resumed, Restores
        <5>2. CASE i < Len(stack)
          <6>1. r[i + 1].saved = stack[i + 1].saved
            BY <2>1, <2>2, <5>2
          <6> QED
            BY <2>1, <3>1, <4>1, <5>2, <6>1 DEF Resumed, Restores
        <5> QED
          BY <2>1, <5>1, <5>2
      <4>3. ASSUME stack[i].type \in Arms PROVE stack[i - 1].type = "BRANCH"
        <5>1. i > 1 /\ r[i - 1].type = "BRANCH"
          BY <3>1, <4>1, <4>3 DEF Paired
        <5>2. r[i - 1].type = stack[i - 1].type
          BY <2>1, <2>2, <5>1
        <5> QED
          BY <5>1, <5>2
      <4> QED
        BY <3>3, <4>2, <4>3 DEF Arms
    <3> QED
      BY <3>2, <3>3
  <2> QED
    BY <2>3, <2>4, <2>5 DEF ContextsFit
<1> QED
  BY <1>1, FrontTidy, PTL

\* No two variables that are in scope together ever share a slot, and the slots
\* that a function is given when it is left are enough for all its variables.
THEOREM SlotsAlwaysFit == FrontSpec => []SlotsFit
<1>1. ParserTidy => SlotsFit
  <2> SUFFICES ASSUME ParserTidy PROVE SlotsFit
    OBVIOUS
  <2>1. SlotsDistinct
    <3> SUFFICES ASSUME status = "running", NEW i \in DOMAIN functions
                 PROVE  LET vs == OpenVariables(functions[i]) IN
                        /\ \A v, w \in vs : v # w => Slot(v) # Slot(w)
                        /\ {Slot(v) : v \in vs} = 0 .. functions[i].current - 1
      BY DEF SlotsDistinct
    <3> DEFINE f == functions[i]
    <3>1. ScopesOk(scopes, functions)
      BY DEF ParserTidy, Agrees
    <3>2. scopes \in Seq(ScopeRecords) /\ f \in FunctionRecords /\ Orderly(scopes, f)
      BY <3>1 DEF ScopesOk
    <3> HIDE DEF f
    <3>3. LET vs == OpenVarsIn(scopes, f) IN
          /\ \A v, w \in vs : v # w => SlotIn(scopes, v) # SlotIn(scopes, w)
          /\ {SlotIn(scopes, v) : v \in vs} = 0 .. f.current - 1
      BY <3>2, OrderlySlots
    <3>4. OpenVariables(f) = OpenVarsIn(scopes, f) /\ \A v : Slot(v) = SlotIn(scopes, v)
      BY DEF OpenVariables, OpenVarsIn, Slot, SlotIn
    <3> QED
      BY <3>3, <3>4 DEF f
  <2> QED
    BY <2>1 DEF SlotsFit, ParserTidy
<1> QED
  BY <1>1, FrontTidy, PTL

-----------------------------------------------------------------------------
(* Where names are found.                                                   *)

\* Every scope there is has a record.
LEMMA ScopeOf ==
  ASSUME Now, NEW i \in 1 .. Len(stack), stack[i].scope # NoScope
  PROVE  /\ scopes[stack[i].scope].vars \in Seq(VarRecords)
         /\ scopes[stack[i].scope].args \in Seq(Identifiers)
         /\ stack[i].type \in ScopeKinds
         /\ scopes[stack[i].scope].args # <<>> => stack[i].type \notin Inner
<1> DEFINE r == RowsOf(stack)
           y == stack[i].scope
<1>1. /\ Fits(r, state) /\ Placed(r, scopes, functions) /\ Len(scopes) \in Nat
      /\ Len(r) = Len(stack) /\ r[i].type = stack[i].type /\ r[i].scope = y
      /\ r \in Seq(Rows) /\ scopes \in Seq(ScopeRecords)
  BY TopOf, RowsType, InFunction DEF Now, Good
<1> HIDE DEF r, y
<1>2. y <= Len(scopes) /\ r[i] \in Rows
  BY <1>1 DEF Placed, OwnScopes
<1>3. y \in 1 .. Len(scopes)
  BY <1>1, <1>2 DEF Rows, NoScope, y
<1>4. scopes[y] \in ScopeRecords
  BY <1>1, <1>3
<1>5. scopes[y].vars \in Seq(VarRecords) /\ scopes[y].args \in Seq(Identifiers)
  BY <1>4 DEF ScopeRecords
<1>6. r[i].type \in ScopeKinds /\ (scopes[y].args # <<>> => r[i].type \notin Inner)
  BY <1>1 DEF Fits, Placed, OwnScopes, y
<1> QED
  BY <1>1, <1>5, <1>6 DEF y

\* The innermost function, by its node.
LEMMA RootAround ==
  ASSUME Now
  PROVE  \E p \in 1 .. Len(stack) :
           /\ stack[p].type \in Roots /\ stack[p].scope = Current.scopes[1]
           /\ Current.class <=> p > 1 /\ stack[p - 1].type = "CLASSDECL"
           /\ \A j \in p + 1 .. Len(stack) : stack[j].type \notin Roots
           /\ \A i \in p .. Len(stack) : stack[i].scope # NoScope =>
                \E a \in 1 .. Len(Current.scopes) : Current.scopes[a] = stack[i].scope
<1> DEFINE r == RowsOf(stack)
           n == Len(stack)
           o == ScopesIn(r)
           m == Len(functions)
<1>1. /\ Fits(r, state) /\ Placed(r, scopes, functions) /\ n \in Nat \ {0} /\ Len(r) = n
      /\ \A i \in 1 .. n : r[i].type = stack[i].type /\ r[i].scope = stack[i].scope
  BY TopOf, RowsType DEF Now, Good
<1>2. Current.scopes = o[Len(o)] /\ Current = functions[m] /\ m \in 1 .. m
  BY InFunction, NowTop DEF Now, Good
<1> HIDE DEF r
<1>3. Gathers(r, o, n)
  BY <1>1, ScopesGathered
<1>4. PICK p \in 1 .. n : r[p].type \in Roots /\ SameFunction(r, p, n)
  BY <1>1, RootNode
<1> HIDE DEF o, n, m
<1>5. Current.scopes[1] = r[p].scope
  BY <1>2, <1>3, <1>4 DEF Gathers
<1>6. Current.class <=> InClass(r, p)
  <2>1. r[p].scope = functions[m].scopes[1] /\ p \in 1 .. Len(r)
    BY <1>1, <1>2, <1>4, <1>5
  <2> QED
    BY <1>1, <1>2, <2>1 DEF Placed, Methods, m
<1>7. InClass(r, p) <=> p > 1 /\ stack[p - 1].type = "CLASSDECL"
  <2>1. p > 1 => r[p - 1].type = stack[p - 1].type
    BY <1>1, <1>4
  <2> QED
    BY <2>1 DEF InClass
<1>8. \A j \in p + 1 .. n : stack[j].type \notin Roots
  <2>1. \A j \in p + 1 .. n : j \in 1 .. n
    BY <1>1, <1>4
  <2> QED
    BY <1>1, <1>4, <2>1 DEF SameFunction
<1>9. ASSUME NEW i \in p .. n, stack[i].scope # NoScope
      PROVE  \E a \in 1 .. Len(Current.scopes) : Current.scopes[a] = stack[i].scope
  <2>1. i \in 1 .. n
    BY <1>1, <1>4
  <2>2. SameFunction(r, i, n)
    <3>1. \A j \in i + 1 .. n : j \in p + 1 .. n
      BY <1>1, <1>4
    <3> QED
      BY <1>4, <3>1 DEF SameFunction
  <2>3. r[i].scope = stack[i].scope
    BY <1>1, <2>1
  <2> QED
    BY <1>2, <1>3, <1>9, <2>1, <2>2, <2>3 DEF Gathers
<1>10. stack[p].type \in Roots /\ stack[p].scope = Current.scopes[1]
  BY <1>1, <1>4, <1>5
<1> QED
  BY <1>4, <1>6, <1>7, <1>8, <1>9, <1>10 DEF n

\* What can be seen from an expression is a scope of the innermost function, but
\* in a method also one of its class; only the function has arguments.
LEMMA Reached ==
  ASSUME Now, NEW i \in 1 .. Len(stack), stack[i].scope # NoScope, ~OutOfFunction(i)
  PROVE  /\ ~Current.class =>
              \E a \in 1 .. Len(Current.scopes) : Current.scopes[a] = stack[i].scope
         /\ stack[i].type \notin Inner => stack[i].scope = Current.scopes[1]
<1> DEFINE n == Len(stack)
<1>1. PICK p \in 1 .. n :
        /\ stack[p].type \in Roots /\ stack[p].scope = Current.scopes[1]
        /\ Current.class <=> p > 1 /\ stack[p - 1].type = "CLASSDECL"
        /\ \A j \in p + 1 .. n : stack[j].type \notin Roots
        /\ \A k \in p .. n : stack[k].scope # NoScope =>
             \E a \in 1 .. Len(Current.scopes) : Current.scopes[a] = stack[k].scope
  BY RootAround
<1>2. n \in Nat \ {0} /\ \A j \in i + 1 .. n : ~Quits(j)
  BY NowTop DEF OutOfFunction
<1> HIDE DEF n
<1>3. ASSUME ~Current.class PROVE i >= p
  <2>1. Quits(p)
    BY <1>1, <1>3 DEF Quits, Roots
  <2> QED
    BY <1>1, <1>2, <2>1 DEF n
<1>4. ASSUME Current.class, stack[i].type \notin Inner PROVE i >= p
  <2>1. p > 1 /\ stack[p - 1].type = "CLASSDECL"
    BY <1>1, <1>4
  <2>2. Quits(p - 1)
    BY <2>1 DEF Quits
  <2>3. i # p - 1
    BY <1>4, <2>1 DEF Inner
  <2>4. p - 1 \notin i + 1 .. n
    BY <1>2, <2>2
  <2> QED
    BY <1>1, <1>2, <2>1, <2>3, <2>4 DEF n
<1>5. ASSUME i >= p, stack[i].type \notin Inner PROVE i = p
  <2>1. stack[i].type \in Roots
    BY <1>5, ScopeOf DEF ScopeKinds, Inner, Roots
  <2>2. i \notin p + 1 .. n
    BY <1>1, <2>1
  <2> QED
    BY <1>1, <1>2, <1>5, <2>2 DEF n
<1>6. ASSUME i >= p PROVE i \in p .. n
  BY <1>1, <1>2, <1>6 DEF n
<1> QED
  BY <1>1, <1>3, <1>4, <1>5, <1>6

\* The first of a list.
LEMMA FirstOf ==
  ASSUME NEW S \in SUBSET Nat, S # {}
  PROVE  Min(S) \in S
  BY LeastNumber DEF Min

\* The last of a list.
LEMMA LastOf ==
  ASSUME NEW n \in Nat, NEW S \in SUBSET (0 .. n), S # {}
  PROVE  Max(S) \in S
<1>1. PICK g \in S : \A m \in S : m <= g
  BY GreatestNumber
<1>2. \A m \in S : g >= m
  BY <1>1
<1> QED
  BY <1>2 DEF Max

\* What a scope knows of a name has that name.
LEMMA LookupFinds ==
  ASSUME Now, NEW i \in 1 .. Len(stack), stack[i].scope # NoScope, NEW name
  PROVE  LET scope == scopes[stack[i].scope]
             found == Lookup(i, name)
         IN /\ found.kind = "local" =>
                 /\ ~OutOfFunction(i)
                 /\ \E k \in Named(scope.vars, name) : scope.vars[k].index = found.index
            /\ found.kind = "argument" =>
                 ~OutOfFunction(i) /\ scope.args # <<>> /\ scope.args[found.index] = name
<1> DEFINE scope == scopes[stack[i].scope]
           vs == scope.vars
           as == scope.args
           near == ~OutOfFunction(i)
           first == FirstNamed(vs, name).index
           place == SelectInSeq(as, LAMBDA a : a = name)
<1>1. vs \in Seq(VarRecords) /\ as \in Seq(Identifiers)
  BY ScopeOf
<1>2. Lookup(i, name) =
        CASE near /\ HasName(vs, name) -> Reference("local", first)
          [] near /\ ~HasName(vs, name) /\ Contains(as, name) -> Reference("argument", place)
          [] ~(near /\ (HasName(vs, name) \/ Contains(as, name)))
               /\ HasName(scope.functions, name) -> Reference("function", 0)
          [] OTHER -> Reference("unknown", 0)
  BY DEF Lookup
<1>3. ASSUME HasName(vs, name)
      PROVE  \E k \in Named(vs, name) : vs[k].index = first
  <2> DEFINE S == {k \in DOMAIN vs : vs[k].name = name}
  <2>1. S # {} /\ S \in SUBSET Nat
    BY <1>1, <1>3 DEF HasName
  <2> HIDE DEF S
  <2>2. Min(S) \in S
    BY <2>1, FirstOf
  <2>3. first = vs[Min(S)].index /\ Named(vs, name) = S
    BY DEF FirstNamed, Named, S
  <2> QED
    BY <2>2, <2>3
<1>4. ASSUME Contains(as, name) PROVE as # <<>> /\ as[place] = name
  <2> DEFINE S == {k \in 1 .. Len(as) : as[k] = name}
  <2>1. S # {} /\ S \in SUBSET Nat /\ Len(as) \in Nat
    BY <1>1, <1>4 DEF Contains
  <2>2. place = Min(S)
    BY <2>1 DEF SelectInSeq
  <2> HIDE DEF S
  <2>3. Min(S) \in S
    BY <2>1, FirstOf
  <2>4. Min(S) \in 1 .. Len(as) /\ as[Min(S)] = name
    BY <2>3 DEF S
  <2> QED
    BY <1>1, <2>2, <2>4
<1> HIDE DEF scope, vs, as, near, first, place
<1> DEFINE found == Lookup(i, name)
<1>5. CASE near /\ HasName(vs, name)
  <2>1. found.kind = "local" /\ found.index = first
    BY <1>2, <1>5 DEF Reference
  <2> QED
    BY <1>3, <1>5, <2>1 DEF near, vs, scope
<1>6. CASE near /\ ~HasName(vs, name) /\ Contains(as, name)
  <2>1. found.kind = "argument" /\ found.index = place
    BY <1>2, <1>6 DEF Reference
  <2> QED
    BY <1>4, <1>6, <2>1 DEF near, as, scope
<1>7. CASE ~(near /\ (HasName(vs, name) \/ Contains(as, name)))
  <2> DEFINE has == HasName(scope.functions, name)
  <2>1. CASE has
    <3>1. found = Reference("function", 0)
      BY <1>2, <1>7, <2>1
    <3> QED
      BY <3>1 DEF Reference
  <2>2. CASE ~has
    <3>1. found = Reference("unknown", 0)
      <4> HIDE DEF found
      <4> QED
        BY <1>2, <1>7, <2>2 DEF found
    <3> QED
      BY <3>1 DEF Reference
  <2> HIDE DEF found
  <2> QED
    BY <2>1, <2>2 DEF found
<1> QED
  BY <1>5, <1>6, <1>7

\* A name that is found is found in some scope around.
LEMMA ScopedFinds ==
  ASSUME Now, NEW name, Scoped(name).kind # "unknown"
  PROVE  \E i \in 1 .. Len(stack) :
           stack[i].scope # NoScope /\ Scoped(name) = Lookup(i, name)
<1> DEFINE S == {i \in 1 .. Len(stack) :
                   stack[i].scope # NoScope /\ Lookup(i, name).kind # "unknown"}
<1>1. Len(stack) \in Nat
  BY NowTop
<1>2. Scoped(name) = IF S = {} THEN Reference("unknown", 0) ELSE Lookup(Max(S), name)
  BY DEF Scoped
<1>3. S \in SUBSET (0 .. Len(stack))
  BY <1>1
<1>4. S # {}
  <2> HIDE DEF S
  <2> QED
    BY <1>2 DEF Reference
<1>5. Max(S) \in S
  <2> HIDE DEF S
  <2> QED
    BY <1>1, <1>3, <1>4, LastOf
<1>6. Scoped(name) = Lookup(Max(S), name)
  BY <1>2, <1>4
<1> QED
  BY <1>5, <1>6

\* A name in an expression that is found at a slot or at an argument is always
\* one of the function that runs the expression, in a block that is still open:
\* the code never reads a slot of the frame of another function.
THEOREM ResolutionAlwaysAgrees == FrontSpec => []ResolutionAgrees
<1>1. ParserTidy => ResolutionAgrees
  <2> SUFFICES ASSUME ParserTidy, status = "running", NEW name \in Identifiers
               PROVE  LET found == Resolve(name) IN
                      /\ found.kind = "local" =>
                           \E s \in Range(Current.scopes) :
                             \E k \in Named(scopes[s].vars, name) :
                               scopes[s].vars[k].index = found.index
                      /\ found.kind = "argument" =>
                           scopes[Head(Current.scopes)].args[found.index] = name
    BY DEF ResolutionAgrees
  <2> DEFINE found == Resolve(name)
             met == Scoped(name)
  <2>1. Now
    BY DEF ParserTidy, Now, Good
  <2>2. Current.scopes \in Seq(Nat) /\ Len(Current.scopes) \in Nat \ {0} /\ Current.class \in BOOLEAN
    <3>1. LET f == functions[Len(functions)] IN
          f \in FunctionRecords /\ f.scopes \in Seq(Nat) /\ Len(f.scopes) \in Nat \ {0}
      BY <2>1, InFunction DEF Now, Good
    <3>2. Current \in FunctionRecords /\ Current.scopes \in Seq(Nat)
          /\ Len(Current.scopes) \in Nat \ {0}
      BY <2>1, <3>1, NowTop
    <3> QED
      BY <3>2 DEF FunctionRecords
  <2>3. ASSUME found.kind \in {"local", "argument"}
        PROVE  found = met /\ (found.kind = "local" => ~Current.class)
    <3>1. found = CASE met.kind # "argument" /\ Current.class -> Reference("this", 0)
                    [] met.kind = "unknown" /\ ~Current.class -> Reference("global", 0)
                    [] OTHER -> met
      BY DEF Resolve
    <3> HIDE DEF found, met
    <3>2. CASE met.kind # "argument" /\ Current.class
      <4>1. found = Reference("this", 0)
        BY <3>1, <3>2
      <4> QED
        BY <2>3, <4>1 DEF Reference
    <3>3. CASE met.kind = "unknown" /\ ~Current.class
      <4>1. found = Reference("global", 0)
        BY <3>1, <3>3
      <4> QED
        BY <2>3, <4>1 DEF Reference
    <3>4. CASE /\ ~(met.kind # "argument" /\ Current.class)
               /\ ~(met.kind = "unknown" /\ ~Current.class)
      <4>1. found = met
        BY <3>1, <3>4
      <4> QED
        BY <2>2, <3>4, <4>1
    <3> QED
      BY <3>2, <3>3, <3>4
  <2> HIDE DEF found
  <2>4. ASSUME found.kind = "local"
        PROVE  \E s \in Range(Current.scopes) :
                 \E k \in Named(scopes[s].vars, name) : scopes[s].vars[k].index = found.index
    <3>1. found = met /\ ~Current.class /\ met.kind = "local"
      BY <2>3, <2>4
    <3>2. PICK i \in 1 .. Len(stack) : stack[i].scope # NoScope /\ met = Lookup(i, name)
      BY <2>1, <3>1, ScopedFinds
    <3> DEFINE y == stack[i].scope
    <3>3. /\ ~OutOfFunction(i)
          /\ \E k \in Named(scopes[y].vars, name) : scopes[y].vars[k].index = found.index
      BY <2>1, <3>1, <3>2, LookupFinds
    <3>4. \E a \in 1 .. Len(Current.scopes) : Current.scopes[a] = y
      BY <2>1, <3>1, <3>2, <3>3, Reached
    <3>5. y \in Range(Current.scopes)
      BY <2>2, <3>4 DEF Range
    <3> QED
      BY <3>3, <3>5
  <2>5. ASSUME found.kind = "argument"
        PROVE  scopes[Head(Current.scopes)].args[found.index] = name
    <3>1. found = met /\ met.kind = "argument"
      BY <2>3, <2>5
    <3>2. PICK i \in 1 .. Len(stack) : stack[i].scope # NoScope /\ met = Lookup(i, name)
      BY <2>1, <3>1, ScopedFinds
    <3> DEFINE y == stack[i].scope
    <3>3. ~OutOfFunction(i) /\ scopes[y].args # <<>> /\ scopes[y].args[found.index] = name
      BY <2>1, <3>1, <3>2, LookupFinds
    <3>4. stack[i].type \notin Inner
      BY <2>1, <3>2, <3>3, ScopeOf
    <3>5. y = Current.scopes[1]
      BY <2>1, <3>2, <3>3, <3>4, Reached
    <3>6. Head(Current.scopes) = Current.scopes[1]
      BY <2>2
    <3> QED
      BY <3>3, <3>5, <3>6
  <2> QED
    BY <2>4, <2>5 DEF found
<1> QED
  BY <1>1, FrontTidy, PTL

-----------------------------------------------------------------------------
(* What main gives back.                                                    *)

\* A context that failed was given back by itself, and is not among those made.
Given ==
  /\ made \subseteq Contexts
  /\ freed \in [Contexts -> Nat]
  /\ stage \in {"tokenize", "parse", "compile", "execute", "result", "over"}
  /\ stage = "tokenize" => made = {"linemap"}
  /\ stage = "parse" => "parser" \notin made
  /\ stage \in {"parse", "compile"} => "compiler" \notin made
  /\ stage \in {"parse", "compile", "execute"} => scan # "failed"
  /\ stage \in {"tokenize", "parse", "compile", "execute"} => \A c \in Contexts : freed[c] = 0
  /\ stage = "result" =>
       /\ \A c \in made : freed[c] = IF c = "linemap" /\ scan = "failed" THEN 1 ELSE 0
       /\ \A c \in Contexts \ made : freed[c] <= 1
  /\ FreedOnce

\* Contexts that are freed were freed once more, the others were not.
LEMMA FreesOnce ==
  ASSUME freed \in [Contexts -> Nat], NEW cs \in SUBSET Contexts, Frees(cs)
  PROVE  /\ freed' \in [Contexts -> Nat]
         /\ \A c \in cs : freed'[c] = freed[c] + 1
         /\ \A c \in Contexts \ cs : freed'[c] = freed[c]
  BY DEF Frees

\* Every context that main has made when it ends is given back exactly once,
\* however far it came; the line map of a text that the tokenizer refuses is
\* given back twice.
THEOREM FreedExactlyOnce == FrontSpec => []FreedOnce
<1>1. FrontInit => Given
  BY DEF FrontInit, Given, Contexts, FreedOnce, Scanner!TokenizerInit
<1>2. Given /\ [FrontNext]_frontVars => Given'
  <2> SUFFICES ASSUME Given, [FrontNext]_frontVars PROVE Given'
    OBVIOUS
  <2>1. CASE UNCHANGED <<stage, made, freed, scan>>
    BY <2>1 DEF Given, FreedOnce
  <2>2. CASE Tokenize
    BY <2>2 DEF Tokenize, mainVars, Given, FreedOnce
  <2>3. CASE Tokenized
    BY <2>3 DEF Tokenized, tokenizerVars, Given, FreedOnce, Contexts
  <2>4. CASE NotTokenized
    <3>1. /\ stage = "tokenize" /\ scan = "failed" /\ stage' = "result"
          /\ made = {"linemap"} /\ \A c \in Contexts : freed[c] = 0
          /\ UNCHANGED <<made, scan>>
      BY <2>4 DEF NotTokenized, tokenizerVars, Given
    <3>2. {"linemap", "tokens"} \in SUBSET Contexts /\ freed \in [Contexts -> Nat]
          /\ Frees({"linemap", "tokens"})
      BY <2>4 DEF Contexts, NotTokenized, Given
    <3>3. /\ freed' \in [Contexts -> Nat]
          /\ freed'["linemap"] = 1 /\ \A c \in Contexts : freed'[c] <= 1
      BY <3>1, <3>2, FreesOnce DEF Contexts
    <3> QED
      BY <3>1, <3>3 DEF Given, FreedOnce, Contexts
  <2>5. CASE Parsed
    BY <2>5 DEF Parsed, tokenizerVars, Given, FreedOnce, Contexts
  <2>6. CASE NotParsed
    <3>1. /\ stage = "parse" /\ scan # "failed" /\ stage' = "result" /\ "parser" \notin made
          /\ made \subseteq Contexts /\ \A c \in Contexts : freed[c] = 0
          /\ UNCHANGED <<made, scan>>
      BY <2>6 DEF NotParsed, tokenizerVars, Given
    <3>2. {"parser"} \in SUBSET Contexts /\ freed \in [Contexts -> Nat] /\ Frees({"parser"})
      BY <2>6 DEF Contexts, NotParsed, Given
    <3>3. /\ freed' \in [Contexts -> Nat]
          /\ \A c \in Contexts : freed'[c] <= 1 /\ (c # "parser" => freed'[c] = 0)
      BY <3>1, <3>2, FreesOnce
    <3> QED
      BY <3>1, <3>3 DEF Given, FreedOnce
  <2>7. CASE Compile /\ invalid
    <3>1. /\ stage = "compile" /\ scan # "failed" /\ stage' = "result" /\ "compiler" \notin made
          /\ made \subseteq Contexts /\ \A c \in Contexts : freed[c] = 0
          /\ UNCHANGED <<made, scan>>
      BY <2>7 DEF Compile, tokenizerVars, Given
    <3>2. {"compiler"} \in SUBSET Contexts /\ freed \in [Contexts -> Nat] /\ Frees({"compiler"})
      BY <2>7 DEF Contexts, Compile, Given
    <3>3. /\ freed' \in [Contexts -> Nat]
          /\ \A c \in Contexts : freed'[c] <= 1 /\ (c # "compiler" => freed'[c] = 0)
      BY <3>1, <3>2, FreesOnce
    <3> QED
      BY <3>1, <3>3 DEF Given, FreedOnce
  <2>8. CASE Compile /\ ~invalid
    BY <2>8 DEF Compile, tokenizerVars, Given, FreedOnce, Contexts
  <2>9. CASE Execute
    BY <2>9 DEF Execute, tokenizerVars, Given, FreedOnce
  <2>10. CASE GiveBack
    <3>1. /\ stage = "result" /\ stage' = "over" /\ made \in SUBSET Contexts
          /\ freed \in [Contexts -> Nat] /\ Frees(made) /\ UNCHANGED <<made, scan>>
          /\ \A c \in made : freed[c] = IF c = "linemap" /\ scan = "failed" THEN 1 ELSE 0
          /\ \A c \in Contexts \ made : freed[c] <= 1
      BY <2>10 DEF GiveBack, tokenizerVars, Given
    <3>2. /\ freed' \in [Contexts -> Nat]
          /\ \A c \in made : freed'[c] = IF c = "linemap" /\ scan = "failed" THEN 2 ELSE 1
          /\ \A c \in Contexts \ made : freed'[c] <= 1
      BY <3>1, FreesOnce
    <3> QED
      BY <3>1, <3>2 DEF Given, FreedOnce
  <2> QED
    BY <2>1, <2>2, <2>3, <2>4, <2>5, <2>6, <2>7, <2>8, <2>9, <2>10
    DEF FrontNext, FrontStep, AfterTokens, Parse, frontVars, mainVars, tokenizerVars
<1>3. Given => FreedOnce
  BY DEF Given
<1> QED
  BY <1>1, <1>2, <1>3, PTL DEF FrontSpec
=============================================================================
