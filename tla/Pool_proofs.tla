------------------------------ MODULE Pool_proofs ------------------------------
(***************************************************************************)
(* Proofs about Pool, for every number of entries, page and request size.   *)
(***************************************************************************)
EXTENDS Pool, FiniteSetTheorems, WellFoundedInduction, TLAPS

-----------------------------------------------------------------------------
(* Numbers                                                                  *)

\* Every set of natural numbers that is not empty has a least element.
LEMMA LeastNumber ==
  ASSUME NEW S \in SUBSET Nat, S # {}
  PROVE  \E n \in S : \A m \in S : n <= m
<1> DEFINE R == OpToRel(<, Nat)
<1>1. IsWellFoundedOn(R, Nat)
  BY NatLessThanWellFounded
<1>2. \A x, y \in Nat : x < y => <<x, y>> \in R
  BY DEF OpToRel
<1> HIDE DEF R
<1>3. PICK n \in S : \A m \in S : ~(<<m, n>> \in R)
  BY <1>1, WFMin
<1>4. n \in Nat /\ \A m \in S : m \in Nat /\ ~(m < n)
  BY <1>2, <1>3
<1> QED
  BY <1>4

\* A set that has 0, and with a number the next one, has all of them.
LEMMA NaturalInduction ==
  ASSUME NEW S, 0 \in S, \A n \in Nat : n \in S => n + 1 \in S
  PROVE  Nat \subseteq S
<1> SUFFICES ASSUME Nat \ S # {}
             PROVE  FALSE
  OBVIOUS
<1>1. PICK n \in Nat \ S : \A m \in Nat \ S : n <= m
  BY LeastNumber
<1>2. n - 1 \in Nat /\ n - 1 \in S
  BY <1>1
<1> QED
  BY <1>1, <1>2

\* A set of numbers with a bound that is not empty has a greatest element.
LEMMA GreatestNumber ==
  ASSUME NEW n \in Nat, NEW S \in SUBSET (0 .. n), S # {}
  PROVE  \E k \in S : \A m \in S : m <= k
<1> DEFINE T == {n - m : m \in S}
<1>1. T \subseteq Nat /\ T # {}
  <2>1. \A m \in S : n - m \in Nat
    OBVIOUS
  <2>2. PICK m \in S : TRUE
    OBVIOUS
  <2> QED
    BY <2>1, <2>2
<1>2. PICK t \in T : \A u \in T : t <= u
  BY <1>1, LeastNumber
<1>3. PICK k \in S : t = n - k
  BY <1>2
<1>4. \A m \in S : n - k <= n - m
  BY <1>2, <1>3
<1> QED
  BY <1>3, <1>4

AnEntry == [size : 0 .. Capacity, used : Nat, highest : Block, map : [Block -> 0 .. Capacity]]

-----------------------------------------------------------------------------
(* Pages                                                                    *)

\* Whole pages hold what is asked for, and more for more.
LEMMA PagesHold ==
  ASSUME NEW n \in Nat
  PROVE  /\ AlignToPage(n) \in Nat /\ n <= AlignToPage(n)
         /\ \A m \in Nat : n <= m => AlignToPage(n) <= AlignToPage(m)
<1> USE PoolAssumption
<1>1. \A a \in Nat : (a \div PageEntries) * PageEntries \in Nat
  OBVIOUS
<1>2. n <= ((n + PageEntries - 1) \div PageEntries) * PageEntries
  OBVIOUS
<1>3. \A a, b \in Nat : a <= b => (a \div PageEntries) * PageEntries <= (b \div PageEntries) * PageEntries
  OBVIOUS
<1> QED
  BY <1>1, <1>2, <1>3 DEF AlignToPage

LEMMA CapacityHolds ==
  /\ Capacity \in Nat \ {0} /\ MaxRequest <= Capacity
  /\ \A n \in 1 .. MaxRequest : AlignToPage(n) \in n .. Capacity
  BY PagesHold, PoolAssumption DEF Capacity

-----------------------------------------------------------------------------
(* The search for free blocks                                               *)

\* Block i lies in an allocation of the map.
Covered(x, i) == \E b \in Block : x.map[b] # 0 /\ i \in b .. b + x.map[b] - 1

\* The allocations of the map lie in the entry and share no block.
WellFormed(x) ==
  \A b \in Block : x.map[b] # 0 =>
    /\ b + x.map[b] <= x.size
    /\ \A c \in b + 1 .. b + x.map[b] - 1 : x.map[c] = 0

\* A step of the search that goes on as g says.
Seek(x, n, g, i, free0) ==
  LET size == x.map[i]
      run == IF size = 0 THEN free0 + 1 ELSE 0
  IN IF i >= x.size THEN NotFound
     ELSE IF run >= n THEN i - (run - 1)
     ELSE g[<<i + (IF size = 0 THEN 1 ELSE size), run>>]

Positions == (0 .. 2 * Capacity) \X (0 .. Capacity)

\* The recursion comes to its end, so that it defines a function.
LEMMA SearchExists ==
  ASSUME NEW x \in AnEntry, WellFormed(x), NEW n \in 1 .. MaxRequest
  PROVE  \E g \in [Positions -> Int] :
           \A i \in 0 .. 2 * Capacity, r \in 0 .. Capacity : g[<<i, r>>] = Seek(x, n, g, i, r)
<1> DEFINE C == 2 * Capacity
           Upper(k) == {g \in [Positions -> Int] :
                          \A i \in C - k .. C, r \in 0 .. Capacity :
                            g[<<i, r>>] = Seek(x, n, g, i, r)}
           S == {k \in Nat : k <= C => Upper(k) # {}}
<1>1. C \in Nat /\ Capacity \in Nat /\ Capacity > 0 /\ n <= Capacity /\ n \in Nat
  BY CapacityHolds
<1>2. x.size \in 0 .. Capacity /\ \A i \in Block : x.map[i] \in 0 .. Capacity
  BY DEF AnEntry
<1>3. 0 \in S
  <2> DEFINE g == [p \in Positions |-> NotFound]
  <2>1. g \in [Positions -> Int]
    BY DEF NotFound
  <2>2. \A i \in C .. C, r \in 0 .. Capacity : g[<<i, r>>] = Seek(x, n, g, i, r)
    BY <1>1, <1>2 DEF Seek, Positions
  <2> HIDE DEF g
  <2>3. g \in Upper(0)
    BY <2>1, <2>2, <1>1
  <2> QED
    BY <2>3
<1>4. ASSUME NEW k \in Nat, k \in S PROVE k + 1 \in S
  <2> SUFFICES ASSUME k + 1 <= C PROVE Upper(k + 1) # {}
    OBVIOUS
  <2>1. PICK g \in [Positions -> Int] :
          \A i \in C - k .. C, r \in 0 .. Capacity : g[<<i, r>>] = Seek(x, n, g, i, r)
    BY <1>1, <1>4
  <2> DEFINE j == C - (k + 1)
             h == [p \in Positions |-> IF p[1] = j THEN Seek(x, n, g, j, p[2]) ELSE g[p]]
  <2>2. j \in 0 .. C - 1
    BY <1>1
  <2> HIDE DEF j
  <2>3. \A i \in j .. C, r \in 0 .. Capacity :
          i < x.size =>
            LET m == x.map[i]
                run == IF m = 0 THEN r + 1 ELSE 0
            IN run < n => /\ <<i + (IF m = 0 THEN 1 ELSE m), run>> \in Positions
                          /\ i + (IF m = 0 THEN 1 ELSE m) \in i + 1 .. C
    BY <1>1, <1>2, <2>2 DEF WellFormed, Block, Positions
  <2>4. \A r \in 0 .. Capacity : Seek(x, n, g, j, r) \in Int
    BY <1>1, <1>2, <2>1, <2>2, <2>3 DEF Seek, NotFound
  <2>5. h \in [Positions -> Int]
    BY <2>1, <2>4 DEF Positions
  <2>6. ASSUME NEW i \in j .. C, NEW r \in 0 .. Capacity
        PROVE  Seek(x, n, h, i, r) = Seek(x, n, g, i, r)
    BY <1>1, <1>2, <2>2, <2>3 DEF Seek
  <2>7. ASSUME NEW i \in j .. C, NEW r \in 0 .. Capacity
        PROVE  h[<<i, r>>] = Seek(x, n, h, i, r)
    <3> DEFINE p == <<i, r>>
    <3>1. p \in Positions /\ p[1] = i /\ p[2] = r
      BY <1>1, <2>2 DEF Positions
    <3>2. h[p] = IF i = j THEN Seek(x, n, g, j, r) ELSE g[p]
      BY <3>1
    <3>3. i # j => i \in C - k .. C
      BY <1>1, <2>2 DEF j
    <3>4. i # j => g[p] = Seek(x, n, g, i, r)
      BY <3>3, <2>1
    <3> QED
      BY <3>2, <3>4, <2>6
  <2> HIDE DEF h
  <2>8. h \in Upper(k + 1)
    BY <2>5, <2>7 DEF j
  <2> QED
    BY <2>8
<1> HIDE DEF S
<1>5. C \in S
  BY <1>1, <1>3, <1>4, NaturalInduction
<1>6. PICK g \in Upper(C) : TRUE
  BY <1>1, <1>5 DEF S
<1> QED
  BY <1>1, <1>6

\* What FindFree returns: the search of all positions, from the first.
LEMMA FindFreeIsASearch ==
  ASSUME NEW x \in AnEntry, WellFormed(x), NEW n \in 1 .. MaxRequest
  PROVE  \E g :
           /\ FindFree(x, n) = g[<<0, 0>>]
           /\ \A i \in 0 .. 2 * Capacity, r \in 0 .. Capacity : g[<<i, r>>] = Seek(x, n, g, i, r)
<1> DEFINE Body(f) == [p \in Positions |->
                         LET size == x.map[p[1]]
                             run == IF size = 0 THEN p[2] + 1 ELSE 0
                         IN IF p[1] >= x.size THEN NotFound
                            ELSE IF run >= n THEN p[1] - (run - 1)
                            ELSE f[<<p[1] + (IF size = 0 THEN 1 ELSE size), run>>]]
           find == CHOOSE f : f = Body(f)
<1>1. PICK g \in [Positions -> Int] :
        \A i \in 0 .. 2 * Capacity, r \in 0 .. Capacity : g[<<i, r>>] = Seek(x, n, g, i, r)
  BY SearchExists
<1>2. g = Body(g)
  <2>1. \A p \in Positions : p[1] \in 0 .. 2 * Capacity /\ p[2] \in 0 .. Capacity /\ p = <<p[1], p[2]>>
    BY DEF Positions
  <2>2. \A p \in Positions : g[p] = Body(g)[p]
    BY <1>1, <2>1 DEF Seek
  <2> QED
    BY <2>2
<1>3. find = Body(find)
  BY <1>2
<1>4. FindFree(x, n) = find[<<0, 0>>]
  BY DEF FindFree, Positions
<1> HIDE DEF find
<1>5. \A i \in 0 .. 2 * Capacity, r \in 0 .. Capacity : find[<<i, r>>] = Seek(x, n, find, i, r)
  BY <1>3 DEF Seek, Positions
<1> QED
  BY <1>4, <1>5

\* No allocation of the map reaches over the border in front of block i.
Border(x, i) == \A b \in Block : x.map[b] # 0 => ~(b < i /\ i < b + x.map[b])

\* What a search from block `from' on for n free blocks should return.
Found(x, n, from, r) ==
  \/ r = NotFound /\ \A b \in from .. x.size - n : \E i \in b .. b + n - 1 : Covered(x, i)
  \/ r \in from .. x.size - n /\ \A i \in r .. r + n - 1 : ~Covered(x, i)

\* One step of the search returns what it should, if what follows it does.
LEMMA SeekFinds ==
  ASSUME NEW x \in AnEntry, WellFormed(x), NEW n \in 1 .. MaxRequest, NEW g,
         NEW i \in 0 .. 2 * Capacity, NEW r \in 0 .. n - 1,
         Border(x, i), r <= i, \A j \in i - r .. i - 1 : ~Covered(x, j),
         \A k \in i + 1 .. 2 * Capacity, q \in 0 .. n - 1 :
           /\ Border(x, k) /\ q <= k
           /\ \A j \in k - q .. k - 1 : ~Covered(x, j)
           => Found(x, n, k - q, g[<<k, q>>])
  PROVE  Found(x, n, i - r, Seek(x, n, g, i, r))
<1>1. Capacity \in Nat /\ n \in Nat /\ n > 0 /\ n <= Capacity
  BY CapacityHolds
<1>2. x.size \in 0 .. Capacity /\ \A b \in Block : x.map[b] \in 0 .. Capacity
  BY DEF AnEntry
<1>3. CASE i >= x.size
  BY <1>1, <1>2, <1>3 DEF Found, Seek
<1>4. CASE i < x.size /\ x.map[i] = 0
  <2>1. i \in Block
    BY <1>1, <1>2, <1>4 DEF Block
  <2>2. ~Covered(x, i)
    BY <1>2, <1>4, <2>1 DEF Covered, Border, Block
  <2>3. Border(x, i + 1)
    BY <1>2, <1>4, <2>1 DEF Border, Block
  <2>4. \A j \in i - r .. i : ~Covered(x, j)
    BY <2>2
  <2>5. CASE r + 1 >= n
    <3>1. Seek(x, n, g, i, r) = i - r
      BY <1>1, <1>2, <1>4, <2>5 DEF Seek
    <3>2. i - r \in i - r .. x.size - n /\ i - r + n - 1 = i
      BY <1>1, <1>2, <1>4, <2>5
    <3> QED
      BY <3>1, <3>2, <2>4 DEF Found
  <2>6. CASE r + 1 < n
    <3>1. Seek(x, n, g, i, r) = g[<<i + 1, r + 1>>]
      BY <1>1, <1>2, <1>4, <2>6 DEF Seek
    <3>2. i + 1 \in i + 1 .. 2 * Capacity /\ r + 1 \in 0 .. n - 1
          /\ (i + 1) - (r + 1) = i - r /\ (i + 1) - 1 = i
      BY <1>1, <1>2, <1>4, <2>6
    <3> QED
      BY <3>1, <3>2, <2>3, <2>4
  <2> QED
    BY <1>1, <2>5, <2>6
<1>5. CASE i < x.size /\ x.map[i] # 0
  <2> DEFINE m == x.map[i]
             k == i + m
  <2>1. i \in Block /\ m \in 1 .. Capacity /\ k <= x.size
    BY <1>1, <1>2, <1>5 DEF Block, WellFormed
  <2>2. Seek(x, n, g, i, r) = g[<<k, 0>>]
    BY <1>1, <1>2, <1>5 DEF Seek
  <2>3. Border(x, k)
    <3> SUFFICES ASSUME NEW b \in Block, x.map[b] # 0, b < k, k < b + x.map[b]
                 PROVE  FALSE
      BY DEF Border
    <3>1. b \in Nat /\ x.map[b] \in Nat
      BY <1>1, <1>2 DEF Block
    <3>2. ~(b \in i + 1 .. k - 1)
      BY <2>1, <1>5 DEF WellFormed
    <3>3. b < i
      BY <2>1, <3>1, <3>2
    <3> QED
      BY <3>1, <3>3, <2>1 DEF Border
  <2>4. Found(x, n, k, g[<<k, 0>>])
    <3>1. k \in i + 1 .. 2 * Capacity /\ 0 \in 0 .. n - 1 /\ k - 0 = k
      BY <1>1, <1>2, <2>1
    <3> QED
      BY <3>1, <2>3
  <2>5. \A j \in i .. k - 1 : Covered(x, j)
    BY <2>1, <1>5 DEF Covered
  <2>6. ASSUME NEW b \in i - r .. k - 1, b <= x.size - n
        PROVE  \E j \in b .. b + n - 1 : Covered(x, j)
    <3>1. CASE b >= i
      BY <1>1, <2>1, <2>5, <3>1
    <3>2. CASE b < i
      BY <1>1, <2>1, <2>5, <3>2
    <3> QED
      BY <3>1, <3>2
  <2> HIDE DEF m
  <2>7. CASE g[<<k, 0>>] = NotFound
    <3>1. \A b \in k .. x.size - n : \E j \in b .. b + n - 1 : Covered(x, j)
      BY <2>4, <2>7, <2>1 DEF Found, NotFound
    <3>2. \A b \in i - r .. x.size - n : \E j \in b .. b + n - 1 : Covered(x, j)
      BY <3>1, <2>6, <2>1, <1>1, <1>2
    <3> QED
      BY <3>2, <2>2, <2>7 DEF Found
  <2>8. CASE g[<<k, 0>>] # NotFound
    BY <2>4, <2>8, <2>2, <2>1, <1>1, <1>2 DEF Found
  <2> QED
    BY <2>7, <2>8
<1> QED
  BY <1>2, <1>3, <1>4, <1>5

\* simplejs_find_free_pool_map returns the start of free blocks that fit, and
\* nothing only if every run of free blocks is too short.
LEMMA FindFreeFinds ==
  ASSUME NEW x \in AnEntry, WellFormed(x), NEW n \in 1 .. MaxRequest
  PROVE  Found(x, n, 0, FindFree(x, n))
<1>1. PICK g : /\ FindFree(x, n) = g[<<0, 0>>]
               /\ \A i \in 0 .. 2 * Capacity, r \in 0 .. Capacity :
                    g[<<i, r>>] = Seek(x, n, g, i, r)
  BY FindFreeIsASearch
<1>2. Capacity \in Nat /\ n \in Nat /\ n > 0 /\ n <= Capacity
  BY CapacityHolds
<1> DEFINE C == 2 * Capacity
           Right(i, r) == Border(x, i) /\ r <= i /\ (\A j \in i - r .. i - 1 : ~Covered(x, j))
                            => Found(x, n, i - r, g[<<i, r>>])
           S == {k \in Nat : \A i \in 0 .. C, r \in 0 .. n - 1 : C - k <= i => Right(i, r)}
<1>3. ASSUME NEW i \in 0 .. C, NEW r \in 0 .. n - 1,
             \A k \in i + 1 .. C, q \in 0 .. n - 1 : Right(k, q)
      PROVE  Right(i, r)
  <2> HIDE DEF Found, Border
  <2>1. g[<<i, r>>] = Seek(x, n, g, i, r)
    BY <1>1, <1>2
  <2> QED
    BY <1>3, <2>1, SeekFinds
<1> HIDE DEF Right
<1>4. 0 \in S
  BY <1>2, <1>3
<1>5. ASSUME NEW k \in Nat, k \in S PROVE k + 1 \in S
  BY <1>2, <1>3, <1>5
<1>6. C \in Nat /\ C \in S
  <2> HIDE DEF S
  <2> QED
    BY <1>2, <1>4, <1>5, NaturalInduction
<1>7. Right(0, 0)
  BY <1>2, <1>6
<1>8. Border(x, 0)
  BY <1>2 DEF Border, Block
<1> QED
  BY <1>1, <1>2, <1>7, <1>8 DEF Right

-----------------------------------------------------------------------------
(* The lists                                                                *)

\* Without, up to the element n of the list.
Rests(E, list, S, n) ==
  {f \in [0 .. n -> Seq(E)] :
     f = [i \in 0 .. n |->
            IF i = 0 THEN <<>>
            ELSE IF list[i] \in S THEN f[i - 1] ELSE Append(f[i - 1], list[i])]}

LEMMA RestsExist ==
  ASSUME NEW E, NEW list \in Seq(E), NEW S
  PROVE  Rests(E, list, S, Len(list)) # {}
<1> DEFINE N == {n \in Nat : n <= Len(list) => Rests(E, list, S, n) # {}}
<1>1. 0 \in N
  <2>1. [i \in 0 .. 0 |-> <<>>] \in Rests(E, list, S, 0)
    BY DEF Rests
  <2> QED
    BY <2>1
<1>2. ASSUME NEW n \in Nat, n \in N PROVE n + 1 \in N
  <2> SUFFICES ASSUME n + 1 <= Len(list) PROVE Rests(E, list, S, n + 1) # {}
    OBVIOUS
  <2>1. PICK f \in Rests(E, list, S, n) : TRUE
    BY <1>2
  <2>2. /\ f \in [0 .. n -> Seq(E)]
        /\ \A i \in 0 .. n :
             f[i] = IF i = 0 THEN <<>>
                    ELSE IF list[i] \in S THEN f[i - 1] ELSE Append(f[i - 1], list[i])
    BY <2>1 DEF Rests
  <2> DEFINE last == IF list[n + 1] \in S THEN f[n] ELSE Append(f[n], list[n + 1])
             g == [i \in 0 .. n + 1 |-> IF i = n + 1 THEN last ELSE f[i]]
  <2>3. last \in Seq(E)
    <3>1. f[n] \in Seq(E) /\ list[n + 1] \in E
      BY <2>2
    <3> QED
      BY <3>1
  <2>4. g \in [0 .. n + 1 -> Seq(E)]
    BY <2>2, <2>3
  <2>5. \A i \in 0 .. n + 1 :
          g[i] = IF i = 0 THEN <<>>
                 ELSE IF list[i] \in S THEN g[i - 1] ELSE Append(g[i - 1], list[i])
    <3> TAKE i \in 0 .. n + 1
    <3>1. CASE i = n + 1
      <4>1. g[i] = last /\ g[i - 1] = f[n] /\ i # 0 /\ i = n + 1
        <5> HIDE DEF last
        <5> QED
          BY <3>1
      <4> HIDE DEF g
      <4>2. last = IF list[i] \in S THEN g[i - 1] ELSE Append(g[i - 1], list[i])
        BY <4>1
      <4> HIDE DEF last
      <4> QED
        BY <4>1, <4>2, Zenon
    <3>2. CASE i \in 0 .. n
      <4>1. g[i] = f[i] /\ (i # 0 => g[i - 1] = f[i - 1])
        <5> HIDE DEF last
        <5> QED
          BY <3>2
      <4> HIDE DEF g, last
      <4> QED
        BY <3>2, <4>1, <2>2, Zenon
    <3> QED
      BY <3>1, <3>2
  <2>6. g \in Rests(E, list, S, n + 1)
    BY <2>4, <2>5 DEF Rests
  <2> QED
    BY <2>6
<1> HIDE DEF N
<1>3. Len(list) \in Nat /\ Len(list) \in N
  BY <1>1, <1>2, NaturalInduction
<1> QED
  BY <1>3 DEF N

Injective(s) == \A i, j \in 1 .. Len(s) : s[i] = s[j] => i = j

\* What is left of a list has the other elements, and each of them once.
LEMMA WithoutFacts ==
  ASSUME NEW E, NEW list \in Seq(E), NEW S
  PROVE  /\ Without(list, S) \in Seq(E)
         /\ ToSet(Without(list, S)) = ToSet(list) \ S
         /\ Injective(list) => Injective(Without(list, S))
<1> DEFINE rest == CHOOSE f : f = [i \in 0 .. Len(list) |->
              IF i = 0 THEN <<>>
              ELSE IF list[i] \in S THEN f[i - 1] ELSE Append(f[i - 1], list[i])]
<1>1. PICK f \in Rests(E, list, S, Len(list)) : TRUE
  BY RestsExist
<1>2. rest = [i \in 0 .. Len(list) |->
                IF i = 0 THEN <<>>
                ELSE IF list[i] \in S THEN rest[i - 1] ELSE Append(rest[i - 1], list[i])]
  BY <1>1 DEF Rests
<1>0. /\ rest[0] = <<>>
      /\ \A i \in 1 .. Len(list) :
           /\ list[i] \in S => rest[i] = rest[i - 1]
           /\ list[i] \notin S => rest[i] = Append(rest[i - 1], list[i])
  <2>1. \A i \in 0 .. Len(list) :
          rest[i] = IF i = 0 THEN <<>>
                    ELSE IF list[i] \in S THEN rest[i - 1] ELSE Append(rest[i - 1], list[i])
    BY <1>2, Zenon
  <2>2. 0 \in 0 .. Len(list) /\ \A i \in 1 .. Len(list) : i # 0 /\ i \in 0 .. Len(list)
    OBVIOUS
  <2> QED
    BY <2>1, <2>2, Zenon
<1>3. Without(list, S) = rest[Len(list)]
  BY DEF Without
<1> HIDE DEF rest
<1> DEFINE Elements(s) == {s[k] : k \in 1 .. Len(s)}
<1> HIDE DEF Elements
<1> DEFINE N == {n \in Nat : n <= Len(list) =>
                   /\ rest[n] \in Seq(E)
                   /\ Elements(rest[n]) = {list[k] : k \in 1 .. n} \ S
                   /\ Injective(list) => Injective(rest[n])}
<1>4. 0 \in N
  <2>1. rest[0] = <<>> /\ {list[k] : k \in 1 .. 0} = {}
    BY <1>0
  <2>2. Len(<<>>) = 0 /\ <<>> \in Seq(E)
    OBVIOUS
  <2>3. Elements(<<>>) = {} /\ Injective(<<>>)
    BY <2>2 DEF Elements, Injective
  <2> QED
    BY <2>1, <2>2, <2>3
<1>5. ASSUME NEW n \in Nat, n \in N PROVE n + 1 \in N
  <2> SUFFICES ASSUME n + 1 <= Len(list)
               PROVE  /\ rest[n + 1] \in Seq(E)
                      /\ Elements(rest[n + 1]) = {list[k] : k \in 1 .. n + 1} \ S
                      /\ Injective(list) => Injective(rest[n + 1])
    OBVIOUS
  <2>1. /\ rest[n] \in Seq(E)
        /\ Elements(rest[n]) = {list[k] : k \in 1 .. n} \ S
        /\ Injective(list) => Injective(rest[n])
    BY <1>5
  <2>2. list[n + 1] \in E
    OBVIOUS
  <2>3. {list[k] : k \in 1 .. n + 1} = {list[k] : k \in 1 .. n} \union {list[n + 1]}
    OBVIOUS
  <2>4. CASE list[n + 1] \in S
    <3>1. rest[n + 1] = rest[n]
      <4>1. n + 1 \in 1 .. Len(list) /\ (n + 1) - 1 = n
        OBVIOUS
      <4> QED
        BY <1>0, <2>4, <4>1
    <3> QED
      BY <3>1, <2>1, <2>3, <2>4
  <2>5. CASE list[n + 1] \notin S
    <3> DEFINE r == rest[n]
               e == list[n + 1]
               t == Append(r, e)
    <3>1. rest[n + 1] = t
      BY <1>2, <2>5
    <3> HIDE DEF r
    <3>2. /\ t \in Seq(E) /\ Len(t) = Len(r) + 1 /\ Len(r) \in Nat
          /\ t[Len(r) + 1] = e /\ \A k \in 1 .. Len(r) : t[k] = r[k]
      BY <2>1, <2>2 DEF r
    <3>3. Elements(t) = Elements(r) \union {e}
      BY <3>2 DEF Elements
    <3>4. Elements(t) = {list[k] : k \in 1 .. n + 1} \ S
      BY <2>1, <2>3, <2>5, <3>3 DEF r
    <3>5. ASSUME Injective(list) PROVE Injective(t)
      <4>1. Injective(r)
        BY <2>1, <3>5 DEF r
      <4>2. \A k \in 1 .. Len(r) : r[k] # e
        <5>1. ASSUME NEW k \in 1 .. Len(r), r[k] = e PROVE FALSE
          <6>1. e \in {list[j] : j \in 1 .. n}
            BY <2>1, <5>1 DEF r, Elements
          <6>2. PICK j \in 1 .. n : list[j] = list[n + 1]
            BY <6>1
          <6> QED
            BY <6>2, <3>5 DEF Injective
        <5> QED
          BY <5>1
      <4> QED
        BY <3>2, <4>1, <4>2 DEF Injective
    <3> QED
      BY <3>1, <3>2, <3>4, <3>5
  <2> QED
    BY <2>4, <2>5
<1> HIDE DEF N
<1>6. Len(list) \in Nat /\ Len(list) \in N
  BY <1>4, <1>5, NaturalInduction
<1>7. \A s \in Seq(E) : ToSet(s) = Elements(s)
  BY DEF ToSet, Elements
<1>8. Elements(list) = {list[k] : k \in 1 .. Len(list)}
  BY DEF Elements
<1>9. /\ rest[Len(list)] \in Seq(E)
      /\ Elements(rest[Len(list)]) = Elements(list) \ S
      /\ Injective(list) => Injective(rest[Len(list)])
  BY <1>6, <1>8 DEF N
<1> QED
  BY <1>3, <1>7, <1>9

\* Two lists side by side have each element once, if each of them has and no
\* element is in both.
LEMMA InjectiveConcat ==
  ASSUME NEW E, NEW s \in Seq(E), NEW t \in Seq(E)
  PROVE  IsInjective(s \o t) <=>
           Injective(s) /\ Injective(t) /\ ToSet(s) \cap ToSet(t) = {}
<1>1. /\ s \o t \in Seq(E) /\ Len(s) \in Nat /\ Len(t) \in Nat
      /\ Len(s \o t) = Len(s) + Len(t)
      /\ \A i \in 1 .. Len(s) : (s \o t)[i] = s[i]
      /\ \A i \in 1 .. Len(t) : (s \o t)[Len(s) + i] = t[i]
  OBVIOUS
<1> DEFINE u == s \o t
<1>2. DOMAIN u = 1 .. Len(s) + Len(t)
  BY <1>1
<1> HIDE DEF u
<1>3. ASSUME IsInjective(u) PROVE Injective(s) /\ Injective(t) /\ ToSet(s) \cap ToSet(t) = {}
  <2>1. Injective(s)
    BY <1>1, <1>2, <1>3 DEF Injective, IsInjective, u
  <2>2. Injective(t)
    <3> SUFFICES ASSUME NEW i \in 1 .. Len(t), NEW j \in 1 .. Len(t), t[i] = t[j]
                 PROVE  i = j
      BY DEF Injective
    <3>1. Len(s) + i \in DOMAIN u /\ Len(s) + j \in DOMAIN u /\ u[Len(s) + i] = u[Len(s) + j]
      BY <1>1, <1>2 DEF u
    <3>2. Len(s) + i = Len(s) + j
      BY <3>1, <1>3 DEF IsInjective
    <3> QED
      BY <3>2, <1>1
  <2>3. ASSUME NEW e \in ToSet(s) \cap ToSet(t) PROVE FALSE
    <3>1. PICK i \in 1 .. Len(s), j \in 1 .. Len(t) : s[i] = t[j]
      BY DEF ToSet
    <3>2. i \in DOMAIN u /\ Len(s) + j \in DOMAIN u /\ u[i] = u[Len(s) + j]
      BY <3>1, <1>1, <1>2 DEF u
    <3>3. i = Len(s) + j
      BY <3>2, <1>3 DEF IsInjective
    <3> QED
      BY <3>3, <1>1
  <2> QED
    BY <2>1, <2>2, <2>3
<1>4. ASSUME Injective(s), Injective(t), ToSet(s) \cap ToSet(t) = {}
      PROVE  IsInjective(u)
  <2> SUFFICES ASSUME NEW i \in 1 .. Len(s) + Len(t), NEW j \in 1 .. Len(s) + Len(t), u[i] = u[j]
               PROVE  i = j
    BY <1>2 DEF IsInjective
  <2>1. \A k \in 1 .. Len(s) + Len(t) :
          \/ k \in 1 .. Len(s) /\ u[k] = s[k]
          \/ k - Len(s) \in 1 .. Len(t) /\ u[k] = t[k - Len(s)]
    <3> TAKE k \in 1 .. Len(s) + Len(t)
    <3>1. CASE k <= Len(s)
      BY <3>1, <1>1 DEF u
    <3>2. CASE k > Len(s)
      <4>1. k - Len(s) \in 1 .. Len(t) /\ Len(s) + (k - Len(s)) = k
        BY <3>2, <1>1
      <4> QED
        BY <4>1, <1>1 DEF u
    <3> QED
      BY <3>1, <3>2, <1>1
  <2>2. \A k \in 1 .. Len(s), l \in 1 .. Len(t) : s[k] # t[l]
    <3> TAKE k \in 1 .. Len(s), l \in 1 .. Len(t)
    <3>1. s[k] \in ToSet(s) /\ t[l] \in ToSet(t)
      BY DEF ToSet
    <3> QED
      BY <3>1, <1>4
  <2>3. CASE i \in 1 .. Len(s) /\ u[i] = s[i] /\ j \in 1 .. Len(s) /\ u[j] = s[j]
    BY <2>3, <1>4 DEF Injective
  <2>4. CASE i - Len(s) \in 1 .. Len(t) /\ u[i] = t[i - Len(s)]
             /\ j - Len(s) \in 1 .. Len(t) /\ u[j] = t[j - Len(s)]
    <3>1. i - Len(s) = j - Len(s)
      BY <2>4, <1>4 DEF Injective
    <3> QED
      BY <3>1, <1>1
  <2> QED
    BY <2>1, <2>2, <2>3, <2>4
<1> QED
  BY <1>3, <1>4 DEF u

-----------------------------------------------------------------------------
(* An entry and its allocations                                             *)

AnAllocation(e) == [entry : {e}, start : Block, size : 1 .. MaxRequest]

\* Of two allocations in an entry, one ends before the other starts.
Apart(a, b) == a.start + a.size <= b.start \/ b.start + b.size <= a.start

Units(A) == UNION {Blocks(a) : a \in A}

\* The entry e, if it is x, says that A are its allocations.
Consistent(e, x, A) ==
  /\ x \in AnEntry
  /\ A \subseteq AnAllocation(e)
  /\ \A b \in Block : x.map[b] # 0 => [entry |-> e, start |-> b, size |-> x.map[b]] \in A
  /\ \A a \in A : /\ x.map[a.start] = a.size
                  /\ a.start + a.size <= x.size
                  /\ a.start <= x.highest
  /\ \A a, b \in A : a # b => Apart(a, b)
  /\ x.used = Cardinality(Units(A))
  /\ A # {} => \E a \in A : a.start = x.highest

LEMMA AllocationType ==
  ASSUME NEW e, NEW a \in AnAllocation(e)
  PROVE  /\ a.entry = e /\ a.start \in Block /\ a.start \in Nat
         /\ a.size \in 1 .. MaxRequest /\ a.size \in Nat
         /\ a = [entry |-> e, start |-> a.start, size |-> a.size]
  BY PoolAssumption, CapacityHolds DEF AnAllocation, Block

LEMMA EntryType ==
  ASSUME NEW x \in AnEntry
  PROVE  /\ x.size \in Nat /\ x.size <= Capacity /\ x.used \in Nat
         /\ x.highest \in Block /\ x.highest \in Nat
         /\ \A b \in Block : x.map[b] \in Nat /\ x.map[b] <= Capacity /\ b \in Nat /\ b < Capacity
  BY CapacityHolds DEF AnEntry, Block

LEMMA ConsistentIsWellFormed ==
  ASSUME NEW e, NEW x, NEW A, Consistent(e, x, A)
  PROVE  WellFormed(x)
<1> SUFFICES ASSUME NEW b \in Block, x.map[b] # 0
             PROVE  /\ b + x.map[b] <= x.size
                    /\ \A c \in b + 1 .. b + x.map[b] - 1 : x.map[c] = 0
  BY DEF WellFormed
<1> DEFINE a == [entry |-> e, start |-> b, size |-> x.map[b]]
<1>1. a \in A /\ a.start = b /\ a.size = x.map[b]
  BY DEF Consistent
<1>2. b + x.map[b] <= x.size
  BY <1>1 DEF Consistent
<1>3. ASSUME NEW c \in b + 1 .. b + x.map[b] - 1, x.map[c] # 0
      PROVE  FALSE
  <2>1. c \in Block /\ x.map[c] \in Nat /\ b \in Nat /\ c \in Nat /\ x.map[b] \in Nat
    <3>1. c \in Block
      BY <1>2, EntryType, CapacityHolds DEF Consistent, Block
    <3> QED
      BY <3>1, EntryType DEF Consistent
  <2> DEFINE d == [entry |-> e, start |-> c, size |-> x.map[c]]
  <2>2. d \in A /\ d.start = c /\ d.size = x.map[c]
    BY <1>3, <2>1 DEF Consistent
  <2>3. a # d
    BY <1>1, <2>1, <2>2
  <2> HIDE DEF a, d
  <2>4. Apart(a, d)
    BY <1>1, <2>2, <2>3 DEF Consistent
  <2> QED
    BY <1>1, <1>3, <2>1, <2>2, <2>4 DEF Apart
<1> QED
  BY <1>2, <1>3

\* Where the map says that a block is in use, an allocation has it.
LEMMA CoveredIsAllocated ==
  ASSUME NEW e, NEW x, NEW A, Consistent(e, x, A), NEW i
  PROVE  Covered(x, i) <=> i \in Units(A)
<1>1. ASSUME Covered(x, i) PROVE i \in Units(A)
  <2>1. PICK b \in Block : x.map[b] # 0 /\ i \in b .. b + x.map[b] - 1
    BY <1>1 DEF Covered
  <2> DEFINE a == [entry |-> e, start |-> b, size |-> x.map[b]]
  <2>2. a \in A
    BY <2>1 DEF Consistent
  <2>3. i \in Blocks(a)
    BY <2>1 DEF Blocks
  <2> QED
    BY <2>2, <2>3 DEF Units
<1>2. ASSUME i \in Units(A) PROVE Covered(x, i)
  <2>1. PICK a \in A : i \in Blocks(a)
    BY <1>2 DEF Units
  <2>2. a.start \in Block /\ a.size \in Nat /\ a.size > 0 /\ x.map[a.start] = a.size
    BY AllocationType DEF Consistent
  <2> QED
    BY <2>1, <2>2 DEF Covered, Blocks
<1> QED
  BY <1>1, <1>2

\* The blocks of one more allocation, apart from the others, count as many as
\* it has.
LEMMA UnitsAdd ==
  ASSUME NEW e, NEW A \in SUBSET AnAllocation(e), NEW a \in AnAllocation(e),
         \A b \in A : Apart(a, b)
  PROVE  /\ IsFiniteSet(Units(A)) /\ Cardinality(Units(A)) \in Nat
         /\ Cardinality(Units(A \union {a})) = Cardinality(Units(A)) + a.size
         /\ Blocks(a) \cap Units(A) = {}
<1>1. IsFiniteSet(Units(A)) /\ Cardinality(Units(A)) \in Nat
  <2> DEFINE All == 0 .. 2 * Capacity
  <2>1. IsFiniteSet(All)
    BY FS_Interval, CapacityHolds
  <2>2. Units(A) \subseteq All
    <3> SUFFICES ASSUME NEW b \in A, NEW i \in Blocks(b) PROVE i \in All
      BY DEF Units
    <3>1. b.start \in Nat /\ b.start < Capacity /\ b.size \in Nat /\ b.size <= Capacity
      BY AllocationType, CapacityHolds DEF Block
    <3> QED
      BY <3>1, CapacityHolds DEF Blocks
  <2>3. IsFiniteSet(Units(A))
    BY <2>1, <2>2, FS_Subset
  <2> QED
    BY <2>3, FS_CardinalityType
<1>2. a.start \in Nat /\ a.size \in Nat /\ a.size > 0
  BY AllocationType
<1>3. IsFiniteSet(Blocks(a)) /\ Cardinality(Blocks(a)) = a.size
  <2> DEFINE last == a.start + a.size - 1
  <2>1. a.start \in Int /\ last \in Int /\ ~(a.start > last) /\ last - a.start + 1 = a.size
    BY <1>2
  <2>2. Blocks(a) = a.start .. last
    BY DEF Blocks
  <2> HIDE DEF last
  <2> QED
    BY <2>1, <2>2, FS_Interval
<1>4. Blocks(a) \cap Units(A) = {}
  <2> SUFFICES ASSUME NEW b \in A, NEW i \in Blocks(a), i \in Blocks(b) PROVE FALSE
    BY DEF Units
  <2>1. b.start \in Nat /\ b.size \in Nat /\ Apart(a, b)
    BY AllocationType
  <2> QED
    BY <1>2, <2>1 DEF Blocks, Apart
<1>5. Units(A \union {a}) = Units(A) \union Blocks(a)
  BY DEF Units
<1>6. Cardinality(Units(A) \union Blocks(a))
        = Cardinality(Units(A)) + a.size - Cardinality(Units(A) \cap Blocks(a))
  BY <1>1, <1>3, FS_Union
<1>7. Cardinality(Units(A) \cap Blocks(a)) = 0
  <2>1. Units(A) \cap Blocks(a) = {}
    BY <1>4
  <2> QED
    BY <2>1, FS_EmptySet
<1>8. Cardinality(Units(A \union {a})) = Cardinality(Units(A)) + a.size
  <2> DEFINE c == Cardinality(Units(A))
  <2>1. c + a.size - 0 = c + a.size
    BY <1>1, <1>2
  <2> QED
    BY <2>1, <1>5, <1>6, <1>7, Zenon
<1> QED
  BY <1>1, <1>4, <1>8

LEMMA EmptyIsConsistent ==
  ASSUME NEW e, NEW size \in 0 .. Capacity
  PROVE  Consistent(e, NewEntry(size), {}) /\ NewEntry(0) = NoEntry
<1>1. Units({}) = {} /\ Cardinality(Units({})) = 0
  BY FS_EmptySet DEF Units
<1>2. NewEntry(size) \in AnEntry
  BY CapacityHolds DEF NewEntry, NoEntry, AnEntry, Block
<1> QED
  BY <1>1, <1>2 DEF Consistent, NewEntry, NoEntry

\* An allocation placed where the search says shares no block with another.
LEMMA PlaceConsistent ==
  ASSUME NEW e \in Entries, NEW x, NEW A, Consistent(e, x, A),
         NEW n \in 1 .. MaxRequest, FindFree(x, n) # NotFound,
         A = {} => x.highest = 0
  PROVE  LET a == [entry |-> e, start |-> FindFree(x, n), size |-> n]
         IN a \in AnAllocation(e) /\ (\A c \in A : Apart(a, c))
              /\ Consistent(e, Place(x, n), A \union {a})
<1> DEFINE b == FindFree(x, n)
           a == [entry |-> e, start |-> b, size |-> n]
           y == Place(x, n)
<1>1. /\ x \in AnEntry /\ A \subseteq AnAllocation(e)
      /\ n \in Nat /\ n > 0 /\ n <= Capacity /\ Capacity \in Nat
  BY CapacityHolds, PoolAssumption DEF Consistent
<1>2. b \in 0 .. x.size - n /\ \A i \in b .. b + n - 1 : ~Covered(x, i)
  <2>1. Found(x, n, 0, b)
    BY <1>1, ConsistentIsWellFormed, FindFreeFinds
  <2> QED
    BY <2>1 DEF Found
<1> HIDE DEF b
<1>3. b \in Block /\ b \in Nat /\ b + n <= x.size
  BY <1>1, <1>2, EntryType DEF Block
<1>4. a \in AnAllocation(e)
  BY <1>3 DEF AnAllocation
<1>5. \A c \in A : Apart(a, c)
  <2> SUFFICES ASSUME NEW c \in A, ~Apart(a, c) PROVE FALSE
    OBVIOUS
  <2>1. c.start \in Nat /\ c.size \in Nat /\ c.size > 0
    BY <1>1, AllocationType
  <2>2. c.start < b + n /\ b < c.start + c.size
    BY <1>1, <1>3, <2>1 DEF Apart
  <2>3. \E i \in b .. b + n - 1 : i \in Blocks(c)
    <3>1. CASE b <= c.start
      BY <1>1, <1>3, <2>1, <2>2, <3>1 DEF Blocks
    <3>2. CASE c.start < b
      BY <1>1, <1>3, <2>1, <2>2, <3>2 DEF Blocks
    <3> QED
      BY <1>3, <2>1, <3>1, <3>2
  <2> QED
    BY <2>3, <1>2, CoveredIsAllocated DEF Units
<1>6. /\ y.size = x.size /\ y.used = x.used + n
      /\ y.highest = IF x.highest < b THEN b ELSE x.highest
      /\ y.map = [x.map EXCEPT ![b] = n]
      /\ y \in AnEntry
  <2>1. y = [x EXCEPT !.map[b] = n, !.used = @ + n, !.highest = IF @ < b THEN b ELSE @]
    BY DEF Place, b
  <2>2. /\ y.size = x.size /\ y.used = x.used + n
        /\ y.highest = IF x.highest < b THEN b ELSE x.highest
        /\ y.map = [x.map EXCEPT ![b] = n]
    BY <1>1, <2>1 DEF AnEntry
  <2>3. y = [size |-> y.size, used |-> y.used, highest |-> y.highest, map |-> y.map]
    BY <1>1, <2>1 DEF AnEntry
  <2> HIDE DEF y
  <2>4. y.size \in 0 .. Capacity /\ y.used \in Nat /\ y.highest \in Block
    BY <1>1, <1>3, <2>2, EntryType DEF AnEntry
  <2>5. y.map \in [Block -> 0 .. Capacity]
    BY <1>1, <1>3, <2>2 DEF AnEntry
  <2>6. y \in AnEntry
    BY <2>3, <2>4, <2>5 DEF AnEntry
  <2> QED
    BY <2>2, <2>6
<1>7. x.map \in [Block -> 0 .. Capacity] /\ x.highest \in Block /\ x.highest \in Nat
  BY <1>1, EntryType DEF AnEntry
<1>8. \A c \in Block : y.map[c] # 0 => [entry |-> e, start |-> c, size |-> y.map[c]] \in A \union {a}
  <2> TAKE c \in Block
  <2>1. CASE c = b
    BY <2>1, <1>6, <1>7
  <2>2. CASE c # b
    BY <2>2, <1>6, <1>7 DEF Consistent
  <2> QED
    BY <2>1, <2>2
<1>9. \A c \in A \union {a} : /\ y.map[c.start] = c.size
                              /\ c.start + c.size <= y.size
                              /\ c.start <= y.highest
  <2> TAKE c \in A \union {a}
  <2>1. CASE c = a
    BY <2>1, <1>3, <1>6, <1>7
  <2>2. CASE c \in A
    <3>1. c.start \in Block /\ c.start \in Nat /\ c.size \in Nat /\ c.size > 0 /\ Apart(a, c)
      BY <2>2, <1>1, <1>5, AllocationType
    <3>2. c.start # b
      BY <3>1, <1>1, <1>3 DEF Apart
    <3> HIDE DEF a, y
    <3>3. x.map[c.start] = c.size /\ c.start + c.size <= x.size /\ c.start <= x.highest
      BY <2>2 DEF Consistent
    <3> QED
      BY <3>1, <3>2, <3>3, <1>3, <1>6, <1>7
  <2> QED
    BY <2>1, <2>2
<1>10. \A c, d \in A \union {a} : c # d => Apart(c, d)
  BY <1>5 DEF Consistent, Apart
<1>11. y.used = Cardinality(Units(A \union {a}))
  <2>1. Cardinality(Units(A \union {a})) = Cardinality(Units(A)) + a.size
    BY <1>1, <1>4, <1>5, UnitsAdd
  <2> QED
    BY <2>1, <1>6 DEF Consistent
<1>12. \E c \in A \union {a} : c.start = y.highest
  <2>1. a \in A \union {a} /\ a.start = b
    OBVIOUS
  <2> HIDE DEF y
  <2>2. CASE x.highest < b \/ A = {}
    <3>1. y.highest = b
      BY <2>2, <1>3, <1>6
    <3> QED
      BY <2>1, <3>1
  <2>3. CASE ~(x.highest < b) /\ A # {}
    <3>1. PICK c \in A : c.start = x.highest
      BY <2>3 DEF Consistent
    <3> QED
      BY <2>3, <3>1, <1>6
  <2> QED
    BY <2>2, <2>3
<1>13. A \union {a} \subseteq AnAllocation(e)
  BY <1>1, <1>4
<1> HIDE DEF a, y
<1>14. Consistent(e, y, A \union {a})
  BY <1>6, <1>8, <1>9, <1>10, <1>11, <1>12, <1>13 DEF Consistent
<1> QED
  BY <1>4, <1>5, <1>14 DEF a, b, y

\* What simplejs_pool_mfree makes of the entry.
Freed(x, b) ==
  [x EXCEPT !.highest = Lowered(x, b),
            !.used = IF x.used <= x.map[b] THEN 0 ELSE @ - x.map[b],
            !.map[b] = 0]

\* The mark goes to the last of the other allocations, or to the first block.
LEMMA LoweredMarksTheLast ==
  ASSUME NEW e, NEW x, NEW A, Consistent(e, x, A), NEW a \in A
  PROVE  LET m == Lowered(x, a.start)
         IN /\ m \in Block
            /\ \A c \in A \ {a} : c.start <= m
            /\ A \ {a} # {} => \E c \in A \ {a} : c.start = m
            /\ A \ {a} = {} => m = 0
<1> DEFINE b == a.start
           m == Lowered(x, b)
<1>1. x \in AnEntry /\ \A c \in A : /\ c.start \in Block /\ c.start \in Nat
                                    /\ c.size \in Nat /\ c.size > 0
                                    /\ x.map[c.start] = c.size /\ c.start <= x.highest
  BY AllocationType DEF Consistent
<1>2. \A c \in A \ {a} : c.start # b
  BY <1>1 DEF Consistent, Apart
<1>3. CASE b # x.highest
  <2>1. m = x.highest /\ m \in Block
    BY <1>1, <1>3, EntryType DEF Lowered
  <2>2. PICK c \in A : c.start = x.highest
    BY DEF Consistent
  <2>3. c \in A \ {a}
    BY <1>3, <2>2
  <2> QED
    BY <1>1, <2>1, <2>2, <2>3
<1>4. CASE b = x.highest
  <2> DEFINE below == {i \in 0 .. b - 1 : x.map[i] # 0} \union {0}
  <2>1. below \subseteq 0 .. b /\ below # {} /\ b \in Nat /\ b \in Block
    BY <1>1
  <2>2. m = CHOOSE i \in below : \A j \in below : j <= i
    BY <1>4 DEF Lowered
  <2>3. m \in below /\ \A j \in below : j <= m
    <3> HIDE DEF below, m
    <3>1. \E i \in below : \A j \in below : j <= i
      BY <2>1, GreatestNumber
    <3> QED
      BY <2>2, <3>1
  <2> HIDE DEF m
  <2>4. m \in Block
    <3> HIDE DEF below
    <3>1. m \in 0 .. b /\ b < Capacity
      BY <1>1, <2>1, <2>3, EntryType
    <3> QED
      BY <2>1, <3>1, CapacityHolds DEF Block
  <2>5. ASSUME NEW c \in A \ {a} PROVE c.start <= m
    <3>1. c.start \in 0 .. b - 1 /\ x.map[c.start] # 0
      BY <1>1, <1>2, <1>4, <2>1
    <3> QED
      BY <2>3, <3>1
  <2>6. x.map[m] # 0 /\ m < b => \E c \in A \ {a} : c.start = m
    <3> SUFFICES ASSUME x.map[m] # 0, m < b PROVE \E c \in A \ {a} : c.start = m
      OBVIOUS
    <3> DEFINE c == [entry |-> e, start |-> m, size |-> x.map[m]]
    <3>1. c \in A /\ c.start = m
      BY <2>4 DEF Consistent
    <3>2. c # a
      BY <3>1, <2>1, <2>3
    <3> QED
      BY <3>1, <3>2
  <2>7. \/ x.map[m] # 0 /\ m < b
        \/ m = 0
    BY <2>1, <2>3
  <2>8. ASSUME A \ {a} # {}, m = 0 PROVE \E c \in A \ {a} : c.start = m
    <3>1. PICK c \in A \ {a} : TRUE
      BY <2>8
    <3>2. c.start <= 0 /\ c.start \in Nat
      BY <1>1, <2>5, <2>8
    <3> QED
      BY <2>8, <3>2
  <2> QED
    BY <2>3, <2>4, <2>5, <2>6, <2>7, <2>8 DEF m
<1> QED
  BY <1>3, <1>4

\* An allocation that is freed leaves the entry with the others, and empty if
\* there are no more blocks in use than it had.
LEMMA FreedConsistent ==
  ASSUME NEW e, NEW x, NEW A, Consistent(e, x, A), NEW a \in A
  PROVE  /\ Consistent(e, Freed(x, a.start), A \ {a})
         /\ x.used <= x.map[a.start] <=> A \ {a} = {}
         /\ A \ {a} = {} => Freed(x, a.start).highest = 0
<1> DEFINE b == a.start
           B == A \ {a}
           m == Lowered(x, b)
           y == Freed(x, b)
<1>1. /\ x \in AnEntry /\ A \subseteq AnAllocation(e) /\ B \in SUBSET AnAllocation(e)
      /\ a \in AnAllocation(e)
      /\ \A c \in A : /\ c.start \in Block /\ c.start \in Nat
                      /\ c.size \in Nat /\ c.size > 0
                      /\ x.map[c.start] = c.size /\ c.start <= x.highest
  BY AllocationType DEF Consistent
<1>2. \A c \in B : Apart(a, c) /\ c.start # b
  BY <1>1 DEF Consistent, Apart
<1>3. /\ m \in Block
      /\ \A c \in B : c.start <= m
      /\ B # {} => \E c \in B : c.start = m
      /\ B = {} => m = 0
  BY LoweredMarksTheLast
<1>4. /\ IsFiniteSet(Units(B)) /\ Cardinality(Units(B)) \in Nat
      /\ x.used = Cardinality(Units(B)) + a.size
  <2>1. B \union {a} = A
    OBVIOUS
  <2>2. Cardinality(Units(B \union {a})) = Cardinality(Units(B)) + a.size
        /\ IsFiniteSet(Units(B)) /\ Cardinality(Units(B)) \in Nat
    <3> HIDE DEF B
    <3> QED
      BY <1>1, <1>2, UnitsAdd
  <2> QED
    BY <2>1, <2>2 DEF Consistent
<1>5. Cardinality(Units(B)) = 0 <=> B = {}
  <2>1. B # {} => Units(B) # {}
    <3> SUFFICES ASSUME NEW c \in B PROVE Units(B) # {}
      OBVIOUS
    <3>1. c.start \in Blocks(c)
      BY <1>1 DEF Blocks
    <3> QED
      BY <3>1 DEF Units
  <2>2. B = {} => Units(B) = {}
    BY DEF Units
  <2> QED
    BY <2>1, <2>2, <1>4, FS_EmptySet
<1>6. x.used <= x.map[b] <=> B = {}
  BY <1>1, <1>4, <1>5
<1> HIDE DEF m
<1>7. /\ y.size = x.size /\ y.highest = m
      /\ y.used = IF x.used <= x.map[b] THEN 0 ELSE x.used - x.map[b]
      /\ y.map = [x.map EXCEPT ![b] = 0]
      /\ y = [size |-> y.size, used |-> y.used, highest |-> y.highest, map |-> y.map]
  <2>1. y = [x EXCEPT !.highest = m,
                      !.used = IF x.used <= x.map[b] THEN 0 ELSE @ - x.map[b],
                      !.map[b] = 0]
    BY DEF Freed, m
  <2> HIDE DEF y
  <2> QED
    BY <1>1, <2>1 DEF AnEntry
<1> HIDE DEF y, B
<1>8. y.used = Cardinality(Units(B))
  BY <1>1, <1>4, <1>5, <1>6, <1>7
<1>9. y \in AnEntry
  <2>1. y.map \in [Block -> 0 .. Capacity]
    BY <1>1, <1>7, CapacityHolds DEF AnEntry
  <2>2. y.size \in 0 .. Capacity /\ y.used \in Nat /\ y.highest \in Block
    BY <1>1, <1>3, <1>4, <1>7, <1>8 DEF AnEntry
  <2> QED
    BY <1>7, <2>1, <2>2 DEF AnEntry
<1>10. x.map \in [Block -> 0 .. Capacity] /\ b \in Block
  BY <1>1 DEF AnEntry
<1>11. \A c \in Block : y.map[c] # 0 => [entry |-> e, start |-> c, size |-> y.map[c]] \in B
  <2> SUFFICES ASSUME NEW c \in Block, y.map[c] # 0
               PROVE  [entry |-> e, start |-> c, size |-> y.map[c]] \in B
    OBVIOUS
  <2>1. c # b /\ y.map[c] = x.map[c]
    BY <1>7, <1>10
  <2> QED
    BY <2>1 DEF Consistent, B
<1>12. \A c \in B : /\ y.map[c.start] = c.size
                    /\ c.start + c.size <= y.size
                    /\ c.start <= y.highest
  BY <1>1, <1>2, <1>3, <1>7, <1>10 DEF Consistent, B
<1>13. \A c, d \in B : c # d => Apart(c, d)
  BY DEF Consistent, B
<1>14. Consistent(e, y, B)
  BY <1>1, <1>3, <1>7, <1>8, <1>9, <1>11, <1>12, <1>13 DEF Consistent
<1> QED
  BY <1>3, <1>6, <1>7, <1>14 DEF y, B

\* Cutting the pages behind the last allocation cuts no allocation.
LEMMA ShrunkConsistent ==
  ASSUME NEW e, NEW x, NEW A, Consistent(e, x, A), A # {}
  PROVE  Consistent(e, Shrunk(x), A) /\ Shrunk(x).highest = x.highest
<1> DEFINE end == EndOfUse(x)
           size == AlignToPage(end)
           y == [x EXCEPT !.size = size]
<1>1. /\ x \in AnEntry
      /\ \A c \in A : /\ c.start \in Nat /\ c.size \in Nat /\ c.size > 0
                      /\ x.map[c.start] = c.size /\ c.start <= x.highest
  BY AllocationType DEF Consistent
<1>2. PICK c \in A : c.start = x.highest
  BY DEF Consistent
<1>3. end = c.start + c.size
  BY <1>1, <1>2 DEF EndOfUse
<1>4. size \in Nat /\ end <= size
  BY <1>1, <1>3, PagesHold
<1>5. \A d \in A : d.start + d.size <= size
  <2> TAKE d \in A
  <2>1. d.start + d.size <= end
    <3>1. CASE d = c
      BY <3>1, <1>1, <1>3
    <3>2. CASE d # c
      <4>1. Apart(d, c)
        BY <3>2 DEF Consistent
      <4> QED
        BY <4>1, <1>1, <1>2, <1>3 DEF Apart
    <3> QED
      BY <3>1, <3>2
  <2> HIDE DEF size, end
  <2> QED
    BY <2>1, <1>1, <1>3, <1>4
<1> HIDE DEF size
<1>6. CASE 0 < size /\ size < x.size
  <2>1. Shrunk(x) = y
    BY <1>6 DEF Shrunk, size
  <2>2. /\ y.size = size /\ y.used = x.used /\ y.highest = x.highest /\ y.map = x.map
        /\ y = [size |-> size, used |-> x.used, highest |-> x.highest, map |-> x.map]
    BY <1>1 DEF AnEntry
  <2>3. y \in AnEntry
    <3>1. size \in 0 .. Capacity
      BY <1>1, <1>4, <1>6, EntryType, CapacityHolds
    <3> QED
      BY <1>1, <2>2, <3>1 DEF AnEntry
  <2> HIDE DEF y
  <2>4. Consistent(e, y, A)
    BY <1>5, <2>2, <2>3 DEF Consistent
  <2> QED
    BY <2>1, <2>2, <2>4
<1>7. CASE ~(0 < size /\ size < x.size)
  <2>1. Shrunk(x) = x
    BY <1>7 DEF Shrunk, size
  <2> QED
    BY <2>1
<1> QED
  BY <1>6, <1>7

\* An element that is not in a list is put at its end.
LEMMA AppendFacts ==
  ASSUME NEW E, NEW s \in Seq(E), NEW e \in E
  PROVE  /\ Append(s, e) \in Seq(E)
         /\ ToSet(Append(s, e)) = ToSet(s) \union {e}
         /\ Injective(s) /\ e \notin ToSet(s) => Injective(Append(s, e))
<1> DEFINE t == Append(s, e)
<1>1. /\ t \in Seq(E) /\ Len(s) \in Nat /\ Len(t) = Len(s) + 1
      /\ t[Len(s) + 1] = e /\ \A i \in 1 .. Len(s) : t[i] = s[i]
  OBVIOUS
<1> HIDE DEF t
<1>2. \A u \in Seq(E) : ToSet(u) = {u[i] : i \in 1 .. Len(u)}
  BY DEF ToSet
<1>3. ToSet(t) = ToSet(s) \union {e}
  BY <1>1, <1>2
<1>4. ASSUME Injective(s), e \notin ToSet(s) PROVE Injective(t)
  <2>1. \A i \in 1 .. Len(s) : s[i] # e
    BY <1>2, <1>4
  <2> QED
    BY <1>1, <1>4, <2>1 DEF Injective
<1> QED
  BY <1>1, <1>3, <1>4 DEF t

-----------------------------------------------------------------------------
(* The inductive invariant                                                  *)

TypeOK ==
  /\ used \in Seq(Entries) /\ free \in Seq(Entries)
  /\ entry \in [Entries -> AnEntry]
  /\ alive \subseteq [entry : Entries, start : Block, size : 1 .. MaxRequest]

\* Every entry says which allocations it has, those that have some are the used
\* ones, and where nothing is allocated the mark is back at the first block.
IInv ==
  /\ TypeOK
  /\ Injective(used) /\ Injective(free) /\ ToSet(used) \cap ToSet(free) = {}
  /\ \A e \in Entries : /\ Consistent(e, entry[e], In(e))
                        /\ e \in ToSet(used) <=> In(e) # {}
                        /\ In(e) = {} => entry[e].highest = 0

LEMMA InvImpliesBookkeeping == ASSUME IInv PROVE Bookkeeping
<1>1. IsInjective(used \o free)
  BY InjectiveConcat DEF IInv, TypeOK
<1>2. \A a \in alive : a.entry \in Entries /\ a \in In(a.entry)
  BY DEF IInv, TypeOK, In
<1>3. \A a \in alive : a.start + a.size <= entry[a.entry].size
  BY <1>2 DEF IInv, Consistent
<1>4. ASSUME NEW e \in Entries
      PROVE  LET x == entry[e] IN
             /\ e \in ToSet(used) <=> In(e) # {}
             /\ \A b \in Block : x.map[b] # 0 => [entry |-> e, start |-> b, size |-> x.map[b]] \in alive
             /\ \A a \in In(e) : x.map[a.start] = a.size
             /\ x.used = Cardinality(UNION {Blocks(a) : a \in In(e)})
             /\ In(e) # {} => EndOfUse(x) # 0 /\ \E a \in In(e) : a.start = x.highest
  <2> DEFINE x == entry[e]
  <2>1. Consistent(e, x, In(e)) /\ (e \in ToSet(used) <=> In(e) # {})
    BY DEF IInv
  <2>2. In(e) \subseteq alive
    BY DEF In
  <2> HIDE DEF x
  <2>3. ASSUME In(e) # {} PROVE EndOfUse(x) # 0 /\ \E a \in In(e) : a.start = x.highest
    <3>1. PICK a \in In(e) : a.start = x.highest
      BY <2>1, <2>3 DEF Consistent
    <3>2. a.start \in Nat /\ a.size \in Nat /\ a.size > 0 /\ x.map[a.start] = a.size
      BY <2>1, AllocationType DEF Consistent
    <3> QED
      BY <3>1, <3>2 DEF EndOfUse
  <2>4. x.used = Cardinality(UNION {Blocks(a) : a \in In(e)})
    BY <2>1 DEF Consistent, Units
  <2>5. \A b \in Block : x.map[b] # 0 => [entry |-> e, start |-> b, size |-> x.map[b]] \in alive
    BY <2>1, <2>2 DEF Consistent
  <2>6. \A a \in In(e) : x.map[a.start] = a.size
    BY <2>1 DEF Consistent
  <2> QED
    BY <2>1, <2>3, <2>4, <2>5, <2>6 DEF x
<1> QED
  BY <1>1, <1>3, <1>4 DEF Bookkeeping

LEMMA InitEstablishes == ASSUME Init PROVE IInv
<1>1. TypeOK /\ Injective(used) /\ Injective(free) /\ ToSet(used) = {} /\ ToSet(free) = {}
  <2>1. NoEntry \in AnEntry
    BY EmptyIsConsistent, CapacityHolds DEF Consistent
  <2> QED
    BY <2>1 DEF Init, TypeOK, Injective, ToSet
<1>2. \A e \in Entries : In(e) = {} /\ entry[e] = NoEntry /\ entry[e].highest = 0
  BY DEF Init, In, NoEntry
<1>3. \A e \in Entries : Consistent(e, NoEntry, {})
  BY EmptyIsConsistent, CapacityHolds
<1> QED
  BY <1>1, <1>2, <1>3 DEF IInv

LEMMA AllocateKeeps ==
  ASSUME IInv, NEW e \in Entries, NEW x, NEW n \in 1 .. MaxRequest,
         Consistent(e, x, In(e)), In(e) = {} => x.highest = 0,
         FindFree(x, n) # NotFound, AllocateFrom(e, x, n)
  PROVE  IInv'
<1> DEFINE a == [entry |-> e, start |-> FindFree(x, n), size |-> n]
<1>1. a \in AnAllocation(e) /\ Consistent(e, Place(x, n), In(e) \union {a})
  BY PlaceConsistent
<1>2. /\ used' = Append(Without(used, {e}), e) /\ free' = Without(free, {e})
      /\ entry' = [entry EXCEPT ![e] = Place(x, n)]
      /\ alive' = alive \union {a}
  BY DEF AllocateFrom
<1> HIDE DEF a
<1>3. /\ Without(used, {e}) \in Seq(Entries) /\ Without(free, {e}) \in Seq(Entries)
      /\ ToSet(Without(used, {e})) = ToSet(used) \ {e}
      /\ ToSet(Without(free, {e})) = ToSet(free) \ {e}
      /\ Injective(Without(used, {e})) /\ Injective(Without(free, {e}))
  BY WithoutFacts DEF IInv, TypeOK
<1>4. /\ used' \in Seq(Entries) /\ free' \in Seq(Entries)
      /\ ToSet(used)' = ToSet(used) \union {e} /\ ToSet(free)' = ToSet(free) \ {e}
      /\ Injective(used)' /\ Injective(free)'
  <2> DEFINE s == Without(used, {e})
             t == Without(free, {e})
  <2>1. e \notin ToSet(s)
    BY <1>3
  <2>2. s \in Seq(Entries) /\ Injective(s)
    BY <1>3
  <2> HIDE DEF s
  <2>3. /\ Append(s, e) \in Seq(Entries) /\ Injective(Append(s, e))
        /\ ToSet(Append(s, e)) = ToSet(s) \union {e}
    BY <2>1, <2>2, AppendFacts
  <2>4. used' = Append(s, e) /\ free' = t
    BY <1>2 DEF s
  <2>5. ToSet(s) = ToSet(used) \ {e}
    BY <1>3 DEF s
  <2>6. t \in Seq(Entries) /\ ToSet(t) = ToSet(free) \ {e} /\ Injective(t)
    BY <1>3
  <2> HIDE DEF t
  <2>7. used' \in Seq(Entries) /\ Injective(used') /\ ToSet(used') = ToSet(used) \union {e}
    BY <2>3, <2>4, <2>5
  <2>8. free' \in Seq(Entries) /\ Injective(free') /\ ToSet(free') = ToSet(free) \ {e}
    BY <2>4, <2>6
  <2>9. ToSet(used)' = ToSet(used') /\ ToSet(free)' = ToSet(free')
    BY DEF ToSet
  <2>10. Injective(used)' = Injective(used') /\ Injective(free)' = Injective(free')
    BY DEF Injective
  <2> QED
    BY <2>7, <2>8, <2>9, <2>10
<1>5. a.entry = e /\ a \in [entry : Entries, start : Block, size : 1 .. MaxRequest]
  BY <1>1 DEF AnAllocation
<1>6. In(e)' = In(e) \union {a} /\ \A f \in Entries \ {e} : In(f)' = In(f)
  BY <1>2, <1>5 DEF In
<1>7. /\ Place(x, n) \in AnEntry /\ entry'[e] = Place(x, n)
      /\ \A f \in Entries \ {e} : entry'[f] = entry[f]
  BY <1>1, <1>2 DEF Consistent, IInv, TypeOK
<1>8. TypeOK'
  BY <1>2, <1>4, <1>5, <1>7 DEF IInv, TypeOK
<1>9. ASSUME NEW f \in Entries
      PROVE  /\ Consistent(f, entry[f], In(f))'
             /\ f \in ToSet(used)' <=> In(f)' # {}
             /\ In(f)' = {} => entry'[f].highest = 0
  <2>1. CASE f = e
    <3>1. Consistent(e, entry[e], In(e))'
      BY <1>1, <1>6, <1>7 DEF Consistent
    <3> QED
      BY <2>1, <3>1, <1>4, <1>6
  <2>2. CASE f # e
    <3>1. Consistent(f, entry[f], In(f))'
      BY <2>2, <1>6, <1>7 DEF IInv, Consistent
    <3> QED
      BY <2>2, <3>1, <1>4, <1>6, <1>7 DEF IInv
  <2> QED
    BY <2>1, <2>2
<1>10. (ToSet(used) \cap ToSet(free))' = {}
  BY <1>4 DEF IInv
<1> QED
  BY <1>4, <1>8, <1>9, <1>10 DEF IInv

\* What the first entry with room is: one of the list, and room is what the
\* search found.
LEMMA FirstFitFits ==
  ASSUME TypeOK, NEW list \in Seq(Entries), NEW n, NEW e \in FirstFit(list, n)
  PROVE  e \in Entries /\ e \in ToSet(list) /\ FindFree(entry[e], n) # NotFound
<1>1. PICK i \in DOMAIN list : e = list[i] /\ Fits(entry[list[i]], n)
  BY DEF FirstFit
<1>2. list[i] \in ToSet(list) /\ list[i] \in Entries
  BY DEF ToSet
<1> QED
  BY <1>1, <1>2 DEF Fits

LEMMA MallocFromFreeKeeps ==
  ASSUME IInv, NEW n \in 1 .. MaxRequest, MallocFromFree(n)
  PROVE  IInv'
<1>1. PICK e \in FirstFit(free, n) : AllocateFrom(e, entry[e], n)
  BY DEF MallocFromFree
<1>2. TypeOK /\ free \in Seq(Entries)
  BY DEF IInv, TypeOK
<1>3. e \in Entries /\ FindFree(entry[e], n) # NotFound
  BY <1>1, <1>2, FirstFitFits
<1>4. Consistent(e, entry[e], In(e)) /\ (In(e) = {} => entry[e].highest = 0)
  BY <1>3 DEF IInv
<1> QED
  BY <1>1, <1>3, <1>4, AllocateKeeps

LEMMA MallocFromUsedKeeps ==
  ASSUME IInv, NEW n \in 1 .. MaxRequest, MallocFromUsed(n)
  PROVE  IInv'
<1>1. PICK e \in FirstFit(used, n) : AllocateFrom(e, entry[e], n)
  BY DEF MallocFromUsed
<1>2. TypeOK /\ used \in Seq(Entries)
  BY DEF IInv, TypeOK
<1>3. e \in Entries /\ FindFree(entry[e], n) # NotFound
  BY <1>1, <1>2, FirstFitFits
<1>4. Consistent(e, entry[e], In(e)) /\ (In(e) = {} => entry[e].highest = 0)
  BY <1>3 DEF IInv
<1> QED
  BY <1>1, <1>3, <1>4, AllocateKeeps

\* An entry made for a request has room for it.
LEMMA NewEntryFits ==
  ASSUME NEW n \in 1 .. MaxRequest
  PROVE  LET x == NewEntry(AlignToPage(n))
         IN /\ \A e : Consistent(e, x, {})
            /\ x.highest = 0 /\ FindFree(x, n) # NotFound
<1> DEFINE size == AlignToPage(n)
           x == NewEntry(size)
<1>1. size \in n .. Capacity /\ n \in Nat /\ n > 0 /\ Capacity \in Nat
  BY CapacityHolds, PoolAssumption
<1>2. size \in 0 .. Capacity
  BY <1>1
<1> HIDE DEF size
<1>3. \A e : Consistent(e, x, {})
  BY <1>2, EmptyIsConsistent
<1>4. x.size = size /\ x.highest = 0 /\ \A b \in Block : x.map[b] = 0
  BY DEF NewEntry, NoEntry
<1>5. x \in AnEntry /\ WellFormed(x)
  BY <1>3, ConsistentIsWellFormed DEF Consistent
<1> HIDE DEF x
<1>6. FindFree(x, n) # NotFound
  <2>1. Found(x, n, 0, FindFree(x, n))
    BY <1>5, FindFreeFinds
  <2>2. \A i : ~Covered(x, i)
    BY <1>4 DEF Covered
  <2>3. 0 \in 0 .. x.size - n /\ 0 \in 0 .. 0 + n - 1
    BY <1>1, <1>4
  <2>4. NotFound \notin 0 .. x.size - n
    BY <1>1, <1>4 DEF NotFound
  <2> QED
    BY <2>1, <2>2, <2>3, <2>4 DEF Found
<1> QED
  BY <1>3, <1>4, <1>6 DEF size, x

LEMMA MallocNewKeeps ==
  ASSUME IInv, NEW n \in 1 .. MaxRequest, MallocNew(n)
  PROVE  IInv'
<1> DEFINE x == NewEntry(AlignToPage(n))
<1>1. PICK e \in Unused : AllocateFrom(e, x, n)
  BY DEF MallocNew
<1>2. e \in Entries /\ In(e) = {}
  BY <1>1 DEF Unused, IInv
<1>3. Consistent(e, x, In(e)) /\ x.highest = 0 /\ FindFree(x, n) # NotFound
  BY <1>2, NewEntryFits
<1> HIDE DEF x
<1> QED
  BY <1>1, <1>2, <1>3, AllocateKeeps

LEMMA MfreeKeeps ==
  ASSUME IInv, NEW a \in alive, Mfree(a)
  PROVE  IInv'
<1> DEFINE e == a.entry
           x == entry[e]
           y == Freed(x, a.start)
           empty == x.used <= x.map[a.start]
<1>1. e \in Entries /\ a \in In(e) /\ e \in ToSet(used)
  BY DEF IInv, TypeOK, In
<1>2. Consistent(e, x, In(e))
  BY <1>1 DEF IInv
<1>3. /\ Consistent(e, y, In(e) \ {a})
      /\ empty <=> In(e) \ {a} = {}
      /\ In(e) \ {a} = {} => y.highest = 0
  BY <1>1, <1>2, FreedConsistent
<1>4. /\ alive' = alive \ {a}
      /\ entry' = [entry EXCEPT ![e] = y]
      /\ used' = IF empty THEN Without(used, {e}) ELSE used
      /\ free' = IF empty THEN Append(free, e) ELSE free
  BY <1>1 DEF Mfree, Freed
<1>5. In(e)' = In(e) \ {a} /\ \A f \in Entries \ {e} : In(f)' = In(f)
  BY <1>1, <1>4 DEF In
<1>6. y \in AnEntry
  BY <1>3 DEF Consistent
<1> HIDE DEF y, x, empty
<1>7. /\ entry' \in [Entries -> AnEntry] /\ entry'[e] = y
      /\ \A f \in Entries \ {e} : entry'[f] = entry[f]
  BY <1>1, <1>4, <1>6 DEF IInv, TypeOK
<1>8. /\ used \in Seq(Entries) /\ free \in Seq(Entries)
      /\ Injective(used) /\ Injective(free) /\ ToSet(used) \cap ToSet(free) = {}
  BY DEF IInv, TypeOK
<1>9. e \notin ToSet(free)
  BY <1>1, <1>8
<1>10. /\ used' \in Seq(Entries) /\ free' \in Seq(Entries)
       /\ Injective(used') /\ Injective(free')
       /\ ToSet(used') = IF empty THEN ToSet(used) \ {e} ELSE ToSet(used)
       /\ ToSet(free') = IF empty THEN ToSet(free) \union {e} ELSE ToSet(free)
  <2>1. CASE empty
    <3>1. used' = Without(used, {e}) /\ free' = Append(free, e)
      BY <1>4, <2>1
    <3>2. /\ Without(used, {e}) \in Seq(Entries) /\ Injective(Without(used, {e}))
          /\ ToSet(Without(used, {e})) = ToSet(used) \ {e}
      BY <1>8, WithoutFacts
    <3>3. /\ Append(free, e) \in Seq(Entries) /\ Injective(Append(free, e))
          /\ ToSet(Append(free, e)) = ToSet(free) \union {e}
      BY <1>1, <1>8, <1>9, AppendFacts
    <3>4. used' \in Seq(Entries) /\ Injective(used') /\ ToSet(used') = ToSet(used) \ {e}
      BY <3>1, <3>2
    <3>5. free' \in Seq(Entries) /\ Injective(free') /\ ToSet(free') = ToSet(free) \union {e}
      BY <3>1, <3>3
    <3> QED
      BY <2>1, <3>4, <3>5
  <2>2. CASE ~empty
    BY <1>4, <1>8, <2>2
  <2> QED
    BY <2>1, <2>2
<1>11. /\ ToSet(used)' = ToSet(used') /\ ToSet(free)' = ToSet(free')
       /\ Injective(used)' = Injective(used') /\ Injective(free)' = Injective(free')
  BY DEF ToSet, Injective
<1>12. TypeOK'
  BY <1>4, <1>7, <1>10 DEF IInv, TypeOK
<1>13. ASSUME NEW f \in Entries
       PROVE  /\ Consistent(f, entry[f], In(f))'
              /\ f \in ToSet(used)' <=> In(f)' # {}
              /\ In(f)' = {} => entry'[f].highest = 0
  <2>1. CASE f = e
    <3>1. Consistent(e, entry[e], In(e))'
      BY <1>3, <1>5, <1>7 DEF Consistent
    <3>2. e \in ToSet(used)' <=> In(e)' # {}
      BY <1>1, <1>3, <1>5, <1>10, <1>11
    <3> QED
      BY <2>1, <3>1, <3>2, <1>3, <1>5, <1>7
  <2>2. CASE f # e
    <3>1. Consistent(f, entry[f], In(f))'
      BY <2>2, <1>5, <1>7 DEF IInv, Consistent
    <3>2. f \in ToSet(used)' <=> f \in ToSet(used)
      BY <2>2, <1>10, <1>11
    <3> QED
      BY <2>2, <3>1, <3>2, <1>5, <1>7 DEF IInv
  <2> QED
    BY <2>1, <2>2
<1>14. (ToSet(used) \cap ToSet(free))' = {}
  <2>1. ToSet(used') \cap ToSet(free') = {}
    BY <1>8, <1>10
  <2> QED
    BY <1>11, <2>1
<1> QED
  BY <1>10, <1>11, <1>12, <1>13, <1>14 DEF IInv

LEMMA CollectGarbageKeeps ==
  ASSUME IInv, NEW old \in SUBSET Entries, NEW gone \in SUBSET Entries,
         CollectGarbage(old, gone)
  PROVE  IInv'
<1>1. /\ free' = Without(free, gone) /\ used' = used /\ alive' = alive
      /\ entry' = [e \in Entries |->
                     IF e \in ToSet(free) \cap gone THEN NoEntry
                     ELSE IF e \in ToSet(used) \cap old THEN Shrunk(entry[e])
                     ELSE entry[e]]
  BY DEF CollectGarbage
<1>2. \A e \in Entries : In(e)' = In(e)
  BY <1>1 DEF In
<1>3. /\ Without(free, gone) \in Seq(Entries) /\ Injective(Without(free, gone))
      /\ ToSet(Without(free, gone)) = ToSet(free) \ gone
  BY WithoutFacts DEF IInv, TypeOK
<1>4. /\ free' \in Seq(Entries) /\ Injective(free)' /\ ToSet(free)' = ToSet(free) \ gone
      /\ Injective(used)' /\ ToSet(used)' = ToSet(used)
  BY <1>1, <1>3 DEF IInv, Injective, ToSet
<1>5. ASSUME NEW e \in Entries
      PROVE  /\ Consistent(e, entry'[e], In(e))
             /\ In(e) = {} => entry'[e].highest = 0
  <2>1. /\ Consistent(e, entry[e], In(e)) /\ (In(e) = {} => entry[e].highest = 0)
        /\ e \in ToSet(used) <=> In(e) # {}
    BY DEF IInv
  <2>2. CASE e \in ToSet(free) \cap gone
    <3>1. entry'[e] = NoEntry /\ In(e) = {}
      BY <1>1, <2>1, <2>2 DEF IInv
    <3>2. Consistent(e, NoEntry, {}) /\ NoEntry.highest = 0
      BY EmptyIsConsistent, CapacityHolds DEF NoEntry
    <3> QED
      BY <3>1, <3>2
  <2>3. CASE e \notin ToSet(free) \cap gone /\ e \in ToSet(used) \cap old
    <3>1. entry'[e] = Shrunk(entry[e]) /\ In(e) # {}
      BY <1>1, <2>1, <2>3
    <3> QED
      BY <2>1, <3>1, ShrunkConsistent
  <2>4. CASE e \notin ToSet(free) \cap gone /\ e \notin ToSet(used) \cap old
    BY <1>1, <2>1, <2>4
  <2> QED
    BY <2>2, <2>3, <2>4
<1>6. TypeOK'
  <2>1. \A e \in Entries : entry'[e] \in AnEntry
    BY <1>5 DEF Consistent
  <2>2. entry' = [e \in Entries |-> entry'[e]]
    BY <1>1
  <2>3. entry' \in [Entries -> AnEntry]
    BY <2>1, <2>2
  <2> QED
    BY <1>1, <1>4, <2>3 DEF IInv, TypeOK
<1>7. ASSUME NEW e \in Entries
      PROVE  /\ Consistent(e, entry[e], In(e))'
             /\ e \in ToSet(used)' <=> In(e)' # {}
             /\ In(e)' = {} => entry'[e].highest = 0
  <2>1. Consistent(e, entry[e], In(e))'
    BY <1>2, <1>5 DEF Consistent
  <2> QED
    BY <2>1, <1>2, <1>4, <1>5 DEF IInv
<1>8. (ToSet(used) \cap ToSet(free))' = {}
  BY <1>4 DEF IInv
<1> QED
  BY <1>4, <1>6, <1>7, <1>8 DEF IInv

LEMMA UnchangedKeeps ==
  ASSUME IInv, UNCHANGED <<used, free, entry, alive>>
  PROVE  IInv'
<1>1. \A e \in Entries : In(e)' = In(e)
  BY DEF In
<1>2. TypeOK'
  BY DEF IInv, TypeOK
<1>3. /\ Injective(used)' /\ Injective(free)'
      /\ ToSet(used)' = ToSet(used) /\ ToSet(free)' = ToSet(free)
  BY DEF IInv, Injective, ToSet
<1>4. \A e \in Entries : Consistent(e, entry[e], In(e))'
  BY <1>1 DEF IInv, Consistent
<1> QED
  BY <1>1, <1>2, <1>3, <1>4 DEF IInv

LEMMA NextKeeps == IInv /\ [Next]_vars => IInv'
<1> SUFFICES ASSUME IInv, [Next]_vars PROVE IInv'
  OBVIOUS
<1>1. ASSUME NEW n \in 1 .. MaxRequest, MallocFromFree(n) \/ MallocFromUsed(n) \/ MallocNew(n)
      PROVE  IInv'
  BY <1>1, MallocFromFreeKeeps, MallocFromUsedKeeps, MallocNewKeeps
<1>2. ASSUME NEW a \in alive, Mfree(a) PROVE IInv'
  BY <1>2, MfreeKeeps
<1>3. ASSUME NEW old \in SUBSET Entries, Collect(old) \/ LastCollect(old) PROVE IInv'
  BY <1>3, CollectGarbageKeeps DEF Collect, LastCollect
<1>4. ASSUME DestroyPool \/ Destroyed \/ Terminated \/ UNCHANGED vars PROVE IInv'
  BY <1>4, UnchangedKeeps DEF DestroyPool, Destroyed, Terminated, vars
<1> QED
  BY <1>1, <1>2, <1>3, <1>4 DEF Next

\* The maps, counts and marks of the entries are those of the allocations, for
\* every number of entries and every size of pages and requests: the assertions
\* of simplejs_pool_mfree and of the collector hold, no entry is in both lists,
\* and no page with a block in use is given back.
THEOREM PoolBookkeepingHolds == Spec => []Bookkeeping
<1>1. IInv => Bookkeeping
  BY InvImpliesBookkeeping
<1>2. Init => IInv
  BY InitEstablishes
<1> QED
  BY <1>1, <1>2, NextKeeps, PTL DEF Spec

-----------------------------------------------------------------------------
(* New entries                                                              *)

\* Where there is no first entry with room, no entry has room.
LEMMA NothingFits ==
  ASSUME NEW list \in Seq(Entries), NEW n, FirstFit(list, n) = {}
  PROVE  \A e \in ToSet(list) : ~Fits(entry[e], n)
<1> DEFINE F == {i \in DOMAIN list : Fits(entry[list[i]], n)}
<1>1. DOMAIN list = 1 .. Len(list) /\ Len(list) \in Nat
  OBVIOUS
<1>2. ASSUME F # {} PROVE FALSE
  <2>1. F \in SUBSET Nat
    BY <1>1
  <2>2. PICK i \in F : \A j \in F : i <= j
    <3> HIDE DEF F
    <3> QED
      BY <1>2, <2>1, LeastNumber
  <2>3. \A j \in 1 .. i - 1 : ~Fits(entry[list[j]], n)
    BY <1>1, <2>2
  <2> QED
    BY <2>2, <2>3 DEF FirstFit
<1> QED
  BY <1>2 DEF ToSet

LEMMA IntervalSize ==
  ASSUME NEW b \in Nat, NEW n \in Nat
  PROVE  IsFiniteSet(b .. b + n - 1) /\ Cardinality(b .. b + n - 1) = n
         /\ IsFiniteSet(0 .. n - 1) /\ Cardinality(0 .. n - 1) = n
<1>1. ASSUME NEW i \in Int, NEW j \in Int, j - i + 1 = n
      PROVE  IsFiniteSet(i .. j) /\ Cardinality(i .. j) = n
  <2>1. Cardinality(i .. j) = IF i > j THEN 0 ELSE j - i + 1
    BY FS_Interval
  <2> QED
    BY <1>1, <2>1, FS_Interval
<1>2. b \in Int /\ b + n - 1 \in Int /\ (b + n - 1) - b + 1 = n
      /\ 0 \in Int /\ n - 1 \in Int /\ (n - 1) - 0 + 1 = n
  OBVIOUS
<1> QED
  BY <1>1, <1>2

\* An entry without room has no run of free blocks of the length.
LEMMA NoRoomNoRun ==
  ASSUME NEW e, NEW x, NEW A, Consistent(e, x, A), NEW n \in 1 .. MaxRequest,
         ~Fits(x, n), NEW b \in 0 .. x.size - n
  PROVE  \E c \in A : Blocks(c) \cap (b .. b + n - 1) # {}
<1> SUFFICES ASSUME \A i \in b .. b + n - 1 : i \notin Units(A) PROVE FALSE
  BY DEF Units
<1>1. /\ x \in AnEntry /\ x.size \in Nat /\ x.used \in Nat
      /\ A \subseteq AnAllocation(e)
      /\ n \in Nat /\ n > 0 /\ b \in Nat /\ b + n <= x.size
  BY EntryType, PoolAssumption DEF Consistent
<1>2. FindFree(x, n) # NotFound
  <2>1. Found(x, n, 0, FindFree(x, n))
    BY <1>1, ConsistentIsWellFormed, FindFreeFinds
  <2>2. \A i \in b .. b + n - 1 : ~Covered(x, i)
    BY CoveredIsAllocated
  <2>3. NotFound \notin 0 .. x.size - n
    BY <1>1 DEF NotFound
  <2> QED
    BY <2>1, <2>2, <2>3 DEF Found
<1>3. x.used + n <= x.size
  <2> DEFINE run == b .. b + n - 1
             all == 0 .. x.size - 1
  <2>1. Units(A) \subseteq all
    <3> SUFFICES ASSUME NEW c \in A, NEW i \in Blocks(c) PROVE i \in all
      BY DEF Units
    <3>1. c.start \in Nat /\ c.size \in Nat /\ c.start + c.size <= x.size
      BY <1>1, AllocationType DEF Consistent
    <3> QED
      BY <1>1, <3>1 DEF Blocks
  <2>2. run \subseteq all /\ Units(A) \cap run = {}
    BY <1>1
  <2>3. IsFiniteSet(all) /\ Cardinality(all) = x.size
    BY <1>1, IntervalSize
  <2>4. IsFiniteSet(run) /\ Cardinality(run) = n
    BY <1>1, IntervalSize
  <2>5. IsFiniteSet(Units(A)) /\ x.used = Cardinality(Units(A))
    BY <2>1, <2>3, FS_Subset DEF Consistent
  <2> HIDE DEF run, all
  <2>6. Units(A) \union run \subseteq all
    BY <2>1, <2>2
  <2>7. Cardinality(Units(A) \union run) = x.used + n
    <3>1. Cardinality(Units(A) \union run)
            = Cardinality(Units(A)) + Cardinality(run) - Cardinality(Units(A) \cap run)
      BY <2>4, <2>5, FS_Union
    <3>2. Cardinality(Units(A) \cap run) = 0
      BY <2>2, FS_EmptySet
    <3> QED
      BY <1>1, <2>4, <2>5, <3>1, <3>2
  <2>8. Cardinality(Units(A) \union run) <= Cardinality(all)
    BY <2>3, <2>6, FS_Subset
  <2> QED
    BY <2>3, <2>7, <2>8
<1> QED
  BY <1>1, <1>2, <1>3 DEF Fits

LEMMA NewEntryIsNeeded ==
  ASSUME IInv, NEW n \in 1 .. MaxRequest, MallocNew(n), NEW a \in alive' \ alive,
         NEW d \in Entries \ Unused, NEW b \in 0 .. entry[d].size - a.size
  PROVE  \E c \in In(d) : Blocks(c) \cap (b .. b + a.size - 1) # {}
<1>1. a.size = n
  BY DEF MallocNew, AllocateFrom
<1>2. used \in Seq(Entries) /\ free \in Seq(Entries) /\ Consistent(d, entry[d], In(d))
  BY DEF IInv, TypeOK
<1>3. FirstFit(free, n) = {} /\ FirstFit(used, n) = {}
  BY DEF MallocNew
<1>4. d \in ToSet(free) \/ d \in ToSet(used)
  BY DEF Unused
<1>5. ~Fits(entry[d], n)
  BY <1>2, <1>3, <1>4, NothingFits
<1> QED
  BY <1>1, <1>2, <1>5, NoRoomNoRun

LEMMA OldEntryIsNotUnused ==
  ASSUME IInv, NEW n \in 1 .. MaxRequest, MallocFromFree(n) \/ MallocFromUsed(n),
         NEW a \in alive' \ alive
  PROVE  a.entry \notin Unused
<1>1. TypeOK /\ used \in Seq(Entries) /\ free \in Seq(Entries)
  BY DEF IInv, TypeOK
<1>2. PICK e \in ToSet(free) \union ToSet(used) : AllocateFrom(e, entry[e], n)
  <2>1. CASE MallocFromFree(n)
    BY <1>1, <2>1, FirstFitFits DEF MallocFromFree
  <2>2. CASE MallocFromUsed(n)
    BY <1>1, <2>2, FirstFitFits DEF MallocFromUsed
  <2> QED
    BY <2>1, <2>2
<1>3. a.entry = e
  BY <1>2 DEF AllocateFrom
<1> QED
  BY <1>2, <1>3 DEF Unused

LEMMA OthersAllocateNothing ==
  ASSUME \/ \E a \in alive : Mfree(a)
         \/ \E old \in SUBSET Entries : Collect(old) \/ LastCollect(old)
         \/ DestroyPool \/ Destroyed \/ Terminated \/ UNCHANGED vars
  PROVE  alive' \ alive = {}
<1>1. ASSUME NEW a \in alive, Mfree(a) PROVE alive' \ alive = {}
  BY <1>1 DEF Mfree
<1>2. ASSUME NEW old \in SUBSET Entries, Collect(old) \/ LastCollect(old)
      PROVE  alive' \ alive = {}
  BY <1>2 DEF Collect, LastCollect, CollectGarbage
<1>3. ASSUME DestroyPool \/ Destroyed \/ Terminated \/ UNCHANGED vars
      PROVE  alive' \ alive = {}
  BY <1>3 DEF DestroyPool, Destroyed, Terminated, vars
<1> QED
  BY <1>1, <1>2, <1>3

\* simplejs_pool_malloc asks the system for memory only when no entry, used or
\* empty, has enough free blocks in a row: the lists are searched to their ends,
\* and the search in an entry misses no run.
THEOREM NewEntriesAreNeeded == Spec => NewOnlyWhenNothingFits
<1>1. ASSUME IInv, [Next]_vars, NEW a \in alive' \ alive, a.entry \in Unused,
             NEW d \in Entries \ Unused, NEW b \in 0 .. entry[d].size - a.size
      PROVE  \E c \in In(d) : Blocks(c) \cap (b .. b + a.size - 1) # {}
  <2>1. ASSUME NEW n \in 1 .. MaxRequest, MallocFromFree(n) \/ MallocFromUsed(n)
        PROVE  FALSE
    BY <1>1, <2>1, OldEntryIsNotUnused
  <2>2. ASSUME NEW n \in 1 .. MaxRequest, MallocNew(n)
        PROVE  \E c \in In(d) : Blocks(c) \cap (b .. b + a.size - 1) # {}
    BY <1>1, <2>2, NewEntryIsNeeded
  <2> QED
    BY <1>1, <2>1, <2>2, OthersAllocateNothing DEF Next
<1>2. IInv /\ [Next]_vars =>
        [\A a \in alive' \ alive :
           a.entry \in Unused =>
             \A e \in Entries \ Unused : \A b \in 0 .. entry[e].size - a.size :
               \E c \in In(e) : Blocks(c) \cap (b .. b + a.size - 1) # {}]_vars
  BY <1>1
<1> QED
  BY <1>2, InitEstablishes, NextKeeps, PTL DEF Spec, NewOnlyWhenNothingFits

-----------------------------------------------------------------------------
(* The pool is an allocator                                                 *)

Area(a) == {a.entry} \X Blocks(a)

\* Allocations have blocks of the pool, and no two of them have one in common.
AreasApart ==
  \A a \in alive : /\ Area(a) \subseteq Entries \X Block
                   /\ Area(a) # {}
                   /\ \A c \in alive : c # a => Area(a) \cap Area(c) = {}

LEMMA AllocationsAreApart == IInv => AreasApart
<1> SUFFICES ASSUME IInv, NEW a \in alive
             PROVE  /\ Area(a) \subseteq Entries \X Block
                    /\ Area(a) # {}
                    /\ \A c \in alive : c # a => Area(a) \cap Area(c) = {}
  BY DEF AreasApart
<1>1. ASSUME NEW c \in alive
      PROVE  /\ c.entry \in Entries /\ c \in In(c.entry)
             /\ c.start \in Nat /\ c.size \in Nat /\ c.size > 0 /\ c.start + c.size <= Capacity
  <2>1. c.entry \in Entries /\ c \in In(c.entry)
    BY DEF IInv, TypeOK, In
  <2>2. Consistent(c.entry, entry[c.entry], In(c.entry))
    BY <2>1 DEF IInv
  <2>3. /\ entry[c.entry] \in AnEntry /\ c.start + c.size <= entry[c.entry].size
        /\ c \in AnAllocation(c.entry)
    BY <2>1, <2>2 DEF Consistent
  <2> QED
    BY <2>1, <2>3, AllocationType, EntryType, CapacityHolds
<1>2. Blocks(a) \subseteq Block /\ a.start \in Blocks(a)
  BY <1>1, CapacityHolds DEF Blocks, Block
<1>3. ASSUME NEW c \in alive, c # a PROVE Area(a) \cap Area(c) = {}
  <2>1. CASE a.entry = c.entry
    <3>1. Consistent(a.entry, entry[a.entry], In(a.entry))
      BY <1>1 DEF IInv
    <3>2. Apart(a, c)
      BY <1>1, <1>3, <2>1, <3>1 DEF Consistent
    <3>3. Blocks(a) \cap Blocks(c) = {}
      BY <1>1, <3>2 DEF Apart, Blocks
    <3> QED
      BY <3>3 DEF Area
  <2>2. CASE a.entry # c.entry
    BY <2>2 DEF Area
  <2> QED
    BY <2>1, <2>2
<1>4. <<a.entry, a.start>> \in Area(a)
  BY <1>2 DEF Area
<1>5. Area(a) \subseteq Entries \X Block
  BY <1>1, <1>2 DEF Area
<1> QED
  BY <1>3, <1>4, <1>5

LEMMA NewAreasApart == IInv' => AreasApart'
  BY AllocationsAreApart, PTL

InUse == {Area(a) : a \in alive}

LEMMA AllocateAllocates ==
  ASSUME AreasApart', NEW a, a \notin alive, alive' = alive \union {a}
  PROVE  Memory!Next
<1>1. \A c \in alive' : Area(c)' = Area(c)
  BY DEF Area, Blocks
<1>2. /\ Area(a) \subseteq Entries \X Block /\ Area(a) # {}
      /\ \A c \in alive : Area(a) \cap Area(c) = {}
  BY <1>1 DEF AreasApart
<1>3. InUse' = InUse \union {Area(a)}
  BY <1>1 DEF InUse
<1>4. Area(a) \cap UNION InUse = {}
  BY <1>2 DEF InUse
<1>5. Area(a) \notin InUse
  BY <1>2, <1>4
<1>6. /\ InUse = {{c.entry} \X Blocks(c) : c \in alive}
      /\ InUse' = {{c.entry} \X Blocks(c) : c \in alive}'
  BY DEF InUse, Area
<1>7. Memory!Allocate(Area(a))
  BY <1>2, <1>3, <1>4, <1>6, Zenon DEF Memory!Allocate
<1>8. Area(a) \in InUse' \ InUse
  BY <1>3, <1>5
<1> QED
  BY <1>6, <1>7, <1>8, Zenon DEF Memory!Next

LEMMA FreeFrees ==
  ASSUME AreasApart, NEW a \in alive, alive' = alive \ {a}
  PROVE  Memory!Next
<1>1. \A c \in alive' : Area(c)' = Area(c)
  BY DEF Area, Blocks
<1>2. \A c \in alive \ {a} : Area(c) # Area(a)
  BY DEF AreasApart
<1>3. InUse' = InUse \ {Area(a)} /\ Area(a) \in InUse
  BY <1>1, <1>2 DEF InUse
<1>4. /\ InUse = {{c.entry} \X Blocks(c) : c \in alive}
      /\ InUse' = {{c.entry} \X Blocks(c) : c \in alive}'
  BY DEF InUse, Area
<1>5. Memory!Free(Area(a))
  BY <1>3, <1>4, Zenon DEF Memory!Free
<1> QED
  BY <1>3, <1>4, <1>5, Zenon DEF Memory!Next

LEMMA NewAllocationIsNew ==
  ASSUME IInv, NEW n \in 1 .. MaxRequest, MallocFromFree(n) \/ MallocFromUsed(n) \/ MallocNew(n)
  PROVE  \E a : a \notin alive /\ alive' = alive \union {a}
<1>1. TypeOK /\ used \in Seq(Entries) /\ free \in Seq(Entries)
  BY DEF IInv, TypeOK
<1>2. \E e \in Entries : \E x :
        /\ Consistent(e, x, In(e)) /\ (In(e) = {} => x.highest = 0)
        /\ FindFree(x, n) # NotFound /\ AllocateFrom(e, x, n)
  <2>1. CASE MallocFromFree(n)
    BY <1>1, <2>1, FirstFitFits DEF MallocFromFree, IInv
  <2>2. CASE MallocFromUsed(n)
    BY <1>1, <2>2, FirstFitFits DEF MallocFromUsed, IInv
  <2>3. CASE MallocNew(n)
    <3>1. PICK e \in Unused : AllocateFrom(e, NewEntry(AlignToPage(n)), n)
      BY <2>3 DEF MallocNew
    <3>2. e \in Entries /\ In(e) = {}
      BY <3>1 DEF Unused, IInv
    <3> QED
      BY <3>1, <3>2, NewEntryFits
  <2> QED
    BY <2>1, <2>2, <2>3
<1> PICK e \in Entries : \E x :
        /\ Consistent(e, x, In(e)) /\ (In(e) = {} => x.highest = 0)
        /\ FindFree(x, n) # NotFound /\ AllocateFrom(e, x, n)
  BY <1>2
<1>3. PICK x : /\ Consistent(e, x, In(e)) /\ (In(e) = {} => x.highest = 0)
               /\ FindFree(x, n) # NotFound /\ AllocateFrom(e, x, n)
  OBVIOUS
<1> DEFINE a == [entry |-> e, start |-> FindFree(x, n), size |-> n]
<1>4. a \in AnAllocation(e) /\ \A c \in In(e) : Apart(a, c)
  BY <1>3, PlaceConsistent
<1>5. alive' = alive \union {a}
  BY <1>3 DEF AllocateFrom
<1> HIDE DEF a
<1>6. a \notin alive
  <2> SUFFICES ASSUME a \in alive PROVE FALSE
    OBVIOUS
  <2>1. Apart(a, a) /\ a.start \in Nat /\ a.size \in Nat /\ a.size > 0
    BY <1>4, AllocationType DEF In
  <2> QED
    BY <2>1 DEF Apart
<1> QED
  BY <1>5, <1>6

\* The pool is an allocator: at no time do two allocations have a block in
\* common, whatever is allocated, freed and collected.
THEOREM PoolIsAnAllocator == Spec => ImplementsAllocator
<1>1. Init => Memory!Init
  BY DEF Init, Memory!Init
<1>2. IInv /\ IInv' /\ [Next]_vars => [Memory!Next]_InUse
  <2> SUFFICES ASSUME IInv, IInv', [Next]_vars PROVE Memory!Next \/ InUse' = InUse
    OBVIOUS
  <2>1. AreasApart /\ AreasApart'
    BY AllocationsAreApart, NewAreasApart
  <2>2. ASSUME NEW n \in 1 .. MaxRequest, MallocFromFree(n) \/ MallocFromUsed(n) \/ MallocNew(n)
        PROVE  Memory!Next
    BY <2>1, <2>2, NewAllocationIsNew, AllocateAllocates
  <2>3. ASSUME NEW a \in alive, Mfree(a) PROVE Memory!Next
    BY <2>1, <2>3, FreeFrees DEF Mfree
  <2>4. ASSUME alive' = alive PROVE InUse' = InUse
    BY <2>4 DEF InUse, Area, Blocks
  <2>5. ASSUME NEW old \in SUBSET Entries, Collect(old) \/ LastCollect(old)
        PROVE  alive' = alive
    BY <2>5 DEF Collect, LastCollect, CollectGarbage
  <2>6. ASSUME DestroyPool \/ Destroyed \/ Terminated \/ UNCHANGED vars PROVE alive' = alive
    BY <2>6 DEF DestroyPool, Destroyed, Terminated, vars
  <2> QED
    BY <2>2, <2>3, <2>4, <2>5, <2>6 DEF Next
<1>3. InUse = {{a.entry} \X Blocks(a) : a \in alive}
  BY DEF InUse, Area
<1>4. IInv /\ IInv' /\ [Next]_vars => [Memory!Next]_{{a.entry} \X Blocks(a) : a \in alive}
  BY <1>2, <1>3 DEF InUse, Area
<1> QED
  BY <1>1, <1>4, InitEstablishes, NextKeeps, PTL DEF Spec, ImplementsAllocator, Memory!Spec
=============================================================================
