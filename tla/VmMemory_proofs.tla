-------------------------- MODULE VmMemory_proofs --------------------------
(***************************************************************************)
(* Proofs about VmMemory, for every number of threads and pages and every   *)
(* modulus that no request reaches.                                         *)
(***************************************************************************)
EXTENDS VmMemory, TLAPS

InUse == owned \union Pending

NoOverlap ==
  \A b, c \in InUse : b # c => PagesOf(b) \cap PagesOf(c) = {}

\* No block is held and being freed, or being freed twice.
OneHolder ==
  \A t \in Threads : freeing[t] # Nothing =>
    /\ freeing[t] \notin owned
    /\ \A u \in Threads \ {t} : freeing[u] # freeing[t]

Inv == TypeOK /\ Bookkeeping /\ NoOverlap /\ OneHolder

LEMMA NothingIsNoBlock == Nothing \notin Blocks
BY VmMemoryAssumption DEF Blocks, Page

\* A request is stored as it is: the assumption on MaxRequest.
LEMMA StoredIsSize ==
  ASSUME NEW size \in 1 .. MaxRequest
  PROVE  size % CountModulus = size
BY VmMemoryAssumption

LEMMA InUseAreBlocks == ASSUME TypeOK PROVE InUse \subseteq Blocks
BY DEF TypeOK, InUse, Pending

LEMMA InitEstablishesInv == ASSUME Init PROVE Inv
<1>1. InUse = {}
  BY DEF Init, InUse, Pending
<1>2. TypeOK
  BY VmMemoryAssumption DEF Init, TypeOK
<1>3. Bookkeeping
  BY <1>1 DEF Init, InUse, Bookkeeping
<1> QED
  BY <1>1, <1>2, <1>3 DEF Init, Inv, NoOverlap, OneHolder

\* The run that is handed out meets no block in use.
LEMMA AllocKeepsInv ==
  ASSUME Inv, NEW start \in Page, NEW size \in 1 .. MaxRequest, Alloc(start, size)
  PROVE  Inv'
<1> DEFINE b == [start |-> start, size |-> size]
<1>1. /\ b \in Blocks
      /\ b.start = start /\ b.size = size
      /\ start \in PagesOf(b)
      /\ PagesOf(b) \subseteq Page
      /\ PagesOf(b) \cap allocated = {}
  BY VmMemoryAssumption DEF Alloc, IsFreeRun, Blocks, PagesOf, Run, Page
<1>2. /\ allocated' = allocated \union PagesOf(b)
      /\ count' = [count EXCEPT ![start] = size]
      /\ owned' = owned \union {b}
      /\ freeing' = freeing
  BY StoredIsSize DEF Alloc, PagesOf
<1>3. InUse' = InUse \union {b}
  BY <1>2 DEF InUse, Pending
<1>4. \A c \in InUse : PagesOf(c) \cap PagesOf(b) = {} /\ c # b /\ c.start \in PagesOf(c)
  <2> SUFFICES ASSUME NEW c \in InUse
               PROVE  PagesOf(c) \cap PagesOf(b) = {} /\ c # b /\ c.start \in PagesOf(c)
    OBVIOUS
  <2>1. PagesOf(c) \subseteq allocated
    BY DEF Inv, Bookkeeping, InUse
  <2>2. c \in Blocks
    BY InUseAreBlocks DEF Inv
  <2>3. c.start \in PagesOf(c)
    BY <2>2, VmMemoryAssumption DEF Blocks, PagesOf, Run, Page
  <2> QED
    BY <1>1, <2>1, <2>3
<1> HIDE DEF b
<1>5. TypeOK'
  <2>1. size \in 0 .. CountModulus - 1
    BY VmMemoryAssumption
  <2> QED
    BY <1>1, <1>2, <2>1 DEF Inv, TypeOK
<1>6. Bookkeeping'
  <2>1. allocated' = UNION {PagesOf(c) : c \in InUse'}
    BY <1>2, <1>3 DEF Inv, Bookkeeping, InUse
  <2>2. \A c \in InUse' : count'[c.start] = c.size
    <3> SUFFICES ASSUME NEW c \in InUse' PROVE count'[c.start] = c.size
      OBVIOUS
    <3>1. CASE c = b
      BY <1>1, <1>2, <3>1 DEF Inv, TypeOK
    <3>2. CASE c \in InUse
      <4>1. c.start # start
        BY <1>1, <1>4, <3>2
      <4> QED
        BY <1>2, <3>2, <4>1 DEF Inv, Bookkeeping, InUse
    <3> QED
      BY <1>3, <3>1, <3>2
  <2>3. \A p \in Page : count'[p] # 0 => \E c \in InUse' : c.start = p
    BY <1>1, <1>2, <1>3 DEF Inv, Bookkeeping, InUse
  <2> QED
    BY <2>1, <2>2, <2>3 DEF Bookkeeping, InUse
<1>7. NoOverlap'
  BY <1>3, <1>4 DEF Inv, NoOverlap, PagesOf, Run
<1>8. OneHolder'
  BY <1>2, <1>4 DEF Inv, OneHolder, InUse, Pending
<1> QED
  BY <1>5, <1>6, <1>7, <1>8 DEF Inv

\* The length that is read is that of the block.
LEMMA FreeReadKeepsInv ==
  ASSUME Inv, NEW t \in Threads, NEW b \in owned, FreeRead(t, b)
  PROVE  Inv'
<1>1. b \in Blocks /\ b = [start |-> b.start, size |-> count[b.start]]
  BY DEF Inv, TypeOK, Bookkeeping, Blocks
<1>2. /\ owned' = owned \ {b}
      /\ freeing[t] = Nothing
      /\ freeing' = [freeing EXCEPT ![t] = b]
      /\ allocated' = allocated /\ count' = count
  BY <1>1 DEF FreeRead
<1>3. Pending' = Pending \union {b}
  BY <1>1, <1>2, NothingIsNoBlock DEF Inv, TypeOK, Pending
<1>4. InUse' = InUse
  BY <1>2, <1>3 DEF InUse
<1>5. TypeOK'
  BY <1>1, <1>2 DEF Inv, TypeOK
<1>6. Bookkeeping'
  BY <1>2, <1>4 DEF Inv, Bookkeeping, InUse, PagesOf, Run
<1>7. NoOverlap'
  BY <1>4 DEF Inv, NoOverlap, PagesOf, Run
<1>8. OneHolder'
  BY <1>1, <1>2, NothingIsNoBlock DEF Inv, TypeOK, OneHolder
<1> QED
  BY <1>5, <1>6, <1>7, <1>8 DEF Inv

\* Exactly the pages of the block are cleared, and no other block's length.
LEMMA FreeClearKeepsInv ==
  ASSUME Inv, NEW t \in Threads, FreeClear(t)
  PROVE  Inv'
<1> DEFINE b == freeing[t]
<1>1. b \in Pending /\ b \in Blocks /\ b \notin owned /\ b # Nothing
  BY DEF FreeClear, Inv, TypeOK, OneHolder, Pending
<1>2. /\ allocated' = allocated \ PagesOf(b)
      /\ count' = [p \in Page |-> IF p \in PagesOf(b) THEN 0 ELSE count[p]]
      /\ freeing' = [freeing EXCEPT ![t] = Nothing]
      /\ owned' = owned
  BY DEF FreeClear, Cleared, PagesOf
<1>3. Pending' = Pending \ {b}
  BY <1>1, <1>2 DEF Inv, TypeOK, OneHolder, Pending
<1>4. InUse' = InUse \ {b}
  BY <1>1, <1>2, <1>3 DEF InUse
<1>5. \A c \in InUse' : /\ c \in InUse /\ c \in Blocks
                        /\ PagesOf(c) \cap PagesOf(b) = {}
                        /\ c.start \in PagesOf(c)
  <2> SUFFICES ASSUME NEW c \in InUse'
               PROVE  /\ c \in InUse /\ c \in Blocks
                      /\ PagesOf(c) \cap PagesOf(b) = {}
                      /\ c.start \in PagesOf(c)
    OBVIOUS
  <2>1. c \in InUse /\ c # b /\ b \in InUse
    BY <1>1, <1>4 DEF InUse
  <2>2. c \in Blocks
    BY <2>1, InUseAreBlocks DEF Inv
  <2>3. c.start \in PagesOf(c)
    BY <2>2, VmMemoryAssumption DEF Blocks, PagesOf, Run, Page
  <2> QED
    BY <2>1, <2>2, <2>3 DEF Inv, NoOverlap
<1>6. b.start \in PagesOf(b)
  BY <1>1, VmMemoryAssumption DEF Blocks, PagesOf, Run, Page
<1> HIDE DEF b
<1>7. TypeOK'
  BY <1>2, VmMemoryAssumption DEF Inv, TypeOK
<1>8. Bookkeeping'
  <2>1. allocated' = UNION {PagesOf(c) : c \in InUse'}
    <3>1. allocated = UNION {PagesOf(c) : c \in InUse}
      BY DEF Inv, Bookkeeping, InUse
    <3> QED
      BY <1>2, <1>4, <1>5, <3>1
  <2>2. \A c \in InUse' : count'[c.start] = c.size
    <3> SUFFICES ASSUME NEW c \in InUse' PROVE count'[c.start] = c.size
      OBVIOUS
    <3>1. c.start \in Page /\ c.start \notin PagesOf(b) /\ c \in InUse
      BY <1>5 DEF Blocks
    <3> QED
      BY <1>2, <3>1 DEF Inv, Bookkeeping, InUse
  <2>3. \A p \in Page : count'[p] # 0 => \E c \in InUse' : c.start = p
    BY <1>2, <1>4, <1>6 DEF Inv, Bookkeeping, InUse
  <2> QED
    BY <2>1, <2>2, <2>3 DEF Bookkeeping, InUse
<1>9. NoOverlap'
  BY <1>4 DEF Inv, NoOverlap, PagesOf, Run
<1>10. OneHolder'
  BY <1>2 DEF Inv, TypeOK, OneHolder
<1> QED
  BY <1>7, <1>8, <1>9, <1>10 DEF Inv

LEMMA NextKeepsInv == ASSUME Inv, [Next]_vars PROVE Inv'
<1>1. ASSUME UNCHANGED vars PROVE Inv'
  BY <1>1 DEF vars, Inv, TypeOK, Bookkeeping, NoOverlap, OneHolder, InUse, Pending,
              PagesOf, Run
<1> QED
  BY <1>1, AllocKeepsInv, FreeReadKeepsInv, FreeClearKeepsInv DEF Next

LEMMA InvIsInvariant == Spec => []Inv
BY InitEstablishesInv, NextKeepsInv, PTL DEF Spec

\* Flags and lengths always describe the blocks in use, however the unlocked
\* reads of simplejs_vm_memory_free interleave with other threads.
THEOREM BookkeepingHolds == Spec => []Bookkeeping
<1>1. Inv => Bookkeeping
  BY DEF Inv
<1> QED
  BY <1>1, InvIsInvariant, PTL

\* The assertions of simplejs_vm_memory_free never fail.
THEOREM FreeAssertionsAlwaysHold == Spec => []FreeAssertionsHold
<1>1. ASSUME Inv, NEW b \in Pending
      PROVE  count[b.start] # 0 /\ b.start \in allocated
  <2>1. b \in InUse /\ b \in Blocks
    BY <1>1, InUseAreBlocks DEF Inv, InUse
  <2>2. b.start \in PagesOf(b) /\ b.size # 0
    BY <2>1, VmMemoryAssumption DEF Blocks, PagesOf, Run, Page
  <2> QED
    BY <1>1, <2>1, <2>2 DEF Inv, Bookkeeping, InUse
<1>2. Inv => FreeAssertionsHold
  BY <1>1 DEF FreeAssertionsHold
<1> QED
  BY <1>2, InvIsInvariant, PTL

\* A block in use is not empty.
LEMMA StartsInside ==
  ASSUME TypeOK, NEW b \in InUse
  PROVE  /\ b \in Blocks
         /\ b.start \in PagesOf(b) /\ b.size # 0
         /\ PagesOf(b) \subseteq Page
BY InUseAreBlocks, VmMemoryAssumption DEF Blocks, PagesOf, Run, Page

\* simplejs_vm_memory_find_alloc_start returns the block an address lies in.
THEOREM AddressesLeadToTheirOwner == Spec => []FindsOwner
<1>1. ASSUME Inv, NEW b \in owned, NEW p \in PagesOf(b)
      PROVE  Finds(b.start, p) /\ count[b.start] = b.size
  <2>1. b \in InUse /\ count[b.start] = b.size
    BY <1>1 DEF Inv, Bookkeeping, InUse
  <2>2. b.start \in Page /\ b.start \in allocated
    BY <1>1, <2>1, StartsInside DEF Inv, Bookkeeping, InUse
  <2>3. LeadsTo(b.start, p)
    BY <1>1, <2>1, <2>2, StartsInside DEF Inv, LeadsTo, PagesOf
  <2>4. ASSUME NEW q \in 0 .. b.start - 1, LeadsTo(q, p) PROVE FALSE
    <3>1. q \in Page /\ q # b.start
      BY <2>2, VmMemoryAssumption DEF Page
    <3>2. PICK c \in InUse : c.start = q
      BY <1>1, <2>4, <3>1 DEF Inv, Bookkeeping, InUse, LeadsTo
    <3>3. p \in PagesOf(c)
      BY <1>1, <2>4, <3>2 DEF Inv, Bookkeeping, InUse, LeadsTo, PagesOf
    <3>4. b # c
      BY <3>1, <3>2
    <3> QED
      BY <1>1, <2>1, <3>2, <3>3, <3>4 DEF Inv, NoOverlap
  <2> QED
    BY <2>1, <2>3, <2>4 DEF Finds
<1>2. Inv => FindsOwner
  BY <1>1 DEF FindsOwner
<1> QED
  BY <1>2, InvIsInvariant, PTL

LEMMA AllocAllocates ==
  ASSUME Inv, NEW start \in Page, NEW size \in 1 .. MaxRequest, Alloc(start, size)
  PROVE  Memory!Next
<1> DEFINE b == [start |-> start, size |-> size]
           units == {PagesOf(c) : c \in owned}
<1>1. PagesOf(b) \in SUBSET Page /\ PagesOf(b) # {} /\ PagesOf(b) \cap allocated = {}
  BY VmMemoryAssumption DEF Alloc, IsFreeRun, PagesOf, Run, Page
<1>2. UNION units \subseteq allocated
  BY DEF Inv, Bookkeeping
<1>3. owned' = owned \union {b}
  BY DEF Alloc
<1> HIDE DEF b
<1>4. {PagesOf(c) : c \in owned'} = units \union {PagesOf(b)}
  BY <1>3
<1>5. {PagesOf(c)' : c \in owned'} = {PagesOf(c) : c \in owned'}
  BY DEF PagesOf, Run
<1>6. Memory!Allocate(PagesOf(b))
  BY <1>1, <1>2, <1>4, <1>5 DEF Memory!Allocate
<1>7. PagesOf(b) \notin units
  BY <1>1, <1>2
<1> QED
  BY <1>4, <1>5, <1>6, <1>7 DEF Memory!Next

LEMMA FreeReadFrees ==
  ASSUME Inv, NEW t \in Threads, NEW b \in owned, FreeRead(t, b)
  PROVE  Memory!Next
<1> DEFINE units == {PagesOf(c) : c \in owned}
<1>1. \A c \in owned : PagesOf(c) = PagesOf(b) => c = b
  <2> SUFFICES ASSUME NEW c \in owned, c # b PROVE PagesOf(c) # PagesOf(b)
    OBVIOUS
  <2>1. b \in InUse /\ c \in InUse /\ b.start \in PagesOf(b)
    BY StartsInside DEF Inv, InUse
  <2> QED
    BY <2>1 DEF Inv, NoOverlap
<1>2. owned' = owned \ {b}
  BY DEF FreeRead
<1>3. {PagesOf(c) : c \in owned'} = units \ {PagesOf(b)}
  BY <1>1, <1>2
<1>4. {PagesOf(c)' : c \in owned'} = {PagesOf(c) : c \in owned'}
  BY DEF PagesOf, Run
<1>5. Memory!Free(PagesOf(b))
  BY <1>3, <1>4 DEF Memory!Free
<1> QED
  BY <1>5 DEF Memory!Next

\* The page map is an allocator: what threads hold never shares a page.
THEOREM MemoryIsAnAllocator == Spec => ImplementsAllocator
<1>1. Init => Memory!Init
  BY DEF Init, Memory!Init
<1>2. ASSUME Inv, [Next]_vars
      PROVE  Memory!Next \/ UNCHANGED {PagesOf(b) : b \in owned}
  <2>1. ASSUME owned' = owned PROVE UNCHANGED {PagesOf(b) : b \in owned}
    BY <2>1 DEF PagesOf, Run
  <2>2. (\E t \in Threads : FreeClear(t)) => owned' = owned
    BY DEF FreeClear
  <2>3. UNCHANGED vars => owned' = owned
    BY DEF vars
  <2> QED
    BY <1>2, <2>1, <2>2, <2>3, AllocAllocates, FreeReadFrees DEF Next
<1> QED
  BY <1>1, <1>2, InvIsInvariant, PTL DEF Spec, Memory!Spec, ImplementsAllocator
=============================================================================
