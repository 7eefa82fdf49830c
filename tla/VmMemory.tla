------------------------------ MODULE VmMemory ------------------------------
(***************************************************************************)
(* The memory of the VM (vm-memory.c): executables and the memory programs  *)
(* ask for are runs of pages.  A flag marks every page in use, and the first *)
(* page of a run holds its length, in 16 bits.                              *)
(*                                                                         *)
(* A thread that frees memory reads the length before it takes the lock.    *)
(***************************************************************************)
EXTENDS Integers

CONSTANTS
  Threads,       \* the threads that allocate and free
  Pages,         \* memory_size_in_pages
  CountModulus,  \* allocated_pages counts modulo this
  MaxRequest,    \* bound: pages a thread asks for at once
  Nothing        \* no block is being freed

ASSUME VmMemoryAssumption ==
  /\ Pages \in Nat
  /\ CountModulus \in Nat \ {0}
  /\ MaxRequest \in Nat
  /\ MaxRequest < CountModulus
  /\ Nothing \notin [start : Nat, size : Nat]

Page == 0 .. Pages - 1

VARIABLES
  allocated,   \* the pages with SIMPLEJS_VM_MEMORY_PAGE_ALLOCATED_FLAG
  count,       \* allocated_pages
  owned,       \* the blocks the threads hold: start and size they asked for
  freeing      \* per thread, the block it is about to free, as it was read

vars == <<allocated, count, owned, freeing>>

\* The pages from start on.
Run(start, size) == start .. start + size - 1

Init ==
  /\ allocated = {}
  /\ count = [p \in Page |-> 0]
  /\ owned = {}
  /\ freeing = [t \in Threads |-> Nothing]

\* Mutant: the run may begin one page early.
IsFreeRunOneEarly(start, size) ==
  start + size <= Pages /\ Run(start + 1, size - 1) \cap allocated = {}

\* current_free_pages reaches size at the last page of the run.
IsFreeRun(start, size) ==
  start + size <= Pages /\ Run(start, size) \cap allocated = {}

\* The first run that is long enough, marked up to the length that is stored.
Alloc(start, size) ==
  LET stored == size % CountModulus IN
  /\ IsFreeRun(start, size)
  /\ \A p \in 0 .. start - 1 : ~IsFreeRun(p, size)
  /\ count' = [count EXCEPT ![start] = stored]
  /\ allocated' = allocated \union Run(start, stored)
  /\ owned' = owned \union {[start |-> start, size |-> size]}
  /\ UNCHANGED freeing

\* The thread gives the block up; its length is read without the lock.
FreeRead(t, b) ==
  /\ freeing[t] = Nothing
  /\ b \in owned
  /\ owned' = owned \ {b}
  /\ freeing' = [freeing EXCEPT ![t] = [start |-> b.start, size |-> count[b.start]]]
  /\ UNCHANGED <<allocated, count>>

\* Mutant: the page behind the run is cleared too.
ClearedOneMore(b) == Run(b.start, b.size + 1) \cap Page

Cleared(b) == Run(b.start, b.size)

FreeClear(t) ==
  /\ freeing[t] # Nothing
  /\ allocated' = allocated \ Cleared(freeing[t])
  /\ count' = [p \in Page |-> IF p \in Cleared(freeing[t]) THEN 0 ELSE count[p]]
  /\ freeing' = [freeing EXCEPT ![t] = Nothing]
  /\ UNCHANGED owned

Next ==
  \/ \E start \in Page, size \in 1 .. MaxRequest : Alloc(start, size)
  \/ \E t \in Threads, b \in owned : FreeRead(t, b)
  \/ \E t \in Threads : FreeClear(t)

Spec == Init /\ [][Next]_vars

\* Mutant: a page is searched for in runs that end with it, too.
LeadsToInclusive(start, p) ==
  start \in allocated /\ count[start] # 0 /\ p \in start .. start + count[start]

\* simplejs_vm_memory_find_alloc_start: an address on page p is in the run that
\* starts here.
LeadsTo(start, p) ==
  start \in allocated /\ count[start] # 0 /\ p \in Run(start, count[start])

\* The run it returns is the first that answers.
Finds(start, p) == LeadsTo(start, p) /\ \A q \in 0 .. start - 1 : ~LeadsTo(q, p)

-----------------------------------------------------------------------------
(* Properties.                                                             *)

Blocks == {b \in [start : Page, size : 1 .. MaxRequest] : b.start + b.size <= Pages}
Pending == {freeing[t] : t \in Threads} \ {Nothing}
PagesOf(b) == Run(b.start, b.size)

\* Flags and lengths belong to pages, and the blocks of the threads to the
\* memory.
TypeOK ==
  /\ allocated \subseteq Page
  /\ count \in [Page -> 0 .. CountModulus - 1]
  /\ owned \subseteq Blocks
  /\ freeing \in [Threads -> Blocks \union {Nothing}]

\* The pages marked as allocated are those of the blocks held or being freed,
\* and a length is stored for the first page of each of them and nowhere else:
\* whatever other threads do between the unlocked read of the length and the
\* clearing of the pages, exactly the block is cleared.
Bookkeeping ==
  /\ allocated = UNION {PagesOf(b) : b \in owned \union Pending}
  /\ \A b \in owned \union Pending : count[b.start] = b.size
  /\ \A p \in Page : count[p] # 0 => \E b \in owned \union Pending : b.start = p

\* simplejs_vm_memory_free finds its two assertions true.
FreeAssertionsHold ==
  \A b \in Pending : count[b.start] # 0 /\ b.start \in allocated

\* The run that is found for an address in a block is that block.
FindsOwner ==
  \A b \in owned : \A p \in PagesOf(b) :
    Finds(b.start, p) /\ count[b.start] = b.size

Memory == INSTANCE Allocator WITH Units <- Page, blocks <- {PagesOf(b) : b \in owned}

\* The blocks the threads hold never share a page.
ImplementsAllocator == Memory!Spec
=============================================================================
