-------------------------------- MODULE Pool --------------------------------
(***************************************************************************)
(* The pool allocator (pool.c).  A pool entry is a run of blocks and a map   *)
(* that holds, for the first block of an allocation, its length.  Entries   *)
(* with allocations are in used_alloc_list, empty ones in free_alloc_list.   *)
(* A thread gives back the pages behind the last allocation of an entry that *)
(* was not touched for a while, and entries that stay empty.                *)
(*                                                                         *)
(* Every operation holds main_lock from its first to its last access, so it  *)
(* is one step; only simplejs_destroy_pool reads the list without it.  A     *)
(* page of the map has entries for a whole number of pages of data, so both  *)
(* are cut at the same block.  An allocation that fails changes nothing.     *)
(***************************************************************************)
EXTENDS Integers, FiniteSets, SequencesExt

CONSTANTS
  MaxEntries,   \* bound: pool entries at a time
  PageEntries,  \* map entries in a page
  MaxRequest    \* bound: blocks of one allocation

ASSUME PoolAssumption ==
  /\ MaxEntries \in Nat
  /\ PageEntries \in Nat \ {0}
  /\ MaxRequest \in Nat \ {0}

\* align_to_page_size, in map entries
AlignToPage(n) == ((n + PageEntries - 1) \div PageEntries) * PageEntries

Entries == 1 .. MaxEntries
Capacity == AlignToPage(MaxRequest)
Block == 0 .. Capacity - 1

VARIABLES
  used,     \* used_alloc_list
  free,     \* free_alloc_list
  entry,    \* the entries: data_map_entries, used blocks, highest block, map
  alive,    \* the allocations the program holds
  thread,   \* "running", or "ended" after its last collection
  destroy   \* "open", "killing" the thread, or "destroyed"

vars == <<used, free, entry, alive, thread, destroy>>

NoEntry == [size |-> 0, used |-> 0, highest |-> 0, map |-> [b \in Block |-> 0]]
NewEntry(size) == [NoEntry EXCEPT !.size = size]

Init ==
  /\ used = <<>> /\ free = <<>>
  /\ entry = [e \in Entries |-> NoEntry]
  /\ alive = {}
  /\ thread = "running"
  /\ destroy = "open"

\* The list without the entries in S.
Without(list, S) ==
  LET rest[i \in 0 .. Len(list)] ==
        IF i = 0 THEN <<>>
        ELSE IF list[i] \in S THEN rest[i - 1] ELSE Append(rest[i - 1], list[i])
  IN rest[Len(list)]

-----------------------------------------------------------------------------
(* simplejs_pool_malloc                                                     *)

NotFound == -1

\* Mutant: the search does not step over allocations.
FindFreeEverywhere(x, n) ==
  LET fits == {b \in 0 .. x.size - n : \A i \in b .. b + n - 1 : x.map[i] = 0}
  IN IF fits = {} THEN NotFound ELSE CHOOSE b \in fits : \A c \in fits : b <= c

\* Mutant: one block more than asked for has to be free.
FindFreeOneMore(x, n) ==
  LET found == FindFreeEverywhere(x, n + 1) IN
  IF x.used = 0 THEN 0 ELSE found

\* simplejs_find_free_pool_map: from block p[1] on, after p[2] free blocks.
FindFree(x, n) ==
  LET find[p \in (0 .. 2 * Capacity) \X (0 .. Capacity)] ==
        LET size == x.map[p[1]]
            run == IF size = 0 THEN p[2] + 1 ELSE 0
        IN IF p[1] >= x.size THEN NotFound
           ELSE IF run >= n THEN p[1] - (run - 1)
           ELSE find[<<p[1] + (IF size = 0 THEN 1 ELSE size), run>>]
  IN find[<<0, 0>>]

Fits(x, n) == x.size - x.used >= n /\ FindFree(x, n) # NotFound

\* The first entry of the list with room.
FirstFit(list, n) ==
  {list[i] : i \in {i \in DOMAIN list : /\ Fits(entry[list[i]], n)
                                         /\ \A j \in 1 .. i - 1 : ~Fits(entry[list[j]], n)}}

Place(x, n) ==
  LET b == FindFree(x, n) IN
  [x EXCEPT !.map[b] = n, !.used = @ + n, !.highest = IF @ < b THEN b ELSE @]

\* The entry e, as it is in x, takes the allocation and goes to the end of the
\* used list.
AllocateFrom(e, x, n) ==
  /\ used' = Append(Without(used, {e}), e)
  /\ free' = Without(free, {e})
  /\ entry' = [entry EXCEPT ![e] = Place(x, n)]
  /\ alive' = alive \union {[entry |-> e, start |-> FindFree(x, n), size |-> n]}
  /\ UNCHANGED <<thread, destroy>>

Unused == Entries \ (ToSet(used) \union ToSet(free))

MallocFromFree(n) ==
  /\ destroy = "open"
  /\ \E e \in FirstFit(free, n) : AllocateFrom(e, entry[e], n)

MallocFromUsed(n) ==
  /\ destroy = "open"
  /\ FirstFit(free, n) = {}
  /\ \E e \in FirstFit(used, n) : AllocateFrom(e, entry[e], n)

\* The map gets whole pages, and the data a block for each of its entries.
MallocNew(n) ==
  /\ destroy = "open"
  /\ FirstFit(free, n) = {} /\ FirstFit(used, n) = {}
  /\ \E e \in Unused : /\ \A d \in Unused : e <= d
                       /\ AllocateFrom(e, NewEntry(AlignToPage(n)), n)

-----------------------------------------------------------------------------
(* simplejs_pool_mfree                                                      *)

\* Mutant: the mark of the highest allocation stays where it was.
LoweredNever(x, b) == x.highest

\* The highest allocation but b, or the first block.
Lowered(x, b) ==
  IF b # x.highest THEN x.highest
  ELSE LET below == {i \in 0 .. b - 1 : x.map[i] # 0} \union {0}
       IN CHOOSE i \in below : \A j \in below : j <= i

Mfree(a) ==
  LET e == a.entry
      x == entry[e]
      size == x.map[a.start]
      empty == x.used <= size
  IN /\ destroy = "open"
     /\ a \in alive
     /\ alive' = alive \ {a}
     /\ IF e \in ToSet(used)
          THEN /\ entry' = [entry EXCEPT ![e] =
                    [x EXCEPT !.highest = Lowered(x, a.start),
                              !.used = IF empty THEN 0 ELSE @ - size,
                              !.map[a.start] = 0]]
               /\ used' = IF empty THEN Without(used, {e}) ELSE used
               /\ free' = IF empty THEN Append(free, e) ELSE free
          ELSE UNCHANGED <<entry, used, free>>
     /\ UNCHANGED <<thread, destroy>>

-----------------------------------------------------------------------------
(* The thread of the pool, and the end of the pool.                         *)

EndOfUse(x) == x.highest + x.map[x.highest]

Shrunk(x) ==
  LET size == AlignToPage(EndOfUse(x)) IN
  IF 0 < size /\ size < x.size THEN [x EXCEPT !.size = size] ELSE x

\* simplejs_pool_collect_garbage: old were not touched for the expiration
\* time, gone are the empty entries it frees.
CollectGarbage(old, gone) ==
  /\ free' = Without(free, gone)
  /\ entry' = [e \in Entries |->
                 IF e \in ToSet(free) \cap gone THEN NoEntry
                 ELSE IF e \in ToSet(used) \cap old THEN Shrunk(entry[e])
                 ELSE entry[e]]
  /\ UNCHANGED <<used, alive, destroy>>

\* It has not seen kill_thread_request yet.
Collect(old) == thread = "running" /\ CollectGarbage(old, old) /\ UNCHANGED thread

\* Mutant: the last collection keeps what has not expired.
LastCollectKeepsYoung(old) ==
  /\ thread = "running"
  /\ destroy = "killing"
  /\ CollectGarbage(old, old)
  /\ thread' = "ended"

LastCollect(old) ==
  /\ thread = "running"
  /\ destroy = "killing"
  /\ CollectGarbage(old, Entries)
  /\ thread' = "ended"

\* A pool in use is not destroyed.
DestroyPool ==
  /\ destroy = "open"
  /\ used = <<>>
  /\ destroy' = "killing"
  /\ UNCHANGED <<used, free, entry, alive, thread>>

\* simplejs_destroy_thread waits for the thread.
Destroyed ==
  /\ destroy = "killing"
  /\ thread = "ended"
  /\ destroy' = "destroyed"
  /\ UNCHANGED <<used, free, entry, alive, thread>>

Terminated == destroy = "destroyed" /\ UNCHANGED vars

Next ==
  \/ \E n \in 1 .. MaxRequest : MallocFromFree(n) \/ MallocFromUsed(n) \/ MallocNew(n)
  \/ \E a \in alive : Mfree(a)
  \/ \E old \in SUBSET Entries : Collect(old) \/ LastCollect(old)
  \/ DestroyPool \/ Destroyed \/ Terminated

Spec == Init /\ [][Next]_vars

\* The thread looks at kill_thread_request every 10 ms, and simplejs_destroy_pool
\* waits for it.
FairSpec == Spec /\ WF_vars(\E old \in SUBSET Entries : LastCollect(old)) /\ WF_vars(Destroyed)

-----------------------------------------------------------------------------
(* Properties.                                                             *)

In(e) == {a \in alive : a.entry = e}
Blocks(a) == a.start .. a.start + a.size - 1

\* Maps, counts and marks say what is allocated: an allocation has its length
\* in the map of an entry of the used list, no other length is stored, the
\* used blocks are those of the allocations, and the highest mark is that of
\* the last one.  The assertions of simplejs_pool_mfree and of the collector
\* follow, and that an allocation that is freed is found.  No entry is in two
\* lists, and the collector never gave back a page with a block in use.
Bookkeeping ==
  /\ IsInjective(used \o free)
  /\ \A a \in alive : a.start + a.size <= entry[a.entry].size
  /\ \A e \in Entries : LET x == entry[e] IN
       /\ e \in ToSet(used) <=> In(e) # {}
       /\ \A b \in Block : x.map[b] # 0 => [entry |-> e, start |-> b, size |-> x.map[b]] \in alive
       /\ \A a \in In(e) : x.map[a.start] = a.size
       /\ x.used = Cardinality(UNION {Blocks(a) : a \in In(e)})
       /\ In(e) # {} => EndOfUse(x) # 0 /\ \E a \in In(e) : a.start = x.highest

\* A new entry is made only when every run of free blocks is too short.
NewOnlyWhenNothingFits ==
  [][\A a \in alive' \ alive :
       a.entry \in Unused =>
         \A e \in Entries \ Unused : \A b \in 0 .. entry[e].size - a.size :
           \E c \in In(e) : Blocks(c) \cap (b .. b + a.size - 1) # {}]_vars

Memory == INSTANCE Allocator WITH
  Units <- Entries \X Block,
  blocks <- {{a.entry} \X Blocks(a) : a \in alive}

\* Allocations never share a block.
ImplementsAllocator == Memory!Spec

\* A pool that is being destroyed is destroyed, with every entry given back:
\* the thread collects once more, whatever has expired.
DestroyCompletes ==
  destroy = "killing" ~>
    /\ destroy = "destroyed"
    /\ used = <<>> /\ free = <<>> /\ \A e \in Entries : entry[e] = NoEntry
=============================================================================
