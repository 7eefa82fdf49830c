--------------------------- MODULE DynamicString ---------------------------
(***************************************************************************)
(* The buffer of a dynamic string (builtin_object/dynamic_string.c): its    *)
(* size, the memory allocated for it, its bytes and the cached hash, under  *)
(* the writes, resizings and reads a program can ask for.  Every operation  *)
(* holds the property lock, and one thread runs the program: an operation   *)
(* is a step.                                                              *)
(*                                                                         *)
(* Offsets count from zero, as in the code; sizes are size_t, modulo Word.  *)
(* A copy whose source and destination overlap moves the bytes it has read, *)
(* as memcpy of the supported C library does.                              *)
(***************************************************************************)
EXTENDS Utf8, SequencesExt

CONSTANTS
  Word,      \* the modulus of size_t
  Block,     \* dynamic_string_block_size
  Texts,     \* the texts that are written, sequences of codes
  Offsets,   \* where they are written and read
  Sizes,     \* what length and allocated_size are set to
  MaxSize    \* bound: no write makes the string longer

ASSUME DynamicStringAssumption ==
  /\ Word \in Nat /\ Block \in 1 .. Word - 1 /\ Word % Block = 0
  /\ Texts \subseteq Seq(1 .. MaxCode)
  /\ Offsets \subseteq 0 .. Word - 1 /\ Sizes \subseteq 0 .. Word - 1
  /\ MaxSize \in 0 .. Word - 1

VARIABLES
  string,       \* the bytes of the block string points to
  heap,         \* is_heap_allocated: no block of the pool yet, the literal ""
  valid,        \* valid_size
  allocated,    \* allocated_size
  dirty,        \* is_dirty
  hashed,       \* string_hash is that of the characters of the string
  crashed       \* the operation that ended the process: a bad access, an assertion

vars == <<string, heap, valid, allocated, dirty, hashed, crashed>>

NoCrash == [op |-> "none", size |-> 0]
Unwritten == -1   \* a byte of a block the pool handed out

Init ==
  /\ string = <<0>> /\ heap = FALSE
  /\ valid = 0 /\ allocated = 1
  /\ dirty = TRUE /\ hashed = FALSE
  /\ crashed = NoCrash

\* The bytes of the string, those of s if it has size n, and their codes.
Bytes(s, n) == SubSeq(s, 1, n)
CodeAt(s, offset, n) == Decode(SubSeq(s, offset + 1, n))

\* The characters a sequence of bytes is read as.
Codes(bytes) ==
  LET from[i \in 1 .. Len(bytes) + 1] ==
        IF i > Len(bytes) THEN <<>>
        ELSE LET c == Decode(SubSeq(bytes, i, Len(bytes))) IN <<c.code>> \o from[i + c.size]
  IN from[1]

\* align_to_dynamic_string_block
Aligned(size) == (((size + Block - 1) % Word) \div Block) * Block

\* relocate_offset_to_valid_char: back over continuation bytes, not beyond 1.
Relocated(s, offset, n) ==
  IF offset >= n \/ offset <= 1 THEN offset
  ELSE Max({i \in 1 .. offset : i = 1 \/ ~IsContinuation(s[i + 1])})

\* A copy of the first `kept' bytes and the one after them in a new block.
Reallocated(size, kept) ==
  [i \in 1 .. size |-> IF i <= kept + 1 THEN string[i] ELSE Unwritten]

\* What the fields become, where nothing is out of bounds.  What was written
\* behind the terminator is forgotten: no text should have it.
Becomes(s, n, size, isDirty) ==
  /\ string' = [i \in 1 .. Len(s) |-> IF i <= n + 1 THEN s[i] ELSE Unwritten]
  /\ valid' = n /\ allocated' = size /\ dirty' = isDirty
  /\ hashed' = (hashed /\ Codes(Bytes(s, n)) = Codes(Bytes(string, valid)))
  /\ UNCHANGED crashed

Crash(op, size) ==
  /\ crashed' = [op |-> op, size |-> size]
  /\ UNCHANGED <<string, heap, valid, allocated, dirty, hashed>>

NoMemory == UNCHANGED vars

-----------------------------------------------------------------------------
(* The properties length (valid_size) and allocated_size.                   *)

\* Mutant: a new length does not mark the hash.
SetLengthKeepsHash(size) ==
  LET n == Min({size, valid})
  IN \/ /\ heap
        /\ Becomes([string EXCEPT ![n + 1] = 0], n, allocated, dirty)
        /\ UNCHANGED heap
     \/ ~heap /\ Crash("length", size) 

\* simplejs_dynamic_string_on_valid_size_change: the new size has been stored,
\* so relocate_offset_to_valid_char leaves it as it is.
SetLength(size) ==
  LET n == Min({size, valid})
  IN \/ /\ heap
        /\ Becomes([string EXCEPT ![n + 1] = 0], n, allocated, dirty \/ n # valid)
        /\ UNCHANGED heap
     \/ ~heap /\ Crash("length", size)   \* the terminator is written to a literal

\* Mutant: no room for the terminator.
SetAllocatedShort(size) ==
  LET end == Relocated(string, size, valid)
      block == Aligned(end)
      n == Min({valid, end})
      s == IF block = allocated THEN string ELSE Reallocated(block, n)
  IN \/ block # allocated /\ block = 0 /\ Crash("allocated_size", size)
     \/ block # allocated /\ block # 0 /\ NoMemory
     \/ /\ block = allocated \/ block # 0
        /\ heap' = (heap \/ block # allocated)
        /\ Becomes(IF n = valid THEN s ELSE [s EXCEPT ![n + 1] = 0], n, block, dirty \/ n # valid)

\* simplejs_dynamic_string_on_allocated_size_change
SetAllocated(size) ==
  LET end == Relocated(string, size, valid)
      block == Aligned((end + 1) % Word)
      n == Min({valid, end})
      s == IF block = allocated THEN string ELSE Reallocated(block, n)
  IN \/ block # allocated /\ block = 0 /\ Crash("allocated_size", size)   \* simplejs_pool_malloc
     \/ block # allocated /\ block # 0 /\ NoMemory
     \/ /\ block = allocated \/ block # 0
        /\ heap' = (heap \/ block # allocated)
        /\ Becomes(IF n = valid THEN s ELSE [s EXCEPT ![n + 1] = 0], n, block, dirty \/ n # valid)

-----------------------------------------------------------------------------
(* simplejs_builtin_dynamic_string_write_ex                                 *)

\* Mutant: what was added is not forgotten behind the end.
AdditionalKeepsSum(text, offset) ==
  FoldLeft(LAMBDA pass, code :
             LET old == CodeAt(string, pass.i, valid).size
             IN [i |-> pass.i + old,
                 sum |-> pass.sum + (IF pass.i < valid THEN CharSize(code) - old ELSE 0)],
           [i |-> offset, sum |-> 0], text).sum

\* The first pass: what the characters replaced and their replacements differ
\* by, nothing once a character is written behind the end.
Additional(text, offset) ==
  FoldLeft(LAMBDA pass, code :
             LET old == CodeAt(string, pass.i, valid).size
             IN [i |-> pass.i + old,
                 sum |-> IF pass.i < valid THEN pass.sum + CharSize(code) - old ELSE 0],
           [i |-> offset, sum |-> 0], text).sum

BytesOf(text) == FlattenSeq([i \in 1 .. Len(text) |-> Encode(text[i])])

\* The bytes from `from' on, up to the end n, copied to `to'; n counts for the
\* number of bytes copied from the larger of the two.
Moved(s, to, from, n) ==
  LET count == n - Max({to, from})
  IN [i \in 1 .. Len(s) |-> IF i \in to + 1 .. to + count THEN s[i + from - to] ELSE s[i]]

\* A step of the second pass: make room for the character in place of the old
\* one, or close up, then put it.
Put(pass, code, old, plan) ==
  LET size == CharSize(code)
      s == CASE plan.moves /\ size > old.size -> Moved(pass.s, pass.i + size - old.size, pass.i, plan.n)
             [] plan.moves /\ size < old.size -> Moved(pass.s, pass.i, pass.i + old.size - size, plan.n)
             [] OTHER -> pass.s
  IN [s |-> [i \in 1 .. Len(s) |->
               IF i \in pass.i + 1 .. pass.i + size THEN Encode(code)[i - pass.i] ELSE s[i]],
      i |-> pass.i + size,
      dirty |-> pass.dirty \/ old.code # code \/ (plan.moves /\ size # old.size),
      over |-> pass.over \/ pass.i + size > Len(s)]

\* What a write will do: the size it ends with and the memory it asks for.
Plan(offset, sum, required) ==
  [offset |-> offset, moves |-> sum # 0,
   resized |-> sum # 0 \/ required > valid,
   n |-> IF sum # 0 \/ required > valid THEN required ELSE valid,
   request |-> Aligned((required + 1) % Word)]

PlanFor(text, offset, sum) ==
  Plan(offset, sum,
       (IF sum # 0 THEN valid + sum ELSE offset + Len(BytesOf(text))) % Word)

\* simplejs_dynamic_string_on_allocated_size_change of the request
Grown(request) ==
  IF request > allocated THEN Reallocated(Aligned((request + 1) % Word), valid) ELSE string

\* Spaces up to the offset, and the terminator at the new size.
Spaced(block, plan) ==
  [i \in 1 .. Len(block) |->
     CASE i \in valid + 1 .. plan.offset     -> 32
       [] plan.resized /\ i = plan.n + 1     -> 0
       [] OTHER                              -> block[i]]

Result(pass, plan) ==
  [s |-> pass.s, n |-> plan.n, dirty |-> pass.dirty, grows |-> plan.request > allocated,
   over |-> pass.over \/ plan.offset > Max({valid, Len(pass.s)})]

WrittenAs(text, plan) ==
  Result(FoldLeft(LAMBDA pass, code : Put(pass, code, CodeAt(pass.s, pass.i, plan.n), plan),
                  [s |-> Spaced(Grown(plan.request), plan), i |-> plan.offset,
                   dirty |-> dirty \/ plan.resized, over |-> FALSE],
                  text), plan)

WrittenAt(text, offset) == WrittenAs(text, PlanFor(text, offset, Additional(text, offset)))

\* What the write of a text makes of the string, when there is memory.
Written(text, where) == WrittenAt(text, Relocated(string, where, valid))

Store(w, where) ==
  /\ w.n <= MaxSize
  /\ \/ w.grows /\ NoMemory
     \/ w.over /\ Crash("write", where)
     \/ /\ ~w.over
        /\ heap' = (heap \/ w.grows)
        /\ Becomes(w.s, w.n, Len(w.s), w.dirty)

Write(text, where) == Store(Written(text, where), where)

-----------------------------------------------------------------------------
(* Reading                                                                  *)

\* simplejs_dynamic_string_get_hash_string, for a key that is this string
GetHashString ==
  /\ dirty' = FALSE
  /\ hashed' = (hashed \/ dirty)
  /\ UNCHANGED <<string, heap, valid, allocated, crashed>>

\* charAt and the property that is a number
CharAt(offset) == CodeAt(string, Relocated(string, offset, valid), valid).code

Next ==
  /\ crashed = NoCrash
  /\ \/ \E size \in Sizes : SetLength(size) \/ SetAllocated(size)
     \/ \E text \in Texts, offset \in Offsets : Write(text, offset)
     \/ GetHashString

Spec == Init /\ [][Next]_vars

-----------------------------------------------------------------------------
(* Properties                                                               *)

\* The text ends inside its block, in a terminator that is the first, and every
\* byte before it was written; the pool gets back the block it handed out.  No
\* operation reaches out of the block, or asks the pool for nothing, but for a
\* size at the end of the address space, and a resize of the literal.
TextFits ==
  IF crashed # NoCrash
  THEN (crashed.op = "length" /\ ~heap) \/ crashed.size >= Word - Block
  ELSE /\ allocated = Len(string) /\ valid < allocated
       /\ string[valid + 1] = 0
       /\ \A i \in 1 .. valid : string[i] \notin {0, Unwritten}

\* A string used as a key is found by its hash: unless it is marked dirty, the
\* hash is that of its characters.  Not always of its bytes: the replacement
\* character written over one that a new length has cut leaves the mark alone.
HashIsFresh == hashed \/ dirty

Text == Bytes(string, valid)
IsWhole(bytes) == BytesOf(Codes(bytes)) = bytes

\* The number of characters of the text that the byte at an offset is behind.
Index(text, offset) ==
  Cardinality({k \in 1 .. Len(text) : Len(BytesOf(SubSeq(text, 1, k))) <= offset})

\* A write replaces as many characters as it writes, the one that has the byte
\* at the offset first; it appends those behind the end, after spaces up to it.
Replaced(text, new, offset) ==
  LET k == Index(text, offset)
      spaces == [i \in 1 .. Max({0, offset - Len(BytesOf(text))}) |-> 32]
  IN SubSeq(text, 1, k) \o spaces \o new \o SubSeq(text, k + Len(new) + 1, Len(text))

\* The exceptions: a character is replaced by a shorter one (the last byte is
\* lost, for the terminator is written before the bytes are moved), and an inner
\* byte of the first character (relocate_offset_to_valid_char stops at the
\* second byte of the string and takes it for a character).
Shrinks(text, new, offset) ==
  \E i \in 1 .. Min({Len(new), Len(text) - Index(text, offset)}) :
    CharSize(text[Index(text, offset) + i]) > CharSize(new[i])

Misplaced(text, offset) == text # <<>> /\ offset \in 1 .. CharSize(text[1]) - 1

\* Where these do not apply, a write to a text of whole characters makes of it
\* the text it should, and a read gives the character the byte belongs to.
ReadsRight(before, offset) ==
  offset < valid => CharAt(offset) = before[Index(before, offset) + 1]
WritesRight(w, bytes) == w.over \/ Bytes(w.s, w.n) = bytes
Serves(before, offset) ==
  Misplaced(before, offset)
    \/ /\ ReadsRight(before, offset)
       /\ \A text \in Texts :
            Shrinks(before, text, offset)
              \/ WritesRight(Written(text, offset), BytesOf(Replaced(before, text, offset)))

CharactersAreReplaced ==
  crashed = NoCrash /\ IsWhole(Text) => \A offset \in Offsets : Serves(Codes(Text), offset)
=============================================================================
