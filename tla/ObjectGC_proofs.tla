--------------------------- MODULE ObjectGC_proofs ---------------------------
(***************************************************************************)
(* For any number of objects, registers and properties, and for every       *)
(* interleaving of the program with the collector: counts cover holders,    *)
(* nothing that is held is released, and the two threads implement Heap, as *)
(* long as the program never lets an object hold itself or two objects hold *)
(* each other.  If besides no object holds another in two properties, the    *)
(* counts are exact.                                                        *)
(*                                                                         *)
(* The argument: an object is released when its count, read under its       *)
(* gc_lock, is zero.  Then no variable holds it and the program is not      *)
(* about to store it, because a variable being written keeps its old value  *)
(* counted until it is overwritten, and counts its new value before.  What  *)
(* no variable holds the program cannot get back.                           *)
(***************************************************************************)
EXTENDS ObjectGC, FiniteSetTheorems, TLAPS

\* No two objects ever hold each other, and none holds itself: gc_cycle shows
\* what happens otherwise.
NoMutualLinks == \A p, o \in Objects : <<p, o>> \in Links => <<o, p>> \notin Links

-----------------------------------------------------------------------------
(* The inductive invariant.                                                 *)

Assigning == {"lock", "link", "count", "unlink", "uncount", "store"}
Inspecting == {"links", "counting", "release"}
Dropping == {"drop", "dropcount"}

Busy == vm.pc \in Assigning

Types ==
  /\ status \in [Objects -> {"unallocated", "created", "tracked", "released"}]
  /\ value \in [Slots -> Live \union {Null}]
  /\ refCount \in [Objects -> Int]
  /\ links \in [Objects -> [Objects -> Nat]]
  /\ gcLock \in [Objects -> Holder]
  /\ propLock \in [Objects -> Holder]
  /\ vm \in [pc : Assigning \union {"idle", "publish", "exit", "exited", "aborted"},
             op : {"assign", "delete", "exit"}, slot : Slots \union {Null}, old : Value,
             new : Value, held : Value, made : Value, target : Registers \union {Null}]
  /\ gc \in [pc : Inspecting \union Dropping \union {"idle", "scan", "ended"},
             todo : SUBSET Objects, passes : Int, cur : Value, refs : Int,
             pending : SUBSET Objects, circular : Int, target : Value, final : BOOLEAN]

\* Objects are linked as the program may link them, and so are their properties.
LinksAllowed ==
  /\ \A p, o \in Objects : links[p][o] > 0 => <<p, o>> \in Links
  /\ \A p \in Objects, f \in Fields : value[<<p, f>>] # Null => <<p, value[<<p, f>>]>> \in Links

\* A counted reference that is not in a variable: yet, or any more.
VmOwes(o) ==
  IF \/ vm.op = "assign" /\ vm.pc \in {"unlink", "uncount", "store"}
        /\ vm.new = o /\ Owner(vm.slot) # o
     \/ vm.op # "assign" /\ vm.pc \in {"unlink", "uncount"} /\ vm.old = o
  THEN 1 ELSE 0
GcOwes(o) == IF gc.pc = "dropcount" /\ gc.target = o THEN 1 ELSE 0

Covered == \A o \in Live : Cardinality(Holders(o)) + VmOwes(o) + GcOwes(o) <= refCount[o]

\* The object whose list is locked, and the one being made, stay.
VmHolds ==
  /\ vm.held # Null => vm.held \in Live /\ propLock[vm.held] = "vm"
  /\ vm.made # Null => status[vm.made] = "created" /\ vm.held = Null /\ vm.op = "assign"
  /\ vm.target # Null => vm.made # Null /\ vm.slot \notin Registers

\* The variable that is written is one of theirs or a register; its old value
\* is locked, its new value allowed, and in some variable until it is counted.
VmAssigns ==
  Busy =>
    /\ vm.slot \in Slots
    /\ vm.slot \notin Registers =>
         /\ vm.slot[1] \in {vm.held, vm.made}
         /\ vm.new # Null => <<vm.slot[1], vm.new>> \in Links
    /\ vm.new \in Live \union {Null}
    /\ vm.op = "assign" =>
         value[vm.slot] = vm.old /\ (vm.old # Null /\ vm.pc # "lock" => gcLock[vm.old] = "vm")
    /\ vm.op # "assign" =>
         value[vm.slot] = Null /\ vm.new = Null /\ vm.pc \in {"unlink", "uncount", "store"}
    /\ vm.pc \in {"lock", "unlink", "uncount"} => vm.old # Null
    /\ vm.pc \in {"unlink", "uncount"} => vm.old # Owner(vm.slot)
    /\ vm.pc \in {"link", "count"} => vm.new # Null
    /\ vm.pc \in {"link", "unlink"} => vm.slot \notin Registers
    /\ vm.pc \in {"lock", "link", "count"} /\ vm.new # Null =>
         \/ vm.new = vm.made
         \/ \E s \in Slots : value[s] = vm.new /\ (s \in Registers \/ s[1] = vm.held)

\* The objects no variable holds and the program is not about to store.
Unheld == {o \in Objects : (\A s \in Slots : value[s] # o) /\ (Busy => vm.new # o)}

GcWorks ==
  /\ gc.todo \subseteq Tracked
  /\ gc.pc \in Inspecting =>
       gc.cur \in Tracked \ gc.todo /\ gcLock[gc.cur] = "gc"
  /\ gc.pc \in Dropping =>
       gc.cur \in Objects /\ status[gc.cur] = "released" /\ gcLock[gc.cur] = "gc"
  /\ gc.pc = "dropcount" => gc.target \in Live
  /\ gc.pc \in {"links", "counting"} /\ gc.refs <= 0 => gc.cur \in Unheld
  /\ gc.pc = "release" => gc.cur \in Unheld
  /\ gc.pc = "counting" =>
       gc.circular = 0 /\ \A q \in gc.pending : <<gc.cur, q>> \in Links

\* Objects that are not in use have no properties.
Emptied ==
  \A o \in Objects \ Live, f \in Fields :
    value[<<o, f>>] # Null => o = gc.cur /\ gc.pc \in Dropping

IInv == Types /\ LinksAllowed /\ Covered /\ VmHolds /\ VmAssigns /\ GcWorks /\ Emptied

-----------------------------------------------------------------------------
(* Facts about owners, holders and their number.                            *)

\* Registers and properties are different variables, and every variable has one owner.
LEMMA SlotFacts ==
  /\ Registers \subseteq Slots
  /\ \A p \in Objects, f \in Fields : <<p, f>> \in Slots \ Registers
  /\ \A s \in Slots \ Registers : s[1] \in Objects /\ s[2] \in Fields /\ s = <<s[1], s[2]>>
  /\ \A s \in Slots : s \in Registers => Owner(s) = Null
  /\ \A s \in Slots : s \notin Registers => Owner(s) = s[1] /\ Owner(s) # Null
  BY ObjectGCAssumption DEF Slots, Owner

\* The number of variables that hold an object is a number.
LEMMA HoldersAreFinite ==
  ASSUME NEW o
  PROVE  IsFiniteSet(Holders(o)) /\ Cardinality(Holders(o)) \in Nat
<1>1. IsFiniteSet(Objects \X Fields)
  BY ObjectGCAssumption, FS_Product
<1>2. IsFiniteSet(Slots)
  BY <1>1, ObjectGCAssumption, FS_Union DEF Slots
<1>3. Holders(o) \in SUBSET Slots
  BY DEF Holders
<1> QED BY <1>2, <1>3, FS_Subset, FS_CardinalityType

\* How a number of variables changes when one joins or leaves them.
LEMMA SmallerSets ==
  ASSUME NEW A, NEW B, NEW s, IsFiniteSet(A)
  PROVE  /\ B \subseteq A => Cardinality(B) <= Cardinality(A)
         /\ B \subseteq A \ {s} /\ s \in A => Cardinality(B) <= Cardinality(A) - 1
         /\ B \subseteq A \union {s} => Cardinality(B) <= Cardinality(A) + 1
<1>1. /\ IsFiniteSet(A \ {s}) /\ IsFiniteSet(A \union {s})
      /\ Cardinality(A) \in Nat
      /\ s \in A => Cardinality(A \ {s}) = Cardinality(A) - 1
      /\ Cardinality(A \union {s}) <= Cardinality(A) + 1
  BY FS_RemoveElement, FS_AddElement, FS_CardinalityType
<1>2. \A S, T : IsFiniteSet(S) /\ T \subseteq S
                  => IsFiniteSet(T) /\ Cardinality(T) <= Cardinality(S)
  BY FS_Subset
<1>3. B \subseteq A \union {s} => IsFiniteSet(B) /\ Cardinality(B) \in Nat
  BY <1>1, <1>2, FS_CardinalityType
<1>4. Cardinality(A \ {s}) \in Nat /\ Cardinality(A \union {s}) \in Nat
  BY <1>1, FS_CardinalityType
<1> QED BY <1>1, <1>2, <1>3, <1>4

\* What the first step of an assignment, and the first after counting, can be.
LEMMA FirstSteps ==
  ASSUME NEW s \in Slots, NEW new, NEW old
  PROVE  /\ DereferencePc(s, old) \in {"unlink", "uncount", "store"}
         /\ ReferencePc(s, new, old) \in {"link", "count"} \union {DereferencePc(s, old)}
         /\ DereferencePc(s, old) \in {"unlink", "uncount"} => old \notin {Null, Owner(s)}
         /\ DereferencePc(s, old) = "unlink" <=> s \notin Registers /\ old \notin {Null, Owner(s)}
         /\ ReferencePc(s, new, old) = "link" => s \notin Registers
         /\ IF new \in {Null, Owner(s)} THEN ReferencePc(s, new, old) = DereferencePc(s, old)
                                        ELSE ReferencePc(s, new, old) \in {"link", "count"}
  BY SlotFacts DEF ReferencePc, DereferencePc

-----------------------------------------------------------------------------
(* The steps of the VM.                                                     *)

\* No object exists when the program starts.
LEMMA InitIInv == Init => IInv
<1> SUFFICES ASSUME Init PROVE IInv
  OBVIOUS
<1>1. Types
  BY ObjectGCAssumption DEF Init, IdleVm, Types, Value, Holder, Inspecting, Dropping, Live
<1>2. LinksAllowed
  BY SlotFacts DEF Init, LinksAllowed
<1>3. Covered
  BY DEF Init, Covered, Live
<1>4. VmHolds /\ VmAssigns /\ GcWorks /\ Emptied
  BY SlotFacts DEF Init, IdleVm, VmHolds, VmAssigns, GcWorks, Emptied, Busy, Assigning, Inspecting,
     Dropping, Tracked, Live
<1> QED BY <1>1, <1>2, <1>3, <1>4 DEF IInv

\* The count of an object follows the variables that hold it and what is owed.
LEMMA CoveredStep ==
  ASSUME IInv, NEW o \in Live', o \in Live, refCount'[o] \in Int,
         LET extra == (refCount'[o] - refCount[o])
                        - (VmOwes(o)' + GcOwes(o)' - VmOwes(o) - GcOwes(o))
         IN \/ Holders(o)' \subseteq Holders(o) /\ extra >= 0
            \/ \E s \in Holders(o) : Holders(o)' \subseteq Holders(o) \ {s} /\ extra >= -1
            \/ \E s \in Slots : Holders(o)' \subseteq Holders(o) \union {s} /\ extra >= 1
  PROVE  Cardinality(Holders(o)') + VmOwes(o)' + GcOwes(o)' <= refCount'[o]
<1>1. IsFiniteSet(Holders(o)) /\ Cardinality(Holders(o)) \in Nat
  BY HoldersAreFinite
<1>2. Cardinality(Holders(o)') \in Nat
  <2>1. PICK s : Holders(o)' \subseteq Holders(o) \union {s}
    OBVIOUS
  <2>2. IsFiniteSet(Holders(o) \union {s})
    BY <1>1, FS_AddElement
  <2> QED BY <2>1, <2>2, FS_Subset, FS_CardinalityType
<1>3. /\ Holders(o)' \subseteq Holders(o)
           => Cardinality(Holders(o)') <= Cardinality(Holders(o))
      /\ (\E s \in Holders(o) : Holders(o)' \subseteq Holders(o) \ {s})
           => Cardinality(Holders(o)') <= Cardinality(Holders(o)) - 1
      /\ (\E s \in Slots : Holders(o)' \subseteq Holders(o) \union {s})
           => Cardinality(Holders(o)') <= Cardinality(Holders(o)) + 1
  BY <1>1, SmallerSets
<1>4. refCount[o] \in Int
  BY DEF IInv, Types, Live
<1>5. {VmOwes(o), VmOwes(o)', GcOwes(o), GcOwes(o)'} \subseteq {0, 1}
  BY DEF VmOwes, GcOwes
<1>6. Cardinality(Holders(o)) + VmOwes(o) + GcOwes(o) <= refCount[o]
  BY DEF IInv, Covered
<1> QED BY <1>1, <1>2, <1>3, <1>4, <1>5, <1>6

\* A step of the VM: the collector's state, its locks and what it has found.
LEMMA GcUndisturbed ==
  ASSUME IInv, gc' = gc, Live \subseteq Live',
         \A o \in Objects : status[o] \in {"tracked", "released"} => status'[o] = status[o],
         \A o \in Objects : gcLock[o] = "gc" => gcLock'[o] = "gc",
         \A o \in Tracked : o \in Unheld => o \in Unheld'
  PROVE  GcWorks'
<1>1. Tracked \subseteq Tracked'
  BY DEF Tracked
<1>2. gc.pc \in Inspecting => gc.cur \in Objects /\ status[gc.cur] = "tracked"
  BY DEF IInv, GcWorks, Tracked
<1>3. gc.pc \in Inspecting /\ gc.cur \in Unheld => (gc.cur \in Unheld)'
  BY <1>2 DEF Tracked
<1>4. gc.target \in Live => gc.target \in Live'
  OBVIOUS
<1> QED BY <1>1, <1>2, <1>3, <1>4 DEF IInv, GcWorks, Inspecting, Dropping

\* The gc_lock of the old value is taken: the collector will not inspect it.
LEMMA VmLockIInv == ASSUME IInv, VmLock PROVE IInv'
<1> DEFINE pc == ReferencePc(vm.slot, vm.new, vm.old)
<1>1. /\ vm.slot \in Slots /\ vm.old # Null /\ vm.op = "assign"
      /\ pc \in Assigning \ {"lock"}
      /\ pc \in {"unlink", "uncount", "store"} => vm.new \in {Null, Owner(vm.slot)}
      /\ pc \in {"link", "count"} => vm.new # Null
      /\ pc \in {"link", "unlink"} => vm.slot \notin Registers
      /\ pc \in {"unlink", "uncount"} => vm.old # Owner(vm.slot)
  BY FirstSteps DEF VmLock, IInv, VmAssigns, Busy, Assigning
<1>2. /\ vm' = [vm EXCEPT !.pc = pc] /\ vm.pc = "lock" /\ gcLock[vm.old] = "free"
      /\ gcLock' = [gcLock EXCEPT ![vm.old] = "vm"]
      /\ UNCHANGED <<status, value, refCount, links, propLock, gc>>
  BY DEF VmLock
<1> HIDE DEF pc
<1>3. Types'
  BY <1>1, <1>2 DEF IInv, Types, Live, Assigning, Value, Holder
<1>4. LinksAllowed'
  BY <1>2 DEF IInv, LinksAllowed
<1>5. Covered'
  <2> SUFFICES ASSUME NEW o \in Live'
               PROVE  Cardinality(Holders(o)') + VmOwes(o)' + GcOwes(o)' <= refCount'[o]
    BY DEF Covered
  <2>1. o \in Live /\ refCount'[o] \in Int /\ refCount'[o] = refCount[o]
    BY <1>2 DEF Live, IInv, Types
  <2>2. Holders(o)' \subseteq Holders(o)
    BY <1>1, <1>2 DEF Holders, Owner, Slots
  <2>3. VmOwes(o)' <= VmOwes(o) /\ GcOwes(o)' = GcOwes(o)
    BY <1>1, <1>2, <2>1, ObjectGCAssumption DEF IInv, Types, VmOwes, GcOwes, Owner, Live
  <2>4. {VmOwes(o), VmOwes(o)', GcOwes(o), GcOwes(o)'} \subseteq {0, 1}
    BY DEF VmOwes, GcOwes
  <2> QED BY <2>1, <2>2, <2>3, <2>4, CoveredStep
<1>6. VmHolds'
  BY <1>2 DEF IInv, VmHolds, Live, Types
<1>7. VmAssigns'
  BY <1>1, <1>2, SlotFacts DEF IInv, VmAssigns, Busy, Live, Types, Assigning, Value, Owner
<1>8. GcWorks'
  <2>1. \A o \in Objects : gcLock[o] = "gc" => gcLock'[o] = "gc"
    BY <1>2 DEF IInv, Types
  <2>2. \A o \in Tracked : o \in Unheld => o \in Unheld'
    BY <1>1, <1>2 DEF IInv, Types, Unheld, Busy, Assigning
  <2>3. Live \subseteq Live' /\ gc' = gc /\ status' = status
    BY <1>2 DEF Live
  <2> QED BY <2>1, <2>2, <2>3, GcUndisturbed
<1>9. Emptied'
  BY <1>2 DEF IInv, Emptied, Live
<1> QED BY <1>3, <1>4, <1>5, <1>6, <1>7, <1>8, <1>9 DEF IInv

\* The new value enters the linked_object_list of the owner.
LEMMA VmLinkIInv == ASSUME IInv, VmLink PROVE IInv'
<1>1. /\ vm.slot \in Slots \ Registers /\ vm.slot[1] \in Objects /\ Owner(vm.slot) = vm.slot[1]
      /\ vm.new \in Live /\ vm.op = "assign" /\ <<vm.slot[1], vm.new>> \in Links
  BY SlotFacts DEF VmLink, IInv, VmAssigns, Busy, Assigning
<1>2. /\ vm.pc = "link" /\ vm' = [vm EXCEPT !.pc = "count"]
      /\ links' = [links EXCEPT ![vm.slot[1]][vm.new] = @ + 1]
      /\ UNCHANGED <<status, value, refCount, gcLock, propLock, gc>>
  BY <1>1 DEF VmLink
<1>3. Types'
  <2>1. links' \in [Objects -> [Objects -> Nat]]
    <3>1. links[vm.slot[1]] \in [Objects -> Nat] /\ links[vm.slot[1]][vm.new] + 1 \in Nat
      BY <1>1 DEF IInv, Types, Live
    <3> QED BY <1>2, <3>1 DEF IInv, Types
  <2>2. vm' \in [pc : Assigning \union {"idle", "publish", "exit", "exited", "aborted"},
             op : {"assign", "delete", "exit"}, slot : Slots \union {Null}, old : Value,
             new : Value, held : Value, made : Value, target : Registers \union {Null}]
    BY <1>2 DEF IInv, Types, Assigning
  <2> QED BY <1>2, <2>1, <2>2 DEF IInv, Types, Live
<1>4. LinksAllowed'
  BY <1>1, <1>2 DEF IInv, LinksAllowed, Types, Live
<1>5. Covered'
  <2> SUFFICES ASSUME NEW o \in Live'
               PROVE  Cardinality(Holders(o)') + VmOwes(o)' + GcOwes(o)' <= refCount'[o]
    BY DEF Covered
  <2>1. o \in Live /\ refCount'[o] \in Int /\ refCount'[o] = refCount[o]
    BY <1>2 DEF Live, IInv, Types
  <2>2. Holders(o)' \subseteq Holders(o)
    BY <1>2 DEF Holders, Owner, Slots, IInv, Types
  <2>3. VmOwes(o)' = VmOwes(o) /\ GcOwes(o)' = GcOwes(o)
    BY <1>1, <1>2 DEF IInv, Types, VmOwes, GcOwes
  <2>4. {VmOwes(o), VmOwes(o)', GcOwes(o), GcOwes(o)'} \subseteq {0, 1}
    BY DEF VmOwes, GcOwes
  <2> QED BY <2>1, <2>2, <2>3, <2>4, CoveredStep
<1>6. VmHolds'
  BY <1>2 DEF IInv, VmHolds, Live, Types
<1>7. VmAssigns'
  BY <1>1, <1>2 DEF IInv, VmAssigns, Busy, Live, Types, Assigning, Owner
<1>8. GcWorks'
  <2>1. \A o \in Tracked : o \in Unheld => o \in Unheld'
    BY <1>2 DEF IInv, Types, Unheld, Busy, Assigning
  <2>2. Live \subseteq Live' /\ gc' = gc /\ status' = status /\ gcLock' = gcLock
    BY <1>2 DEF Live
  <2> QED BY <2>1, <2>2, GcUndisturbed
<1>9. Emptied'
  BY <1>2 DEF IInv, Emptied, Live
<1> QED BY <1>3, <1>4, <1>5, <1>6, <1>7, <1>8, <1>9 DEF IInv

\* The reference of the new value is counted, and owed until it is stored.
LEMMA VmCountIInv == ASSUME IInv, VmCount PROVE IInv'
<1> DEFINE pc == DereferencePc(vm.slot, vm.old)
<1>1. /\ vm.slot \in Slots /\ vm.new \in Live /\ vm.op = "assign"
      /\ pc \in {"unlink", "uncount", "store"}
      /\ pc \in {"unlink", "uncount"} => vm.old \notin {Null, Owner(vm.slot)}
      /\ pc = "unlink" => vm.slot \notin Registers
  BY FirstSteps DEF VmCount, IInv, VmAssigns, Busy, Assigning
<1>2. /\ vm.pc = "count" /\ vm' = [vm EXCEPT !.pc = pc]
      /\ refCount' = [refCount EXCEPT ![vm.new] = @ + 1]
      /\ UNCHANGED <<status, value, links, gcLock, propLock, gc>>
  BY DEF VmCount
<1> HIDE DEF pc
<1>3. Types'
  BY <1>1, <1>2 DEF IInv, Types, Live, Assigning
<1>4. LinksAllowed'
  BY <1>2 DEF IInv, LinksAllowed
<1>5. Covered'
  <2> SUFFICES ASSUME NEW o \in Live'
               PROVE  Cardinality(Holders(o)') + VmOwes(o)' + GcOwes(o)' <= refCount'[o]
    BY DEF Covered
  <2>1. /\ o \in Live /\ refCount[o] \in Int
        /\ refCount'[o] = IF o = vm.new THEN refCount[o] + 1 ELSE refCount[o]
    BY <1>1, <1>2 DEF Live, IInv, Types
  <2>2. Holders(o)' \subseteq Holders(o)
    BY <1>1, <1>2 DEF Holders, Owner, Slots
  <2>3. /\ VmOwes(o) = 0 /\ GcOwes(o)' = GcOwes(o)
        /\ o # vm.new => VmOwes(o)' = 0
    BY <1>1, <1>2 DEF IInv, Types, VmOwes, GcOwes
  <2>4. {VmOwes(o), VmOwes(o)', GcOwes(o), GcOwes(o)'} \subseteq {0, 1}
    BY DEF VmOwes, GcOwes
  <2> QED BY <2>1, <2>2, <2>3, <2>4, CoveredStep
<1>6. VmHolds'
  BY <1>2 DEF IInv, VmHolds, Live, Types
<1>7. VmAssigns'
  BY <1>1, <1>2 DEF IInv, VmAssigns, Busy, Live, Types, Assigning, Owner
<1>8. GcWorks'
  <2>1. \A o \in Tracked : o \in Unheld => o \in Unheld'
    BY <1>1, <1>2 DEF IInv, Types, Unheld, Busy, Assigning
  <2>2. Live \subseteq Live' /\ gc' = gc /\ status' = status /\ gcLock' = gcLock
    BY <1>2 DEF Live
  <2> QED BY <2>1, <2>2, GcUndisturbed
<1>9. Emptied'
  BY <1>2 DEF IInv, Emptied, Live
<1> QED BY <1>3, <1>4, <1>5, <1>6, <1>7, <1>8, <1>9 DEF IInv

\* The old value leaves the linked_object_list of the owner, or is found missing.
LEMMA VmUnlinkIInv == ASSUME IInv, VmUnlink PROVE IInv'
<1>1. /\ vm.slot \in Slots \ Registers /\ vm.slot[1] \in Objects /\ Owner(vm.slot) = vm.slot[1]
      /\ vm.old \in Objects
  BY SlotFacts DEF VmUnlink, IInv, VmAssigns, Busy, Assigning, Types, Value
<1>2. PICK pc \in {"uncount", "store", "aborted"} :
        /\ vm.pc = "unlink" /\ vm' = [vm EXCEPT !.pc = pc]
        /\ vm.op # "assign" => pc # "aborted"
        /\ vm.op = "assign" => pc # "store"
        /\ UNCHANGED <<status, value, refCount, gcLock, propLock, gc>>
  BY DEF VmUnlink
<1>3. /\ links' \in [Objects -> [Objects -> Nat]]
      /\ \A p, o \in Objects : links'[p][o] <= links[p][o]
  BY <1>1 DEF VmUnlink, IInv, Types
<1>4. Types'
  BY <1>2, <1>3 DEF IInv, Types, Live, Assigning
<1>5. LinksAllowed'
  BY <1>2, <1>3 DEF IInv, LinksAllowed, Types
<1>6. Covered'
  <2> SUFFICES ASSUME NEW o \in Live'
               PROVE  Cardinality(Holders(o)') + VmOwes(o)' + GcOwes(o)' <= refCount'[o]
    BY DEF Covered
  <2>1. o \in Live /\ refCount'[o] \in Int /\ refCount'[o] = refCount[o]
    BY <1>2 DEF Live, IInv, Types
  <2>2. Holders(o)' \subseteq Holders(o)
    BY <1>2 DEF Holders, Owner, Slots, IInv, Types
  <2>3. VmOwes(o)' <= VmOwes(o) /\ GcOwes(o)' = GcOwes(o)
    BY <1>1, <1>2, SlotFacts DEF IInv, Types, VmOwes, GcOwes
  <2>4. {VmOwes(o), VmOwes(o)', GcOwes(o), GcOwes(o)'} \subseteq {0, 1}
    BY DEF VmOwes, GcOwes
  <2> QED BY <2>1, <2>2, <2>3, <2>4, CoveredStep
<1>7. VmHolds'
  BY <1>2 DEF IInv, VmHolds, Live, Types
<1>8. VmAssigns'
  BY <1>1, <1>2 DEF IInv, VmAssigns, Busy, Live, Types, Assigning, Owner
<1>9. GcWorks'
  <2>1. \A o \in Tracked : o \in Unheld => o \in Unheld'
    BY <1>2 DEF IInv, Types, Unheld, Busy, Assigning
  <2>2. Live \subseteq Live' /\ gc' = gc /\ status' = status /\ gcLock' = gcLock
    BY <1>2 DEF Live
  <2> QED BY <2>1, <2>2, GcUndisturbed
<1>10. Emptied'
  BY <1>2 DEF IInv, Emptied, Live
<1> QED BY <1>4, <1>5, <1>6, <1>7, <1>8, <1>9, <1>10 DEF IInv

\* The variable that is about to be overwritten is the one the count loses, or
\* the variable was emptied before and the count is owed.
LEMMA VmUncountIInv == ASSUME IInv, VmUncount PROVE IInv'
<1>1. /\ vm.slot \in Slots /\ vm.old \in Objects
      /\ vm.op = "assign" => value[vm.slot] = vm.old
  BY DEF VmUncount, IInv, VmAssigns, Busy, Assigning, Types, Value
<1>2. /\ vm.pc = "uncount" /\ vm' = [vm EXCEPT !.pc = "store"]
      /\ refCount' = [refCount EXCEPT ![vm.old] = @ - 1]
      /\ UNCHANGED <<status, value, links, gcLock, propLock, gc>>
  BY DEF VmUncount
<1>3. Types'
  <2>1. refCount' \in [Objects -> Int]
    BY <1>1, <1>2 DEF IInv, Types
  <2>2. vm' \in [pc : Assigning \union {"idle", "publish", "exit", "exited", "aborted"},
             op : {"assign", "delete", "exit"}, slot : Slots \union {Null}, old : Value,
             new : Value, held : Value, made : Value, target : Registers \union {Null}]
    BY <1>2 DEF IInv, Types, Assigning
  <2> QED BY <1>2, <2>1, <2>2 DEF IInv, Types, Live
<1>4. LinksAllowed'
  BY <1>2 DEF IInv, LinksAllowed
<1>5. Covered'
  <2> SUFFICES ASSUME NEW o \in Live'
               PROVE  Cardinality(Holders(o)') + VmOwes(o)' + GcOwes(o)' <= refCount'[o]
    BY DEF Covered
  <2>1. /\ o \in Live /\ refCount[o] \in Int
        /\ refCount'[o] = IF o = vm.old THEN refCount[o] - 1 ELSE refCount[o]
    BY <1>1, <1>2 DEF Live, IInv, Types
  <2>2. Holders(o)' \subseteq Holders(o)
    BY <1>1, <1>2 DEF Holders, Owner, Slots
  <2>3. vm.op = "assign" /\ o = vm.old =>
          vm.slot \in Holders(o) /\ Holders(o)' \subseteq Holders(o) \ {vm.slot}
    BY <1>1, <1>2 DEF Holders, Owner, Slots, IInv, Types, VmAssigns, Busy, Assigning
  <2>4. /\ GcOwes(o)' = GcOwes(o)
        /\ vm.op = "assign" \/ o # vm.old => VmOwes(o)' <= VmOwes(o)
        /\ vm.op # "assign" /\ o = vm.old => VmOwes(o)' = 0 /\ VmOwes(o) = 1
    BY <1>1, <1>2 DEF IInv, Types, VmOwes, GcOwes
  <2>5. {VmOwes(o), VmOwes(o)', GcOwes(o), GcOwes(o)'} \subseteq {0, 1}
    BY DEF VmOwes, GcOwes
  <2> QED BY <2>1, <2>2, <2>3, <2>4, <2>5, CoveredStep
<1>6. VmHolds'
  BY <1>2 DEF IInv, VmHolds, Live, Types
<1>7. VmAssigns'
  BY <1>1, <1>2 DEF IInv, VmAssigns, Busy, Live, Types, Assigning, Owner
<1>8. GcWorks'
  <2>1. \A o \in Tracked : o \in Unheld => o \in Unheld'
    BY <1>1, <1>2 DEF IInv, Types, Unheld, Busy, Assigning
  <2>2. Live \subseteq Live' /\ gc' = gc /\ status' = status /\ gcLock' = gcLock
    BY <1>2 DEF Live
  <2> QED BY <2>1, <2>2, GcUndisturbed
<1>9. Emptied'
  BY <1>2 DEF IInv, Emptied, Live
<1> QED BY <1>3, <1>4, <1>5, <1>6, <1>7, <1>8, <1>9 DEF IInv

\* The new value is in its variable now; what comes next is counted nowhere yet.
LEMMA VmStoreIInv == ASSUME IInv, VmStore PROVE IInv'
<1> DEFINE first == IF value[vm.target] = Null THEN "count" ELSE "lock"
           second == [pc |-> first, op |-> "assign", slot |-> vm.target, old |-> value[vm.target],
                      new |-> vm.made, held |-> Null, made |-> vm.made, target |-> Null]
<1>1. /\ vm.pc = "store" /\ vm.slot \in Slots /\ vm.new \in Live \union {Null}
      /\ vm.op # "assign" => vm.new = Null
      /\ vm.op = "assign" => vm.old = value[vm.slot] /\ (vm.old # Null => gcLock[vm.old] = "vm")
      /\ vm.slot \notin Registers =>
           /\ vm.slot[1] \in {vm.held, vm.made}
           /\ vm.new # Null => <<vm.slot[1], vm.new>> \in Links
      /\ vm.old \in Value /\ vm.held \in Value /\ vm.made \in Value
      /\ vm.target \in Registers \union {Null}
      /\ vm.pc \in Assigning
  BY DEF VmStore, IInv, VmAssigns, Busy, Assigning, Types
<1>2. /\ value' = [value EXCEPT ![vm.slot] = vm.new]
      /\ gcLock' = Unlock(gcLock, IF vm.op = "assign" THEN vm.old ELSE Null)
      /\ propLock' = Unlock(propLock, vm.held)
      /\ UNCHANGED <<status, refCount, links, gc>>
  BY DEF VmStore
<1>3. /\ vm.made # Null => vm.made \in Objects /\ status[vm.made] = "created" /\ vm.held = Null
                             /\ vm.op = "assign"
      /\ vm.held # Null => vm.held \in Live
      /\ vm.target # Null => vm.made # Null /\ vm.slot # vm.target
  BY <1>1 DEF IInv, VmHolds, Types, Value
<1>4. \/ vm.target # Null /\ vm' = second
      \/ vm.target = Null /\ vm.made # Null /\ vm' = [vm EXCEPT !.pc = "publish"]
      \/ vm.made = Null /\ vm' \in {IdleVm, [IdleVm EXCEPT !.pc = "exit"]}
  <2>1. CASE vm.target # Null
    <3>1. Owner(vm.target) = Null /\ vm.made # Null
      BY <1>1, <1>3, <2>1 DEF Owner
    <3>2. vm' = Assign(vm.target, vm.made, Null, vm.made, Null)
      BY <1>3, <2>1 DEF VmStore
    <3> QED BY <2>1, <3>1, <3>2 DEF Assign, ReferencePc
  <2>2. CASE vm.target = Null /\ vm.made # Null
    BY <1>3, <2>2 DEF VmStore
  <2>3. CASE vm.target = Null /\ vm.made = Null
    BY <2>3 DEF VmStore
  <2> QED BY <2>1, <2>2, <2>3
<1> HIDE DEF first
<1>5. first \in {"count", "lock"} /\ (first = "count" <=> value[vm.target] = Null)
  BY DEF first
<1>6. Types'
  <2>1. Live' = Live
    BY <1>2 DEF Live
  <2>2. value' \in [Slots -> Live \union {Null}]
    BY <1>1, <1>2 DEF IInv, Types
  <2>3. gcLock' \in [Objects -> Holder] /\ propLock' \in [Objects -> Holder]
    BY <1>1, <1>2 DEF IInv, Types, Unlock, Holder, Value
  <2>4. vm.target # Null => value[vm.target] \in Value
    BY <1>1 DEF IInv, Types, Slots, Value, Live
  <2>5. vm' \in [pc : Assigning \union {"idle", "publish", "exit", "exited", "aborted"},
             op : {"assign", "delete", "exit"}, slot : Slots \union {Null}, old : Value,
             new : Value, held : Value, made : Value, target : Registers \union {Null}]
    BY <1>1, <1>3, <1>4, <1>5, <2>4, SlotFacts DEF IInv, Types, Assigning, IdleVm, Value
  <2> QED BY <1>2, <2>1, <2>2, <2>3, <2>5 DEF IInv, Types
<1>7. LinksAllowed'
  BY <1>1, <1>2, SlotFacts DEF IInv, LinksAllowed, Types
<1>8. vm'.pc \in {"count", "lock", "publish", "idle", "exit"} /\ vm'.op = "assign"
  BY <1>3, <1>4, <1>5 DEF IdleVm, IInv, Types
<1>9. Covered'
  <2> SUFFICES ASSUME NEW o \in Live'
               PROVE  Cardinality(Holders(o)') + VmOwes(o)' + GcOwes(o)' <= refCount'[o]
    BY DEF Covered
  <2>1. o \in Live /\ refCount'[o] \in Int /\ refCount'[o] = refCount[o]
    BY <1>2 DEF Live, IInv, Types
  <2>2. VmOwes(o)' = 0 /\ GcOwes(o)' = GcOwes(o)
    BY <1>2, <1>8 DEF VmOwes, GcOwes
  <2>3. {VmOwes(o), VmOwes(o)', GcOwes(o), GcOwes(o)'} \subseteq {0, 1}
    BY DEF VmOwes, GcOwes
  <2>4. CASE vm.new # o \/ Owner(vm.slot) = o
    <3>1. Holders(o)' \subseteq Holders(o)
      BY <1>1, <1>2, <1>8, <2>4 DEF Holders, Owner, Slots, IInv, Types
    <3> QED BY <2>1, <2>2, <2>3, <3>1, CoveredStep
  <2>5. CASE vm.new = o /\ Owner(vm.slot) # o
    <3>1. Holders(o)' \subseteq Holders(o) \union {vm.slot}
      BY <1>1, <1>2 DEF Holders, Owner, Slots, IInv, Types
    <3>2. o # Null
      BY <2>1, ObjectGCAssumption DEF Live
    <3>3. VmOwes(o) = 1
      BY <1>1, <2>5, <3>2 DEF VmOwes
    <3> QED BY <1>1, <2>1, <2>2, <2>3, <3>1, <3>3, CoveredStep
  <2> QED BY <2>4, <2>5
<1>10. VmHolds'
  <2>1. vm'.held # Null => vm'.made # Null /\ vm'.held = vm.held
    BY <1>3, <1>4 DEF IdleVm, IInv, Types
  <2>2. vm'.made # Null => vm'.made = vm.made /\ vm'.held = Null
    BY <1>3, <1>4 DEF IdleVm, IInv, Types
  <2>3. vm'.target = Null
    BY <1>3, <1>4 DEF IdleVm, IInv, Types
  <2> QED BY <1>2, <1>3, <1>8, <2>1, <2>2, <2>3 DEF VmHolds
<1>11. VmAssigns'
  <2> SUFFICES ASSUME Busy' PROVE VmAssigns'
    BY DEF VmAssigns
  <2>1. vm.target # Null /\ vm' = second
    BY <1>4, <1>8 DEF Busy, Assigning, IdleVm, IInv, Types
  <2>2. /\ vm'.slot = vm.target /\ vm'.old = value[vm.target] /\ vm'.new = vm.made
        /\ vm'.made = vm.made /\ vm'.pc = first /\ vm'.op = "assign"
    BY <2>1
  <2>3. vm.target \in Registers /\ vm.target \in Slots /\ value'[vm.target] = value[vm.target]
    BY <1>1, <1>2, <1>3, <2>1, SlotFacts DEF IInv, Types
  <2>4. vm.made \in Live' /\ vm.made # Null
    BY <1>2, <1>3, <2>1 DEF Live
  <2> QED BY <1>5, <2>2, <2>3, <2>4 DEF VmAssigns
<1>12. GcWorks'
  <2>1. \A o \in Objects : gcLock[o] = "gc" => gcLock'[o] = "gc"
    BY <1>1, <1>2 DEF IInv, Types, Unlock
  <2>2. \A o \in Tracked : o \in Unheld => o \in Unheld'
    <3>1. Busy' => vm'.new = vm.made /\ status[vm.made] = "created"
      BY <1>3, <1>4, <1>8 DEF Busy, Assigning, IdleVm, IInv, Types
    <3>2. \A o \in Unheld : vm.new # o
      BY <1>1 DEF Unheld, Busy, Assigning
    <3> QED BY <1>1, <1>2, <3>1, <3>2 DEF Unheld, Tracked, IInv, Types
  <2>3. Live \subseteq Live' /\ gc' = gc /\ status' = status
    BY <1>2 DEF Live
  <2> QED BY <2>1, <2>2, <2>3, GcUndisturbed
<1>13. Emptied'
  <2>1. vm.slot \notin Registers => vm.slot[1] \in Live
    BY <1>1, <1>3, SlotFacts, ObjectGCAssumption DEF Live
  <2> QED BY <1>1, <1>2, <2>1, SlotFacts DEF IInv, Emptied, Live, Types
<1> QED BY <1>6, <1>7, <1>9, <1>10, <1>11, <1>12, <1>13 DEF IInv

\* The new object enters the object_list between two events.
LEMMA VmPublishIInv == ASSUME IInv, VmPublish PROVE IInv'
<1>1. /\ vm.pc = "publish" /\ gc.pc = "idle" /\ vm' = IdleVm
      /\ status' = [status EXCEPT ![vm.made] = "tracked"]
      /\ UNCHANGED <<value, refCount, links, gcLock, propLock, gc>>
  BY DEF VmPublish
<1>2. vm.made \in Objects => status[vm.made] = "created"
  BY ObjectGCAssumption DEF IInv, VmHolds
<1>3. Live' = Live /\ Tracked \subseteq Tracked'
  BY <1>1, <1>2 DEF Live, Tracked, IInv, Types
<1>4. Types'
  BY <1>1, <1>3 DEF IInv, Types, IdleVm, Value
<1>5. Covered'
  <2> SUFFICES ASSUME NEW o \in Live'
               PROVE  Cardinality(Holders(o)') + VmOwes(o)' + GcOwes(o)' <= refCount'[o]
    BY DEF Covered
  <2>1. o \in Live /\ refCount'[o] \in Int /\ refCount'[o] = refCount[o]
    BY <1>1, <1>3 DEF Live, IInv, Types
  <2>2. Holders(o)' \subseteq Holders(o) /\ VmOwes(o)' = 0 /\ GcOwes(o)' = GcOwes(o)
    BY <1>1 DEF Holders, Owner, Slots, VmOwes, GcOwes, IdleVm
  <2>3. {VmOwes(o), VmOwes(o)', GcOwes(o), GcOwes(o)'} \subseteq {0, 1}
    BY DEF VmOwes, GcOwes
  <2> QED BY <2>1, <2>2, <2>3, CoveredStep
<1>6. VmHolds' /\ VmAssigns'
  BY <1>1 DEF VmHolds, VmAssigns, Busy, Assigning, IdleVm
<1>7. GcWorks'
  BY <1>1, <1>3 DEF IInv, GcWorks, Inspecting, Dropping
<1>8. LinksAllowed' /\ Emptied'
  BY <1>1, <1>3 DEF IInv, LinksAllowed, Emptied
<1> QED BY <1>4, <1>5, <1>6, <1>7, <1>8 DEF IInv

-----------------------------------------------------------------------------
(* What a program starts.                                                   *)

\* The control state simplejs_variable_assign_ex starts with.
LEMMA AssignState ==
  ASSUME NEW s \in Slots, NEW new, NEW held, NEW made, NEW target,
         vm' = Assign(s, new, held, made, target)
  PROVE  /\ vm' = [pc |-> vm'.pc, op |-> "assign", slot |-> s, old |-> value[s],
                   new |-> new, held |-> held, made |-> made, target |-> target]
         /\ vm'.pc \in {"lock", "link", "count", "store"}
         /\ vm'.pc = "lock" <=> value[s] # Null
         /\ vm'.pc = "store" => new \in {Null, Owner(s)}
         /\ vm'.pc = "link" => s \notin Registers /\ new # Null
         /\ vm'.pc = "count" => new # Null
  BY SlotFacts DEF Assign, ReferencePc, DereferencePc

\* What the program can name is alive.
LEMMA Reachable ==
  ASSUME IInv
  PROVE  /\ RegisterValues \subseteq Live /\ RegisterValues \cap Unheld = {}
         /\ LookupObjects \subseteq Live
<1>1. /\ RegisterValues \subseteq Live
      /\ \A x \in Live : value[<<x, Proto>>] \in Live \union {Null}
  BY SlotFacts, ObjectGCAssumption DEF IInv, Types, RegisterValues, Live
<1>2. RegisterValues \cap Unheld = {}
  BY SlotFacts DEF RegisterValues, Unheld
<1>3. Live \in SUBSET Objects
  BY DEF Live
<1> QED BY <1>1, <1>2, <1>3 DEF LookupObjects

\* Nothing changes but the control state and the lock of a property list.
LEMMA AssignStarts ==
  ASSUME IInv, vm.pc = "idle",
         NEW s \in Slots, NEW new \in Live \union {Null}, NEW held \in Live \union {Null},
         s \notin Registers => s[1] = held /\ (new # Null => <<held, new>> \in Links),
         new # Null => \E t \in Slots : value[t] = new /\ (t \in Registers \/ t[1] = held),
         vm' = Assign(s, new, held, Null, Null),
         propLock' \in [Objects -> Holder], held # Null => propLock'[held] = "vm",
         UNCHANGED <<status, value, refCount, links, gcLock, gc>>
  PROVE  IInv'
<1>1. /\ vm' = [pc |-> vm'.pc, op |-> "assign", slot |-> s, old |-> value[s], new |-> new,
                held |-> held, made |-> Null, target |-> Null]
      /\ vm'.pc \in {"lock", "link", "count", "store"}
      /\ vm'.pc = "lock" <=> value[s] # Null
      /\ vm'.pc = "store" => new \in {Null, Owner(s)}
      /\ vm'.pc = "link" => s \notin Registers /\ new # Null
      /\ vm'.pc = "count" => new # Null
  BY AssignState
<1>2. Live' = Live /\ new \in Value /\ held \in Value /\ value[s] \in Value
  BY DEF Live, Value, IInv, Types
<1>3. Types'
  <2>1. vm' \in [pc : Assigning \union {"idle", "publish", "exit", "exited", "aborted"},
             op : {"assign", "delete", "exit"}, slot : Slots \union {Null}, old : Value,
             new : Value, held : Value, made : Value, target : Registers \union {Null}]
    BY <1>1, <1>2 DEF Assigning, Value
  <2> QED BY <1>2, <2>1 DEF IInv, Types
<1>4. LinksAllowed' /\ Emptied'
  BY <1>2 DEF IInv, LinksAllowed, Emptied
<1>5. Covered'
  <2> SUFFICES ASSUME NEW o \in Live'
               PROVE  Cardinality(Holders(o)') + VmOwes(o)' + GcOwes(o)' <= refCount'[o]
    BY DEF Covered
  <2>1. o \in Live /\ refCount'[o] \in Int /\ refCount'[o] = refCount[o] /\ o # Null
    BY <1>2, ObjectGCAssumption DEF Live, IInv, Types
  <2>2. Holders(o)' \subseteq Holders(o)
    BY <1>1 DEF Holders, Owner, Slots
  <2>3. VmOwes(o)' = 0 /\ GcOwes(o)' = GcOwes(o)
    BY <1>1, <2>1 DEF VmOwes, GcOwes, Owner
  <2>4. {VmOwes(o), VmOwes(o)', GcOwes(o), GcOwes(o)'} \subseteq {0, 1}
    BY DEF VmOwes, GcOwes
  <2> QED BY <2>1, <2>2, <2>3, <2>4, CoveredStep
<1>6. VmHolds'
  BY <1>1, <1>2 DEF VmHolds
<1>7. VmAssigns'
  BY <1>1, <1>2, SlotFacts DEF VmAssigns, Busy, Owner
<1>8. GcWorks'
  <2>1. \A o \in Tracked : o \in Unheld => o \in Unheld'
    BY <1>1, ObjectGCAssumption DEF Unheld, Busy, Tracked
  <2>2. gcLock' = gcLock
    OBVIOUS
  <2> QED BY <1>2, <2>1, <2>2, GcUndisturbed
<1> QED BY <1>3, <1>4, <1>5, <1>6, <1>7, <1>8 DEF IInv

\* Copying a register, reading a property and writing one.
LEMMA VmAccessIInv ==
  ASSUME IInv, NEW r \in Registers, NEW p, NEW f \in Fields, NEW v \in RegisterValues \union {Null},
         \/ VmCopy(r, v)
         \/ p \in LookupObjects /\ VmGetProperty(r, p, f)
         \/ p \in RegisterValues /\ VmSetProperty(p, f, v)
  PROVE  IInv'
<1>1. v \in Live \union {Null} /\ (v # Null => \E t \in Registers : value[t] = v)
  BY Reachable DEF RegisterValues
<1>2. r \in Slots
  BY SlotFacts
<1>3. CASE VmCopy(r, v)
  <2>1. /\ vm.pc = "idle" /\ vm' = Assign(r, v, Null, Null, Null)
        /\ propLock' \in [Objects -> Holder]
        /\ UNCHANGED <<status, value, refCount, links, gcLock, gc>>
    BY <1>3 DEF VmCopy, IInv, Types
  <2>2. v # Null => \E t \in Slots : value[t] = v /\ (t \in Registers \/ t[1] = Null)
    BY <1>1, SlotFacts
  <2> QED BY <1>1, <1>2, <2>1, <2>2, AssignStarts
<1>4. CASE p \in LookupObjects /\ VmGetProperty(r, p, f)
  <2> DEFINE w == value[<<p, f>>]
  <2>1. p \in Live /\ p \in Objects
    BY <1>4, Reachable DEF Live
  <2>2. <<p, f>> \in Slots /\ <<p, f>>[1] = p /\ w \in Live \union {Null}
    BY <2>1, SlotFacts DEF IInv, Types
  <2>3. /\ vm.pc = "idle" /\ vm' = Assign(r, w, p, Null, Null)
        /\ propLock' \in [Objects -> Holder] /\ propLock'[p] = "vm"
        /\ UNCHANGED <<status, value, refCount, links, gcLock, gc>>
    BY <1>4, <2>1 DEF VmGetProperty, IInv, Types, Holder
  <2> HIDE DEF w
  <2>4. w # Null => \E t \in Slots : value[t] = w /\ (t \in Registers \/ t[1] = p)
    BY <2>2 DEF w
  <2> QED BY <1>2, <2>1, <2>2, <2>3, <2>4, AssignStarts
<1>5. CASE p \in RegisterValues /\ VmSetProperty(p, f, v)
  <2>1. p \in Live /\ p \in Objects
    BY <1>5, Reachable DEF Live
  <2>2. <<p, f>> \in Slots \ Registers /\ <<p, f>>[1] = p
    BY <2>1, SlotFacts
  <2>3. /\ vm.pc = "idle" /\ vm' = Assign(<<p, f>>, v, p, Null, Null)
        /\ propLock' \in [Objects -> Holder] /\ propLock'[p] = "vm"
        /\ v # Null => <<p, v>> \in Links
        /\ UNCHANGED <<status, value, refCount, links, gcLock, gc>>
    BY <1>5, <2>1 DEF VmSetProperty, MayLink, IInv, Types, Holder
  <2>4. v # Null => \E t \in Slots : value[t] = v /\ (t \in Registers \/ t[1] = p)
    BY <1>1, SlotFacts
  <2> QED BY <1>1, <2>1, <2>2, <2>3, <2>4, AssignStarts
<1> QED BY <1>3, <1>4, <1>5

\* A new object is in no variable and has no properties.
LEMMA VmCreateIInv ==
  ASSUME IInv, NEW o \in Objects, NEW r \in Registers,
         NEW proto \in RegisterValues \union {Null}, VmCreate(o, r, proto)
  PROVE  IInv'
<1> DEFINE t == IF proto = Null THEN r ELSE <<o, Proto>>
           v == IF proto = Null THEN o ELSE proto
           target == IF proto = Null THEN Null ELSE r
<1>1. /\ vm.pc = "idle" /\ status[o] = "unallocated"
      /\ proto # Null => <<o, proto>> \in Links
      /\ status' = [status EXCEPT ![o] = "created"]
      /\ refCount' = [refCount EXCEPT ![o] = 0]
      /\ links' = [links EXCEPT ![o] = [q \in Objects |-> 0]]
      /\ vm' = Assign(t, v, Null, o, target)
      /\ UNCHANGED <<value, gcLock, propLock, gc>>
  BY DEF VmCreate, MayLink
<1>2. /\ o \notin Live /\ o # Null /\ Live' = Live \union {o}
      /\ \A q \in Objects : status[q] \in {"tracked", "released"} => status'[q] = status[q]
  BY <1>1, ObjectGCAssumption DEF Live, IInv, Types
<1>3. /\ t \in Slots /\ v \in Live' /\ v # Null /\ v # Owner(t)
      /\ proto # Null => proto \in Live /\ \E q \in Registers : value[q] = proto
      /\ proto # Null => t \in Slots \ Registers /\ t[1] = o /\ Owner(t) = o /\ value[t] = Null
  <2>1. <<o, Proto>> \in Slots \ Registers /\ Owner(<<o, Proto>>) = o
    BY SlotFacts, ObjectGCAssumption
  <2>2. value[<<o, Proto>>] = Null
    BY <1>1, <1>2, ObjectGCAssumption DEF IInv, Emptied, GcWorks
  <2>3. proto # Null => proto \in Live /\ \E q \in Registers : value[q] = proto
    BY Reachable DEF RegisterValues
  <2>4. Owner(r) = Null
    BY SlotFacts
  <2> QED BY <1>2, <2>1, <2>2, <2>3, <2>4, SlotFacts
<1>4. r \in Slots /\ target \in Registers \union {Null} /\ (target # Null => proto # Null)
  BY SlotFacts
<1>5. proto = Null => t \in Registers /\ v = o
  OBVIOUS
<1>6. proto # Null => v = proto
  OBVIOUS
<1> HIDE DEF t, v, target
<1>7. /\ vm' = [pc |-> vm'.pc, op |-> "assign", slot |-> t, old |-> value[t], new |-> v,
                held |-> Null, made |-> o, target |-> target]
      /\ vm'.pc \in {"lock", "link", "count"}
      /\ vm'.pc = "lock" <=> value[t] # Null
      /\ vm'.pc = "link" => t \notin Registers
  BY <1>1, <1>3, AssignState
<1>8. Types'
  <2>1. value[t] \in Value /\ v \in Value /\ Null \in Value
    BY <1>2, <1>3 DEF IInv, Types, Value, Live
  <2>2. vm' \in [pc : Assigning \union {"idle", "publish", "exit", "exited", "aborted"},
             op : {"assign", "delete", "exit"}, slot : Slots \union {Null}, old : Value,
             new : Value, held : Value, made : Value, target : Registers \union {Null}]
    BY <1>3, <1>4, <1>7, <2>1 DEF Assigning, Value
  <2>3. value' \in [Slots -> Live' \union {Null}] /\ refCount' \in [Objects -> Int]
    BY <1>1, <1>2 DEF IInv, Types
  <2>4. links' \in [Objects -> [Objects -> Nat]]
    BY <1>1 DEF IInv, Types
  <2> QED BY <1>1, <2>2, <2>3, <2>4 DEF IInv, Types
<1>9. LinksAllowed'
  BY <1>1 DEF IInv, LinksAllowed, Types
<1>10. Covered'
  <2> SUFFICES ASSUME NEW x \in Live'
               PROVE  Cardinality(Holders(x)') + VmOwes(x)' + GcOwes(x)' <= refCount'[x]
    BY DEF Covered
  <2>1. \A q \in Objects : VmOwes(q)' = 0 /\ GcOwes(q)' = GcOwes(q)
    BY <1>1, <1>7 DEF VmOwes, GcOwes
  <2>2. CASE x = o
    <3>1. Holders(o)' = {}
      BY <1>1, <1>2 DEF Holders, Slots, IInv, Types
    <3>2. GcOwes(o) = 0
      BY <1>2 DEF GcOwes, IInv, GcWorks
    <3> QED BY <1>1, <2>1, <2>2, <3>1, <3>2, FS_EmptySet DEF IInv, Types
  <2>3. CASE x # o
    <3>1. x \in Live /\ refCount'[x] \in Int /\ refCount'[x] = refCount[x]
      BY <1>1, <1>2, <2>3 DEF IInv, Types, Live
    <3>2. Holders(x)' \subseteq Holders(x)
      BY <1>1, <1>7 DEF Holders, Owner, Slots
    <3>3. {VmOwes(x), VmOwes(x)', GcOwes(x), GcOwes(x)'} \subseteq {0, 1}
      BY DEF VmOwes, GcOwes
    <3>4. x \in Objects
      BY <3>1 DEF Live
    <3> QED BY <2>1, <3>1, <3>2, <3>3, <3>4, CoveredStep
  <2> QED BY <2>2, <2>3
<1>11. VmHolds'
  <2>1. status'[o] = "created"
    BY <1>1 DEF IInv, Types
  <2>2. vm'.held = Null /\ vm'.made = o /\ vm'.op = "assign" /\ vm'.slot = t /\ vm'.target = target
    BY <1>7
  <2> QED BY <1>2, <1>3, <1>4, <2>1, <2>2 DEF VmHolds
<1>12. VmAssigns'
  <2> USE <1>7
  <2>1. vm'.new = vm'.made \/ \E q \in Slots : value'[q] = vm'.new /\ q \in Registers
    BY <1>1, <1>3, <1>5, <1>6, SlotFacts
  <2>2. vm'.slot \notin Registers => vm'.slot[1] = vm'.made /\ <<vm'.slot[1], vm'.new>> \in Links
    BY <1>1, <1>3, <1>5, <1>6
  <2> QED BY <1>1, <1>3, <2>1, <2>2 DEF VmAssigns
<1>13. GcWorks'
  <2>1. \A x \in Tracked : x \in Unheld => x \in Unheld'
    <3>1. \A x \in Tracked : x \in Unheld => x # o /\ x # proto
      BY <1>1, <1>2, <1>3, SlotFacts, ObjectGCAssumption DEF Unheld, Tracked
    <3> QED BY <1>1, <1>5, <1>6, <1>7, <3>1 DEF Unheld, Tracked
  <2>2. gcLock' = gcLock /\ gc' = gc /\ Live \subseteq Live'
    BY <1>1, <1>2
  <2> QED BY <1>2, <2>1, <2>2, GcUndisturbed
<1>14. Emptied'
  BY <1>1, <1>2 DEF IInv, Emptied
<1> QED BY <1>8, <1>9, <1>10, <1>11, <1>12, <1>13, <1>14 DEF IInv

\* A variable is emptied first and its value dereferenced after.
LEMMA VmDropStarts ==
  ASSUME IInv, vm.pc \in {"idle", "exit"},
         NEW s \in Slots, value[s] # Null, NEW op \in {"delete", "exit"},
         NEW held \in Live \union {Null}, s \notin Registers => s[1] = held,
         vm' = [pc |-> DereferencePc(s, value[s]), op |-> op, slot |-> s, old |-> value[s],
                new |-> Null, held |-> held, made |-> Null, target |-> Null],
         value' = [value EXCEPT ![s] = Null],
         propLock' \in [Objects -> Holder], held # Null => propLock'[held] = "vm",
         UNCHANGED <<status, refCount, links, gcLock, gc>>
  PROVE  IInv'
<1>1. /\ vm' = [pc |-> vm'.pc, op |-> op, slot |-> s, old |-> value[s],
                new |-> Null, held |-> held, made |-> Null, target |-> Null]
      /\ vm'.pc \in {"unlink", "uncount", "store"}
      /\ vm'.pc \in {"unlink", "uncount"} => value[s] \notin {Null, Owner(s)}
      /\ vm'.pc = "unlink" => s \notin Registers
      /\ value[s] # Owner(s) => vm'.pc # "store"
  BY FirstSteps DEF DereferencePc
<1>2. Live' = Live /\ value[s] \in Live /\ value[s] \in Value /\ held \in Value
  BY DEF Live, Value, IInv, Types
<1>3. Types'
  <2>1. vm' \in [pc : Assigning \union {"idle", "publish", "exit", "exited", "aborted"},
             op : {"assign", "delete", "exit"}, slot : Slots \union {Null}, old : Value,
             new : Value, held : Value, made : Value, target : Registers \union {Null}]
    BY <1>1, <1>2 DEF Assigning, Value
  <2> QED BY <1>2, <2>1 DEF IInv, Types
<1>4. LinksAllowed' /\ Emptied'
  <2>1. \A p \in Objects, f \in Fields :
          value'[<<p, f>>] # Null => value'[<<p, f>>] = value[<<p, f>>]
    BY SlotFacts DEF IInv, Types
  <2> QED BY <1>2, <2>1 DEF IInv, LinksAllowed, Emptied
<1>5. Covered'
  <2> SUFFICES ASSUME NEW x \in Live'
               PROVE  Cardinality(Holders(x)') + VmOwes(x)' + GcOwes(x)' <= refCount'[x]
    BY DEF Covered
  <2>1. x \in Live /\ refCount'[x] \in Int /\ refCount'[x] = refCount[x] /\ x # Null
    BY <1>2, ObjectGCAssumption DEF Live, IInv, Types
  <2>2. Holders(x)' \subseteq Holders(x)
    BY <1>1, <2>1 DEF Holders, Owner, Slots, IInv, Types
  <2>3. VmOwes(x) = 0 /\ GcOwes(x)' = GcOwes(x)
    BY DEF VmOwes, GcOwes
  <2>4. VmOwes(x)' \in {0, 1} /\ GcOwes(x) \in {0, 1}
    BY DEF VmOwes, GcOwes
  <2>5. x # value[s] \/ x = Owner(s) => VmOwes(x)' = 0
    BY <1>1 DEF VmOwes
  <2>6. x = value[s] /\ x # Owner(s) =>
          s \in Holders(x) /\ Holders(x)' \subseteq Holders(x) \ {s}
    <3>1. \A q \in Slots : value'[q] = IF q = s THEN Null ELSE value[q]
      BY DEF IInv, Types
    <3>2. s \notin Holders(x)'
      BY <2>1, <3>1 DEF Holders
    <3> QED BY <2>2, <3>2 DEF Holders
  <2> QED BY <2>1, <2>2, <2>3, <2>4, <2>5, <2>6, CoveredStep
<1>6. VmHolds'
  BY <1>1, <1>2 DEF VmHolds
<1>7. VmAssigns'
  <2>1. value'[s] = Null
    BY DEF IInv, Types
  <2> QED BY <1>1, <2>1 DEF VmAssigns, Busy
<1>8. GcWorks'
  <2>1. \A x \in Tracked : x \in Unheld => x \in Unheld'
    <3>1. \A q \in Slots : value'[q] \in {value[q], Null}
      BY DEF IInv, Types
    <3>2. vm'.new = Null /\ Null \notin Tracked
      BY <1>1, ObjectGCAssumption DEF Tracked
    <3>3. Slots' = Slots
      BY DEF Slots
    <3> QED BY <3>1, <3>2, <3>3 DEF Unheld, Tracked
  <2>2. gcLock' = gcLock
    OBVIOUS
  <2> QED BY <1>2, <2>1, <2>2, GcUndisturbed
<1> QED BY <1>3, <1>4, <1>5, <1>6, <1>7, <1>8 DEF IInv

\* Deleting a property.
LEMMA VmDeleteIInv ==
  ASSUME IInv, NEW p \in RegisterValues, NEW f \in Fields, VmDeleteProperty(p, f)
  PROVE  IInv'
<1>1. p \in Live /\ p \in Objects /\ <<p, f>> \in Slots /\ <<p, f>>[1] = p
  BY Reachable, SlotFacts DEF Live
<1>2. propLock' \in [Objects -> Holder] /\ propLock'[p] = "vm"
  BY <1>1 DEF VmDeleteProperty, IInv, Types, Holder
<1>3. /\ vm.pc = "idle" /\ value[<<p, f>>] # Null
      /\ value' = [value EXCEPT ![<<p, f>>] = Null]
      /\ vm' = [pc |-> DereferencePc(<<p, f>>, value[<<p, f>>]), op |-> "delete",
                slot |-> <<p, f>>, old |-> value[<<p, f>>], new |-> Null, held |-> p,
                made |-> Null, target |-> Null]
      /\ UNCHANGED <<status, refCount, links, gcLock, gc>>
  BY DEF VmDeleteProperty, IdleVm
<1> QED BY <1>1, <1>2, <1>3, VmDropStarts

\* The end of the program: its registers are dropped one after the other.
LEMMA VmExitIInv ==
  ASSUME IInv, VmExit \/ VmStop
  PROVE  IInv'
<1>1. ASSUME NEW r \in Registers, VmExitDrop(r) PROVE IInv'
  <2>1. /\ vm.pc \in {"idle", "exit"} /\ value[r] # Null
        /\ value' = [value EXCEPT ![r] = Null]
        /\ vm' = [IdleVm EXCEPT !.pc = "uncount", !.op = "exit", !.slot = r, !.old = value[r]]
        /\ UNCHANGED <<status, refCount, links, gcLock, propLock, gc>>
    BY <1>1 DEF VmExitDrop
  <2>2. r \in Slots /\ Owner(r) = Null
    BY SlotFacts
  <2>3. vm' = [pc |-> DereferencePc(r, value[r]), op |-> "exit", slot |-> r, old |-> value[r],
                new |-> Null, held |-> Null, made |-> Null, target |-> Null]
    <3>1. DereferencePc(r, value[r]) = "uncount"
      BY <2>1, <2>2 DEF DereferencePc
    <3> QED BY <2>1, <3>1 DEF IdleVm
  <2>4. propLock' \in [Objects -> Holder]
    BY <2>1 DEF IInv, Types
  <2> QED BY <2>1, <2>2, <2>3, <2>4, VmDropStarts
<1>2. ASSUME VmExit \/ VmExited PROVE IInv'
  <2>1. PICK pc \in {"exit", "exited"} :
          /\ vm.pc \in {"idle", "exit"} /\ vm' = [vm EXCEPT !.pc = pc]
          /\ UNCHANGED <<status, value, refCount, links, gcLock, propLock, gc>>
    BY <1>2 DEF VmExit, VmExited
  <2>2. Types'
    BY <2>1 DEF IInv, Types, Live
  <2>3. Covered'
    <3>1. \A x : Holders(x)' = Holders(x) /\ VmOwes(x)' = VmOwes(x) /\ GcOwes(x)' = GcOwes(x)
      BY <2>1 DEF Holders, Owner, Slots, VmOwes, GcOwes, IInv, Types
    <3> QED BY <2>1, <3>1 DEF IInv, Covered, Live
  <2>4. VmHolds' /\ VmAssigns'
    BY <2>1 DEF IInv, VmHolds, VmAssigns, Busy, Assigning, Live, Types
  <2>5. GcWorks'
    <3>1. \A x \in Tracked : x \in Unheld => x \in Unheld'
      BY <2>1 DEF Unheld, Busy, Assigning, IInv, Types
    <3>2. gcLock' = gcLock /\ status' = status /\ gc' = gc /\ Live' = Live
      BY <2>1 DEF Live
    <3> QED BY <3>1, <3>2, GcUndisturbed
  <2>6. LinksAllowed' /\ Emptied'
    BY <2>1 DEF IInv, LinksAllowed, Emptied, Live
  <2> QED BY <2>2, <2>3, <2>4, <2>5, <2>6 DEF IInv
<1> QED BY <1>1, <1>2 DEF VmStop

-----------------------------------------------------------------------------
(* The steps of the collector.                                              *)

\* What the VM holds, and what it has read, stays.
LEMMA VmUndisturbed ==
  ASSUME IInv, vm' = vm,
         \A o \in Objects : gcLock[o] = "vm" => gcLock'[o] = "vm",
         \A o \in Live : propLock[o] = "vm" => propLock'[o] = "vm",
         \A o \in Live : o = vm.held \/ (Busy /\ o = vm.new) => o \in Live',
         \A o \in Objects : status[o] = "created" => status'[o] = "created",
         \A s \in Slots : s \in Registers \/ s[1] \in Live => value'[s] = value[s]
  PROVE  VmHolds' /\ VmAssigns'
<1>1. VmHolds'
  <2>1. vm.held # Null => vm.held \in Live' /\ propLock'[vm.held] = "vm"
    <3>1. vm.held # Null => vm.held \in Live /\ vm.held \in Objects /\ propLock[vm.held] = "vm"
      BY DEF IInv, VmHolds, Live
    <3> QED BY <3>1
  <2>2. vm.made # Null => status'[vm.made] = "created" /\ vm.held = Null /\ vm.op = "assign"
    <3>1. vm.made # Null => vm.made \in Objects
      BY DEF IInv, Types, Value
    <3> QED BY <3>1 DEF IInv, VmHolds
  <2>3. vm.target # Null => vm.made # Null /\ vm.slot \notin Registers
    BY DEF IInv, VmHolds
  <2> QED BY <2>1, <2>2, <2>3 DEF VmHolds
<1>2. VmAssigns'
  <2> SUFFICES ASSUME Busy PROVE VmAssigns'
    BY DEF VmAssigns, Busy
  <2>1. Slots' = Slots /\ Busy' /\ vm.new \in Live' \union {Null}
    BY DEF IInv, VmAssigns, Busy, Slots
  <2>2. vm.held \in Live \union {Null} /\ vm.made \in Live \union {Null}
    BY DEF IInv, VmHolds, Types, Value, Live
  <2>3. vm.slot \in Slots /\ value'[vm.slot] = value[vm.slot]
    <3>1. vm.slot \in Slots /\ (vm.slot \notin Registers => vm.slot[1] \in {vm.held, vm.made})
      BY DEF IInv, VmAssigns
    <3> QED BY <2>2, <3>1, SlotFacts, ObjectGCAssumption DEF Live
  <2>4. ASSUME NEW s \in Slots, value[s] = vm.new, s \in Registers \/ s[1] = vm.held
        PROVE  value'[s] = vm.new
    BY <2>2, <2>4, SlotFacts, ObjectGCAssumption
  <2>5. vm.old # Null => vm.old \in Objects
    BY DEF IInv, Types, Value
  <2> QED BY <2>1, <2>3, <2>4, <2>5 DEF IInv, VmAssigns, Owner
<1> QED BY <1>1, <1>2

\* A step that changes nothing but locks and what the collector knows.
LEMMA GcQuiet ==
  ASSUME IInv, UNCHANGED <<status, value, refCount, links, vm>>,
         gcLock' \in [Objects -> Holder], propLock' \in [Objects -> Holder],
         gc' \in [pc : Inspecting \union Dropping \union {"idle", "scan", "ended"},
             todo : SUBSET Objects, passes : Int, cur : Value, refs : Int,
             pending : SUBSET Objects, circular : Int, target : Value, final : BOOLEAN],
         \A o \in Objects : gcLock[o] = "vm" => gcLock'[o] = "vm",
         \A o \in Live : propLock[o] = "vm" => propLock'[o] = "vm",
         gc.pc # "dropcount", gc'.pc # "dropcount",
         gc.pc \notin Dropping \/ \A f \in Fields : value[<<gc.cur, f>>] = Null,
         GcWorks'
  PROVE  IInv'
<1>1. Live' = Live
  BY DEF Live
<1>2. Types'
  BY <1>1 DEF IInv, Types
<1>3. LinksAllowed' /\ Emptied'
  BY <1>1 DEF IInv, LinksAllowed, Emptied
<1>4. Covered'
  <2>1. \A o : Holders(o)' = Holders(o) /\ VmOwes(o)' = VmOwes(o) /\ GcOwes(o)' = GcOwes(o)
    BY DEF Holders, Owner, Slots, VmOwes, GcOwes
  <2> QED BY <1>1, <2>1 DEF IInv, Covered
<1>5. VmHolds' /\ VmAssigns'
  BY <1>1, VmUndisturbed
<1> QED BY <1>2, <1>3, <1>4, <1>5 DEF IInv

\* An object whose count is zero and whose gc_lock is free is in no variable,
\* and no assignment that has begun will store it.
LEMMA UncountedIsUnheld ==
  ASSUME IInv, NoMutualLinks, NEW o \in Tracked, gcLock[o] = "free", refCount[o] <= 0
  PROVE  o \in Unheld
<1>1. o \in Objects /\ o \in Live /\ o # Null /\ status[o] = "tracked" /\ <<o, o>> \notin Links
  BY ObjectGCAssumption DEF Tracked, Live, NoMutualLinks
<1>2. Holders(o) = {} /\ VmOwes(o) = 0
  <2>1. Cardinality(Holders(o)) + VmOwes(o) + GcOwes(o) <= refCount[o] /\ refCount[o] \in Int
    BY <1>1 DEF IInv, Covered, Types
  <2>2. VmOwes(o) \in {0, 1} /\ GcOwes(o) \in {0, 1}
    BY DEF VmOwes, GcOwes
  <2>3. IsFiniteSet(Holders(o)) /\ Cardinality(Holders(o)) \in Nat
    BY HoldersAreFinite
  <2> QED BY <2>1, <2>2, <2>3, FS_EmptySet
<1>3. ASSUME NEW s \in Slots, value[s] = o PROVE FALSE
  <2>1. Owner(s) # o
    BY <1>1, <1>3, SlotFacts DEF IInv, LinksAllowed
  <2>2. vm.pc = "store" /\ vm.slot = s
    BY <1>2, <1>3, <2>1 DEF Holders
  <2> QED BY <1>1, <1>3, <2>2 DEF IInv, VmAssigns, Busy, Assigning
<1>4. ASSUME Busy, vm.new = o PROVE FALSE
  <2>1. /\ vm.slot \in Slots /\ (vm.slot \notin Registers => <<vm.slot[1], o>> \in Links)
        /\ vm.op = "assign" /\ vm.made # o
        /\ vm.pc \notin {"lock", "link", "count"}
    BY <1>1, <1>3, <1>4 DEF IInv, VmAssigns, VmHolds
  <2>2. Owner(vm.slot) # o
    BY <1>1, <2>1, SlotFacts
  <2> QED BY <1>2, <1>4, <2>1, <2>2 DEF VmOwes, Busy, Assigning
<1> QED BY <1>1, <1>3, <1>4 DEF Unheld

\* The control state of the collector, field by field.
LEMMA GcRecord ==
  ASSUME IInv
  PROVE  /\ gc = [pc |-> gc.pc, todo |-> gc.todo, passes |-> gc.passes, cur |-> gc.cur,
                  refs |-> gc.refs, pending |-> gc.pending, circular |-> gc.circular,
                  target |-> gc.target, final |-> gc.final]
         /\ gc.pc \in Inspecting \union Dropping \union {"idle", "scan", "ended"}
         /\ gc.todo \in SUBSET Objects /\ gc.passes \in Int /\ gc.cur \in Value
         /\ gc.refs \in Int /\ gc.pending \in SUBSET Objects /\ gc.circular \in Int
         /\ gc.target \in Value /\ gc.final \in BOOLEAN
  BY DEF IInv, Types

\* An event begins a pass, passes over an object or takes its gc_lock.
LEMMA GcScanIInv ==
  ASSUME IInv, NoMutualLinks, NEW o \in Value, NEW E \in SUBSET Objects,
         GcBegin(E) \/ GcSkip(o) \/ GcTake(o) \/ GcNextPass
  PROVE  IInv'
<1>1. /\ UNCHANGED <<status, value, refCount, links, propLock, vm>>
      /\ Live' = Live /\ Tracked' = Tracked /\ Unheld' = Unheld /\ Tracked \in SUBSET Objects
  BY DEF GcBegin, GcSkip, GcTake, GcNextPass, Live, Tracked, Unheld, Busy, Slots
<1>2. gc.pc \in {"idle", "scan"} /\ gc'.pc \in {"scan", "links"}
  BY DEF GcBegin, GcSkip, GcTake, GcNextPass, IInv, Types
<1>3. gc' \in [pc : Inspecting \union Dropping \union {"idle", "scan", "ended"},
             todo : SUBSET Objects, passes : Int, cur : Value, refs : Int,
             pending : SUBSET Objects, circular : Int, target : Value, final : BOOLEAN]
  <2>1. /\ (o \in Objects => refCount[o] \in Int) /\ o \in Value
        /\ gc.passes - 1 \in Int /\ (vm.pc = "exited") \in BOOLEAN
    BY DEF IInv, Types, Value
  <2>2. CASE GcBegin(E)
    <3>1. gc' = [gc EXCEPT !.pc = "scan", !.todo = Tracked, !.passes = 0,
                           !.final = (vm.pc = "exited")]
      BY <2>2 DEF GcBegin
    <3>2. gc' = [pc |-> "scan", todo |-> Tracked, passes |-> 0, cur |-> gc.cur,
                 refs |-> gc.refs, pending |-> gc.pending, circular |-> gc.circular,
                 target |-> gc.target, final |-> (vm.pc = "exited")]
      BY GcRecord, <3>1
    <3> QED BY <1>1, <2>1, GcRecord, <3>2 DEF Inspecting, Value
  <2>3. CASE GcSkip(o)
    BY <2>3 DEF GcSkip, IInv, Types
  <2>4. CASE GcTake(o)
    BY <2>1, <2>4 DEF GcTake, IInv, Types, Inspecting
  <2>5. CASE GcNextPass
    BY <1>1, <2>1, <2>5 DEF GcNextPass, IInv, Types
  <2> QED BY <2>2, <2>3, <2>4, <2>5
<1>4. CASE GcTake(o)
  <2>1. /\ gcLock' = [gcLock EXCEPT ![o] = "gc"] /\ gcLock[o] = "free"
        /\ gc.pc = "scan" /\ o \in gc.todo
        /\ gc' = [gc EXCEPT !.pc = "links", !.todo = @ \ {o}, !.cur = o, !.refs = refCount[o]]
    BY <1>4 DEF GcTake
  <2>2. o \in Tracked /\ (refCount[o] <= 0 => o \in Unheld)
    BY <2>1, UncountedIsUnheld DEF IInv, GcWorks
  <2>3. GcWorks'
    BY <1>1, <2>1, <2>2 DEF IInv, GcWorks, Types, Inspecting, Dropping
  <2>4. /\ gcLock' \in [Objects -> Holder] /\ propLock' \in [Objects -> Holder]
        /\ \A q \in Objects : gcLock[q] = "vm" => gcLock'[q] = "vm"
    BY <1>1, <2>1 DEF IInv, Types, Holder
  <2> QED BY <1>1, <1>2, <1>3, <2>3, <2>4, GcQuiet DEF Dropping
<1>5. CASE GcBegin(E) \/ GcSkip(o) \/ GcNextPass
  <2>1. gcLock' = gcLock /\ gc'.pc = "scan" /\ gc'.todo \subseteq Tracked
    <3>1. /\ gcLock' = gcLock /\ gc.todo \subseteq Tracked /\ gc'.pc = "scan"
          /\ gc'.todo \in {Tracked, gc.todo \ {o}}
      BY <1>5, GcRecord DEF GcBegin, GcSkip, GcNextPass, IInv, GcWorks
    <3> QED BY <3>1
  <2>2. GcWorks'
    BY <1>1, <2>1 DEF GcWorks, Inspecting, Dropping
  <2> QED BY <1>1, <1>2, <1>3, <2>1, <2>2, GcQuiet DEF Dropping, IInv, Types
<1> QED BY <1>4, <1>5

\* The collector reads the links of an object, and keeps or condemns it; no link leads
\* back, so circular stays zero.
LEMMA GcInspectIInv ==
  ASSUME IInv, NoMutualLinks, NEW q \in Objects,
         GcOpenLinks \/ GcCountLink(q) \/ GcKeep \/ GcCondemn
  PROVE  IInv'
<1>1. /\ UNCHANGED <<status, value, refCount, links, propLock, vm>>
      /\ Live' = Live /\ Tracked' = Tracked /\ Unheld' = Unheld
  BY DEF GcOpenLinks, GcCountLink, GcKeep, GcCondemn, Live, Tracked, Unheld, Busy, Slots
<1>2. /\ gc.pc \in {"links", "counting"}
      /\ gc.cur \in Tracked \ gc.todo /\ gc.cur \in Objects /\ gcLock[gc.cur] = "gc"
  BY DEF GcOpenLinks, GcCountLink, GcKeep, GcCondemn, IInv, GcWorks, Inspecting, Tracked
<1>3. CASE GcOpenLinks
  <2> DEFINE P == {x \in Objects : links[gc.cur][x] > 0}
  <2>1. gc.pc = "links" /\ gcLock' = gcLock /\ P \in SUBSET Objects
        /\ gc' = [gc EXCEPT !.pc = "counting", !.circular = 0, !.pending = P]
    BY <1>3 DEF GcOpenLinks
  <2>2. \A x \in P : <<gc.cur, x>> \in Links
    BY <1>2 DEF IInv, LinksAllowed
  <2> HIDE DEF P
  <2>3. GcWorks'
    BY <1>1, <1>2, <2>1, <2>2 DEF IInv, GcWorks, Types, Inspecting, Dropping
  <2>4. gc' \in [pc : Inspecting \union Dropping \union {"idle", "scan", "ended"},
             todo : SUBSET Objects, passes : Int, cur : Value, refs : Int,
             pending : SUBSET Objects, circular : Int, target : Value, final : BOOLEAN]
    <3>1. gc' = [pc |-> "counting", todo |-> gc.todo, passes |-> gc.passes,
                 cur |-> gc.cur, refs |-> gc.refs, pending |-> P, circular |-> 0,
                 target |-> gc.target, final |-> gc.final]
      BY GcRecord, <2>1
    <3> QED BY <1>1, <2>1, GcRecord, <3>1 DEF Inspecting, Value
  <2>5. gc'.pc = "counting"
    BY <2>1 DEF IInv, Types
  <2> QED BY <1>1, <2>1, <2>3, <2>4, <2>5, GcQuiet DEF Dropping, IInv, Types
<1>4. CASE GcCountLink(q)
  <2>1. /\ gc.pc = "counting" /\ gcLock' = gcLock /\ q \in gc.pending
        /\ gc' = [gc EXCEPT !.pending = @ \ {q},
                            !.circular = IF links[q][gc.cur] > 0 THEN @ + 1 ELSE @]
    BY <1>4 DEF GcCountLink
  <2>2. ~(links[q][gc.cur] > 0)
    BY <1>2, <2>1 DEF IInv, GcWorks, LinksAllowed, NoMutualLinks
  <2>3. gc' = [gc EXCEPT !.pending = @ \ {q}]
    BY <2>1, <2>2 DEF IInv, Types
  <2>4. GcWorks'
    BY <1>1, <1>2, <2>1, <2>3 DEF IInv, GcWorks, Types, Inspecting, Dropping
  <2>5. gc' \in [pc : Inspecting \union Dropping \union {"idle", "scan", "ended"},
             todo : SUBSET Objects, passes : Int, cur : Value, refs : Int,
             pending : SUBSET Objects, circular : Int, target : Value, final : BOOLEAN]
    BY <2>3 DEF IInv, Types
  <2>6. gc'.pc = "counting"
    BY <2>1, <2>3 DEF IInv, Types
  <2> QED BY <1>1, <2>1, <2>4, <2>5, <2>6, GcQuiet DEF Dropping, IInv, Types
<1>5. CASE GcKeep
  <2>1. /\ gcLock' = [gcLock EXCEPT ![gc.cur] = "free"]
        /\ gc' = [gc EXCEPT !.pc = "scan", !.cur = Null, !.refs = 0, !.circular = 0]
    BY <1>5 DEF GcKeep
  <2>2. gc' \in [pc : Inspecting \union Dropping \union {"idle", "scan", "ended"},
             todo : SUBSET Objects, passes : Int, cur : Value, refs : Int,
             pending : SUBSET Objects, circular : Int, target : Value, final : BOOLEAN]
    <3>1. gc' = [pc |-> "scan", todo |-> gc.todo, passes |-> gc.passes,
                 cur |-> Null, refs |-> 0, pending |-> gc.pending, circular |-> 0,
                 target |-> gc.target, final |-> gc.final]
      BY GcRecord, <2>1
    <3> QED BY <1>1, <2>1, GcRecord, <3>1 DEF Inspecting, Value
  <2>3. gc'.pc = "scan" /\ gc'.todo = gc.todo
    BY <2>1 DEF IInv, Types
  <2>4. GcWorks'
    BY <1>1, <2>3 DEF IInv, GcWorks, Inspecting, Dropping
  <2>5. /\ gcLock' \in [Objects -> Holder]
        /\ \A x \in Objects : gcLock[x] = "vm" => gcLock'[x] = "vm"
    BY <1>2, <2>1 DEF IInv, Types, Holder
  <2> QED BY <1>1, <1>2, <2>2, <2>3, <2>4, <2>5, GcQuiet DEF Dropping, IInv, Types
<1>6. CASE GcCondemn
  <2>1. /\ gc.pc = "counting" /\ gc.refs <= gc.circular /\ gcLock' = gcLock
        /\ gc' = [gc EXCEPT !.pc = "release", !.refs = 0, !.circular = 0]
    BY <1>6 DEF GcCondemn, Unreferenced
  <2>2. gc.cur \in Unheld
    BY <2>1 DEF IInv, GcWorks
  <2>3. gc' \in [pc : Inspecting \union Dropping \union {"idle", "scan", "ended"},
             todo : SUBSET Objects, passes : Int, cur : Value, refs : Int,
             pending : SUBSET Objects, circular : Int, target : Value, final : BOOLEAN]
    <3>1. gc' = [pc |-> "release", todo |-> gc.todo, passes |-> gc.passes,
                 cur |-> gc.cur, refs |-> 0, pending |-> gc.pending, circular |-> 0,
                 target |-> gc.target, final |-> gc.final]
      BY GcRecord, <2>1
    <3> QED BY <1>1, <2>1, GcRecord, <3>1 DEF Inspecting, Value
  <2>4. gc'.pc = "release" /\ gc'.todo = gc.todo /\ gc'.cur = gc.cur
    BY <2>1 DEF IInv, Types
  <2>5. GcWorks'
    BY <1>1, <1>2, <2>1, <2>2, <2>4 DEF IInv, GcWorks, Inspecting, Dropping
  <2> QED BY <1>1, <1>2, <2>1, <2>3, <2>4, <2>5, GcQuiet DEF Dropping, IInv, Types
<1> QED BY <1>3, <1>4, <1>5, <1>6

\* What is released is in no variable, nor does the program work on it.
LEMMA GcReleaseIInv == ASSUME IInv, GcRelease PROVE IInv'
<1>1. /\ gc.pc = "release" /\ propLock[gc.cur] = "free"
      /\ propLock' = [propLock EXCEPT ![gc.cur] = "gc"]
      /\ status' = [status EXCEPT ![gc.cur] = "released"]
      /\ gc' = [gc EXCEPT !.pc = "drop"]
      /\ UNCHANGED <<value, refCount, links, gcLock, vm>>
  BY DEF GcRelease
<1>2. /\ gc.cur \in Tracked \ gc.todo /\ gc.cur \in Objects /\ status[gc.cur] = "tracked"
      /\ gc.cur \in Unheld /\ gcLock[gc.cur] = "gc" /\ gc.todo \subseteq Tracked
  BY <1>1 DEF IInv, GcWorks, Inspecting, Tracked
<1>3. /\ Live' = Live \ {gc.cur} /\ Tracked' = Tracked \ {gc.cur}
      /\ status'[gc.cur] = "released"
      /\ \A o \in Objects : status[o] = "created" => status'[o] = "created"
  BY <1>1, <1>2 DEF Live, Tracked, IInv, Types
<1>4. Types'
  <2>1. value' \in [Slots -> Live' \union {Null}]
    BY <1>1, <1>2, <1>3 DEF IInv, Types, Unheld
  <2>2. gc' \in [pc : Inspecting \union Dropping \union {"idle", "scan", "ended"},
             todo : SUBSET Objects, passes : Int, cur : Value, refs : Int,
             pending : SUBSET Objects, circular : Int, target : Value, final : BOOLEAN]
    BY <1>1 DEF IInv, Types, Dropping
  <2>3. status' \in [Objects -> {"unallocated", "created", "tracked", "released"}]
        /\ propLock' \in [Objects -> Holder]
    BY <1>1 DEF IInv, Types, Holder
  <2> QED BY <1>1, <2>1, <2>2, <2>3 DEF IInv, Types
<1>5. LinksAllowed'
  BY <1>1 DEF IInv, LinksAllowed
<1>6. Covered'
  <2>1. \A o : Holders(o)' = Holders(o) /\ VmOwes(o)' = VmOwes(o) /\ GcOwes(o)' = GcOwes(o)
    BY <1>1 DEF Holders, Owner, Slots, VmOwes, GcOwes, IInv, Types
  <2> QED BY <1>1, <1>3, <2>1 DEF IInv, Covered
<1>7. VmHolds' /\ VmAssigns'
  <2>1. \A o \in Objects : propLock[o] = "vm" => propLock'[o] = "vm"
    BY <1>1 DEF IInv, Types
  <2>2. \A o \in Live : o = vm.held \/ (Busy /\ o = vm.new) => o \in Live'
    <3>1. Null \notin Live /\ (vm.held # Null => propLock[vm.held] = "vm")
      BY ObjectGCAssumption DEF Live, IInv, VmHolds
    <3>2. Busy => vm.new # gc.cur
      BY <1>2 DEF Unheld
    <3> QED BY <1>1, <1>3, <3>1, <3>2
  <2> QED BY <1>1, <1>3, <2>1, <2>2, VmUndisturbed
<1>8. GcWorks'
  <2>1. gc'.pc = "drop" /\ gc'.cur = gc.cur /\ gc'.todo = gc.todo
    BY <1>1 DEF IInv, Types
  <2> QED BY <1>1, <1>2, <1>3, <2>1 DEF GcWorks, Inspecting, Dropping
<1>9. Emptied'
  <2>1. gc'.pc = "drop" /\ gc'.cur = gc.cur
    BY <1>1 DEF IInv, Types
  <2> QED BY <1>1, <1>3, <2>1 DEF IInv, Emptied, Dropping
<1> QED BY <1>4, <1>5, <1>6, <1>7, <1>8, <1>9 DEF IInv

\* The count of what a released object held is owed until it is dropped.
LEMMA GcDropIInv == ASSUME IInv, NEW f \in Fields, GcDrop(f) PROVE IInv'
<1> DEFINE s == <<gc.cur, f>>
           t == value[s]
<1>1. /\ gc.pc = "drop" /\ t # Null
      /\ value' = [value EXCEPT ![s] = Null]
      /\ UNCHANGED <<status, refCount, gcLock, propLock, vm>>
  BY DEF GcDrop
<1>2. /\ gc.cur \in Objects /\ status[gc.cur] = "released" /\ gcLock[gc.cur] = "gc"
      /\ gc.cur \notin Live /\ gc.todo \subseteq Tracked
  BY <1>1 DEF IInv, GcWorks, Dropping, Live
<1>3. s \in Slots \ Registers /\ s[1] = gc.cur /\ Owner(s) = gc.cur
  BY <1>2, SlotFacts
<1>4. t \in Live /\ t \in Objects /\ t # gc.cur
  BY <1>1, <1>2, <1>3 DEF IInv, Types, Live
<1>5. /\ links' = [links EXCEPT ![gc.cur][t] = IF @ = 0 THEN 0 ELSE @ - 1]
      /\ gc' \in {gc, [gc EXCEPT !.pc = "dropcount", !.target = t]}
  BY <1>4 DEF GcDrop
<1>6. \A q \in Slots : value'[q] = IF q = s THEN Null ELSE value[q]
  BY <1>1 DEF IInv, Types
<1> HIDE DEF s, t
<1>7. Live' = Live /\ Tracked' = Tracked
  BY <1>1 DEF Live, Tracked
<1>8. /\ gc'.pc \in Dropping /\ gc'.cur = gc.cur /\ gc'.todo = gc.todo
      /\ gc'.pc = "dropcount" => gc'.target = t
  BY <1>1, <1>5 DEF IInv, Types, Dropping
<1>9. Types'
  <2>1. value' \in [Slots -> Live' \union {Null}]
    BY <1>1, <1>7 DEF IInv, Types
  <2>2. links' \in [Objects -> [Objects -> Nat]]
    <3>1. links[gc.cur] \in [Objects -> Nat] /\ links[gc.cur][t] \in Nat
      BY <1>2, <1>4 DEF IInv, Types
    <3>2. (IF links[gc.cur][t] = 0 THEN 0 ELSE links[gc.cur][t] - 1) \in Nat
      BY <3>1
    <3> QED BY <1>2, <1>4, <1>5, <3>1, <3>2 DEF IInv, Types
  <2>3. gc' \in [pc : Inspecting \union Dropping \union {"idle", "scan", "ended"},
             todo : SUBSET Objects, passes : Int, cur : Value, refs : Int,
             pending : SUBSET Objects, circular : Int, target : Value, final : BOOLEAN]
    BY <1>4, <1>5 DEF IInv, Types, Dropping, Value
  <2> QED BY <1>1, <1>7, <2>1, <2>2, <2>3 DEF IInv, Types
<1>10. LinksAllowed'
  <2>1. \A p, o \in Objects : links'[p][o] > 0 => links[p][o] > 0
    BY <1>2, <1>4, <1>5 DEF IInv, Types
  <2>2. \A p \in Objects, g \in Fields :
          value'[<<p, g>>] # Null => value'[<<p, g>>] = value[<<p, g>>]
    BY <1>6, SlotFacts
  <2> QED BY <2>1, <2>2 DEF IInv, LinksAllowed
<1>11. Covered'
  <2> SUFFICES ASSUME NEW x \in Live'
               PROVE  Cardinality(Holders(x)') + VmOwes(x)' + GcOwes(x)' <= refCount'[x]
    BY DEF Covered
  <2>1. x \in Live /\ refCount'[x] \in Int /\ refCount'[x] = refCount[x] /\ x # Null
    BY <1>1, <1>7, ObjectGCAssumption DEF Live, IInv, Types
  <2>2. Holders(x)' \subseteq Holders(x)
    BY <1>1, <1>6, <2>1 DEF Holders, Owner, Slots
  <2>3. VmOwes(x)' = VmOwes(x) /\ GcOwes(x) = 0
    BY <1>1 DEF VmOwes, GcOwes, Owner
  <2>4. VmOwes(x) \in {0, 1} /\ GcOwes(x)' \in {0, 1} /\ (x # t => GcOwes(x)' = 0)
    BY <1>8 DEF VmOwes, GcOwes
  <2>5. x = t => s \in Holders(x) /\ Holders(x)' \subseteq Holders(x) \ {s}
    <3>1. ~(vm.pc = "store" /\ vm.slot = s)
      <4>1. vm.held # gc.cur /\ vm.made # gc.cur
        BY <1>2, ObjectGCAssumption DEF IInv, VmHolds, Live
      <4> QED BY <1>3, <4>1 DEF IInv, VmAssigns, Busy, Assigning
    <3>2. s \notin Holders(x)'
      BY <1>3, <1>6, <2>1 DEF Holders
    <3>3. x = t => s \in Holders(x)
      BY <1>3, <1>4, <3>1 DEF Holders, t
    <3> QED BY <2>2, <3>2, <3>3
  <2> QED BY <2>1, <2>2, <2>3, <2>4, <2>5, CoveredStep
<1>12. VmHolds' /\ VmAssigns'
  BY <1>1, <1>2, <1>3, <1>6, <1>7, VmUndisturbed
<1>13. GcWorks'
  BY <1>1, <1>2, <1>4, <1>7, <1>8 DEF GcWorks, Inspecting, Dropping
<1>14. Emptied'
  <2>1. \A p \in Objects, g \in Fields : value'[<<p, g>>] # Null => value[<<p, g>>] # Null
    BY <1>6, SlotFacts
  <2> QED BY <1>7, <1>8, <2>1 DEF IInv, Emptied
<1> QED BY <1>9, <1>10, <1>11, <1>12, <1>13, <1>14 DEF IInv

\* The count of the dropped value follows its link.
LEMMA GcDropCountIInv == ASSUME IInv, GcDropCount PROVE IInv'
<1>1. /\ gc.pc = "dropcount"
      /\ refCount' = [refCount EXCEPT ![gc.target] = @ - 1]
      /\ gc' = [gc EXCEPT !.pc = "drop", !.target = Null]
      /\ UNCHANGED <<status, value, links, gcLock, propLock, vm>>
  BY DEF GcDropCount
<1>2. /\ gc.cur \in Objects /\ status[gc.cur] = "released" /\ gcLock[gc.cur] = "gc"
      /\ gc.target \in Live /\ gc.target \in Objects /\ gc.todo \subseteq Tracked
  BY <1>1 DEF IInv, GcWorks, Dropping, Live
<1>3. Live' = Live /\ Tracked' = Tracked
  BY <1>1 DEF Live, Tracked
<1>4. gc'.pc = "drop" /\ gc'.cur = gc.cur /\ gc'.todo = gc.todo
  BY <1>1 DEF IInv, Types
<1>5. Types'
  <2>1. refCount' \in [Objects -> Int]
    BY <1>1, <1>2 DEF IInv, Types
  <2>2. gc' \in [pc : Inspecting \union Dropping \union {"idle", "scan", "ended"},
             todo : SUBSET Objects, passes : Int, cur : Value, refs : Int,
             pending : SUBSET Objects, circular : Int, target : Value, final : BOOLEAN]
    BY <1>1 DEF IInv, Types, Dropping, Value
  <2> QED BY <1>1, <1>3, <2>1, <2>2 DEF IInv, Types
<1>6. Covered'
  <2> SUFFICES ASSUME NEW x \in Live'
               PROVE  Cardinality(Holders(x)') + VmOwes(x)' + GcOwes(x)' <= refCount'[x]
    BY DEF Covered
  <2>1. /\ x \in Live /\ refCount[x] \in Int
        /\ refCount'[x] = IF x = gc.target THEN refCount[x] - 1 ELSE refCount[x]
    BY <1>1, <1>2, <1>3 DEF Live, IInv, Types
  <2>2. Holders(x)' \subseteq Holders(x) /\ VmOwes(x)' = VmOwes(x)
    BY <1>1 DEF Holders, Owner, Slots, VmOwes
  <2>3. /\ GcOwes(x)' = 0
        /\ GcOwes(x) = IF x = gc.target THEN 1 ELSE 0
    BY <1>1, <1>4 DEF GcOwes
  <2>4. VmOwes(x) \in {0, 1}
    BY DEF VmOwes
  <2> QED BY <2>1, <2>2, <2>3, <2>4, CoveredStep
<1>7. VmHolds' /\ VmAssigns'
  BY <1>1, <1>3, VmUndisturbed
<1>8. GcWorks'
  BY <1>1, <1>2, <1>3, <1>4 DEF GcWorks, Inspecting, Dropping
<1>9. LinksAllowed' /\ Emptied'
  BY <1>1, <1>3, <1>4 DEF IInv, LinksAllowed, Emptied, Dropping
<1> QED BY <1>5, <1>6, <1>7, <1>8, <1>9 DEF IInv

\* The released object gives its locks back.
LEMMA GcReleasedIInv == ASSUME IInv, GcReleased PROVE IInv'
<1>1. /\ gc.pc = "drop" /\ \A f \in Fields : value[<<gc.cur, f>>] = Null
      /\ gcLock' = Unlock(gcLock, gc.cur) /\ propLock' = Unlock(propLock, gc.cur)
      /\ gc' = [gc EXCEPT !.pc = "scan", !.cur = Null, !.passes = @ + 1]
      /\ UNCHANGED <<status, value, refCount, links, vm>>
  BY DEF GcReleased
<1>2. gc.cur \in Objects /\ gc.cur \notin Live /\ gcLock[gc.cur] = "gc" /\ gc.todo \subseteq Tracked
  BY <1>1 DEF IInv, GcWorks, Dropping, Live
<1>3. gc'.pc = "scan" /\ gc'.todo = gc.todo /\ Tracked' = Tracked
  BY <1>1, GcRecord DEF Tracked
<1>4. gc' \in [pc : Inspecting \union Dropping \union {"idle", "scan", "ended"},
             todo : SUBSET Objects, passes : Int, cur : Value, refs : Int,
             pending : SUBSET Objects, circular : Int, target : Value, final : BOOLEAN]
  <2>1. gc' = [pc |-> "scan", todo |-> gc.todo, passes |-> gc.passes + 1, cur |-> Null,
               refs |-> gc.refs, pending |-> gc.pending, circular |-> gc.circular,
               target |-> gc.target, final |-> gc.final]
    BY <1>1, GcRecord
  <2> QED BY GcRecord, <2>1 DEF Value
<1>5. /\ gcLock' \in [Objects -> Holder] /\ propLock' \in [Objects -> Holder]
      /\ \A o \in Objects : gcLock[o] = "vm" => gcLock'[o] = "vm"
  BY <1>1, <1>2 DEF IInv, Types, Unlock, Holder
<1>6. GcWorks'
  BY <1>2, <1>3 DEF GcWorks, Inspecting, Dropping
<1>7. \A o \in Live : propLock[o] = "vm" => propLock'[o] = "vm"
  BY <1>1, <1>2 DEF IInv, Types, Unlock, Live
<1> QED BY <1>1, <1>3, <1>4, <1>5, <1>6, <1>7, GcQuiet

\* The event frees what it released.
LEMMA GcEndIInv == ASSUME IInv, GcEnd PROVE IInv'
<1>1. /\ gc.pc = "scan" /\ gc.todo = {}
      /\ status' = [o \in Objects |->
                      IF status[o] = "released" THEN "unallocated" ELSE status[o]]
      /\ gc' = [gc EXCEPT !.pc = IF gc.final THEN "ended" ELSE "idle"]
      /\ UNCHANGED <<value, refCount, links, gcLock, propLock, vm>>
  BY DEF GcEnd
<1>2. Live' = Live
  BY <1>1 DEF Live
<1>3. gc'.pc \in {"idle", "ended"} /\ gc'.todo = {}
  BY <1>1 DEF IInv, Types
<1>4. Types'
  <2>1. gc' \in [pc : Inspecting \union Dropping \union {"idle", "scan", "ended"},
             todo : SUBSET Objects, passes : Int, cur : Value, refs : Int,
             pending : SUBSET Objects, circular : Int, target : Value, final : BOOLEAN]
    BY <1>1 DEF IInv, Types
  <2>2. status' \in [Objects -> {"unallocated", "created", "tracked", "released"}]
    BY <1>1 DEF IInv, Types
  <2> QED BY <1>1, <1>2, <2>1, <2>2 DEF IInv, Types
<1>5. Covered'
  <2>1. \A o : Holders(o)' = Holders(o) /\ VmOwes(o)' = VmOwes(o) /\ GcOwes(o)' = GcOwes(o)
    BY <1>1, <1>3 DEF Holders, Owner, Slots, VmOwes, GcOwes
  <2> QED BY <1>1, <1>2, <2>1 DEF IInv, Covered
<1>6. VmHolds' /\ VmAssigns'
  BY <1>1, <1>2, VmUndisturbed
<1>7. GcWorks'
  BY <1>3 DEF GcWorks, Inspecting, Dropping
<1>8. LinksAllowed' /\ Emptied'
  BY <1>1, <1>2 DEF IInv, LinksAllowed, Emptied, Dropping
<1> QED BY <1>4, <1>5, <1>6, <1>7, <1>8 DEF IInv

\* Every step of either thread preserves the invariant.
LEMMA NextIInv == IInv /\ NoMutualLinks /\ [Next]_vars => IInv'
<1> SUFFICES ASSUME IInv, NoMutualLinks, [Next]_vars PROVE IInv'
  OBVIOUS
<1>1. CASE VmStep
  BY <1>1, VmLockIInv, VmLinkIInv, VmCountIInv, VmUnlinkIInv, VmUncountIInv, VmStoreIInv,
     VmPublishIInv DEF VmStep
<1>2. CASE VmStart
  <2>1. ASSUME NEW o \in Objects, NEW r \in Registers, NEW proto \in RegisterValues \union {Null},
               VmCreate(o, r, proto)
        PROVE  IInv'
    BY <2>1, VmCreateIInv
  <2>2. ASSUME NEW r \in Registers, NEW v \in RegisterValues \union {Null}, VmCopy(r, v)
        PROVE  IInv'
    BY <2>2, VmAccessIInv, ObjectGCAssumption
  <2>3. ASSUME NEW r \in Registers, NEW p \in LookupObjects, NEW f \in Fields,
               VmGetProperty(r, p, f)
        PROVE  IInv'
    <3>1. Null \in RegisterValues \union {Null}
      OBVIOUS
    <3> QED BY <2>3, <3>1, VmAccessIInv
  <2>4. ASSUME NEW p \in RegisterValues, NEW f \in Fields, NEW v \in RegisterValues \union {Null},
               VmSetProperty(p, f, v)
        PROVE  IInv'
    <3>1. \E r \in Registers : TRUE
      BY DEF RegisterValues
    <3> QED BY <2>4, <3>1, VmAccessIInv
  <2>5. ASSUME NEW p \in RegisterValues, NEW f \in Fields, VmDeleteProperty(p, f)
        PROVE  IInv'
    BY <2>5, VmDeleteIInv
  <2>6. CASE VmExit
    BY <2>6, VmExitIInv
  <2> QED BY <1>2, <2>1, <2>2, <2>3, <2>4, <2>5, <2>6 DEF VmStart
<1>3. CASE VmStop
  BY <1>3, VmExitIInv
<1>4. CASE \E E \in SUBSET Objects : GcBegin(E)
  <2>1. Null \in Value
    BY DEF Value
  <2> QED BY <1>4, <2>1, GcScanIInv
<1>5. CASE GcStep
  <2>1. ASSUME NEW o \in Objects, GcSkip(o) \/ GcTake(o) \/ GcCountLink(o)
        PROVE  IInv'
    <3>1. o \in Value /\ {} \in SUBSET Objects
      BY DEF Value
    <3> QED BY <2>1, <3>1, GcScanIInv, GcInspectIInv
  <2>2. CASE GcNextPass
    <3>1. Null \in Value /\ {} \in SUBSET Objects
      BY DEF Value
    <3> QED BY <2>2, <3>1, GcScanIInv
  <2>3. CASE GcOpenLinks \/ GcKeep \/ GcCondemn
    <3>1. gc.cur \in Objects
      BY <2>3 DEF GcOpenLinks, GcKeep, GcCondemn, IInv, GcWorks, Inspecting, Tracked
    <3> QED BY <2>3, <3>1, GcInspectIInv
  <2>4. ASSUME NEW f \in Fields, GcDrop(f) PROVE IInv'
    BY <2>4, GcDropIInv
  <2> QED BY <1>5, <2>1, <2>2, <2>3, <2>4, GcReleaseIInv, GcDropCountIInv, GcReleasedIInv, GcEndIInv
          DEF GcStep
<1>6. CASE UNCHANGED vars
  BY <1>6 DEF vars, IInv, Types, LinksAllowed, Covered, VmHolds, VmAssigns, GcWorks, Emptied, Live,
     Tracked, Unheld, Busy, Holders, VmOwes, GcOwes, Slots, Owner
<1> QED BY <1>1, <1>2, <1>3, <1>4, <1>5, <1>6 DEF Next, Terminated

-----------------------------------------------------------------------------
(* The theorems.                                                            *)

\* The reference_count the collector reads covers the variables that hold the
\* object, at every point of every assignment, deletion and release.
THEOREM CountsAlwaysCover ==
  ASSUME NoMutualLinks
  PROVE  Spec => []CountsCoverHolders
<1>1. IInv => CountsCoverHolders
  <2> SUFFICES ASSUME IInv, NEW o \in Live PROVE Cardinality(Holders(o)) <= refCount[o]
    BY DEF CountsCoverHolders
  <2>1. Cardinality(Holders(o)) + VmOwes(o) + GcOwes(o) <= refCount[o]
    BY DEF IInv, Covered
  <2>2. VmOwes(o) \in {0, 1} /\ GcOwes(o) \in {0, 1} /\ refCount[o] \in Int
    BY DEF VmOwes, GcOwes, IInv, Types, Live
  <2>3. Cardinality(Holders(o)) \in Nat
    BY HoldersAreFinite
  <2> QED BY <2>1, <2>2, <2>3
<1>2. IInv /\ [Next]_vars => IInv'
  BY NextIInv
<1> QED BY <1>1, <1>2, InitIInv, PTL DEF Spec

\* Nothing that a register or a property of a live object holds is ever
\* released or freed by simplejs_gc_event.
THEOREM NothingHeldIsReleased ==
  ASSUME NoMutualLinks
  PROVE  Spec => []NoDanglingSlot
<1>1. IInv => NoDanglingSlot
  BY DEF IInv, Types, NoDanglingSlot
<1>2. IInv /\ [Next]_vars => IInv'
  BY NextIInv
<1> QED BY <1>1, <1>2, InitIInv, PTL DEF Spec

-----------------------------------------------------------------------------
(* The refinement.                                                          *)

\* A step that leaves the live objects and their variables alone is none of Heap.
LEMMA HeapStutters ==
  ASSUME Live' = Live,
         \A s \in Slots : s \in Registers \/ s[1] \in Live => value'[s] = value[s]
  PROVE  UNCHANGED <<Live, LiveValue>>
<1>1. Slots' = Slots
  BY DEF Slots
<1> QED BY <1>1 DEF LiveValue

\* A variable of the program changes: a Write of Heap.
LEMMA HeapWrites ==
  ASSUME IInv, Live' = Live, NEW s \in Slots, s \in Registers \/ s[1] \in Live,
         NEW v \in Live \union {Null}, value' = [value EXCEPT ![s] = v]
  PROVE  AbstractHeap!Next
<1>1. s \in Registers \/ s \in Live \X Fields
  BY SlotFacts
<1>2. LiveValue' = [LiveValue EXCEPT ![s] = v]
  <2>1. \A q \in Slots : value'[q] = IF q = s THEN v ELSE value[q]
    BY DEF IInv, Types
  <2>2. Slots' = Slots
    BY DEF Slots
  <2> QED BY <2>1, <2>2 DEF LiveValue
<1>3. AbstractHeap!Write(s, v)
  BY <1>1, <1>2 DEF AbstractHeap!Write
<1>4. s \in AbstractHeap!Slots /\ v \in Objects \union {Null}
  BY DEF AbstractHeap!Slots, Slots, Live
<1> QED BY <1>3, <1>4 DEF AbstractHeap!Next

\* An object is created: an Allocate of Heap, with all its properties empty.
LEMMA HeapAllocates ==
  ASSUME IInv, NEW o \in Objects, NEW r, NEW proto, VmCreate(o, r, proto)
  PROVE  AbstractHeap!Next
<1>1. /\ status[o] = "unallocated" /\ status' = [status EXCEPT ![o] = "created"]
      /\ value' = value
  BY DEF VmCreate
<1>2. o \notin Live /\ Live' = Live \union {o}
  BY <1>1 DEF Live, IInv, Types
<1>3. \A f \in Fields : value[<<o, f>>] = Null
  BY <1>1, <1>2 DEF IInv, Emptied, GcWorks
<1>4. \A s \in Slots : s \notin Registers /\ s[1] = o => value[s] = Null
  BY <1>3, SlotFacts
<1>5. LiveValue' = LiveValue
  <2>1. Slots' = Slots
    BY DEF Slots
  <2> QED BY <1>1, <1>2, <1>4, <2>1 DEF LiveValue
<1>6. AbstractHeap!Allocate(o)
  BY <1>2, <1>5 DEF AbstractHeap!Allocate
<1> QED BY <1>6 DEF AbstractHeap!Next

\* An object is released: a Collect of Heap, for nothing holds it.
LEMMA HeapCollects == ASSUME IInv, GcRelease PROVE AbstractHeap!Next
<1>1. /\ gc.pc = "release" /\ status' = [status EXCEPT ![gc.cur] = "released"] /\ value' = value
  BY DEF GcRelease
<1>2. gc.cur \in Objects /\ gc.cur \in Live /\ gc.cur \in Unheld
  BY <1>1 DEF IInv, GcWorks, Inspecting, Tracked, Live
<1>3. Live' = Live \ {gc.cur}
  BY <1>1, <1>2 DEF Live, IInv, Types
<1>4. \A s \in Slots : LiveValue[s] # gc.cur
  BY <1>2, ObjectGCAssumption DEF LiveValue, Unheld
<1>5. AbstractHeap!Unreachable({gc.cur})
  BY <1>4, SlotFacts DEF AbstractHeap!Unreachable, Live
<1>6. AbstractHeap!Garbage(gc.cur)
  <2>1. {gc.cur} \in SUBSET Objects
    BY <1>2
  <2> QED BY <1>5, <2>1 DEF AbstractHeap!Garbage
<1>7. LiveValue' = [s \in AbstractHeap!Slots |->
                      IF s \in {gc.cur} \X Fields THEN Null ELSE LiveValue[s]]
  <2>1. Slots' = Slots /\ AbstractHeap!Slots = Slots
    BY DEF Slots, AbstractHeap!Slots
  <2>2. \A s \in Slots : s \in {gc.cur} \X Fields <=> s \notin Registers /\ s[1] = gc.cur
    BY <1>2, SlotFacts
  <2> QED BY <1>1, <1>3, <2>1, <2>2 DEF LiveValue
<1>8. AbstractHeap!Collect(gc.cur)
  BY <1>2, <1>3, <1>6, <1>7 DEF AbstractHeap!Collect
<1> QED BY <1>2, <1>8 DEF AbstractHeap!Next

\* Every step of either thread is a step of Heap or none.
LEMMA HeapSteps ==
  ASSUME IInv, [Next]_vars
  PROVE  AbstractHeap!Next \/ UNCHANGED <<Live, LiveValue>>
<1>1. CASE VmStore
  <2>1. /\ vm.pc = "store" /\ value' = [value EXCEPT ![vm.slot] = vm.new] /\ status' = status
    BY <1>1 DEF VmStore
  <2>2. /\ vm.slot \in Slots /\ vm.new \in Live \union {Null}
        /\ vm.slot \notin Registers => vm.slot[1] \in {vm.held, vm.made}
    BY <2>1 DEF IInv, VmAssigns, Busy, Assigning
  <2>3. vm.slot \notin Registers => vm.slot[1] \in Live
    <3>1. vm.slot \notin Registers => vm.slot[1] \in Objects
      BY <2>2, SlotFacts
    <3> QED BY <2>2, <3>1, ObjectGCAssumption DEF IInv, VmHolds, Live
  <2>4. Live' = Live
    BY <2>1 DEF Live
  <2> QED BY <2>1, <2>2, <2>3, <2>4, HeapWrites
<1>2. ASSUME NEW p \in RegisterValues, NEW f \in Fields, VmDeleteProperty(p, f)
      PROVE  AbstractHeap!Next
  <2>1. p \in Live /\ <<p, f>> \in Slots /\ <<p, f>>[1] = p
    BY Reachable, SlotFacts DEF Live
  <2>2. Live' = Live /\ value' = [value EXCEPT ![<<p, f>>] = Null]
    BY <1>2 DEF VmDeleteProperty, Live
  <2> QED BY <2>1, <2>2, HeapWrites
<1>3. ASSUME NEW r \in Registers, VmExitDrop(r) PROVE AbstractHeap!Next
  <2>1. r \in Slots /\ Live' = Live /\ value' = [value EXCEPT ![r] = Null]
    BY <1>3, SlotFacts DEF VmExitDrop, Live
  <2> QED BY <2>1, HeapWrites
<1>4. ASSUME NEW f \in Fields, GcDrop(f) PROVE UNCHANGED <<Live, LiveValue>>
  <2>1. /\ gc.pc = "drop" /\ value' = [value EXCEPT ![<<gc.cur, f>>] = Null] /\ status' = status
    BY <1>4 DEF GcDrop
  <2>2. gc.cur \in Objects /\ gc.cur \notin Live
    BY <2>1 DEF IInv, GcWorks, Dropping, Live
  <2>3. <<gc.cur, f>> \notin Registers /\ <<gc.cur, f>>[1] = gc.cur
    BY <2>2, SlotFacts
  <2>4. Live' = Live
    BY <2>1 DEF Live
  <2> QED BY <2>1, <2>2, <2>3, <2>4, HeapStutters DEF IInv, Types
<1>5. ASSUME status' = status, value' = value PROVE UNCHANGED <<Live, LiveValue>>
  <2>1. Live' = Live
    BY <1>5 DEF Live
  <2> QED BY <1>5, <2>1, HeapStutters
<1>6. CASE VmPublish \/ GcEnd
  <2>1. vm.pc = "publish" => (vm.made \in Objects => status[vm.made] = "created")
    BY ObjectGCAssumption DEF IInv, VmHolds
  <2>2. Live' = Live /\ value' = value
    BY <1>6, <2>1 DEF VmPublish, GcEnd, Live, IInv, Types
  <2> QED BY <2>2, HeapStutters
<1>7. CASE VmStep
  BY <1>1, <1>5, <1>6, <1>7 DEF VmStep, VmLock, VmLink, VmCount, VmUnlink, VmUncount
<1>8. CASE VmStart
  <2>1. ASSUME NEW r, NEW p, NEW f, NEW v,
               VmCopy(r, v) \/ VmGetProperty(r, p, f) \/ VmSetProperty(p, f, v) \/ VmExit
        PROVE  status' = status /\ value' = value
    BY <2>1 DEF VmCopy, VmGetProperty, VmSetProperty, VmExit
  <2> QED BY <1>2, <1>5, <1>8, <2>1, HeapAllocates DEF VmStart
<1>9. CASE VmStop
  BY <1>3, <1>5, <1>9 DEF VmStop, VmExited
<1>10. CASE \E E \in SUBSET Objects : GcBegin(E)
  BY <1>5, <1>10 DEF GcBegin
<1>11. CASE GcStep
  <2>1. ASSUME NEW o, GcSkip(o) \/ GcTake(o) \/ GcCountLink(o)
        PROVE  status' = status /\ value' = value
    BY <2>1 DEF GcSkip, GcTake, GcCountLink
  <2>2. ASSUME GcOpenLinks \/ GcKeep \/ GcCondemn \/ GcDropCount \/ GcReleased \/ GcNextPass
        PROVE  status' = status /\ value' = value
    BY <2>2 DEF GcOpenLinks, GcKeep, GcCondemn, GcDropCount, GcReleased, GcNextPass
  <2> QED BY <1>4, <1>5, <1>6, <1>11, <2>1, <2>2, HeapCollects DEF GcStep
<1>12. CASE UNCHANGED vars
  BY <1>5, <1>12 DEF vars
<1> QED BY <1>7, <1>8, <1>9, <1>10, <1>11, <1>12 DEF Next, Terminated

\* The two threads, with counts, links and locks, implement the heap that has
\* none of them: what simplejs_gc_event releases no register can reach.
THEOREM CollectorImplementsHeap ==
  ASSUME NoMutualLinks
  PROVE  Spec => ImplementsHeap
<1>1. Init => AbstractHeap!Init
  BY SlotFacts DEF Init, AbstractHeap!Init, Live, LiveValue, Slots, AbstractHeap!Slots
<1>2. IInv /\ [Next]_vars => IInv'
  BY NextIInv
<1>3. IInv /\ [Next]_vars => [AbstractHeap!Next]_<<Live, LiveValue>>
  BY HeapSteps
<1> QED BY <1>1, <1>2, <1>3, InitIInv, PTL DEF Spec, ImplementsHeap, AbstractHeap!Spec

-----------------------------------------------------------------------------
(* Exact counts, for a program that never has two properties of one object   *)
(* hold the same object: an invariant of its own on top of IInv.  The links  *)
(* of an object are then zero or one, so an unlink always removes the entry, *)
(* and the count follows.                                                    *)

\* Covered with equality.
Exact == \A o \in Live : refCount[o] = Cardinality(Holders(o)) + VmOwes(o) + GcOwes(o)

\* No two properties of an object hold the same object.
Single ==
  \A p \in Objects, f, g \in Fields :
    value[<<p, f>>] # Null /\ value[<<p, f>>] = value[<<p, g>>] => f = g

\* The object a property is to hold is in no other property of its owner.
NewIsNew ==
  Busy /\ vm.slot \notin Registers /\ vm.new # Null =>
    \A f \in Fields : value[<<vm.slot[1], f>>] # vm.new

\* What a deletion removed is in no other property of its owner.
OldIsGone ==
  vm.op # "assign" /\ vm.pc = "unlink" =>
    \A f \in Fields : value[<<vm.slot[1], f>>] # vm.old

\* A property whose old value is linked no more, and the link that a property
\* not written yet, or not unlinked yet, accounts for.
Unlinked(s) == vm.slot = s /\ vm.op = "assign" /\ vm.pc \in {"uncount", "store"}
Changing(p, o) ==
  /\ vm.slot \in Slots \ Registers /\ vm.slot[1] = p
  /\ \/ vm.op = "assign" /\ vm.pc \in {"count", "unlink", "uncount", "store"} /\ vm.new = o
     \/ vm.op # "assign" /\ vm.pc = "unlink" /\ vm.old = o

Linked(p, o) ==
  Changing(p, o) \/ \E f \in Fields : value[<<p, f>>] = o /\ ~Unlinked(<<p, f>>)
LinksSay == \A p, o \in Objects : links[p][o] = IF Linked(p, o) THEN 1 ELSE 0

EInv == Exact /\ Single /\ NewIsNew /\ OldIsGone /\ LinksSay /\ vm.pc # "aborted"

\* The steps of an assignment when the owner holds neither value's owner.
LEMMA ExactSteps ==
  ASSUME NEW s \in Slots, NEW new, NEW old,
         new # Null => new # Owner(s), old # Null => old # Owner(s)
  PROVE  /\ DereferencePc(s, old) = IF old = Null THEN "store"
                                    ELSE IF s \in Registers THEN "uncount" ELSE "unlink"
         /\ ReferencePc(s, new, old) = IF new = Null THEN DereferencePc(s, old)
                                       ELSE IF s \in Registers THEN "count" ELSE "link"
  BY SlotFacts DEF ReferencePc, DereferencePc

\* While an assignment or a deletion runs.
LEMMA BusyFacts ==
  ASSUME IInv, NoMutualLinks, Busy
  PROVE  /\ vm.slot \in Slots /\ vm.new \in Objects \union {Null} /\ vm.old \in Objects \union {Null}
         /\ vm.new # Null => vm.new # Owner(vm.slot)
         /\ vm.old # Null /\ vm.op = "assign" => vm.old # Owner(vm.slot)
         /\ vm.slot \notin Registers =>
              /\ vm.slot[1] \in Live /\ vm.slot[1] \in Objects /\ vm.slot[2] \in Fields
              /\ vm.slot = <<vm.slot[1], vm.slot[2]>> /\ Owner(vm.slot) = vm.slot[1]
         /\ vm.slot \in Registers => Owner(vm.slot) = Null
         /\ vm.op = "assign" => value[vm.slot] = vm.old
         /\ vm.op # "assign" => value[vm.slot] = Null /\ vm.new = Null
<1>1. vm.slot \in Slots /\ vm.new \in Objects \union {Null} /\ vm.old \in Objects \union {Null}
  BY DEF IInv, VmAssigns, Types, Value, Live
<1>2. vm.slot \notin Registers => vm.slot[1] \in Live
  <2>1. vm.slot \notin Registers => vm.slot[1] \in {vm.held, vm.made} /\ vm.slot[1] \in Objects
    BY <1>1, SlotFacts DEF IInv, VmAssigns
  <2> QED BY <2>1, ObjectGCAssumption DEF IInv, VmHolds, Live
<1>3. \A p \in Objects : <<p, p>> \notin Links
  BY DEF NoMutualLinks
<1>4. /\ vm.op = "assign" => value[vm.slot] = vm.old
      /\ vm.op # "assign" => value[vm.slot] = Null /\ vm.new = Null
      /\ vm.slot \notin Registers /\ vm.new # Null => <<vm.slot[1], vm.new>> \in Links
  BY DEF IInv, VmAssigns
<1>5. vm.slot \notin Registers =>
        /\ vm.slot[1] \in Objects /\ vm.slot[2] \in Fields
        /\ vm.slot = <<vm.slot[1], vm.slot[2]>> /\ Owner(vm.slot) = vm.slot[1]
  BY <1>1, SlotFacts
<1>6. vm.slot \in Registers => Owner(vm.slot) = Null
  BY <1>1, SlotFacts
<1>7. vm.slot \notin Registers /\ vm.op = "assign" /\ vm.old # Null =>
        <<vm.slot[1], vm.old>> \in Links
  BY <1>4, <1>5 DEF IInv, LinksAllowed
<1> QED BY <1>1, <1>2, <1>3, <1>4, <1>5, <1>6, <1>7

\* CoveredStep with equality.
LEMMA ExactStep ==
  ASSUME IInv, Exact, NEW o \in Live, refCount'[o] \in Int,
         LET extra == (refCount'[o] - refCount[o])
                        - (VmOwes(o)' + GcOwes(o)' - VmOwes(o) - GcOwes(o))
         IN \/ Holders(o)' = Holders(o) /\ extra = 0
            \/ \E s \in Holders(o) : Holders(o)' = Holders(o) \ {s} /\ extra = -1
            \/ \E s : s \notin Holders(o) /\ Holders(o)' = Holders(o) \union {s} /\ extra = 1
  PROVE  refCount'[o] = Cardinality(Holders(o)') + VmOwes(o)' + GcOwes(o)'
<1>1. IsFiniteSet(Holders(o)) /\ Cardinality(Holders(o)) \in Nat
  BY HoldersAreFinite
<1>2. /\ \A s \in Holders(o) : Cardinality(Holders(o) \ {s}) = Cardinality(Holders(o)) - 1
      /\ \A s : s \notin Holders(o) =>
           Cardinality(Holders(o) \union {s}) = Cardinality(Holders(o)) + 1
  BY <1>1, FS_RemoveElement, FS_AddElement
<1>3. refCount[o] \in Int
  BY DEF IInv, Types, Live
<1>4. {VmOwes(o), VmOwes(o)', GcOwes(o), GcOwes(o)'} \subseteq {0, 1}
  BY DEF VmOwes, GcOwes
<1>5. refCount[o] = Cardinality(Holders(o)) + VmOwes(o) + GcOwes(o)
  BY DEF Exact
<1> QED BY <1>1, <1>2, <1>3, <1>4, <1>5

-----------------------------------------------------------------------------
(* The steps of the VM.                                                     *)

\* A step that changes neither variables nor links, nor what accounts for them.
LEMMA SameLinks ==
  ASSUME EInv, UNCHANGED <<value, links>>,
         \A p, o \in Objects : Changing(p, o)' <=> Changing(p, o),
         \A p \in Objects, f \in Fields :
           value[<<p, f>>] # Null => (Unlinked(<<p, f>>)' <=> Unlinked(<<p, f>>))
  PROVE  Single' /\ LinksSay'
<1>1. \A p, o \in Objects : Linked(p, o)' <=> Linked(p, o)
  BY ObjectGCAssumption DEF Linked
<1> QED BY <1>1 DEF EInv, Single, LinksSay

\* Nor does one that changes no count, no holder and nothing that is owed.
LEMMA SameCounts ==
  ASSUME Exact, NEW o \in Live, refCount'[o] = refCount[o], Holders(o)' = Holders(o),
         VmOwes(o)' = VmOwes(o), GcOwes(o)' = GcOwes(o)
  PROVE  refCount'[o] = Cardinality(Holders(o)') + VmOwes(o)' + GcOwes(o)'
  BY DEF Exact

\* Taking the lock of the old value changes neither counts nor links.
LEMMA VmLockEInv == ASSUME NoMutualLinks, IInv, EInv, VmLock PROVE EInv'
<1>1. /\ vm.pc = "lock" /\ vm' = [vm EXCEPT !.pc = ReferencePc(vm.slot, vm.new, vm.old)]
      /\ UNCHANGED <<status, value, refCount, links, gc>>
  BY DEF VmLock
<1>2. Busy /\ vm.op = "assign" /\ vm.old # Null
  BY <1>1 DEF IInv, VmAssigns, Busy, Assigning
<1>3. vm'.pc = IF vm.new # Null THEN (IF vm.slot \in Registers THEN "count" ELSE "link")
               ELSE IF vm.slot \in Registers THEN "uncount" ELSE "unlink"
  <2>1. vm'.pc = ReferencePc(vm.slot, vm.new, vm.old)
    BY <1>1 DEF IInv, Types
  <2> QED BY <1>2, <2>1, BusyFacts, ExactSteps
<1>4. vm'.slot = vm.slot /\ vm'.new = vm.new /\ vm'.op = "assign" /\ vm'.old = vm.old
  BY <1>1, <1>2 DEF IInv, Types
<1>5. Exact'
  <2> SUFFICES ASSUME NEW o \in Live'
               PROVE  refCount'[o] = Cardinality(Holders(o)') + VmOwes(o)' + GcOwes(o)'
    BY DEF Exact
  <2>1. o \in Live /\ refCount'[o] = refCount[o] /\ refCount'[o] \in Int /\ o # Null
    BY <1>1, ObjectGCAssumption DEF Live, IInv, Types
  <2>2. Holders(o)' = Holders(o) /\ GcOwes(o)' = GcOwes(o)
    BY <1>1, <1>3, <1>4 DEF Holders, Owner, Slots, GcOwes, IInv, Types
  <2>3. VmOwes(o)' = VmOwes(o)
    BY <1>1, <1>2, <1>3, <1>4, <2>1 DEF VmOwes, IInv, Types
  <2> QED BY <2>1, <2>2, <2>3, SameCounts DEF EInv
<1>6. /\ \A p, o \in Objects : Changing(p, o)' <=> Changing(p, o)
      /\ \A p \in Objects, f \in Fields : Unlinked(<<p, f>>)' <=> Unlinked(<<p, f>>)
  <2>1. \A p, o \in Objects : Changing(p, o)' <=> Changing(p, o)
    BY <1>1, <1>2, <1>3, <1>4, ObjectGCAssumption DEF Changing, Slots
  <2>2. \A p \in Objects, f \in Fields : Unlinked(<<p, f>>)' <=> Unlinked(<<p, f>>)
    BY <1>1, <1>3, <1>4, SlotFacts DEF Unlinked
  <2> QED BY <2>1, <2>2
<1>7. NewIsNew' /\ OldIsGone' /\ vm'.pc # "aborted"
  BY <1>1, <1>2, <1>3, <1>4 DEF EInv, NewIsNew, OldIsGone, Busy, Assigning, IInv, Types
<1> QED BY <1>1, <1>5, <1>6, <1>7, SameLinks DEF EInv

\* The new value was not linked; it accounts for its link from now on.
LEMMA VmLinkEInv == ASSUME NoMutualLinks, IInv, EInv, VmLink PROVE EInv'
<1>1. /\ vm.pc = "link" /\ vm' = [vm EXCEPT !.pc = "count"]
      /\ links' = [links EXCEPT ![Owner(vm.slot)][vm.new] = @ + 1]
      /\ UNCHANGED <<status, value, refCount, gc>>
  BY DEF VmLink
<1>2. Busy /\ vm.op = "assign" /\ vm.new # Null /\ vm.slot \notin Registers
  BY <1>1 DEF IInv, VmAssigns, Busy, Assigning
<1>3. vm'.pc = "count" /\ vm'.slot = vm.slot /\ vm'.new = vm.new /\ vm'.op = "assign" /\ vm'.old = vm.old
  BY <1>1, <1>2 DEF IInv, Types
<1>4. Exact'
  <2> SUFFICES ASSUME NEW o \in Live'
               PROVE  refCount'[o] = Cardinality(Holders(o)') + VmOwes(o)' + GcOwes(o)'
    BY DEF Exact
  <2>1. o \in Live /\ refCount'[o] = refCount[o] /\ refCount'[o] \in Int
    BY <1>1 DEF Live, IInv, Types
  <2>2. Holders(o)' = Holders(o) /\ GcOwes(o)' = GcOwes(o)
    BY <1>1, <1>3 DEF Holders, Owner, Slots, GcOwes
  <2>3. VmOwes(o)' = VmOwes(o)
    BY <1>1, <1>2, <1>3 DEF VmOwes
  <2> QED BY <2>1, <2>2, <2>3, SameCounts DEF EInv
<1>5. LinksSay'
  <2> SUFFICES ASSUME NEW p \in Objects, NEW o \in Objects
               PROVE  links'[p][o] = IF Linked(p, o)' THEN 1 ELSE 0
    BY DEF LinksSay
  <2>1. links'[p][o] = IF p = vm.slot[1] /\ o = vm.new THEN links[p][o] + 1 ELSE links[p][o]
    BY <1>1, <1>2, BusyFacts DEF IInv, Types
  <2>2. links[p][o] = IF Linked(p, o) THEN 1 ELSE 0
    BY DEF EInv, LinksSay
  <2>3. CASE p = vm.slot[1] /\ o = vm.new
    <3>1. ~Linked(p, o)
      BY <1>1, <1>2, <2>3 DEF EInv, NewIsNew, Linked, Changing
    <3>2. Linked(p, o)'
      BY <1>2, <1>3, <2>3, BusyFacts DEF Linked, Changing, Slots
    <3> QED BY <2>1, <2>2, <2>3, <3>1, <3>2
  <2>4. CASE ~(p = vm.slot[1] /\ o = vm.new)
    <3>1. Linked(p, o)' <=> Linked(p, o)
      BY <1>1, <1>2, <1>3, <2>4 DEF Linked, Changing, Unlinked, Slots
    <3> QED BY <2>1, <2>2, <2>4, <3>1
  <2> QED BY <2>3, <2>4
<1>6. Single' /\ NewIsNew' /\ OldIsGone' /\ vm'.pc # "aborted"
  BY <1>1, <1>2, <1>3 DEF EInv, Single, NewIsNew, OldIsGone, Busy, Assigning
<1> QED BY <1>4, <1>5, <1>6 DEF EInv

\* The new value is counted: the reference is owed until the value is stored.
LEMMA VmCountEInv == ASSUME NoMutualLinks, IInv, EInv, VmCount PROVE EInv'
<1>1. /\ vm.pc = "count" /\ vm' = [vm EXCEPT !.pc = DereferencePc(vm.slot, vm.old)]
      /\ refCount' = [refCount EXCEPT ![vm.new] = @ + 1]
      /\ UNCHANGED <<status, value, links, gc>>
  BY DEF VmCount
<1>2. Busy /\ vm.op = "assign" /\ vm.new # Null
  BY <1>1 DEF IInv, VmAssigns, Busy, Assigning
<1>3. vm'.pc = IF vm.old = Null THEN "store" ELSE IF vm.slot \in Registers THEN "uncount" ELSE "unlink"
  <2>1. vm'.pc = DereferencePc(vm.slot, vm.old)
    BY <1>1 DEF IInv, Types
  <2> QED BY <1>2, <2>1, BusyFacts, ExactSteps
<1>4. vm'.slot = vm.slot /\ vm'.new = vm.new /\ vm'.op = "assign" /\ vm'.old = vm.old
  BY <1>1, <1>2 DEF IInv, Types
<1>5. Exact'
  <2> SUFFICES ASSUME NEW o \in Live'
               PROVE  refCount'[o] = Cardinality(Holders(o)') + VmOwes(o)' + GcOwes(o)'
    BY DEF Exact
  <2>1. /\ o \in Live /\ o \in Objects /\ o # Null /\ refCount[o] \in Int
        /\ refCount'[o] = IF o = vm.new THEN refCount[o] + 1 ELSE refCount[o]
    BY <1>1, ObjectGCAssumption DEF Live, IInv, Types
  <2>2. Holders(o)' = Holders(o) /\ GcOwes(o)' = GcOwes(o)
    BY <1>1, <1>2, <1>3, <1>4, <2>1, BusyFacts DEF Holders, Owner, Slots, GcOwes
  <2>3. VmOwes(o) = 0 /\ VmOwes(o)' = IF o = vm.new THEN 1 ELSE 0
    BY <1>1, <1>2, <1>3, <1>4, BusyFacts DEF VmOwes, Owner
  <2>4. GcOwes(o) \in {0, 1}
    BY DEF GcOwes
  <2> QED BY <2>1, <2>2, <2>3, <2>4, ExactStep DEF EInv
<1>6. /\ \A p, o \in Objects : Changing(p, o)' <=> Changing(p, o)
      /\ \A p \in Objects, f \in Fields :
           value[<<p, f>>] # Null => (Unlinked(<<p, f>>)' <=> Unlinked(<<p, f>>))
  BY <1>1, <1>2, <1>3, <1>4, BusyFacts, SlotFacts DEF Changing, Unlinked, Slots
<1>7. NewIsNew' /\ OldIsGone' /\ vm'.pc # "aborted"
  BY <1>1, <1>2, <1>3, <1>4 DEF EInv, NewIsNew, OldIsGone, Busy, Assigning
<1> QED BY <1>1, <1>5, <1>6, <1>7, SameLinks DEF EInv

\* The old value is linked once, and once only, so the entry goes: the
\* assertion of simplejs_variable_assign_ex holds.
LEMMA VmUnlinkEInv == ASSUME NoMutualLinks, IInv, EInv, VmUnlink PROVE EInv'
<1>1. vm.pc = "unlink" /\ UNCHANGED <<status, value, refCount, gc>>
  BY DEF VmUnlink
<1>2. /\ Busy /\ vm.slot \notin Registers /\ vm.old \in Objects /\ vm.slot \in Slots
      /\ vm.slot[1] \in Objects /\ vm.slot[2] \in Fields
      /\ vm.slot = <<vm.slot[1], vm.slot[2]>> /\ Owner(vm.slot) = vm.slot[1]
  BY <1>1, SlotFacts DEF IInv, VmAssigns, Busy, Assigning, Types, Value
<1>3. /\ vm.op = "assign" => value[vm.slot] = vm.old
      /\ vm.op # "assign" => vm.new = Null /\ value[vm.slot] = Null
  BY <1>2, BusyFacts
<1>4. Linked(vm.slot[1], vm.old)
  BY <1>1, <1>2, <1>3 DEF Linked, Changing, Unlinked
<1>5. links[vm.slot[1]][vm.old] = 1
  BY <1>2, <1>4 DEF EInv, LinksSay
<1>6. vm' = [vm EXCEPT !.pc = "uncount"]
  BY <1>2, <1>5 DEF VmUnlink
<1>7. \A p, o \in Objects :
        links'[p][o] = IF p = vm.slot[1] /\ o = vm.old THEN 0 ELSE links[p][o]
  BY <1>2, <1>5 DEF VmUnlink, IInv, Types
<1>8. vm'.pc = "uncount" /\ vm'.slot = vm.slot /\ vm'.new = vm.new /\ vm'.op = vm.op /\ vm'.old = vm.old
  BY <1>6 DEF IInv, Types
<1>9. Exact'
  <2> SUFFICES ASSUME NEW o \in Live'
               PROVE  refCount'[o] = Cardinality(Holders(o)') + VmOwes(o)' + GcOwes(o)'
    BY DEF Exact
  <2>1. o \in Live /\ refCount'[o] = refCount[o]
    BY <1>1 DEF Live
  <2>2. Holders(o)' = Holders(o) /\ GcOwes(o)' = GcOwes(o)
    BY <1>1, <1>8 DEF Holders, Owner, Slots, GcOwes
  <2>3. VmOwes(o)' = VmOwes(o)
    BY <1>1, <1>8 DEF VmOwes, Owner
  <2> QED BY <2>1, <2>2, <2>3, SameCounts DEF EInv
<1>10. LinksSay'
  <2> SUFFICES ASSUME NEW p \in Objects, NEW o \in Objects
               PROVE  links'[p][o] = IF Linked(p, o)' THEN 1 ELSE 0
    BY DEF LinksSay
  <2>1. links[p][o] = IF Linked(p, o) THEN 1 ELSE 0
    BY DEF EInv, LinksSay
  <2>2. CASE p = vm.slot[1] /\ o = vm.old
    <3>1. \A f \in Fields : value[<<p, f>>] = o => vm.op = "assign" /\ <<p, f>> = vm.slot
      BY <1>1, <1>2, <1>3, <2>2, ObjectGCAssumption DEF EInv, Single, OldIsGone
    <3>2. vm.op = "assign" => vm.new # vm.old
      BY <1>2, <1>3, ObjectGCAssumption DEF EInv, NewIsNew
    <3>3. ~Linked(p, o)'
      BY <1>1, <1>8, <2>2, <3>1, <3>2 DEF Linked, Changing, Unlinked
    <3> QED BY <1>7, <2>2, <3>3
  <2>3. CASE ~(p = vm.slot[1] /\ o = vm.old)
    <3>1. Changing(p, o)' <=> Changing(p, o)
      BY <1>1, <1>8, <2>3 DEF Changing, Slots
    <3>2. \A f \in Fields : value[<<p, f>>] = o => ~Unlinked(<<p, f>>) /\ ~Unlinked(<<p, f>>)'
      BY <1>1, <1>2, <1>3, <1>8, <2>3 DEF Unlinked
    <3> QED BY <1>1, <1>7, <2>1, <2>3, <3>1, <3>2 DEF Linked
  <2> QED BY <2>2, <2>3
<1>11. Single' /\ NewIsNew' /\ OldIsGone' /\ vm'.pc # "aborted"
  BY <1>1, <1>2, <1>8 DEF EInv, Single, NewIsNew, OldIsGone, Busy, Assigning
<1> QED BY <1>9, <1>10, <1>11 DEF EInv

\* The count of the old value falls; its variable is about to be overwritten.
LEMMA VmUncountEInv == ASSUME NoMutualLinks, IInv, EInv, VmUncount PROVE EInv'
<1>1. /\ vm.pc = "uncount" /\ vm' = [vm EXCEPT !.pc = "store"]
      /\ refCount' = [refCount EXCEPT ![vm.old] = @ - 1]
      /\ UNCHANGED <<status, value, links, gc>>
  BY DEF VmUncount
<1>2. Busy /\ vm.old \in Objects /\ vm.old # Owner(vm.slot)
  BY <1>1 DEF IInv, VmAssigns, Busy, Assigning, Types, Value
<1>3. vm'.pc = "store" /\ vm'.slot = vm.slot /\ vm'.new = vm.new /\ vm'.op = vm.op /\ vm'.old = vm.old
  BY <1>1 DEF IInv, Types
<1>4. Exact'
  <2> SUFFICES ASSUME NEW o \in Live'
               PROVE  refCount'[o] = Cardinality(Holders(o)') + VmOwes(o)' + GcOwes(o)'
    BY DEF Exact
  <2>1. /\ o \in Live /\ o \in Objects /\ o # Null /\ refCount[o] \in Int
        /\ refCount'[o] = IF o = vm.old THEN refCount[o] - 1 ELSE refCount[o]
    BY <1>1, ObjectGCAssumption DEF Live, IInv, Types
  <2>2. GcOwes(o)' = GcOwes(o) /\ GcOwes(o) \in {0, 1}
    BY <1>1 DEF GcOwes
  <2>3. CASE vm.op = "assign"
    <3>1. VmOwes(o)' = VmOwes(o) /\ VmOwes(o) \in {0, 1}
      BY <1>1, <1>3, <2>3 DEF VmOwes, Owner
    <3>2. vm.slot \in Slots /\ value[vm.slot] = vm.old
      BY <1>2, <2>3, BusyFacts
    <3>3. o # vm.old => Holders(o)' = Holders(o)
      BY <1>1, <1>3, <3>2 DEF Holders, Owner, Slots
    <3>4. o = vm.old => vm.slot \in Holders(o) /\ Holders(o)' = Holders(o) \ {vm.slot}
      BY <1>1, <1>2, <1>3, <3>2 DEF Holders, Owner, Slots
    <3> QED BY <2>1, <2>2, <3>1, <3>3, <3>4, ExactStep DEF EInv
  <2>4. CASE vm.op # "assign"
    <3>1. VmOwes(o)' = 0 /\ VmOwes(o) = IF o = vm.old THEN 1 ELSE 0
      BY <1>1, <1>3, <2>4 DEF VmOwes
    <3>2. Holders(o)' = Holders(o)
      <4>1. value[vm.slot] = Null
        BY <1>2, <2>4, BusyFacts
      <4> QED BY <1>1, <1>3, <2>1, <4>1 DEF Holders, Owner, Slots
    <3> QED BY <2>1, <2>2, <3>1, <3>2, ExactStep DEF EInv
  <2> QED BY <2>3, <2>4
<1>5. /\ \A p, o \in Objects : Changing(p, o)' <=> Changing(p, o)
      /\ \A p \in Objects, f \in Fields : Unlinked(<<p, f>>)' <=> Unlinked(<<p, f>>)
  BY <1>1, <1>3 DEF Changing, Unlinked, Slots
<1>6. NewIsNew' /\ OldIsGone' /\ vm'.pc # "aborted"
  BY <1>1, <1>2, <1>3 DEF EInv, NewIsNew, OldIsGone, Busy, Assigning
<1> QED BY <1>1, <1>4, <1>5, <1>6, SameLinks DEF EInv

\* The object an assignment begins with leaves counts and links as they are.
LEMMA AssignStartsExact ==
  ASSUME IInv, EInv, NoMutualLinks, vm.pc = "idle",
         NEW s \in Slots, NEW new \in Objects \union {Null}, NEW held, NEW made, NEW target,
         new # Null => new # Owner(s),
         s \notin Registers /\ new # Null => \A f \in Fields : value[<<s[1], f>>] # new,
         vm' = Assign(s, new, held, made, target),
         UNCHANGED <<status, value, refCount, links, gc>>
  PROVE  EInv'
<1>1. /\ value[s] # Null => value[s] # Owner(s)
      /\ value[s] \in Objects \union {Null}
  <2>1. value[s] \in Objects \union {Null}
    BY DEF IInv, Types, Live
  <2>2. s \notin Registers /\ value[s] # Null => <<s[1], value[s]>> \in Links /\ s[1] \in Objects
    BY SlotFacts DEF IInv, LinksAllowed
  <2>3. s \notin Registers /\ value[s] # Null => value[s] # s[1]
    BY <2>2 DEF NoMutualLinks
  <2> QED BY <2>1, <2>3, SlotFacts
<1>2. /\ vm'.op = "assign" /\ vm'.slot = s /\ vm'.new = new
      /\ vm'.pc = IF value[s] # Null THEN "lock"
                  ELSE IF new = Null THEN "store"
                  ELSE IF s \in Registers THEN "count" ELSE "link"
  BY ExactSteps DEF Assign
<1>3. Exact'
  <2> SUFFICES ASSUME NEW o \in Live'
               PROVE  refCount'[o] = Cardinality(Holders(o)') + VmOwes(o)' + GcOwes(o)'
    BY DEF Exact
  <2>1. o \in Live /\ o \in Objects /\ o # Null /\ refCount'[o] = refCount[o]
    BY ObjectGCAssumption DEF Live
  <2>2. Holders(o)' = Holders(o) /\ GcOwes(o)' = GcOwes(o)
    BY <1>2, <2>1 DEF Holders, Owner, Slots, GcOwes
  <2>3. VmOwes(o)' = VmOwes(o)
    BY <1>2, <2>1 DEF VmOwes
  <2> QED BY <2>1, <2>2, <2>3, SameCounts DEF EInv
<1>4. /\ \A p, o \in Objects : Changing(p, o)' <=> Changing(p, o)
      /\ \A p \in Objects, f \in Fields :
           value[<<p, f>>] # Null => (Unlinked(<<p, f>>)' <=> Unlinked(<<p, f>>))
  BY <1>2, ObjectGCAssumption DEF Changing, Unlinked
<1>5. NewIsNew' /\ OldIsGone' /\ vm'.pc # "aborted"
  BY <1>2 DEF NewIsNew, OldIsGone
<1> QED BY <1>3, <1>4, <1>5, SameLinks DEF EInv

\* Copying a register, reading a property and writing one: a property is only
\* given what no property of its owner holds.
LEMMA VmAccessEInv ==
  ASSUME IInv, EInv, NoMutualLinks, SingleLink,
         NEW r \in Registers, NEW p, NEW f \in Fields, NEW v \in RegisterValues \union {Null},
         \/ VmCopy(r, v)
         \/ p \in LookupObjects /\ VmGetProperty(r, p, f)
         \/ p \in RegisterValues /\ VmSetProperty(p, f, v)
  PROVE  EInv'
<1>1. v \in Objects \union {Null} /\ r \in Slots /\ Owner(r) = Null
  BY Reachable, SlotFacts DEF Live
<1>2. CASE VmCopy(r, v)
  <2>1. /\ vm.pc = "idle" /\ vm' = Assign(r, v, Null, Null, Null)
        /\ UNCHANGED <<status, value, refCount, links, gc>>
    BY <1>2 DEF VmCopy
  <2> QED BY <1>1, <2>1, AssignStartsExact
<1>3. CASE p \in LookupObjects /\ VmGetProperty(r, p, f)
  <2> DEFINE w == value[<<p, f>>]
  <2>1. w \in Objects \union {Null}
    BY <1>3, Reachable, SlotFacts DEF IInv, Types, Live
  <2>2. /\ vm.pc = "idle" /\ vm' = Assign(r, w, p, Null, Null)
        /\ UNCHANGED <<status, value, refCount, links, gc>>
    BY <1>3 DEF VmGetProperty
  <2> HIDE DEF w
  <2> QED BY <1>1, <2>1, <2>2, AssignStartsExact
<1>4. CASE p \in RegisterValues /\ VmSetProperty(p, f, v)
  <2>1. p \in Objects /\ <<p, f>> \in Slots /\ <<p, f>>[1] = p /\ Owner(<<p, f>>) = p
    BY <1>4, Reachable, SlotFacts DEF Live
  <2>2. /\ vm.pc = "idle" /\ vm' = Assign(<<p, f>>, v, p, Null, Null)
        /\ v # Null => <<p, v>> \in Links
        /\ v # Null => \A g \in Fields : value[<<p, g>>] # v
        /\ UNCHANGED <<status, value, refCount, links, gc>>
    BY <1>4 DEF VmSetProperty, MayLink
  <2>3. v # Null => v # p
    BY <2>1, <2>2 DEF NoMutualLinks
  <2> QED BY <1>1, <2>1, <2>2, <2>3, AssignStartsExact
<1> QED BY <1>2, <1>3, <1>4

\* The value is in its variable and accounts for its link and its count there.
LEMMA VmStoreEInv == ASSUME NoMutualLinks, IInv, EInv, VmStore PROVE EInv'
<1>1. /\ vm.pc = "store" /\ value' = [value EXCEPT ![vm.slot] = vm.new]
      /\ UNCHANGED <<status, refCount, links, gc>>
  BY DEF VmStore
<1>2. /\ Busy /\ vm.slot \in Slots /\ vm.new \in Objects \union {Null}
      /\ vm.new # Null => vm.new # Owner(vm.slot) /\ vm.op = "assign"
      /\ vm.op # "assign" => value[vm.slot] = Null /\ vm.new = Null
      /\ vm.slot \notin Registers => vm.slot = <<vm.slot[1], vm.slot[2]>> /\ vm.slot[2] \in Fields
  <2>1. Busy
    BY <1>1 DEF Busy, Assigning
  <2> QED BY <2>1, BusyFacts
<1>3. \A s \in Slots : value'[s] = IF s = vm.slot THEN vm.new ELSE value[s]
  BY <1>1 DEF IInv, Types
<1>4. /\ vm'.op = "assign" /\ vm'.pc \in {"count", "lock", "publish", "idle", "exit"}
      /\ vm'.pc \in {"count", "lock"} => vm'.slot \in Registers
  <2>1. CASE vm.target # Null
    <3>1. /\ vm.target \in Registers /\ vm.target \in Slots /\ Owner(vm.target) = Null
          /\ vm.made # Null /\ vm.op = "assign"
      BY <2>1, SlotFacts DEF IInv, Types, VmHolds
    <3>2. vm' = Assign(vm.target, vm.made, Null, vm.made, Null)
      BY <2>1, <3>1 DEF VmStore
    <3> QED BY <3>1, <3>2 DEF Assign, ReferencePc
  <2>2. CASE vm.target = Null /\ vm.made # Null
    <3>1. vm' = [vm EXCEPT !.pc = "publish"] /\ vm.op = "assign"
      BY <2>2 DEF VmStore, IInv, VmHolds
    <3> QED BY <3>1 DEF IInv, Types
  <2>3. CASE vm.target = Null /\ vm.made = Null
    BY <2>3 DEF VmStore, IdleVm
  <2> QED BY <2>1, <2>2, <2>3
<1>5. Exact'
  <2> SUFFICES ASSUME NEW o \in Live'
               PROVE  refCount'[o] = Cardinality(Holders(o)') + VmOwes(o)' + GcOwes(o)'
    BY DEF Exact
  <2>1. /\ o \in Live /\ o \in Objects /\ o # Null
        /\ refCount'[o] = refCount[o] /\ refCount'[o] \in Int
    BY <1>1, ObjectGCAssumption DEF Live, IInv, Types
  <2>2. GcOwes(o)' = GcOwes(o) /\ GcOwes(o) \in {0, 1}
    BY <1>1 DEF GcOwes
  <2>3. VmOwes(o)' = 0 /\ VmOwes(o) = IF o = vm.new THEN 1 ELSE 0
    BY <1>1, <1>2, <1>4, <2>1 DEF VmOwes
  <2>4. o # vm.new => Holders(o)' = Holders(o)
    BY <1>1, <1>3, <1>4 DEF Holders, Owner, Slots
  <2>5. o = vm.new => vm.slot \notin Holders(o) /\ Holders(o)' = Holders(o) \union {vm.slot}
    BY <1>1, <1>2, <1>3, <1>4, <2>1 DEF Holders, Owner, Slots
  <2> QED BY <2>1, <2>2, <2>3, <2>4, <2>5, ExactStep DEF EInv
<1>6. LinksSay'
  <2> SUFFICES ASSUME NEW p \in Objects, NEW o \in Objects PROVE Linked(p, o)' <=> Linked(p, o)
    BY <1>1 DEF EInv, LinksSay
  <2>1. \A f \in Fields :
          value'[<<p, f>>] = IF <<p, f>> = vm.slot THEN vm.new ELSE value[<<p, f>>]
    BY <1>3, SlotFacts
  <2>2. ~Changing(p, o)' /\ \A s : ~Unlinked(s)'
    BY <1>4 DEF Changing, Unlinked, Slots
  <2>3. Changing(p, o) <=> \E f \in Fields : <<p, f>> = vm.slot /\ vm.op = "assign" /\ vm.new = o
    BY <1>1, <1>2, SlotFacts DEF Changing
  <2>4. \A f \in Fields : Unlinked(<<p, f>>) <=> <<p, f>> = vm.slot /\ vm.op = "assign"
    BY <1>1 DEF Unlinked
  <2>5. o # Null
    BY ObjectGCAssumption
  <2> QED BY <1>2, <2>1, <2>2, <2>3, <2>4, <2>5 DEF Linked
<1>7. Single'
  <2> SUFFICES ASSUME NEW p \in Objects, NEW f \in Fields, NEW g \in Fields,
                      value'[<<p, f>>] # Null, value'[<<p, f>>] = value'[<<p, g>>]
               PROVE  f = g
    BY DEF Single
  <2>1. /\ value'[<<p, f>>] = IF <<p, f>> = vm.slot THEN vm.new ELSE value[<<p, f>>]
        /\ value'[<<p, g>>] = IF <<p, g>> = vm.slot THEN vm.new ELSE value[<<p, g>>]
    BY <1>3, SlotFacts
  <2>2. vm.slot \notin Registers /\ vm.new # Null => \A h \in Fields : value[<<vm.slot[1], h>>] # vm.new
    BY <1>2 DEF EInv, NewIsNew
  <2>3. ASSUME NEW h \in Fields, <<p, h>> = vm.slot, vm.new # Null
        PROVE  \A k \in Fields : value[<<p, k>>] # vm.new
    <3>1. vm.slot \notin Registers /\ vm.slot[1] = p
      BY <2>3, SlotFacts
    <3> QED BY <2>2, <2>3, <3>1
  <2>4. CASE <<p, f>> # vm.slot /\ <<p, g>> # vm.slot
    BY <2>1, <2>4 DEF EInv, Single
  <2>5. CASE <<p, f>> = vm.slot /\ <<p, g>> # vm.slot
    BY <2>1, <2>3, <2>5
  <2>6. CASE <<p, f>> # vm.slot /\ <<p, g>> = vm.slot
    BY <2>1, <2>3, <2>6
  <2>7. CASE <<p, f>> = vm.slot /\ <<p, g>> = vm.slot
    BY <2>7
  <2> QED BY <2>4, <2>5, <2>6, <2>7
<1>8. NewIsNew' /\ OldIsGone' /\ vm'.pc # "aborted"
  BY <1>4 DEF NewIsNew, OldIsGone, Busy, Assigning
<1> QED BY <1>5, <1>6, <1>7, <1>8 DEF EInv

\* Steps of the VM that change the control state between operations only.
LEMMA VmQuietEInv ==
  ASSUME IInv, EInv, vm.pc \in {"idle", "publish", "exit"},
         vm'.pc \in {"idle", "exit", "exited"}, UNCHANGED <<value, refCount, links, gc>>, Live' = Live
  PROVE  EInv'
<1>1. Exact'
  <2> SUFFICES ASSUME NEW o \in Live'
               PROVE  refCount'[o] = Cardinality(Holders(o)') + VmOwes(o)' + GcOwes(o)'
    BY DEF Exact
  <2>1. Holders(o)' = Holders(o) /\ GcOwes(o)' = GcOwes(o) /\ VmOwes(o)' = VmOwes(o)
    BY DEF Holders, Owner, Slots, GcOwes, VmOwes
  <2> QED BY <2>1, SameCounts DEF EInv
<1>2. /\ \A p, o \in Objects : Changing(p, o)' <=> Changing(p, o)
      /\ \A p \in Objects, f \in Fields : Unlinked(<<p, f>>)' <=> Unlinked(<<p, f>>)
  BY DEF Changing, Unlinked
<1>3. NewIsNew' /\ OldIsGone' /\ vm'.pc # "aborted"
  BY DEF NewIsNew, OldIsGone, Busy, Assigning
<1> QED BY <1>1, <1>2, <1>3, SameLinks DEF EInv

\* Handing an object over, and the end of the program.
LEMMA VmBetweenEInv == ASSUME IInv, EInv, VmPublish \/ VmExit \/ VmExited PROVE EInv'
<1>1. CASE VmPublish
  <2>1. /\ vm.pc = "publish" /\ vm' = IdleVm /\ status' = [status EXCEPT ![vm.made] = "tracked"]
        /\ UNCHANGED <<value, refCount, links, gc>>
    BY <1>1 DEF VmPublish
  <2>2. Live' = Live
    <3>1. vm.made \in Objects => status[vm.made] = "created"
      BY ObjectGCAssumption DEF IInv, VmHolds
    <3> QED BY <2>1, <3>1 DEF Live, IInv, Types
  <2> QED BY <2>1, <2>2, VmQuietEInv DEF IdleVm
<1>2. CASE VmExit \/ VmExited
  <2>1. /\ vm.pc \in {"idle", "exit"} /\ vm'.pc \in {"exit", "exited"}
        /\ UNCHANGED <<status, value, refCount, links, gc>>
    BY <1>2 DEF VmExit, VmExited, IInv, Types
  <2> QED BY <2>1, VmQuietEInv DEF Live
<1> QED BY <1>1, <1>2

\* A new object has no properties, no links and no holders.
LEMMA VmCreateEInv ==
  ASSUME NoMutualLinks, IInv, EInv, NEW o \in Objects, NEW r \in Registers,
         NEW proto \in RegisterValues \union {Null}, VmCreate(o, r, proto)
  PROVE  EInv'
<1> DEFINE t == IF proto = Null THEN r ELSE <<o, Proto>>
           v == IF proto = Null THEN o ELSE proto
           target == IF proto = Null THEN Null ELSE r
<1>1. /\ vm.pc = "idle" /\ status[o] = "unallocated"
      /\ proto # Null => <<o, proto>> \in Links
      /\ status' = [status EXCEPT ![o] = "created"]
      /\ refCount' = [refCount EXCEPT ![o] = 0]
      /\ links' = [links EXCEPT ![o] = [q \in Objects |-> 0]]
      /\ vm' = Assign(t, v, Null, o, target)
      /\ UNCHANGED <<value, gc>>
  BY DEF VmCreate, MayLink
<1>2. /\ o \notin Live /\ o # Null /\ Live' = Live \union {o}
      /\ \A f \in Fields : value[<<o, f>>] = Null
      /\ \A s \in Slots : value[s] # o
  <2>1. o \notin Live /\ o # Null /\ Live' = Live \union {o}
    BY <1>1, ObjectGCAssumption DEF Live, IInv, Types
  <2>2. \A f \in Fields : value[<<o, f>>] = Null
    BY <1>1, <2>1 DEF IInv, Emptied, GcWorks
  <2>3. \A s \in Slots : value[s] # o
    BY <2>1 DEF IInv, Types
  <2> QED BY <2>1, <2>2, <2>3
<1>3. /\ t \in Slots /\ v \in Objects /\ v # Null /\ v # Owner(t)
      /\ t \notin Registers => t[1] = o /\ value[t] = Null
  <2>1. <<o, Proto>> \in Slots \ Registers /\ Owner(<<o, Proto>>) = o
    BY SlotFacts, ObjectGCAssumption
  <2>2. value[<<o, Proto>>] = Null
    BY <1>2, ObjectGCAssumption
  <2>3. proto # Null => proto \in Objects /\ proto # o
    BY <1>1, Reachable DEF Live, NoMutualLinks
  <2> QED BY <1>2, <2>1, <2>2, <2>3, SlotFacts
<1> HIDE DEF t, v, target
<1>4. /\ vm'.op = "assign" /\ vm'.slot = t /\ vm'.new = v
      /\ vm'.pc \in {"lock", "link", "count"}
      /\ t \notin Registers => vm'.pc = "link"
  <2>1. vm'.pc = "count" => t \in Registers
    <3>1. t \notin Registers => ReferencePc(t, v, Null) = "link"
      BY <1>3, SlotFacts DEF ReferencePc
    <3> QED BY <1>1, <1>3, <3>1 DEF Assign
  <2>2. vm'.op = "assign" /\ vm'.slot = t /\ vm'.new = v
    BY <1>1 DEF Assign
  <2>3. vm'.pc \in {"lock", "link", "count"} /\ (t \notin Registers => vm'.pc # "lock")
    BY <1>1, <1>3, AssignState
  <2> QED BY <2>1, <2>2, <2>3
<1>5. Exact'
  <2> SUFFICES ASSUME NEW x \in Live'
               PROVE  refCount'[x] = Cardinality(Holders(x)') + VmOwes(x)' + GcOwes(x)'
    BY DEF Exact
  <2>1. VmOwes(x)' = 0 /\ VmOwes(x) = 0 /\ GcOwes(x)' = GcOwes(x)
    BY <1>1, <1>4 DEF VmOwes, GcOwes
  <2>2. CASE x = o
    <3>1. Holders(o)' = {}
      BY <1>1, <1>2 DEF Holders, Slots
    <3>2. GcOwes(o) = 0
      BY <1>2 DEF GcOwes, IInv, GcWorks
    <3> QED BY <1>1, <2>1, <2>2, <3>1, <3>2, FS_EmptySet DEF IInv, Types
  <2>3. CASE x # o
    <3>1. x \in Live /\ refCount'[x] = refCount[x]
      BY <1>1, <1>2, <2>3 DEF IInv, Types, Live
    <3>2. Holders(x)' = Holders(x)
      BY <1>1, <1>4 DEF Holders, Owner, Slots
    <3> QED BY <2>1, <3>1, <3>2, SameCounts DEF EInv
  <2> QED BY <2>2, <2>3
<1>6. LinksSay'
  <2> SUFFICES ASSUME NEW p \in Objects, NEW q \in Objects
               PROVE  links'[p][q] = IF Linked(p, q)' THEN 1 ELSE 0
    BY DEF LinksSay
  <2>1. Linked(p, q)' <=> \E f \in Fields : value[<<p, f>>] = q
    BY <1>1, <1>4 DEF Linked, Changing, Unlinked, Slots
  <2>2. Linked(p, q) <=> \E f \in Fields : value[<<p, f>>] = q
    BY <1>1 DEF Linked, Changing, Unlinked
  <2>3. links'[p][q] = IF p = o THEN 0 ELSE links[p][q]
    BY <1>1 DEF IInv, Types
  <2>4. p = o => ~Linked(p, q)'
    BY <1>2, <2>1, ObjectGCAssumption
  <2> QED BY <2>1, <2>2, <2>3, <2>4 DEF EInv, LinksSay
<1>7. NewIsNew'
  BY <1>1, <1>2, <1>3, <1>4 DEF NewIsNew
<1>8. Single' /\ OldIsGone' /\ vm'.pc # "aborted"
  BY <1>1, <1>4 DEF EInv, Single, OldIsGone
<1> QED BY <1>5, <1>6, <1>7, <1>8 DEF EInv

\* A variable is emptied: the count it leaves is owed, and so is its link, which
\* no other property of the owner accounts for.
LEMMA VmDropStartsExact ==
  ASSUME IInv, EInv, NoMutualLinks, vm.pc \in {"idle", "exit"},
         NEW s \in Slots, value[s] # Null, NEW op \in {"delete", "exit"},
         vm'.pc = DereferencePc(s, value[s]), vm'.op = op, vm'.slot = s, vm'.old = value[s],
         vm'.new = Null, value' = [value EXCEPT ![s] = Null],
         UNCHANGED <<status, refCount, links, gc>>
  PROVE  EInv'
<1>1. /\ value[s] \in Objects /\ value[s] # Owner(s)
      /\ s \notin Registers => s[1] \in Objects /\ s[2] \in Fields /\ s = <<s[1], s[2]>>
  <2>1. value[s] \in Objects
    BY DEF IInv, Types, Live
  <2>2. s \notin Registers => s[1] \in Objects /\ s[2] \in Fields /\ s = <<s[1], s[2]>>
    BY SlotFacts
  <2>3. s \notin Registers => <<s[1], value[s]>> \in Links
    BY <2>2 DEF IInv, LinksAllowed
  <2>4. s \notin Registers => value[s] # s[1]
    BY <2>2, <2>3 DEF NoMutualLinks
  <2> QED BY <2>1, <2>2, <2>4, SlotFacts
<1>2. vm'.pc = IF s \in Registers THEN "uncount" ELSE "unlink"
  BY <1>1, ExactSteps
<1>3. \A q \in Slots : value'[q] = IF q = s THEN Null ELSE value[q]
  BY DEF IInv, Types
<1>4. Exact'
  <2> SUFFICES ASSUME NEW o \in Live'
               PROVE  refCount'[o] = Cardinality(Holders(o)') + VmOwes(o)' + GcOwes(o)'
    BY DEF Exact
  <2>1. /\ o \in Live /\ o \in Objects /\ o # Null
        /\ refCount'[o] = refCount[o] /\ refCount'[o] \in Int
    BY ObjectGCAssumption DEF Live, IInv, Types
  <2>2. GcOwes(o)' = GcOwes(o) /\ GcOwes(o) \in {0, 1}
    BY DEF GcOwes
  <2>3. VmOwes(o) = 0 /\ VmOwes(o)' = IF o = value[s] THEN 1 ELSE 0
    BY <1>2 DEF VmOwes
  <2>4. o # value[s] => Holders(o)' = Holders(o)
    BY <1>2, <1>3, <2>1 DEF Holders, Owner, Slots
  <2>5. o = value[s] => s \in Holders(o) /\ Holders(o)' = Holders(o) \ {s}
    BY <1>1, <1>2, <1>3, <2>1 DEF Holders, Owner, Slots
  <2> QED BY <2>1, <2>2, <2>3, <2>4, <2>5, ExactStep DEF EInv
<1>5. LinksSay'
  <2> SUFFICES ASSUME NEW p \in Objects, NEW o \in Objects PROVE Linked(p, o)' <=> Linked(p, o)
    BY DEF EInv, LinksSay
  <2>1. \A f \in Fields : value'[<<p, f>>] = IF <<p, f>> = s THEN Null ELSE value[<<p, f>>]
    BY <1>3, SlotFacts
  <2>2. Linked(p, o) <=> \E f \in Fields : value[<<p, f>>] = o
    BY DEF Linked, Changing, Unlinked
  <2>3. Changing(p, o)' <=> s \notin Registers /\ s[1] = p /\ value[s] = o
    BY <1>2 DEF Changing, Slots
  <2>4. Linked(p, o)' <=> Changing(p, o)' \/ \E f \in Fields : value'[<<p, f>>] = o
    BY DEF Linked, Unlinked
  <2>5. (\E f \in Fields : <<p, f>> = s /\ value[s] = o) <=> Changing(p, o)'
    BY <1>1, <2>3, SlotFacts
  <2>6. o # Null
    BY ObjectGCAssumption
  <2> QED BY <2>1, <2>2, <2>4, <2>5, <2>6
<1>6. Single' /\ OldIsGone'
  <2>1. \A p \in Objects, f \in Fields :
          value'[<<p, f>>] = IF <<p, f>> = s THEN Null ELSE value[<<p, f>>]
    BY <1>3, SlotFacts
  <2>2. Single'
    BY <2>1 DEF EInv, Single
  <2>3. ASSUME s \notin Registers, NEW f \in Fields PROVE value'[<<s[1], f>>] # value[s]
    <3>1. value[<<s[1], f>>] = value[s] => f = s[2]
      BY <1>1, <2>3 DEF EInv, Single
    <3> QED BY <1>1, <2>1, <2>3, <3>1
  <2> QED BY <1>2, <2>2, <2>3 DEF OldIsGone
<1>7. NewIsNew' /\ vm'.pc # "aborted"
  BY <1>2 DEF NewIsNew
<1> QED BY <1>4, <1>5, <1>6, <1>7 DEF EInv

\* Deleting a property, and dropping a register at the end of the program.
LEMMA VmDropEInv ==
  ASSUME IInv, EInv, NoMutualLinks,
         \/ \E p \in RegisterValues, f \in Fields : VmDeleteProperty(p, f)
         \/ \E r \in Registers : VmExitDrop(r)
  PROVE  EInv'
<1>1. ASSUME NEW p \in RegisterValues, NEW f \in Fields, VmDeleteProperty(p, f) PROVE EInv'
  <2>1. p \in Objects /\ <<p, f>> \in Slots
    BY Reachable, SlotFacts DEF Live
  <2>2. /\ vm.pc = "idle" /\ value[<<p, f>>] # Null
        /\ value' = [value EXCEPT ![<<p, f>>] = Null]
        /\ vm'.pc = DereferencePc(<<p, f>>, value[<<p, f>>]) /\ vm'.op = "delete"
        /\ vm'.slot = <<p, f>> /\ vm'.old = value[<<p, f>>] /\ vm'.new = Null
        /\ UNCHANGED <<status, refCount, links, gc>>
    BY <1>1 DEF VmDeleteProperty, IdleVm
  <2> QED BY <2>1, <2>2, VmDropStartsExact
<1>2. ASSUME NEW r \in Registers, VmExitDrop(r) PROVE EInv'
  <2>1. r \in Slots /\ Owner(r) = Null
    BY SlotFacts
  <2>2. /\ vm.pc = "exit" /\ value[r] # Null /\ value' = [value EXCEPT ![r] = Null]
        /\ vm'.pc = "uncount" /\ vm'.op = "exit"
        /\ vm'.slot = r /\ vm'.old = value[r] /\ vm'.new = Null
        /\ UNCHANGED <<status, refCount, links, gc>>
    BY <1>2 DEF VmExitDrop, IdleVm
  <2>3. DereferencePc(r, value[r]) = "uncount"
    BY <2>1, <2>2 DEF DereferencePc
  <2> QED BY <2>1, <2>2, <2>3, VmDropStartsExact
<1> QED BY <1>1, <1>2

-----------------------------------------------------------------------------
(* The steps of the collector.                                              *)

\* It leaves variables, counts and links alone but in GcDrop and GcDropCount.
LEMMA GcQuietEInv ==
  ASSUME EInv, UNCHANGED <<value, refCount, links, vm>>, Live' \subseteq Live,
         gc.pc # "dropcount", gc'.pc # "dropcount"
  PROVE  EInv'
<1>1. \A o : Holders(o)' = Holders(o) /\ VmOwes(o)' = VmOwes(o) /\ GcOwes(o)' = GcOwes(o)
  BY DEF Holders, Owner, Slots, VmOwes, GcOwes
<1>2. Exact'
  BY <1>1 DEF EInv, Exact
<1>3. /\ \A p, o : Changing(p, o)' <=> Changing(p, o)
      /\ \A s : Unlinked(s)' <=> Unlinked(s)
  BY DEF Changing, Unlinked, Slots
<1>4. NewIsNew' /\ OldIsGone' /\ vm'.pc # "aborted"
  BY DEF EInv, NewIsNew, OldIsGone, Busy
<1> QED BY <1>2, <1>3, <1>4, SameLinks DEF EInv

\* A property of the released object loses its link, the only one to its value,
\* so the count of the value follows.
LEMMA GcDropEInv == ASSUME NoMutualLinks, IInv, EInv, NEW f \in Fields, GcDrop(f) PROVE EInv'
<1> DEFINE s == <<gc.cur, f>>
           t == value[s]
<1>1. /\ gc.pc = "drop" /\ t # Null /\ value' = [value EXCEPT ![s] = Null]
      /\ UNCHANGED <<status, refCount, vm>>
  BY DEF GcDrop
<1>2. gc.cur \in Objects /\ gc.cur \notin Live /\ s \in Slots \ Registers /\ Owner(s) = gc.cur
  <2>1. gc.cur \in Objects /\ gc.cur \notin Live
    BY <1>1 DEF IInv, GcWorks, Dropping, Live
  <2> QED BY <2>1, SlotFacts
<1>3. t \in Live /\ t \in Objects /\ t # gc.cur
  BY <1>1, <1>2 DEF IInv, Types, Live
<1>4. vm.slot \in Slots \ Registers /\ Busy => vm.slot[1] # gc.cur
  BY <1>2, BusyFacts
<1>5. \A o : ~Changing(gc.cur, o)
  BY <1>4 DEF Changing, Busy, Assigning
<1>6. \A g \in Fields : ~Unlinked(<<gc.cur, g>>)
  BY <1>2, <1>4, SlotFacts DEF Unlinked, Busy, Assigning
<1>7. links[gc.cur][t] = 1
  BY <1>2, <1>3, <1>6 DEF EInv, LinksSay, Linked
<1>8. /\ links' = [links EXCEPT ![gc.cur][t] = 0]
      /\ gc' = [gc EXCEPT !.pc = "dropcount", !.target = t]
  <2>1. /\ links' = [links EXCEPT ![gc.cur][t] = IF @ = 0 THEN 0 ELSE @ - 1]
        /\ gc' = [gc EXCEPT !.pc = "dropcount", !.target = t]
    BY <1>3, <1>7 DEF GcDrop
  <2> QED BY <1>7, <2>1
<1>9. \A q \in Slots : value'[q] = IF q = s THEN Null ELSE value[q]
  BY <1>1 DEF IInv, Types
<1>10. gc'.pc = "dropcount" /\ gc'.target = t
  BY <1>8 DEF IInv, Types
<1> HIDE DEF s, t
<1>11. Exact'
  <2> SUFFICES ASSUME NEW o \in Live'
               PROVE  refCount'[o] = Cardinality(Holders(o)') + VmOwes(o)' + GcOwes(o)'
    BY DEF Exact
  <2>1. /\ o \in Live /\ o \in Objects /\ o # Null
        /\ refCount'[o] = refCount[o] /\ refCount'[o] \in Int
    BY <1>1, ObjectGCAssumption DEF Live, IInv, Types
  <2>2. GcOwes(o) = 0 /\ GcOwes(o)' = IF o = t THEN 1 ELSE 0
    BY <1>1, <1>10 DEF GcOwes
  <2>3. VmOwes(o)' = VmOwes(o) /\ VmOwes(o) \in {0, 1}
    BY <1>1 DEF VmOwes, Owner
  <2>4. o # t => Holders(o)' = Holders(o)
    BY <1>1, <1>9, <2>1 DEF Holders, Owner, Slots, t
  <2>5. o = t => s \in Holders(o) /\ Holders(o)' = Holders(o) \ {s}
    <3>1. ~(vm.pc = "store" /\ vm.slot = s)
      BY <1>2, <1>4 DEF s, Busy, Assigning
    <3>2. o = t => s \in Holders(o)
      BY <1>2, <1>3, <3>1 DEF Holders, t
    <3> QED BY <1>1, <1>9, <2>1, <3>2 DEF Holders, Owner, Slots
  <2> QED BY <2>1, <2>2, <2>3, <2>4, <2>5, ExactStep DEF EInv
<1>12. LinksSay'
  <2> SUFFICES ASSUME NEW p \in Objects, NEW o \in Objects
               PROVE  links'[p][o] = IF Linked(p, o)' THEN 1 ELSE 0
    BY DEF LinksSay
  <2>1. links'[p][o] = IF p = gc.cur /\ o = t THEN 0 ELSE links[p][o]
    BY <1>2, <1>3, <1>8 DEF IInv, Types
  <2>2. \A g \in Fields : value'[<<p, g>>] = IF <<p, g>> = s THEN Null ELSE value[<<p, g>>]
    BY <1>9, SlotFacts
  <2>3. (Changing(p, o)' <=> Changing(p, o)) /\ \A q : Unlinked(q)' <=> Unlinked(q)
    BY <1>1 DEF Changing, Unlinked, Slots
  <2>4. o # Null
    BY ObjectGCAssumption
  <2>5. CASE p = gc.cur /\ o = t
    <3>1. \A g \in Fields : value[<<p, g>>] = o => <<p, g>> = s
      BY <1>2, <2>4, <2>5 DEF EInv, Single, s, t
    <3>2. ~Linked(p, o)'
      BY <1>5, <2>2, <2>3, <2>4, <2>5, <3>1 DEF Linked
    <3> QED BY <2>1, <2>5, <3>2
  <2>6. CASE ~(p = gc.cur /\ o = t)
    <3>1. \A g \in Fields : value'[<<p, g>>] = o <=> value[<<p, g>>] = o
      BY <2>2, <2>4, <2>6 DEF s, t
    <3>2. Linked(p, o)' <=> Linked(p, o)
      BY <2>3, <3>1 DEF Linked
    <3> QED BY <2>1, <2>6, <3>2 DEF EInv, LinksSay
  <2> QED BY <2>5, <2>6
<1>13. Single' /\ NewIsNew' /\ OldIsGone' /\ vm'.pc # "aborted"
  <2>1. \A p \in Objects, g \in Fields : value'[<<p, g>>] \in {value[<<p, g>>], Null}
    BY <1>9, SlotFacts
  <2>2. Single'
    BY <2>1 DEF EInv, Single
  <2>3. vm.old \in Objects \/ vm.pc # "unlink"
    BY DEF IInv, VmAssigns, Busy, Assigning, Types, Value
  <2>4. Busy /\ vm.slot \notin Registers => vm.slot[1] \in Objects
    BY BusyFacts
  <2>5. vm.pc = "unlink" => Busy /\ vm.slot \notin Registers
    BY DEF Busy, Assigning, IInv, VmAssigns
  <2>6. NewIsNew' /\ OldIsGone'
    BY <1>1, <2>1, <2>3, <2>4, <2>5, ObjectGCAssumption DEF EInv, NewIsNew, OldIsGone, Busy
  <2> QED BY <1>1, <2>2, <2>6 DEF EInv
<1> QED BY <1>11, <1>12, <1>13 DEF EInv

\* The count follows.
LEMMA GcDropCountEInv == ASSUME IInv, EInv, GcDropCount PROVE EInv'
<1>1. /\ gc.pc = "dropcount" /\ refCount' = [refCount EXCEPT ![gc.target] = @ - 1]
      /\ gc' = [gc EXCEPT !.pc = "drop", !.target = Null]
      /\ UNCHANGED <<status, value, links, vm>>
  BY DEF GcDropCount
<1>2. gc'.pc = "drop"
  BY <1>1 DEF IInv, Types
<1>3. Exact'
  <2> SUFFICES ASSUME NEW o \in Live'
               PROVE  refCount'[o] = Cardinality(Holders(o)') + VmOwes(o)' + GcOwes(o)'
    BY DEF Exact
  <2>1. /\ o \in Live /\ refCount[o] \in Int
        /\ refCount'[o] = IF o = gc.target THEN refCount[o] - 1 ELSE refCount[o]
    BY <1>1 DEF Live, IInv, Types
  <2>2. Holders(o)' = Holders(o) /\ VmOwes(o)' = VmOwes(o) /\ VmOwes(o) \in {0, 1}
    BY <1>1 DEF Holders, Owner, Slots, VmOwes
  <2>3. GcOwes(o)' = 0 /\ GcOwes(o) = IF o = gc.target THEN 1 ELSE 0
    BY <1>1, <1>2 DEF GcOwes
  <2> QED BY <2>1, <2>2, <2>3, ExactStep DEF EInv
<1>4. /\ \A p, o : Changing(p, o)' <=> Changing(p, o)
      /\ \A s : Unlinked(s)' <=> Unlinked(s)
  BY <1>1 DEF Changing, Unlinked, Slots
<1>5. NewIsNew' /\ OldIsGone' /\ vm'.pc # "aborted"
  BY <1>1 DEF EInv, NewIsNew, OldIsGone, Busy
<1> QED BY <1>1, <1>3, <1>4, <1>5, SameLinks DEF EInv

\* Where nothing is held, linked or owed, all counts are exact.
LEMMA InitEInv == Init => EInv
<1> SUFFICES ASSUME Init PROVE EInv
  OBVIOUS
<1>1. /\ \A s \in Slots : value[s] = Null
      /\ \A p, o \in Objects : links[p][o] = 0
      /\ Live = {} /\ vm.pc = "idle" /\ vm.op = "assign"
  BY DEF Init, Live, IdleVm
<1>2. LinksSay
  BY <1>1, SlotFacts, ObjectGCAssumption DEF LinksSay, Linked, Changing
<1>3. Exact /\ Single /\ NewIsNew /\ OldIsGone
  BY <1>1, SlotFacts DEF Exact, Single, NewIsNew, OldIsGone, Busy, Assigning
<1> QED BY <1>1, <1>2, <1>3 DEF EInv

\* Every step of either thread keeps the counts exact.
LEMMA NextEInv == EInv /\ IInv /\ NoMutualLinks /\ SingleLink /\ [Next]_vars => EInv'
<1> SUFFICES ASSUME EInv, IInv, NoMutualLinks, SingleLink, [Next]_vars PROVE EInv'
  OBVIOUS
<1>1. CASE VmStep
  BY <1>1, VmLockEInv, VmLinkEInv, VmCountEInv, VmUnlinkEInv, VmUncountEInv, VmStoreEInv,
     VmBetweenEInv DEF VmStep
<1>2. CASE VmStart
  <2>1. ASSUME NEW o \in Objects, NEW r \in Registers, NEW proto \in RegisterValues \union {Null},
               VmCreate(o, r, proto)
        PROVE  EInv'
    BY <2>1, VmCreateEInv
  <2>2. ASSUME NEW r \in Registers, NEW v \in RegisterValues \union {Null}, VmCopy(r, v)
        PROVE  EInv'
    BY <2>2, VmAccessEInv, ObjectGCAssumption
  <2>3. ASSUME NEW r \in Registers, NEW p \in LookupObjects, NEW f \in Fields,
               VmGetProperty(r, p, f)
        PROVE  EInv'
    <3>1. Null \in RegisterValues \union {Null}
      OBVIOUS
    <3> QED BY <2>3, <3>1, VmAccessEInv
  <2>4. ASSUME NEW p \in RegisterValues, NEW f \in Fields, NEW v \in RegisterValues \union {Null},
               VmSetProperty(p, f, v)
        PROVE  EInv'
    <3>1. \E r \in Registers : TRUE
      BY DEF RegisterValues
    <3> QED BY <2>4, <3>1, VmAccessEInv
  <2>5. CASE \E p \in RegisterValues, f \in Fields : VmDeleteProperty(p, f)
    BY <2>5, VmDropEInv
  <2>6. CASE VmExit
    BY <2>6, VmBetweenEInv
  <2> QED BY <1>2, <2>1, <2>2, <2>3, <2>4, <2>5, <2>6 DEF VmStart
<1>3. CASE VmStop
  BY <1>3, VmDropEInv, VmBetweenEInv DEF VmStop
<1>4. ASSUME NEW E, GcBegin(E) PROVE EInv'
  <2>1. /\ UNCHANGED <<status, value, refCount, links, vm>> /\ gc.pc = "idle" /\ gc'.pc = "scan"
    BY <1>4 DEF GcBegin, IInv, Types
  <2> QED BY <2>1, GcQuietEInv DEF Live
<1>5. CASE GcStep
  <2>1. ASSUME NEW o, GcSkip(o) \/ GcTake(o) \/ GcCountLink(o) PROVE EInv'
    <3>1. UNCHANGED <<status, value, refCount, links, vm>>
      BY <2>1 DEF GcSkip, GcTake, GcCountLink
    <3>2. gc.pc \in {"scan", "counting"} /\ gc'.pc \in {"scan", "links", "counting"}
      BY <2>1 DEF GcSkip, GcTake, GcCountLink, IInv, Types
    <3> QED BY <3>1, <3>2, GcQuietEInv DEF Live
  <2>2. CASE GcOpenLinks \/ GcKeep \/ GcCondemn \/ GcReleased \/ GcNextPass
    <3>1. UNCHANGED <<status, value, refCount, links, vm>>
      BY <2>2 DEF GcOpenLinks, GcKeep, GcCondemn, GcReleased, GcNextPass
    <3>2. gc.pc # "dropcount" /\ gc'.pc \in {"counting", "scan", "release"}
      BY <2>2 DEF GcOpenLinks, GcKeep, GcCondemn, GcReleased, GcNextPass, IInv, Types
    <3> QED BY <3>1, <3>2, GcQuietEInv DEF Live
  <2>3. CASE GcRelease \/ GcEnd
    <3>1. UNCHANGED <<value, refCount, links, vm>> /\ Live' \subseteq Live
      BY <2>3 DEF GcRelease, GcEnd, Live, IInv, Types
    <3>2. gc.pc # "dropcount" /\ gc'.pc \in {"drop", "ended", "idle"}
      BY <2>3 DEF GcRelease, GcEnd, IInv, Types
    <3> QED BY <3>1, <3>2, GcQuietEInv
  <2>4. ASSUME NEW f \in Fields, GcDrop(f) PROVE EInv'
    BY <2>4, GcDropEInv
  <2> QED BY <1>5, <2>1, <2>2, <2>3, <2>4, GcDropCountEInv DEF GcStep
<1>6. CASE UNCHANGED vars
  BY <1>6 DEF vars, EInv, Exact, Single, NewIsNew, OldIsGone, LinksSay, Linked, Changing, Unlinked,
     Live, Busy, Holders, VmOwes, GcOwes, Slots, Owner
<1> QED BY <1>1, <1>2, <1>3, <1>4, <1>5, <1>6 DEF Next, Terminated

\* At rest, the count of an object is the number of variables that hold it, and
\* each entry of a linked_object_list the number of properties that do, whatever
\* assignments, deletions, reads, creations and events led there.
THEOREM CountsAreExactAtRest ==
  ASSUME NoMutualLinks, SingleLink
  PROVE  Spec => []CountsExactWhenQuiescent
<1>1. EInv /\ IInv => CountsExactWhenQuiescent
  <2> SUFFICES ASSUME EInv, IInv, vm.pc = "idle", gc.pc = "idle", NEW o \in Tracked
               PROVE  /\ refCount[o] = Cardinality(Holders(o))
                      /\ \A p \in Tracked \ {o} :
                           links[p][o] = Cardinality({f \in Fields : value[<<p, f>>] = o})
    BY DEF CountsExactWhenQuiescent
  <2>1. o \in Live /\ o \in Objects /\ o # Null
    BY ObjectGCAssumption DEF Live, Tracked
  <2>2. refCount[o] = Cardinality(Holders(o))
    <3>1. VmOwes(o) = 0 /\ GcOwes(o) = 0 /\ Cardinality(Holders(o)) \in Nat
      BY HoldersAreFinite DEF VmOwes, GcOwes
    <3> QED BY <2>1, <3>1 DEF EInv, Exact
  <2>3. ASSUME NEW p \in Tracked
        PROVE  links[p][o] = Cardinality({f \in Fields : value[<<p, f>>] = o})
    <3>1. p \in Objects
      BY DEF Tracked
    <3>2. Linked(p, o) <=> \E f \in Fields : value[<<p, f>>] = o
      BY DEF Linked, Changing, Unlinked
    <3>3. CASE \E f \in Fields : value[<<p, f>>] = o
      <4>1. PICK f \in Fields : value[<<p, f>>] = o
        BY <3>3
      <4>2. {g \in Fields : value[<<p, g>>] = o} = {f}
        BY <2>1, <3>1, <4>1 DEF EInv, Single
      <4> QED BY <2>1, <3>1, <3>2, <3>3, <4>2, FS_Singleton DEF EInv, LinksSay
    <3>4. CASE ~\E f \in Fields : value[<<p, f>>] = o
      <4>1. {g \in Fields : value[<<p, g>>] = o} = {}
        BY <3>4
      <4> QED BY <2>1, <3>1, <3>2, <3>4, <4>1, FS_EmptySet DEF EInv, LinksSay
    <3> QED BY <3>3, <3>4
  <2> QED BY <2>2, <2>3
<1>2. EInv /\ IInv /\ [Next]_vars => EInv' /\ IInv'
  BY NextIInv, NextEInv
<1> QED BY <1>1, <1>2, InitIInv, InitEInv, PTL DEF Spec

\* The assertion of simplejs_variable_assign_ex, that dereferencing the old value
\* of a variable succeeds, never fails.
THEOREM DereferencesAlwaysSucceed ==
  ASSUME NoMutualLinks, SingleLink
  PROVE  Spec => []DereferenceSucceeds
<1>1. EInv => DereferenceSucceeds
  BY DEF EInv, DereferenceSucceeds
<1>2. EInv /\ IInv /\ [Next]_vars => EInv' /\ IInv'
  BY NextIInv, NextEInv
<1> QED BY <1>1, <1>2, InitIInv, InitEInv, PTL DEF Spec
=============================================================================
