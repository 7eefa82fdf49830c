------------------------------ MODULE ObjectGC ------------------------------
(***************************************************************************)
(* Objects, their reference counts and the garbage collector thread.       *)
(*                                                                         *)
(* Two threads run: the one that executes the program (called the VM       *)
(* here) and the garbage collector thread of program/main.c, which calls   *)
(* simplejs_gc_event every 10 ms.  They share, per object, the reference    *)
(* count, the list of linked objects (how many properties of the object     *)
(* hold which other object), the gc_lock and the lock of the property       *)
(* list, and they share the object_list of the collector with its lock.     *)
(*                                                                         *)
(* A step is what one thread does between two points at which the other     *)
(* can see a difference: taking a lock, one atomic counter operation, one   *)
(* linked_object_list operation under its lock.                             *)
(***************************************************************************)
EXTENDS Integers, FiniteSets

CONSTANTS
  Objects,     \* the objects the pool can hand out
  Registers,   \* variables of the VM that no object owns (registers, locals)
  Fields,      \* property names of a dynamic object
  Proto,       \* the "prototype" property, written only at creation
  Null,        \* a value that is not an object
  Links,       \* the pairs <<owner, target>> the program may store
  SingleLink,  \* TRUE: no two properties of an object hold the same object
  MaxCount     \* bound: the program takes no reference beyond this count

ASSUME ObjectGCAssumption ==
  /\ IsFiniteSet(Objects) /\ IsFiniteSet(Registers) /\ IsFiniteSet(Fields)
  /\ Proto \in Fields
  /\ Null \notin Objects
  /\ Registers \cap (Objects \X Fields) = {}
  /\ Null \notin Registers
  /\ Links \subseteq Objects \X Objects
  /\ SingleLink \in BOOLEAN
  /\ MaxCount \in Nat

VARIABLES
  status,      \* where each object is in its life
  value,       \* the object each variable holds
  refCount,    \* object->reference_count
  links,       \* links[p][o]: reference_count of the entry of o in p's list
  gcLock,      \* object->gc_lock
  propLock,    \* property_list.list_lock of the object's raw object
  expired,     \* objects this event sees unmodified for the expiration time
  vm,          \* control state of the VM thread
  gc           \* control state of the collector thread

vars == <<status, value, refCount, links, gcLock, propLock, expired, vm, gc>>

Slots == Registers \union (Objects \X Fields)
Holder == {"free", "vm", "gc"}
Value == Objects \union {Null}

\* The parent_pointer the code passes with a variable.
Owner(s) == IF s \in Registers THEN Null ELSE s[1]

Tracked == {o \in Objects : status[o] = "tracked"}
Live == {o \in Objects : status[o] \in {"created", "tracked"}}
RegisterValues == {value[r] : r \in Registers} \ {Null}

\* The objects a property read can reach: a register's object, or the
\* prototype of one that lacks the property.
LookupObjects ==
  {p \in Objects : \A S \in SUBSET Objects :
      /\ RegisterValues \subseteq S
      /\ \A x \in S : value[<<x, Proto>>] \in S \union {Null}
      => p \in S}

\* What the program sees of this state: the live objects and their variables.
LiveValue ==
  [s \in Slots |-> IF s \in Registers \/ s[1] \in Live THEN value[s] ELSE Null]

AbstractHeap == INSTANCE Heap WITH alive <- Live, value <- LiveValue

\* An object of the collector's list that no register leads to.
Garbage(o) == status[o] = "tracked" /\ AbstractHeap!Garbage(o)

IdleVm == [pc |-> "idle", op |-> "assign", slot |-> Null, old |-> Null,
           new |-> Null, held |-> Null, made |-> Null, target |-> Null]

Init ==
  /\ status = [o \in Objects |-> "unallocated"]
  /\ value = [s \in Slots |-> Null]
  /\ refCount = [o \in Objects |-> 0]
  /\ links = [p \in Objects |-> [o \in Objects |-> 0]]
  /\ gcLock = [o \in Objects |-> "free"]
  /\ propLock = [o \in Objects |-> "free"]
  /\ expired = {}
  /\ vm = IdleVm
  /\ gc = [pc |-> "idle", todo |-> {}, passes |-> 0, cur |-> Null, refs |-> 0,
           pending |-> {}, circular |-> 0, target |-> Null, final |-> FALSE]

-----------------------------------------------------------------------------
(* simplejs_variable_assign_ex, step by step.                              *)

\* Mutant: a deleted or overwritten property keeps its link and its count.
DereferencePcKeepsLink(s, old) ==
  IF Owner(s) = Null /\ old # Null THEN "uncount" ELSE "store"

DereferencePc(s, old) ==
  CASE old \in {Null, Owner(s)} -> "store"
    [] Owner(s) = Null /\ old # Null -> "uncount"
    [] OTHER -> "unlink"

\* Mutant: storing into a register takes no reference.
ReferencePcForgetsRegister(s, new, old) ==
  IF new \in {Null, Owner(s)} \/ Owner(s) = Null
    THEN DereferencePc(s, old) ELSE "link"

\* Mutant: storing into a property takes a reference but records no link.
ReferencePcForgetsLink(s, new, old) ==
  IF new \in {Null, Owner(s)} THEN DereferencePc(s, old) ELSE "count"

ReferencePc(s, new, old) ==
  CASE new \in {Null, Owner(s)} -> DereferencePc(s, old)
    [] Owner(s) = Null /\ new # Null -> "count"
    [] OTHER -> "link"

\* Mutant: the unlock at the end of an operation is missing.
UnlockForgotten(lock, o) == lock

Unlock(lock, o) == IF o = Null THEN lock ELSE [lock EXCEPT ![o] = "free"]

\* The VM enters assign_ex(Owner(s), s, new); held is the object whose
\* property list it keeps locked meanwhile, made an object still to be given
\* to the collector and target the register that will hold made.
Assign(s, new, held, made, target) ==
  [pc |-> IF value[s] = Null THEN ReferencePc(s, new, Null) ELSE "lock",
   op |-> "assign", slot |-> s, old |-> value[s], new |-> new,
   held |-> held, made |-> made, target |-> target]

\* find_linked_entry waits while the collector counts the links of p.
LinksFree(p) == ~(gc.pc = "counting" /\ gc.cur = p)

VmLock ==
  /\ vm.pc = "lock"
  /\ gcLock[vm.old] = "free"
  /\ gcLock' = [gcLock EXCEPT ![vm.old] = "vm"]
  /\ vm' = [vm EXCEPT !.pc = ReferencePc(vm.slot, vm.new, vm.old)]
  /\ UNCHANGED <<status, value, refCount, links, propLock, expired, gc>>

VmLink ==
  /\ vm.pc = "link"
  /\ LinksFree(Owner(vm.slot))
  /\ links' = [links EXCEPT ![Owner(vm.slot)][vm.new] = @ + 1]
  /\ vm' = [vm EXCEPT !.pc = "count"]
  /\ UNCHANGED <<status, value, refCount, gcLock, propLock, expired, gc>>

VmCount ==
  /\ vm.pc = "count"
  /\ refCount' = [refCount EXCEPT ![vm.new] = @ + 1]
  /\ expired' = expired \ {vm.new}
  /\ vm' = [vm EXCEPT !.pc = DereferencePc(vm.slot, vm.old)]
  /\ UNCHANGED <<status, value, links, gcLock, propLock, gc>>

\* simplejs_remove_linked_object succeeds only when it removes the entry, and
\* assign_ex asserts that it does; delete_property ignores the result.
VmUnlink ==
  LET p == Owner(vm.slot)
      last == links[p][vm.old] = 1
  IN
  /\ vm.pc = "unlink"
  /\ LinksFree(p)
  /\ links' = [links EXCEPT ![p][vm.old] = IF @ = 0 THEN 0 ELSE @ - 1]
  /\ vm' = [vm EXCEPT !.pc = CASE last -> "uncount"
                               [] ~last /\ vm.op = "assign" -> "aborted"
                               [] OTHER -> "store"]
  /\ expired' = expired \ {vm.old}
  /\ UNCHANGED <<status, value, refCount, gcLock, propLock, gc>>

VmUncount ==
  /\ vm.pc = "uncount"
  /\ refCount' = [refCount EXCEPT ![vm.old] = @ - 1]
  /\ expired' = expired \ {vm.old}
  /\ vm' = [vm EXCEPT !.pc = "store"]
  /\ UNCHANGED <<status, value, links, gcLock, propLock, gc>>

\* The assignment itself, the release of the locks, and what comes next:
\* the second assignment of an object creation, its hand-over, or nothing.
VmStore ==
  /\ vm.pc = "store"
  /\ value' = [value EXCEPT ![vm.slot] = vm.new]
  /\ gcLock' = Unlock(gcLock, IF vm.op = "assign" THEN vm.old ELSE Null)
  /\ propLock' = Unlock(propLock, vm.held)
  /\ expired' = expired \ ({vm.new, vm.old} \cap {Owner(vm.slot)})
  /\ vm' = CASE vm.target # Null -> Assign(vm.target, vm.made, Null, vm.made, Null)
             [] vm.target = Null /\ vm.made # Null -> [vm EXCEPT !.pc = "publish"]
             [] vm.op = "exit" -> [IdleVm EXCEPT !.pc = "exit"]
             [] OTHER -> IdleVm
  /\ UNCHANGED <<status, refCount, links, gc>>

\* simplejs_gc_add_object waits for the lock the whole event holds.
VmPublish ==
  /\ vm.pc = "publish"
  /\ gc.pc = "idle"
  /\ status' = [status EXCEPT ![vm.made] = "tracked"]
  /\ vm' = IdleVm
  /\ UNCHANGED <<value, refCount, links, gcLock, propLock, expired, gc>>

VmStep ==
  VmLock \/ VmLink \/ VmCount \/ VmUnlink \/ VmUncount \/ VmStore \/ VmPublish

-----------------------------------------------------------------------------
(* The operations a program starts.                                        *)

MayLink(p, v) == v # Null => <<p, v>> \in Links
MayCount(v) == v # Null => refCount[v] < MaxCount

\* create_obj_var: allocate, give it a prototype or none, assign, publish.
VmCreate(o, r, proto) ==
  /\ vm.pc = "idle"
  /\ status[o] = "unallocated"
  /\ MayLink(o, proto)
  /\ MayCount(proto)
  /\ status' = [status EXCEPT ![o] = "created"]
  /\ refCount' = [refCount EXCEPT ![o] = 0]
  /\ links' = [links EXCEPT ![o] = [q \in Objects |-> 0]]
  /\ vm' = IF proto = Null THEN Assign(r, o, Null, o, Null)
                           ELSE Assign(<<o, Proto>>, proto, Null, o, r)
  /\ UNCHANGED <<value, gcLock, propLock, expired, gc>>

\* A move between registers, or a register set to something not an object.
VmCopy(r, v) ==
  /\ vm.pc = "idle"
  /\ MayCount(v)
  /\ vm' = Assign(r, v, Null, Null, Null)
  /\ UNCHANGED <<status, value, refCount, links, gcLock, propLock, expired, gc>>

VmGetProperty(r, p, f) ==
  /\ vm.pc = "idle"
  /\ propLock[p] = "free"
  /\ propLock' = [propLock EXCEPT ![p] = "vm"]
  /\ MayCount(value[<<p, f>>])
  /\ vm' = Assign(r, value[<<p, f>>], p, Null, Null)
  /\ UNCHANGED <<status, value, refCount, links, gcLock, expired, gc>>

VmSetProperty(p, f, v) ==
  /\ vm.pc = "idle"
  /\ f # Proto
  /\ MayLink(p, v)
  /\ MayCount(v)
  /\ SingleLink => v \notin {value[<<p, g>>] : g \in Fields} \ {Null}
  /\ propLock[p] = "free"
  /\ propLock' = [propLock EXCEPT ![p] = "vm"]
  /\ vm' = Assign(<<p, f>>, v, p, Null, Null)
  /\ UNCHANGED <<status, value, refCount, links, gcLock, expired, gc>>

\* The entry leaves the list first, its value is dereferenced after.
VmDeleteProperty(p, f) ==
  /\ vm.pc = "idle"
  /\ f # Proto
  /\ value[<<p, f>>] # Null
  /\ propLock[p] = "free"
  /\ propLock' = [propLock EXCEPT ![p] = "vm"]
  /\ value' = [value EXCEPT ![<<p, f>>] = Null]
  /\ vm' = [IdleVm EXCEPT !.pc = DereferencePc(<<p, f>>, value[<<p, f>>]),
                          !.op = "delete", !.slot = <<p, f>>,
                          !.old = value[<<p, f>>], !.held = p]
  /\ UNCHANGED <<status, refCount, links, gcLock, expired, gc>>

\* The program ends: simplejs_reset_vm drops every register.  A register is
\* not read again once its drop begins.
VmExit ==
  /\ vm.pc = "idle"
  /\ vm' = [vm EXCEPT !.pc = "exit"]
  /\ UNCHANGED <<status, value, refCount, links, gcLock, propLock, expired, gc>>

VmExitDrop(r) ==
  /\ vm.pc = "exit"
  /\ value[r] # Null
  /\ value' = [value EXCEPT ![r] = Null]
  /\ vm' = [IdleVm EXCEPT !.pc = "uncount", !.op = "exit", !.slot = r,
                          !.old = value[r]]
  /\ UNCHANGED <<status, refCount, links, gcLock, propLock, expired, gc>>

\* run_gc_thread = false
VmExited ==
  /\ vm.pc = "exit"
  /\ RegisterValues = {}
  /\ vm' = [vm EXCEPT !.pc = "exited"]
  /\ UNCHANGED <<status, value, refCount, links, gcLock, propLock, expired, gc>>

VmStart ==
  \/ \E o \in Objects, r \in Registers, proto \in RegisterValues \union {Null} :
       VmCreate(o, r, proto)
  \/ \E r \in Registers, v \in RegisterValues \union {Null} : VmCopy(r, v)
  \/ \E r \in Registers, p \in LookupObjects, f \in Fields :
       VmGetProperty(r, p, f)
  \/ \E p \in RegisterValues, f \in Fields, v \in RegisterValues \union {Null} :
       VmSetProperty(p, f, v)
  \/ \E p \in RegisterValues, f \in Fields : VmDeleteProperty(p, f)
  \/ VmExit

VmStop == VmExited \/ \E r \in Registers : VmExitDrop(r)

-----------------------------------------------------------------------------
(* simplejs_gc_event.  The object_list lock is held from GcBegin to GcEnd,  *)
(* that is while gc.pc is neither "idle" nor "ended".                       *)

Running == vm.pc # "aborted"

\* E: the objects not modified for object_expiration_time when it starts.
GcBegin(E) ==
  /\ Running
  /\ gc.pc = "idle"
  /\ E \subseteq Tracked
  /\ expired' = E
  /\ gc' = [gc EXCEPT !.pc = "scan", !.todo = Tracked, !.passes = 0,
                      !.final = (vm.pc = "exited")]
  /\ UNCHANGED <<status, value, refCount, links, gcLock, propLock, vm>>

\* The gc_lock is taken by the VM, or the object was modified recently.
GcSkip(o) ==
  /\ Running
  /\ gc.pc = "scan"
  /\ o \in gc.todo
  /\ gcLock[o] # "free" \/ (~gc.final /\ o \notin expired)
  /\ gc' = [gc EXCEPT !.todo = @ \ {o}]
  /\ UNCHANGED <<status, value, refCount, links, gcLock, propLock, expired, vm>>

GcTake(o) ==
  /\ Running
  /\ gc.pc = "scan"
  /\ o \in gc.todo
  /\ gcLock[o] = "free"
  /\ gc.final \/ o \in expired
  /\ gcLock' = [gcLock EXCEPT ![o] = "gc"]
  /\ gc' = [gc EXCEPT !.pc = "links", !.todo = @ \ {o}, !.cur = o,
                      !.refs = refCount[o]]
  /\ UNCHANGED <<status, value, refCount, links, propLock, expired, vm>>

GcOpenLinks ==
  /\ Running
  /\ gc.pc = "links"
  /\ gc' = [gc EXCEPT !.pc = "counting", !.circular = 0,
                      !.pending = {q \in Objects : links[gc.cur][q] > 0}]
  /\ UNCHANGED <<status, value, refCount, links, gcLock, propLock, expired, vm>>

GcCountLink(q) ==
  /\ Running
  /\ gc.pc = "counting"
  /\ q \in gc.pending
  /\ gc' = [gc EXCEPT !.pending = @ \ {q},
                      !.circular = IF links[q][gc.cur] > 0 THEN @ + 1 ELSE @]
  /\ UNCHANGED <<status, value, refCount, links, gcLock, propLock, expired, vm>>

\* Mutant: an object with one reference left is taken for unreferenced.
UnreferencedOffByOne == gc.refs <= gc.circular + 1

Unreferenced == gc.refs <= gc.circular

GcKeep ==
  /\ Running
  /\ gc.pc = "counting"
  /\ gc.pending = {}
  /\ ~Unreferenced
  /\ gcLock' = [gcLock EXCEPT ![gc.cur] = "free"]
  /\ gc' = [gc EXCEPT !.pc = "scan", !.cur = Null, !.refs = 0, !.circular = 0]
  /\ UNCHANGED <<status, value, refCount, links, propLock, expired, vm>>

GcCondemn ==
  /\ Running
  /\ gc.pc = "counting"
  /\ gc.pending = {}
  /\ Unreferenced
  /\ gc' = [gc EXCEPT !.pc = "release", !.refs = 0, !.circular = 0]
  /\ UNCHANGED <<status, value, refCount, links, gcLock, propLock, expired, vm>>

\* simplejs_dynamic_object_release begins by locking the property list.
GcRelease ==
  /\ Running
  /\ gc.pc = "release"
  /\ propLock[gc.cur] = "free"
  /\ propLock' = [propLock EXCEPT ![gc.cur] = "gc"]
  /\ status' = [status EXCEPT ![gc.cur] = "released"]
  /\ gc' = [gc EXCEPT !.pc = "drop"]
  /\ UNCHANGED <<value, refCount, links, gcLock, expired, vm>>

\* One property of the released object: its link is removed, and the count
\* of the object it held follows only if that was the last link.
GcDrop(f) ==
  LET t == value[<<gc.cur, f>>]
      last == links[gc.cur][t] = 1
  IN
  /\ Running
  /\ gc.pc = "drop"
  /\ t # Null
  /\ value' = [value EXCEPT ![<<gc.cur, f>>] = Null]
  /\ IF t = gc.cur
       THEN UNCHANGED <<links, gc>>
       ELSE /\ links' = [links EXCEPT ![gc.cur][t] = IF @ = 0 THEN 0 ELSE @ - 1]
            /\ gc' = IF last THEN [gc EXCEPT !.pc = "dropcount", !.target = t]
                             ELSE gc
  /\ expired' = expired \ {t}
  /\ UNCHANGED <<status, refCount, gcLock, propLock, vm>>

GcDropCount ==
  /\ Running
  /\ gc.pc = "dropcount"
  /\ refCount' = [refCount EXCEPT ![gc.target] = @ - 1]
  /\ expired' = expired \ {gc.target}
  /\ gc' = [gc EXCEPT !.pc = "drop", !.target = Null]
  /\ UNCHANGED <<status, value, links, gcLock, propLock, vm>>

\* The raw object is gone with its lock; the object waits in
\* objects_to_destroy_list and buys the event one more pass.
GcReleased ==
  /\ Running
  /\ gc.pc = "drop"
  /\ \A f \in Fields : value[<<gc.cur, f>>] = Null
  /\ gcLock' = Unlock(gcLock, gc.cur)
  /\ propLock' = Unlock(propLock, gc.cur)
  /\ gc' = [gc EXCEPT !.pc = "scan", !.cur = Null, !.passes = @ + 1]
  /\ UNCHANGED <<status, value, refCount, links, expired, vm>>

GcNextPass ==
  /\ Running
  /\ gc.pc = "scan"
  /\ gc.todo = {}
  /\ gc.passes > 0
  /\ gc' = [gc EXCEPT !.todo = Tracked, !.passes = @ - 1]
  /\ UNCHANGED <<status, value, refCount, links, gcLock, propLock, expired, vm>>

\* simplejs_free_object for every released object; the lock is released.
GcEnd ==
  /\ Running
  /\ gc.pc = "scan"
  /\ gc.todo = {}
  /\ gc.passes = 0
  /\ status' = [o \in Objects |->
                  IF status[o] = "released" THEN "unallocated" ELSE status[o]]
  /\ expired' = {}
  /\ gc' = [gc EXCEPT !.pc = IF gc.final THEN "ended" ELSE "idle"]
  /\ UNCHANGED <<value, refCount, links, gcLock, propLock, vm>>

GcStep ==
  \/ \E o \in Objects : GcSkip(o) \/ GcTake(o) \/ GcCountLink(o)
  \/ GcOpenLinks \/ GcKeep \/ GcCondemn \/ GcRelease
  \/ \E f \in Fields : GcDrop(f)
  \/ GcDropCount \/ GcReleased \/ GcNextPass \/ GcEnd

\* The process is over: the last event ended, or an assertion aborted it.
Terminated ==
  /\ gc.pc = "ended" \/ ~Running
  /\ UNCHANGED vars

Next ==
  \/ VmStep \/ VmStart \/ VmStop
  \/ \E E \in SUBSET Objects : GcBegin(E)
  \/ GcStep
  \/ Terminated

Spec == Init /\ [][Next]_vars

\* The VM thread finishes what it began (its spinlocks are retried until
\* taken), the collector thread keeps running, and an object that stays
\* garbage, untouched, is eventually seen expired by an event.
Fairness ==
  /\ SF_vars(VmStep)
  /\ WF_vars(VmStop)
  /\ WF_vars(GcStep)
  /\ WF_vars(GcBegin(Tracked))
  /\ \A o \in Objects :
       SF_vars(\E E \in SUBSET Objects : Garbage(o) /\ o \in E /\ GcBegin(E))

FairSpec == Spec /\ Fairness

-----------------------------------------------------------------------------
(* Properties.                                                             *)

\* No register and no property of a live object holds an object that
\* simplejs_gc_event has released or freed.
NoDanglingSlot ==
  \A s \in Slots :
    Owner(s) \in Live \union {Null} => value[s] \in Live \union {Null}

\* The variables of other owners that hold o and that its reference_count has
\* to cover; assign_ex drops the count of the old object just before it
\* overwrites the variable.
Holders(o) ==
  {s \in Slots : /\ value[s] = o
                 /\ Owner(s) # o
                 /\ ~(vm.pc = "store" /\ vm.slot = s)}

\* The reference_count the collector reads never falls below the number of
\* variables that hold the object, at any point of an assignment, a deletion
\* or a release running in the other thread.
CountsCoverHolders ==
  \A o \in Live : Cardinality(Holders(o)) <= refCount[o]

\* Between operations the counts are exact: reference_count is the number of
\* variables that hold the object, and each linked_object_list entry counts
\* the properties of that owner that hold it.
CountsExactWhenQuiescent ==
  vm.pc = "idle" /\ gc.pc = "idle" =>
    \A o \in Tracked :
      /\ refCount[o] = Cardinality(Holders(o))
      /\ \A p \in Tracked \ {o} :
           links[p][o] = Cardinality({f \in Fields : value[<<p, f>>] = o})

\* The assertion of simplejs_variable_assign_ex holds: dereferencing the old
\* value of a variable always succeeds.
DereferenceSucceeds == vm.pc # "aborted"

\* Two threads, counts, links and locks together look like the abstract heap:
\* gc_event releases only what no register can reach.
ImplementsHeap == AbstractHeap!Spec

\* The program never has two properties of one object hold the same object.
SingleLinks == \A p, o \in Objects : links[p][o] <= 1

\* An object nothing leads to is eventually released and freed.
GarbageIsFreed ==
  []SingleLinks => \A o \in Objects : Garbage(o) ~> status[o] = "unallocated"

\* A program that ends gets its final event, and the event leaves no object
\* behind: neither thread blocks for good on a gc_lock, a property list or the
\* object_list.
ExitCompletes ==
  []SingleLinks =>
    (vm.pc = "exit" ~> (gc.pc = "ended" /\ \A o \in Objects : status[o] = "unallocated"))
=============================================================================
