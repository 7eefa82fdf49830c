--------------------------- MODULE DynamicObject ---------------------------
(***************************************************************************)
(* The property lists of dynamic objects (builtin_object/dynamic_object.c)  *)
(* and the locks a request takes on them.                                   *)
(*                                                                         *)
(* Two threads run: the program's, which serves one request of the VM or    *)
(* of a plugin at a time, and the collector's, which releases objects that  *)
(* nothing holds.  A step of the program is what it does up to the next     *)
(* lock: simplejs_spinlock_acquire waits, for ever when the program itself  *)
(* holds the lock.  The locks that the activations of get_string hold are   *)
(* given back in one step, for no other thread runs into them: the          *)
(* collector only locks objects that no request can reach.                  *)
(***************************************************************************)
EXTENDS Integers, FiniteSets

CONSTANTS
  Objects,        \* the objects the pool hands out, in this order
  Names,          \* property names, and HASH_STRING values: the texts of a program
  PrototypeName,  \* SIMPLEJS_CLASS_PROTOTYPE_PROPERTY
  StringName,     \* DYNAMIC_OBJECT_STRING_PROPERTY
  DefaultText,    \* "[Dynamic Object]"
  FastStrings,    \* FAST_STRING values, the texts native code stores
  Spelling,       \* the name each of them spells
  Undefined,      \* a value that is neither an object nor a text
  Absent,         \* no property of that name
  MaxKept,        \* bound: no request once so many lists are left locked
  Prototypes,     \* bound: the objects the program creates with which prototype
  Forgettable,    \* bound: the objects whose variables it overwrites
  Writable        \* bound: the objects, names and values it writes by name

ASSUME DynamicObjectAssumption ==
  /\ Objects \subseteq Nat
  /\ MaxKept \in Nat
  /\ Prototypes \subseteq Objects \X Objects
  /\ Forgettable \subseteq Objects
  /\ {PrototypeName, StringName, DefaultText} \subseteq Names
  /\ PrototypeName # StringName
  /\ Objects \cap Names = {}
  /\ FastStrings \cap (Objects \union Names) = {}
  /\ Spelling \in [FastStrings -> Names]
  /\ {Undefined, Absent} \cap (Objects \union Names \union FastStrings) = {}
  /\ Undefined # Absent
  /\ Writable \subseteq Objects \X Names
                        \X (Objects \union Names \union FastStrings \union {Undefined})

VARIABLES
  life,        \* "unborn", "alive" or "released"
  property,    \* property[o][n]: the value of the entry n of o's list
  locked,      \* the objects whose property_list is locked
  hardlocked,  \* the objects whose string property has is_hardlocked set
  held,        \* the objects a variable of the program holds
  asked,       \* the request the program serves
  pc,          \* where it is in the functions that serve it
  level,       \* the object whose property list is searched
  at,          \* the object whose text get_string looks for
  climb,       \* the objects its activations have locked
  text,        \* the name the key stands for
  found,       \* find_property returned a property: level is locked
  answer,      \* the last value read
  condemned,   \* the object the collector releases
  kept         \* objects left locked by a request that returned early

vars == <<life, property, locked, hardlocked, held, asked, pc, level, at, climb,
          text, found, answer, condemned, kept>>
walk == <<pc, level, at, climb, text, found>>

Values == Objects \union Names \union FastStrings \union {Undefined}
Hardcoded == {PrototypeName, StringName}
Nothing == [kind |-> "none", on |-> Undefined, key |-> Undefined, value |-> Undefined]

\* init_hardcoded_property, twice
Blank == [n \in Names |-> IF n \in Hardcoded THEN Undefined ELSE Absent]

Init ==
  /\ life = [o \in Objects |-> "unborn"]
  /\ property = [o \in Objects |-> Blank]
  /\ locked = {} /\ hardlocked = {} /\ held = {}
  /\ asked = Nothing
  /\ pc = "idle" /\ level = Undefined /\ at = Undefined /\ climb = {}
  /\ text = DefaultText /\ found = FALSE
  /\ answer = Undefined
  /\ condemned = Undefined
  /\ kept = {}

-----------------------------------------------------------------------------
(* The program between two requests.                                        *)

\* simplejs_create_builtin_dynamic_object and ..._set_prototype, the only write
\* of the prototype: the opcode that creates an object does both.
Create(o, prototype) ==
  /\ pc = "idle"
  /\ life[o] = "unborn"
  /\ \A p \in Objects : life[p] = "unborn" => o <= p
  /\ prototype \in {p \in held : <<o, p>> \in Prototypes} \union {Undefined}
  /\ life' = [life EXCEPT ![o] = "alive"]
  /\ property' = [property EXCEPT ![o][PrototypeName] = prototype]
  /\ held' = held \union {o}
  /\ UNCHANGED <<locked, hardlocked, asked, walk, answer, condemned, kept>>

\* The variables that held o are overwritten.
Forget(o) ==
  /\ pc = "idle"
  /\ o \in held \cap Forgettable
  /\ held' = held \ {o}
  /\ UNCHANGED <<life, property, locked, hardlocked, asked, walk, answer, condemned, kept>>

\* simplejs_variable_to_hash_string with MODE_OPEN: a name is a name already.  A
\* FAST_STRING used as a name is one, spelled out, and is left out as a key.
OpenKey(key) ==
  /\ climb' = {}
  /\ found' = FALSE
  /\ IF key \in Names
     THEN pc' = "find" /\ text' = key /\ at' = Undefined
     ELSE pc' = "open" /\ at' = key /\ UNCHANGED text

Ask(request) ==
  /\ pc = "idle"
  /\ Cardinality(kept) < MaxKept
  /\ asked' = request
  /\ level' = request.on
  /\ answer' = Undefined
  /\ OpenKey(IF request.kind = "print" THEN request.on ELSE request.key)
  /\ UNCHANGED <<life, property, locked, hardlocked, held, condemned, kept>>

-----------------------------------------------------------------------------
(* simplejs_dynamic_object_get_string, of the key or of what is printed.     *)

\* Mutant: the prototype's text before the object's own.
NextTextPrototypeFirst(o) ==
  LET own == property[o][StringName]
      prototype == property[o][PrototypeName]
  IN CASE prototype \in Objects \ {o} -> prototype
       [] prototype \notin Objects \ {o} /\ own \in Objects \ {o} -> own
       [] prototype \notin Objects \ {o} /\ own \in FastStrings -> Spelling[own]
       [] OTHER -> DefaultText

\* The object whose text is taken instead of o's, or o's text.  Of the texts
\* the string property may hold only a FAST_STRING counts: a HASH_STRING, which
\* is what a literal of a program is, gives way like a number does.
NextText(o) ==
  LET own == property[o][StringName]
      prototype == property[o][PrototypeName]
  IN CASE own \in Objects \ {o} -> own
       [] own \in FastStrings -> Spelling[own]
       [] own \notin (Objects \ {o}) \union FastStrings /\ prototype \in Objects \ {o} -> prototype
       [] OTHER -> DefaultText

\* What follows the text in the function that asked for it.
AfterText ==
  CASE pc = "close" /\ asked.kind = "print" -> "idle"
    [] pc = "close" /\ asked.kind # "print" -> "apply"
    [] pc = "open" /\ asked.kind = "print"  -> "close"
    [] OTHER                                -> "find"

\* Mutant: the activations below the first give their locks back, it does not.
GetStringKeepsFirst ==
  /\ pc \in {"open", "close"}
  /\ at \notin locked
  /\ hardlocked' = IF pc = "open" THEN hardlocked \union {at} ELSE hardlocked \ {at}
  /\ \/ /\ NextText(at) \in Objects
        /\ locked' = locked \union {at}
        /\ climb' = climb \union {at}
        /\ at' = NextText(at)
        /\ UNCHANGED <<asked, pc, text, answer>>
     \/ /\ NextText(at) \in Names
        /\ locked' = locked \ (climb \ {asked.key, asked.on})
        /\ climb' = {}
        /\ text' = IF pc = "open" THEN NextText(at)
                   ELSE IF AfterText = "idle" THEN DefaultText ELSE text
        /\ pc' = AfterText
        /\ at' = IF AfterText = "close" THEN asked.on ELSE Undefined
        /\ asked' = IF AfterText = "idle" THEN Nothing ELSE asked
        /\ answer' = IF AfterText = "idle" THEN text ELSE answer
  /\ UNCHANGED <<life, property, held, level, found, condemned, kept>>

GetString ==
  /\ pc \in {"open", "close"}
  /\ at \notin locked
  /\ hardlocked' = IF pc = "open" THEN hardlocked \union {at} ELSE hardlocked \ {at}
  /\ \/ /\ NextText(at) \in Objects
        /\ locked' = locked \union {at}
        /\ climb' = climb \union {at}
        /\ at' = NextText(at)
        /\ UNCHANGED <<asked, pc, text, answer>>
     \/ /\ NextText(at) \in Names
        /\ locked' = locked \ climb
        /\ climb' = {}
        /\ text' = IF pc = "open" THEN NextText(at)
                   ELSE IF AfterText = "idle" THEN DefaultText ELSE text
        /\ pc' = AfterText
        /\ at' = IF AfterText = "close" THEN asked.on ELSE Undefined
        /\ asked' = IF AfterText = "idle" THEN Nothing ELSE asked
        /\ answer' = IF AfterText = "idle" THEN text ELSE answer
  /\ UNCHANGED <<life, property, held, level, found, condemned, kept>>

-----------------------------------------------------------------------------
(* simplejs_dynamic_object_find_property                                    *)

\* simplejs_variable_to_hash_string with MODE_CLOSE follows: it locks the key.
CloseKey ==
  /\ pc' = IF asked.key \in Objects THEN "close" ELSE "apply"
  /\ at' = IF asked.key \in Objects THEN asked.key ELSE Undefined

\* The property is there: the list stays locked.
Find ==
  /\ pc = "find"
  /\ level \notin locked
  /\ property[level][text] # Absent
  /\ locked' = locked \union {level}
  /\ found' = TRUE
  /\ CloseKey
  /\ UNCHANGED <<life, property, hardlocked, held, asked, level, climb, text, answer,
                 condemned, kept>>

\* A write creates the property.
FindCreates ==
  /\ pc = "find"
  /\ level \notin locked
  /\ property[level][text] = Absent
  /\ asked.kind = "set"
  /\ property' = [property EXCEPT ![level][text] = Undefined]
  /\ locked' = locked \union {level}
  /\ found' = TRUE
  /\ CloseKey
  /\ UNCHANGED <<life, hardlocked, held, asked, level, climb, text, answer, condemned, kept>>

\* Mutant: find_property returns NULL with the list locked.
FindFailsLocked ==
  /\ pc = "find"
  /\ level \notin locked
  /\ property[level][text] = Absent
  /\ CloseKey
  /\ locked' = locked \union {level}
  /\ UNCHANGED <<life, property, hardlocked, held, asked, level, climb, text,
                 found, answer, condemned, kept>>

\* There is none, or no memory for a new one: the list is unlocked again.
FindFails ==
  /\ pc = "find"
  /\ level \notin locked
  /\ property[level][text] = Absent
  /\ CloseKey
  /\ UNCHANGED <<life, property, locked, hardlocked, held, asked, level, climb, text,
                 found, answer, condemned, kept>>

-----------------------------------------------------------------------------
(* What get, set and delete do with the property.                           *)

Return ==
  /\ pc' = "idle"
  /\ asked' = Nothing
  /\ level' = Undefined
  /\ found' = FALSE
  /\ text' = DefaultText
  /\ UNCHANGED <<at, climb>>

Answer(value) ==
  /\ answer' = value
  /\ held' = held \union ({value} \cap Objects)
  /\ Return

\* Mutant: a get that finds its property returns with the list locked.
GetFoundLocked ==
  /\ pc = "apply" /\ asked.kind = "get" /\ found
  /\ Answer(property[level][text])
  /\ UNCHANGED <<life, property, locked, hardlocked, condemned, kept>>

GetFound ==
  /\ pc = "apply" /\ asked.kind = "get" /\ found
  /\ Answer(property[level][text])
  /\ locked' = locked \ {level}
  /\ UNCHANGED <<life, property, hardlocked, condemned, kept>>

GetFromPrototype ==
  /\ pc = "apply" /\ asked.kind = "get" /\ ~found
  /\ property[level][PrototypeName] \in Objects \ {level}
  /\ level' = property[level][PrototypeName]
  /\ OpenKey(asked.key)
  /\ UNCHANGED <<life, property, locked, hardlocked, held, asked, answer, condemned, kept>>

GetNothing ==
  /\ pc = "apply" /\ asked.kind = "get" /\ ~found
  /\ property[level][PrototypeName] \notin Objects \ {level}
  /\ Answer(Undefined)
  /\ UNCHANGED <<life, property, locked, hardlocked, condemned, kept>>

\* A set or a delete of a property that is not there, or that may not be
\* touched: the second return leaves the list locked.
Refused ==
  \/ ~found
  \/ asked.kind = "set" /\ text = PrototypeName
  \/ asked.kind = "set" /\ text = StringName /\ level \in hardlocked
  \/ asked.kind = "delete" /\ text \in Hardcoded

Refuse ==
  /\ pc = "apply" /\ asked.kind \in {"set", "delete"} /\ Refused
  /\ kept' = IF found THEN kept \union {level} ELSE kept
  /\ Return
  /\ UNCHANGED <<life, property, locked, hardlocked, held, answer, condemned>>

Set ==
  /\ pc = "apply" /\ asked.kind = "set" /\ ~Refused
  /\ property' = [property EXCEPT ![level][text] = asked.value]
  /\ locked' = locked \ {level}
  /\ Return
  /\ UNCHANGED <<life, hardlocked, held, answer, condemned, kept>>

Delete ==
  /\ pc = "apply" /\ asked.kind = "delete" /\ ~Refused
  /\ property' = [property EXCEPT ![level][text] = Absent]
  /\ locked' = locked \ {level}
  /\ Return
  /\ UNCHANGED <<life, hardlocked, held, answer, condemned, kept>>

-----------------------------------------------------------------------------
(* The collector: simplejs_dynamic_object_release                           *)

\* The reference count is zero: nothing holds o, itself not counted.
Dead(o) ==
  /\ life[o] = "alive"
  /\ o \notin held
  /\ \A p \in Objects \ {o}, n \in Names : property[p][n] # o

Condemn(o) ==
  /\ condemned = Undefined
  /\ Dead(o)
  /\ condemned' = o
  /\ UNCHANGED <<life, property, locked, hardlocked, held, asked, walk, answer, kept>>

\* The lock is waited for; the values are dereferenced and all is freed.
Release ==
  /\ condemned # Undefined
  /\ condemned \notin locked
  /\ life' = [life EXCEPT ![condemned] = "released"]
  /\ property' = [property EXCEPT ![condemned] = Blank]
  /\ condemned' = Undefined
  /\ UNCHANGED <<locked, hardlocked, held, asked, walk, answer, kept>>

-----------------------------------------------------------------------------
ProgramStep ==
  \/ GetString \/ Find \/ FindCreates \/ FindFails
  \/ GetFound \/ GetFromPrototype \/ GetNothing \/ Refuse \/ Set \/ Delete

CollectorStep == Release \/ \E o \in Objects : Condemn(o)

\* What the program asks: of an object it holds, by a name or an object it holds.
Asks ==
  \E o \in held :
    \/ Ask([Nothing EXCEPT !.kind = "print", !.on = o])
    \/ \E k \in Names \union held, kind \in {"get", "delete"} :
         Ask([Nothing EXCEPT !.kind = kind, !.on = o, !.key = k])
    \/ \E k \in Names, v \in held \union Names \union FastStrings \union {Undefined} :
         /\ <<o, k, v>> \in Writable
         /\ Ask([kind |-> "set", on |-> o, key |-> k, value |-> v])
    \/ \E k \in held :
         Ask([kind |-> "set", on |-> o, key |-> k, value |-> Undefined])

Next ==
  \/ \E o \in Objects, p \in Objects \union {Undefined} : Create(o, p)
  \/ \E o \in Objects : Forget(o)
  \/ Asks
  \/ ProgramStep
  \/ CollectorStep

Spec == Init /\ [][Next]_vars
FairSpec == Spec /\ WF_vars(ProgramStep) /\ WF_vars(CollectorStep)

-----------------------------------------------------------------------------
(* Properties                                                               *)

\* No request leaves a property list locked but one that is refused because of
\* what it names: the early returns of set and delete (dynamic_object.c:246, 287).
LocksAreReturned == pc = "idle" => locked = kept

\* The objects whose locks get_string takes for the text of o.
TextChain(o) ==
  LET From[seen \in SUBSET Objects, p \in Names \union Objects] ==
        IF p \in Names \union seen THEN {}
        ELSE {p} \union From[seen \union {p}, NextText(p)]
  IN From[{}, o]

\* The objects a search for the name passes, o first, to the one that has it.
Searched(o, name) ==
  LET From[p \in Objects] ==
        {p} \union (IF property[p][name] # Absent \/ asked.kind # "get" THEN {}
                    ELSE UNION {From[q] : q \in {property[p][PrototypeName]} \cap (Objects \ {p})})
  IN From[o]

\* Requests the locks cannot serve: on the way is an object left locked; the
\* text of an object leads back to it; or the object that has the property, and
\* is locked when the key is closed, is one whose text the key's is taken from.
Doomed ==
  LET source == IF asked.kind = "print" THEN asked.on ELSE asked.key
      chain == IF source \in Objects THEN TextChain(source) ELSE {}
      ends == {NextText(o) : o \in chain} \cap Names
      name == IF chain = {} THEN source ELSE CHOOSE n \in ends : TRUE
  IN \/ chain \cap kept # {}
     \/ chain # {} /\ ends = {}
     \/ /\ asked.kind # "print"
        /\ \/ Searched(asked.on, name) \cap kept # {}
           \/ \E o \in Searched(asked.on, name) \cap chain :
                asked.kind = "set" \/ property[o][name] # Absent

\* Every other request ends, and those that end are no others; only a write that
\* finds no memory for its property closes its key without a lock.  A request
\* that ends has closed what it opened: no string property stays hardlocked.
OperationsEnd ==
  /\ (asked # Nothing /\ ~Doomed) ~> (asked = Nothing)
  /\ [][asked # Nothing /\ asked' = Nothing
          => /\ ~Doomed \/ (asked.kind = "set" /\ ~found)
             /\ hardlocked' = {}]_vars

\* Every object that nothing holds is released, unless the collector waits for
\* one that a request left locked (dynamic_object.c:30): then it waits for ever.
DeadAreReleased ==
  []<>(condemned \in kept \/ \A o \in Objects : ~Dead(o))

\* A write takes place when its list is locked and its property there: nothing
\* it does afterwards can fail, and nobody looks before it ends.
Written == asked.kind = "set" /\ found /\ ~Refused

Map == INSTANCE PropertyMap WITH
  table <- IF Written THEN [property EXCEPT ![level][text] = asked.value] ELSE property,
  asked <- IF Written THEN Nothing ELSE asked

\* Requests look atomic: each reads or writes the property that the text of its
\* key names, and a read sees the nearest of the prototypes that has it.
ImplementsMap == Map!Spec
=============================================================================
