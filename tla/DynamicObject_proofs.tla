------------------------ MODULE DynamicObject_proofs ------------------------
(***************************************************************************)
(* For any objects and names: no request leaves a property list locked but  *)
(* one refused because of what it names, and requests look atomic.          *)
(*                                                                         *)
(* The locked lists are at any time those left locked, those of the objects *)
(* whose get_string has not returned, and that of the property found; the   *)
(* three share no object, which is why giving one back gives back no other. *)
(*                                                                         *)
(* A request looks atomic because at each of its steps what is still to be  *)
(* found from where it is, in the state of that moment, is what is to be    *)
(* found from where it began; the collector's object lies on none of its    *)
(* ways, and the program changes no list before its request ends.           *)
(***************************************************************************)
EXTENDS DynamicObject, TLAPS

\* The list find_property returned with.
Taken == {o \in {level} : found}

Locks ==
  /\ locked = kept \union climb \union Taken
  /\ kept \cap climb = {}
  /\ Taken \cap (kept \union climb) = {}

\* What is held where: the activations live in open and close, a property is
\* found between find and the return, and what is printed is not searched.
Phases ==
  /\ held \subseteq Objects
  /\ pc \in {"idle", "open", "find", "close", "apply"}
  /\ climb # {} => pc \in {"open", "close"}
  /\ found => pc \in {"close", "apply"} /\ asked.kind # "print"
  /\ pc \in {"find", "apply"} => asked.kind # "print"

IInv == Locks /\ Phases

LEMMA InitIInv == Init => IInv
  BY DEF Init, IInv, Locks, Phases, Taken

\* Opening a key takes no lock yet, and a name needs no text.
LEMMA OpenKeyPhases ==
  ASSUME NEW key, OpenKey(key)
  PROVE  climb' = {} /\ ~found' /\ pc' = IF key \in Names THEN "find" ELSE "open"
  BY DEF OpenKey

LEMMA AskIInv == ASSUME IInv, Asks PROVE IInv'
<1>1. PICK request \in [kind : {"get", "set", "delete", "print"},
                        on : held, key : Names \union held \union {Undefined},
                        value : held \union Names \union FastStrings \union {Undefined}] : Ask(request)
  BY DEF Asks, Nothing
<1>2. pc = "idle" /\ UNCHANGED <<locked, held, kept>> /\ asked' = request
  BY <1>1 DEF Ask
<1>3. climb' = {} /\ ~found'
  BY <1>1, OpenKeyPhases DEF Ask
<1>4. pc' \in {"open", "find"}
  BY <1>1, OpenKeyPhases DEF Ask
<1>5. pc' = "find" => request.kind # "print"
  BY <1>1, OpenKeyPhases, DynamicObjectAssumption DEF Ask, IInv, Phases
<1>6. Locks'
  BY <1>2, <1>3 DEF IInv, Locks, Phases, Taken
<1>7. Phases'
  BY <1>2, <1>3, <1>4, <1>5 DEF IInv, Phases
<1> QED BY <1>6, <1>7 DEF IInv

LEMMA GetStringIInv == ASSUME IInv, GetString PROVE IInv'
<1>1. pc \in {"open", "close"} /\ at \notin locked
      /\ UNCHANGED <<held, level, found, kept>>
  BY DEF GetString
<1>2. CASE NextText(at) \in Objects /\ locked' = locked \union {at}
           /\ climb' = climb \union {at} /\ UNCHANGED <<asked, pc>>
  <2>1. Locks'
    BY <1>1, <1>2 DEF IInv, Locks, Taken
  <2>2. Phases'
    BY <1>1, <1>2 DEF IInv, Phases
  <2> QED BY <2>1, <2>2 DEF IInv
<1>3. CASE locked' = locked \ climb /\ climb' = {} /\ pc' = AfterText
           /\ asked' = IF AfterText = "idle" THEN Nothing ELSE asked
  <2>1. Locks'
    BY <1>1, <1>3 DEF IInv, Locks, Taken
  <2>2. AfterText = "idle" => pc = "close" /\ asked.kind = "print"
    BY DEF AfterText
  <2>3. AfterText = "close" => pc = "open"
    BY DEF AfterText
  <2>4. AfterText \in {"find", "apply"} => asked.kind # "print"
    BY <1>1 DEF AfterText
  <2>5. AfterText = "find" => pc = "open"
    BY <1>1 DEF AfterText
  <2>6. AfterText \in {"idle", "find", "close", "apply"}
    BY DEF AfterText
  <2>7. Phases'
    BY <1>1, <1>3, <2>2, <2>3, <2>4, <2>5, <2>6 DEF IInv, Phases
  <2> QED BY <2>1, <2>7 DEF IInv
<1> QED BY <1>2, <1>3 DEF GetString

\* find_property returns with the list locked, or with NULL and without.
LEMMA FindIInv == ASSUME IInv, Find \/ FindCreates \/ FindFails PROVE IInv'
<1>1. /\ pc = "find" /\ level \notin locked /\ pc' \in {"close", "apply"}
      /\ UNCHANGED <<held, asked, level, climb, kept>>
      /\ \/ locked' = locked \union {level} /\ found' = TRUE
         \/ UNCHANGED <<locked, found>>
  BY DEF Find, FindCreates, FindFails, CloseKey
<1>2. ~found /\ climb = {} /\ asked.kind # "print"
  BY <1>1 DEF IInv, Phases
<1>3. Locks'
  BY <1>1, <1>2 DEF IInv, Locks, Taken
<1>4. Phases'
  BY <1>1, <1>2 DEF IInv, Phases
<1> QED BY <1>3, <1>4 DEF IInv

\* A request that is answered or carried out gives its one lock back.
LEMMA ApplyIInv ==
  ASSUME IInv, GetFound \/ GetNothing \/ Refuse \/ Set \/ Delete
  PROVE  IInv'
<1>1. pc = "apply" /\ climb = {} /\ climb' = {} /\ pc' = "idle" /\ ~found'
  BY DEF GetFound, GetNothing, Refuse, Set, Delete, Answer, Return, IInv, Phases
<1>2. held' \subseteq Objects
  BY DEF GetFound, GetNothing, Refuse, Set, Delete, Answer, IInv, Phases
<1>3. locked' = kept'
  <2>1. CASE GetFound
    BY <1>1, <2>1 DEF GetFound, IInv, Locks, Taken
  <2>2. CASE GetNothing
    BY <1>1, <2>2 DEF GetNothing, IInv, Locks, Taken
  <2>3. CASE Refuse
    BY <1>1, <2>3 DEF Refuse, IInv, Locks, Taken
  <2>4. CASE Set \/ Delete
    BY <1>1, <2>4 DEF Set, Delete, Refused, IInv, Locks, Taken
  <2> QED BY <2>1, <2>2, <2>3, <2>4
<1>4. Locks'
  BY <1>1, <1>3 DEF Locks, Taken
<1>5. Phases'
  BY <1>1, <1>2 DEF Phases
<1> QED BY <1>4, <1>5 DEF IInv

LEMMA GetFromPrototypeIInv == ASSUME IInv, GetFromPrototype PROVE IInv'
<1>1. /\ pc = "apply" /\ asked.kind = "get" /\ ~found
      /\ UNCHANGED <<locked, held, asked, kept>>
  BY DEF GetFromPrototype
<1>2. climb' = {} /\ ~found' /\ pc' \in {"open", "find"}
  BY OpenKeyPhases DEF GetFromPrototype
<1>3. Locks'
  BY <1>1, <1>2 DEF IInv, Locks, Phases, Taken
<1>4. Phases'
  BY <1>1, <1>2 DEF IInv, Phases
<1> QED BY <1>3, <1>4 DEF IInv

LEMMA NextIInv == ASSUME IInv, [Next]_vars PROVE IInv'
<1>1. ASSUME NEW o \in Objects, NEW p \in Objects \union {Undefined}, Create(o, p)
      PROVE  IInv'
  BY <1>1 DEF Create, IInv, Locks, Phases, Taken, walk
<1>2. ASSUME NEW o \in Objects, Forget(o) PROVE IInv'
  BY <1>2 DEF Forget, IInv, Locks, Phases, Taken, walk
<1>3. CASE CollectorStep
  BY <1>3 DEF CollectorStep, Condemn, Release, IInv, Locks, Phases, Taken, walk
<1>4. CASE UNCHANGED vars
  BY <1>4 DEF vars, IInv, Locks, Phases, Taken
<1>5. CASE ProgramStep
  BY <1>5, GetStringIInv, FindIInv, ApplyIInv, GetFromPrototypeIInv DEF ProgramStep
<1> QED BY <1>1, <1>2, <1>3, <1>4, <1>5, AskIInv DEF Next

\* For every number of objects and names, a request that ends has given back
\* the locks of all property lists it took, those it refuses excepted.
THEOREM LocksAreAlwaysReturned == Spec => []LocksAreReturned
<1>1. IInv => LocksAreReturned
  BY DEF IInv, Locks, Phases, Taken, LocksAreReturned
<1> QED BY InitIInv, NextIInv, <1>1, PTL DEF Spec

-----------------------------------------------------------------------------
(* Requests look atomic.  Ways are sequences of steps from object to object; *)
(* they are described by the sets closed under these steps, so nothing here  *)
(* is recursive.                                                            *)

\* The object other than o that a property of o holds in w, if it holds one.
Other(w, o, n) == {w[o][n]} \cap (Objects \ {o})

\* Where the text of an object is looked for next, and what it ends with.
TextSteps(w) ==
  [o \in Objects |->
     IF Other(w, o, StringName) # {} THEN Other(w, o, StringName)
     ELSE IF w[o][StringName] \in FastStrings THEN {} ELSE Other(w, o, PrototypeName)]
TextEnds(w) ==
  [o \in Objects |->
     IF w[o][StringName] \in FastStrings THEN Spelling[w[o][StringName]] ELSE DefaultText]
Texts(w, key) == IF key \in Names THEN {key} ELSE Map!EndOf(key, TextSteps(w), TextEnds(w))

\* Where a property is looked for next, and what the search ends with.
PrototypeSteps(w) == [o \in Objects |-> Other(w, o, PrototypeName)]
ValueSteps(w, n) ==
  [o \in Objects |-> IF w[o][n] # Absent THEN {} ELSE Other(w, o, PrototypeName)]
ValueEnds(w, n) == [o \in Objects |-> IF w[o][n] # Absent THEN w[o][n] ELSE Undefined]
ValuesOf(w, o, n) == Map!EndOf(o, ValueSteps(w, n), ValueEnds(w, n))

\* The steps of next lead from x to all of Y.
Leads(next, x, Y) ==
  \A S \in SUBSET Objects : x \in S /\ (\A p \in S : next[p] \subseteq S) => Y \subseteq S

\* What get_string is asked the text of.
Opened == IF asked.kind = "print" THEN asked.on ELSE asked.key

\* Lists of properties; the hardcoded ones are always there.
Tables ==
  {w \in [Objects -> [Names -> Values \union {Absent}]] :
     \A o \in Objects, n \in Hardcoded : w[o][n] # Absent}

Types ==
  /\ property \in Tables
  /\ life \in [Objects -> {"unborn", "alive", "released"}]
  /\ text \in Names

\* What is asked: only of what is printed there is no key.
Requests ==
  {r \in [kind : {"get", "set", "delete", "print"}, on : held,
          key : held \union Names \union {Undefined},
          value : held \union Names \union FastStrings \union {Undefined}] :
     r.kind # "print" => r.key # Undefined}

Asked ==
  /\ pc = "idle" <=> asked = Nothing
  /\ pc # "idle" =>
       /\ asked \in Requests
       /\ level \in Objects
       /\ asked.kind # "get" => level = asked.on

\* Only objects that are alive are held or have properties; the collector's
\* object is held by no other one.
Living ==
  /\ \A o \in held : life[o] = "alive"
  /\ \A o \in Objects, n \in Names :
       property[o][n] \in Objects => life[property[o][n]] = "alive"
  /\ \A o \in Objects : life[o] # "alive" => property[o] = Blank
  /\ condemned # Undefined => condemned \in Objects /\ Dead(condemned)

\* Where a request is: on the way from the key to its text, and from the object
\* asked to its prototypes.  What is hardlocked lies on the way that opening
\* went and closing has still to go.
Walking ==
  /\ pc \in {"open", "close"} =>
       /\ at \in Objects /\ Opened \in Objects
       /\ Leads(TextSteps(property), Opened, {at} \union hardlocked)
  /\ pc = "find" => IF asked.key \in Names THEN hardlocked = {}
                    ELSE Leads(TextSteps(property), asked.key, hardlocked)
  /\ pc = "close" => Leads(TextSteps(property), at, hardlocked)
  /\ pc \in {"idle", "apply"} => hardlocked = {}
  /\ pc # "idle" => Leads(PrototypeSteps(property), asked.on, {level})

\* What the request has found so far is what the map would.
Meant ==
  /\ pc = "open" => Texts(property, Opened) = Texts(property, at)
  /\ pc \in {"find", "close", "apply"} => Texts(property, Opened) = {text}
  /\ pc # "idle" /\ asked.kind = "get" =>
       \A n \in Texts(property, asked.key) :
         ValuesOf(property, asked.on, n) = ValuesOf(property, level, n)
  /\ pc \in {"close", "apply"} /\ asked.kind # "print" =>
       (found <=> property[level][text] # Absent)

MInv == Types /\ Asked /\ Living /\ Walking /\ Meant

-----------------------------------------------------------------------------
(* Ways that single steps lead.                                             *)

\* A step further along the way changes neither what is at its end ...
LEMMA EndMovesOn ==
  ASSUME NEW next \in [Objects -> SUBSET Objects], NEW end, NEW o \in Objects,
         NEW q \in Objects, next[o] = {q}
  PROVE  Map!EndOf(o, next, end) = Map!EndOf(q, next, end)
<1>1. ASSUME NEW v \in Map!EndOf(o, next, end), NEW S \in SUBSET Objects,
             q \in S, \A p \in S : next[p] \subseteq S
      PROVE  \E p \in S : next[p] = {} /\ end[p] = v
  <2> DEFINE T == S \union {o}
  <2>1. T \in SUBSET Objects /\ o \in T /\ \A p \in T : next[p] \subseteq T
    BY <1>1
  <2>2. PICK p \in T : next[p] = {} /\ end[p] = v
    BY <1>1, <2>1 DEF Map!EndOf
  <2> QED
    BY <2>2
<1>2. ASSUME NEW v \in Map!EndOf(q, next, end), NEW S \in SUBSET Objects,
             o \in S, \A p \in S : next[p] \subseteq S
      PROVE  \E p \in S : next[p] = {} /\ end[p] = v
  BY <1>2 DEF Map!EndOf
<1>3. \A v \in Map!EndOf(o, next, end) : v \in Map!EndOf(q, next, end)
  <2> TAKE v \in Map!EndOf(o, next, end)
  <2>1. v \in Map!Values
    BY DEF Map!EndOf
  <2> QED
    BY <1>1, <2>1 DEF Map!EndOf
<1>4. \A v \in Map!EndOf(q, next, end) : v \in Map!EndOf(o, next, end)
  <2> TAKE v \in Map!EndOf(q, next, end)
  <2>1. v \in Map!Values
    BY DEF Map!EndOf
  <2> QED
    BY <1>2, <2>1 DEF Map!EndOf
<1> QED
  BY <1>3, <1>4

\* ... and where no step leads on is the end.
LEMMA EndIsHere ==
  ASSUME NEW next \in [Objects -> SUBSET Objects], NEW end, NEW o \in Objects,
         next[o] = {}, end[o] \in Values
  PROVE  Map!EndOf(o, next, end) = {end[o]}
<1>1. {o} \in SUBSET Objects /\ \A p \in {o} : next[p] \subseteq {o}
  OBVIOUS
<1>2. \A v \in Map!EndOf(o, next, end) : v = end[o]
  BY <1>1 DEF Map!EndOf
<1>3. end[o] \in Map!EndOf(o, next, end)
  BY DEF Map!EndOf, Map!Values, Values
<1> QED
  BY <1>2, <1>3

\* What differs is in c, and no other object leads to c.
SameBut(c, next, end, next2, end2) ==
  /\ next \in [Objects -> SUBSET Objects] /\ next2 \in [Objects -> SUBSET Objects]
  /\ \A p \in Objects \ {c} : next[p] = next2[p] /\ end[p] = end2[p] /\ c \notin next[p]

\* What changes only in an object that no other leads to changes no way that
\* begins elsewhere.
LEMMA EndIsKept ==
  ASSUME NEW next, NEW end, NEW next2, NEW end2, NEW c, NEW o \in Objects \ {c},
         SameBut(c, next, end, next2, end2)
  PROVE  Map!EndOf(o, next, end) \subseteq Map!EndOf(o, next2, end2)
<1> SUFFICES ASSUME NEW v \in Map!EndOf(o, next, end)
             PROVE  v \in Map!EndOf(o, next2, end2)
  OBVIOUS
<1>1. ASSUME NEW S \in SUBSET Objects, o \in S, \A p \in S : next2[p] \subseteq S
      PROVE  \E p \in S : next2[p] = {} /\ end2[p] = v
  <2> DEFINE T == S \ {c}
  <2>1. T \in SUBSET Objects /\ o \in T /\ \A p \in T : next[p] \subseteq T
    BY <1>1 DEF SameBut
  <2>2. PICK p \in T : next[p] = {} /\ end[p] = v
    BY <2>1 DEF Map!EndOf
  <2> QED
    BY <2>2 DEF SameBut
<1>2. v \in Map!Values
  BY DEF Map!EndOf
<1> QED
  BY <1>1, <1>2 DEF Map!EndOf

LEMMA EndStays ==
  ASSUME NEW next, NEW end, NEW next2, NEW end2, NEW c, NEW o \in Objects \ {c},
         SameBut(c, next, end, next2, end2)
  PROVE  Map!EndOf(o, next, end) = Map!EndOf(o, next2, end2)
<1>1. Map!EndOf(o, next, end) \subseteq Map!EndOf(o, next2, end2)
  BY EndIsKept, Zenon
<1>2. SameBut(c, next2, end2, next, end)
  BY DEF SameBut
<1>3. Map!EndOf(o, next2, end2) \subseteq Map!EndOf(o, next, end)
  BY <1>2, EndIsKept, Zenon
<1> QED
  BY <1>1, <1>3

LEMMA WayStays ==
  ASSUME NEW next, NEW end, NEW next2, NEW end2, NEW c, NEW x \in Objects \ {c}, NEW Y,
         SameBut(c, next, end, next2, end2), Leads(next, x, Y)
  PROVE  Leads(next2, x, Y)
<1> SUFFICES ASSUME NEW S \in SUBSET Objects, x \in S, \A p \in S : next2[p] \subseteq S
             PROVE  Y \subseteq S
  BY DEF Leads
<1> DEFINE T == S \ {c}
<1>1. T \in SUBSET Objects /\ x \in T /\ \A p \in T : next[p] \subseteq T
  BY DEF SameBut
<1> QED
  BY <1>1 DEF Leads

\* A way goes around an object that no other leads to.
LEMMA WayAvoids ==
  ASSUME NEW next, NEW end, NEW next2, NEW end2, NEW c, NEW x \in Objects \ {c}, NEW Y,
         SameBut(c, next, end, next2, end2), Leads(next, x, Y)
  PROVE  c \notin Y
<1> DEFINE T == Objects \ {c}
<1>1. T \in SUBSET Objects /\ x \in T /\ \A p \in T : next[p] \subseteq T
  BY DEF SameBut
<1> QED
  BY <1>1 DEF Leads

\* A way to the last object can be left at the next one, and gone one step further.
LEMMA WayMovesOn ==
  ASSUME NEW next \in [Objects -> SUBSET Objects], NEW o \in Objects, NEW q \in Objects,
         next[o] = {q}
  PROVE  /\ \A Y : Leads(next, o, Y) => Leads(next, q, Y \ {o})
         /\ \A x, Y : Leads(next, x, Y \union {o}) => Leads(next, x, Y \union {o, q})
<1>1. ASSUME NEW Y, Leads(next, o, Y), NEW S \in SUBSET Objects, q \in S,
             \A p \in S : next[p] \subseteq S
      PROVE  Y \ {o} \subseteq S
  <2> DEFINE T == S \union {o}
  <2>1. T \in SUBSET Objects /\ o \in T /\ \A p \in T : next[p] \subseteq T
    BY <1>1
  <2> QED
    BY <1>1, <2>1 DEF Leads
<1>2. ASSUME NEW x, NEW Y, Leads(next, x, Y \union {o}), NEW S \in SUBSET Objects, x \in S,
             \A p \in S : next[p] \subseteq S
      PROVE  Y \union {o, q} \subseteq S
  BY <1>2 DEF Leads
<1> QED
  BY <1>1, <1>2 DEF Leads

LEMMA WayEnds ==
  ASSUME NEW next \in [Objects -> SUBSET Objects], NEW o \in Objects, next[o] = {},
         NEW Y, Leads(next, o, Y)
  PROVE  Y \subseteq {o}
<1>1. {o} \in SUBSET Objects /\ \A p \in {o} : next[p] \subseteq {o}
  OBVIOUS
<1> QED
  BY <1>1 DEF Leads

-----------------------------------------------------------------------------
(* The ways of texts and values.                                            *)

LEMMA StepTypes ==
  ASSUME NEW w
  PROVE  /\ TextSteps(w) \in [Objects -> SUBSET Objects]
         /\ PrototypeSteps(w) \in [Objects -> SUBSET Objects]
         /\ \A n : ValueSteps(w, n) \in [Objects -> SUBSET Objects]
  BY DEF TextSteps, PrototypeSteps, ValueSteps, Other

\* get_string goes the way of the texts.
LEMMA NextTextSteps ==
  ASSUME property \in Tables, NEW o \in Objects
  PROVE  /\ NextText(o) \in Objects \union Names
         /\ NextText(o) \in Objects => TextSteps(property)[o] = {NextText(o)}
         /\ NextText(o) \in Names => /\ TextSteps(property)[o] = {}
                                    /\ TextEnds(property)[o] = NextText(o)
<1>1. property[o][StringName] \in Values \union {Absent}
  BY DynamicObjectAssumption DEF Tables
<1> QED
  BY <1>1, DynamicObjectAssumption DEF NextText, TextSteps, TextEnds, Other

LEMMA TextsAreNames ==
  ASSUME NEW w, NEW key \in Objects \union Names
  PROVE  Texts(w, key) \subseteq Names
<1>1. CASE key \in Names
  BY <1>1 DEF Texts
<1>2. CASE key \notin Names
  <2>1. TextSteps(w) \in [Objects -> SUBSET Objects] /\ \A p \in Objects : TextEnds(w)[p] \in Names
    BY StepTypes, DynamicObjectAssumption DEF TextEnds
  <2>2. Objects \in SUBSET Objects /\ key \in Objects /\ \A p \in Objects : TextSteps(w)[p] \subseteq Objects
    BY <1>2, <2>1
  <2>3. ASSUME NEW n \in Map!EndOf(key, TextSteps(w), TextEnds(w))
        PROVE  n \in Names
    <3>1. \E p \in Objects : TextSteps(w)[p] = {} /\ TextEnds(w)[p] = n
      BY <2>2 DEF Map!EndOf
    <3> QED
      BY <2>1, <3>1
  <2> QED
    BY <1>2, <2>3 DEF Texts
<1> QED
  BY <1>1, <1>2

LEMMA TextsMove ==
  ASSUME property \in Tables, NEW o \in Objects
  PROVE  /\ NextText(o) \in Objects => Texts(property, o) = Texts(property, NextText(o))
         /\ NextText(o) \in Names => Texts(property, o) = {NextText(o)}
<1>1. o \notin Names /\ (NextText(o) \in Objects => NextText(o) \notin Names)
  BY DynamicObjectAssumption
<1>2. ASSUME NextText(o) \in Objects
      PROVE  Texts(property, o) = Texts(property, NextText(o))
  BY <1>1, <1>2, NextTextSteps, StepTypes, EndMovesOn DEF Texts
<1>3. ASSUME NextText(o) \in Names
      PROVE  Texts(property, o) = {NextText(o)}
  BY <1>1, <1>3, NextTextSteps, StepTypes, EndIsHere DEF Texts, Values
<1> QED
  BY <1>2, <1>3

LEMMA ValuesMove ==
  ASSUME NEW w \in Tables, NEW o \in Objects, NEW n \in Names
  PROVE  /\ w[o][n] # Absent => ValuesOf(w, o, n) = {w[o][n]}
         /\ w[o][n] = Absent =>
              /\ w[o][PrototypeName] \in Objects \ {o} =>
                   ValuesOf(w, o, n) = ValuesOf(w, w[o][PrototypeName], n)
              /\ w[o][PrototypeName] \notin Objects \ {o} => ValuesOf(w, o, n) = {Undefined}
<1> DEFINE next == ValueSteps(w, n)
           end == ValueEnds(w, n)
<1>0. next \in [Objects -> SUBSET Objects]
  BY StepTypes
<1>1. ASSUME w[o][n] # Absent
      PROVE  ValuesOf(w, o, n) = {w[o][n]}
  <2>1. next[o] = {} /\ end[o] = w[o][n] /\ end[o] \in Values
    BY <1>1 DEF ValueSteps, ValueEnds, Tables
  <2> QED
    BY <1>0, <2>1, EndIsHere DEF ValuesOf
<1>2. ASSUME w[o][n] = Absent, w[o][PrototypeName] \in Objects \ {o}
      PROVE  ValuesOf(w, o, n) = ValuesOf(w, w[o][PrototypeName], n)
  <2>1. next[o] = {w[o][PrototypeName]}
    BY <1>2 DEF ValueSteps, Other
  <2> QED
    BY <1>0, <1>2, <2>1, EndMovesOn DEF ValuesOf
<1>3. ASSUME w[o][n] = Absent, w[o][PrototypeName] \notin Objects \ {o}
      PROVE  ValuesOf(w, o, n) = {Undefined}
  <2>1. next[o] = {} /\ end[o] = Undefined /\ end[o] \in Values
    BY <1>3 DEF ValueSteps, ValueEnds, Other, Values
  <2> QED
    BY <1>0, <2>1, EndIsHere DEF ValuesOf
<1> QED
  BY <1>1, <1>2, <1>3

-----------------------------------------------------------------------------
(* MInv is inductive, on top of IInv.                                       *)

LEMMA InitMInv == ASSUME Init PROVE MInv
<1>1. Types
  BY DynamicObjectAssumption DEF Init, Types, Tables, Blank, Hardcoded, Values
<1>2. Asked /\ Walking /\ Meant
  BY DEF Init, Asked, Walking, Meant, Nothing
<1>3. Living
  BY DynamicObjectAssumption DEF Init, Living, Blank
<1> QED
  BY <1>1, <1>2, <1>3 DEF MInv

LEMMA CreateMInv ==
  ASSUME IInv, MInv, NEW o \in Objects, NEW p \in Objects \union {Undefined}, Create(o, p)
  PROVE  MInv'
<1>1. /\ pc = "idle" /\ life[o] = "unborn" /\ p \in held \union {Undefined}
      /\ life' = [life EXCEPT ![o] = "alive"]
      /\ property' = [property EXCEPT ![o][PrototypeName] = p]
      /\ held' = held \union {o}
      /\ UNCHANGED <<hardlocked, asked, pc, text, condemned>>
  BY DEF Create, walk
<1>2. held \subseteq Objects /\ PrototypeName \in Names
  BY DynamicObjectAssumption DEF IInv, Phases
<1>3. \A q \in Objects, n \in Names :
        property'[q][n] = IF q = o /\ n = PrototypeName THEN p ELSE property[q][n]
  BY <1>1, <1>2 DEF MInv, Types, Tables
<1>4. Types'
  <2>1. p \in Values /\ p # Absent
    BY <1>1, <1>2, DynamicObjectAssumption DEF Values
  <2>2. property' \in [Objects -> [Names -> Values \union {Absent}]]
    BY <1>1, <1>2, <2>1 DEF MInv, Types, Tables
  <2>3. Hardcoded \subseteq Names
    BY DynamicObjectAssumption DEF Hardcoded
  <2>4. \A q \in Objects, n \in Hardcoded : property'[q][n] # Absent
    BY <1>3, <2>1, <2>3 DEF MInv, Types, Tables
  <2>5. property' \in Tables
    BY <2>2, <2>4 DEF Tables
  <2> QED
    BY <1>1, <2>5 DEF MInv, Types
<1>5. Asked' /\ Walking' /\ Meant'
  BY <1>1 DEF MInv, Asked, Walking, Meant, Nothing
<1>6. Living'
  <2>1. \A q \in held' : life'[q] = "alive"
    BY <1>1, <1>2 DEF MInv, Types, Living
  <2>2. \A q \in Objects, n \in Names :
          property'[q][n] \in Objects => life'[property'[q][n]] = "alive"
    BY <1>1, <1>2, <1>3, DynamicObjectAssumption DEF MInv, Types, Living
  <2>3. \A q \in Objects : life'[q] # "alive" => property'[q] = Blank
    BY <1>1 DEF MInv, Types, Tables, Living
  <2>4. condemned # Undefined => condemned \in Objects /\ Dead(condemned)'
    BY <1>1, <1>2, <1>3 DEF MInv, Types, Living, Dead
  <2> QED
    BY <1>1, <2>1, <2>2, <2>3, <2>4 DEF Living
<1> QED
  BY <1>4, <1>5, <1>6 DEF MInv

\* Steps that change no object.
LEMMA LivingStays ==
  ASSUME Living, UNCHANGED <<life, property, condemned>>, held' \subseteq held
  PROVE  Living'
  BY DEF Living, Dead

LEMMA ForgetMInv ==
  ASSUME MInv, NEW o \in Objects, Forget(o)
  PROVE  MInv'
<1>1. /\ pc = "idle" /\ held' \subseteq held
      /\ UNCHANGED <<life, property, hardlocked, asked, pc, text, condemned>>
  BY DEF Forget, walk
<1>2. Types'
  BY <1>1 DEF MInv, Types
<1>3. Asked' /\ Walking' /\ Meant'
  BY <1>1 DEF MInv, Asked, Walking, Meant, Nothing
<1> QED
  BY <1>1, <1>2, <1>3, LivingStays DEF MInv

\* A key is opened: nothing is on the way yet.
LEMMA OpenKeyWalks ==
  ASSUME MInv, NEW key \in Objects \union Names, OpenKey(key),
         asked' # Nothing, Opened' = key, level' \in Objects,
         key \in Names => asked'.kind # "print" /\ asked'.key = key,
         hardlocked = {}, UNCHANGED <<property, hardlocked>>,
         Leads(PrototypeSteps(property), asked'.on, {level'}),
         asked'.kind = "get" =>
           \A n \in Texts(property, asked'.key) :
             ValuesOf(property, asked'.on, n) = ValuesOf(property, level', n)
  PROVE  Walking' /\ Meant' /\ text' \in Names /\ pc' # "idle"
<1>1. CASE key \in Names
  <2>1. pc' = "find" /\ text' = key
    BY <1>1 DEF OpenKey
  <2>2. Walking'
    BY <1>1, <2>1 DEF Walking
  <2>3. Texts(property', Opened') = {text'}
    BY <1>1, <2>1 DEF Texts
  <2>4. Meant'
    BY <2>1, <2>3 DEF Meant
  <2> QED
    BY <1>1, <2>1, <2>2, <2>4
<1>2. CASE key \in Objects
  <2>1. pc' = "open" /\ at' = key /\ text' = text
    BY <1>2, DynamicObjectAssumption DEF OpenKey
  <2>2. Leads(TextSteps(property'), key, {key} \union hardlocked')
    BY DEF Leads
  <2>3. Walking'
    BY <1>2, <2>1, <2>2 DEF Walking
  <2>4. Meant'
    BY <2>1 DEF Meant
  <2> QED
    BY <2>1, <2>3, <2>4 DEF MInv, Types
<1> QED
  BY <1>1, <1>2

LEMMA AskMInv == ASSUME IInv, MInv, Asks PROVE MInv'
<1>1. PICK request \in Requests : Ask(request)
  <2>1. Undefined \notin Names \union held
    BY DynamicObjectAssumption DEF IInv, Phases
  <2>2. PICK o \in held :
          \/ Ask([Nothing EXCEPT !.kind = "print", !.on = o])
          \/ \E k \in Names \union held, kind \in {"get", "delete"} :
               Ask([Nothing EXCEPT !.kind = kind, !.on = o, !.key = k])
          \/ \E k \in Names \union held, v \in held \union Names \union FastStrings \union {Undefined} :
               Ask([kind |-> "set", on |-> o, key |-> k, value |-> v])
    BY DEF Asks
  <2>3. [Nothing EXCEPT !.kind = "print", !.on = o] \in Requests
    BY DEF Nothing, Requests
  <2>4. \A k \in Names \union held, kind \in {"get", "delete"} :
          [Nothing EXCEPT !.kind = kind, !.on = o, !.key = k] \in Requests
    BY <2>1 DEF Nothing, Requests
  <2>5. \A k \in Names \union held, v \in held \union Names \union FastStrings \union {Undefined} :
          [kind |-> "set", on |-> o, key |-> k, value |-> v] \in Requests
    BY <2>1 DEF Requests
  <2> QED
    BY <2>2, <2>3, <2>4, <2>5
<1> DEFINE key == IF request.kind = "print" THEN request.on ELSE request.key
<1>2. /\ pc = "idle" /\ asked' = request /\ level' = request.on /\ OpenKey(key)
      /\ UNCHANGED <<life, property, hardlocked, held, condemned>>
  BY <1>1 DEF Ask
<1>3. request # Nothing
  BY <1>1 DEF Nothing, Requests
<1>4. request.on \in Objects /\ key \in Objects \union Names /\ held \subseteq Objects
  BY <1>1 DEF IInv, Phases, Requests
<1>5. key \in Names => request.kind # "print" /\ request.key = key
  BY <1>4, <1>1, DynamicObjectAssumption DEF IInv, Phases
<1>6. Opened' = key
  BY <1>2 DEF Opened
<1>7. hardlocked = {}
  BY <1>2 DEF MInv, Walking
<1>8. Leads(PrototypeSteps(property), request.on, {request.on})
  BY DEF Leads
<1> HIDE DEF key
<1>9. Walking' /\ Meant' /\ text' \in Names /\ pc' # "idle"
  BY <1>2, <1>3, <1>4, <1>5, <1>6, <1>7, <1>8, OpenKeyWalks
<1>10. Types'
  BY <1>2, <1>9 DEF MInv, Types
<1>11. Asked'
  <2>1. Requests' = Requests
    BY <1>2 DEF Requests
  <2> QED
    BY <1>1, <1>2, <1>3, <1>4, <1>9, <2>1 DEF Asked
<1>12. Living'
  BY <1>2, LivingStays DEF MInv
<1> QED
  BY <1>9, <1>10, <1>11, <1>12 DEF MInv

LEMMA InRequest ==
  ASSUME IInv, MInv, pc # "idle"
  PROVE  /\ asked # Nothing /\ asked.kind \in {"get", "set", "delete", "print"}
         /\ held \subseteq Objects /\ asked.on \in held /\ level \in Objects
         /\ asked.value \in held \union Names \union FastStrings \union {Undefined}
         /\ asked.kind # "print" => asked.key \in held \union Names /\ asked.key # Undefined
         /\ asked.kind # "get" => level = asked.on
  BY DynamicObjectAssumption DEF IInv, Phases, MInv, Asked, Requests, Nothing

\* Steps within a request change no request.
LEMMA AskedStays ==
  ASSUME Asked, pc # "idle", pc' # "idle", UNCHANGED <<asked, held>>,
         level' \in Objects, asked.kind # "get" => level' = level
  PROVE  Asked'
<1>1. Requests' = Requests
  BY DEF Requests
<1> QED
  BY <1>1 DEF Asked

\* get_string goes to the next object, ...
LEMMA GetStringOnMInv ==
  ASSUME IInv, MInv, GetString, NextText(at) \in Objects
  PROVE  MInv'
<1> DEFINE next == NextText(at)
<1>1. /\ pc \in {"open", "close"} /\ at' = next
      /\ hardlocked' = IF pc = "open" THEN hardlocked \union {at} ELSE hardlocked \ {at}
      /\ UNCHANGED <<life, property, held, asked, pc, level, text, found, condemned>>
  BY DynamicObjectAssumption DEF GetString
<1>2. at \in Objects /\ Opened \in Objects /\ property \in Tables
  BY <1>1 DEF MInv, Walking, Types
<1>3. TextSteps(property) \in [Objects -> SUBSET Objects] /\ TextSteps(property)[at] = {next}
  BY <1>2, StepTypes, NextTextSteps
<1>4. Texts(property, at) = Texts(property, next)
  BY <1>2, TextsMove
<1>5. Opened' = Opened
  BY <1>1 DEF Opened
<1> HIDE DEF next
<1>6. Leads(TextSteps(property), Opened, hardlocked \union {at, next})
  <2>1. Leads(TextSteps(property), Opened, hardlocked \union {at})
    BY <1>1 DEF MInv, Walking, Leads
  <2> QED
    BY <1>2, <1>3, <2>1, WayMovesOn DEF next
<1>7. pc = "close" => Leads(TextSteps(property), next, hardlocked \ {at})
  BY <1>2, <1>3, WayMovesOn DEF MInv, Walking, next
<1>8. Walking'
  <2>1. Leads(TextSteps(property), Opened, {next} \union hardlocked')
    BY <1>1, <1>6 DEF Leads
  <2>2. pc = "close" => Leads(TextSteps(property), next, hardlocked')
    BY <1>1, <1>7
  <2> QED
    BY <1>1, <1>2, <1>5, <2>1, <2>2 DEF MInv, Walking, next
<1>9. Types'
  BY <1>1 DEF MInv, Types
<1>10. Asked'
  BY <1>1, AskedStays DEF MInv, Asked
<1>11. Living'
  BY <1>1, LivingStays DEF MInv
<1>12. Meant'
  BY <1>1, <1>4, <1>5 DEF MInv, Meant
<1> QED
  BY <1>8, <1>9, <1>10, <1>11, <1>12 DEF MInv

\* ... or returns with the text.
LEMMA GetStringEndMInv ==
  ASSUME IInv, MInv, GetString, NextText(at) \in Names
  PROVE  MInv'
<1>1. /\ pc \in {"open", "close"} /\ pc' = AfterText
      /\ hardlocked' = IF pc = "open" THEN hardlocked \union {at} ELSE hardlocked \ {at}
      /\ text' = IF pc = "open" THEN NextText(at)
                 ELSE IF AfterText = "idle" THEN DefaultText ELSE text
      /\ at' = IF AfterText = "close" THEN asked.on ELSE Undefined
      /\ asked' = IF AfterText = "idle" THEN Nothing ELSE asked
      /\ UNCHANGED <<life, property, held, level, found, condemned>>
  BY DynamicObjectAssumption DEF GetString
<1>2. at \in Objects /\ Opened \in Objects /\ property \in Tables
  BY <1>1 DEF MInv, Walking, Types
<1>3. TextSteps(property) \in [Objects -> SUBSET Objects] /\ TextSteps(property)[at] = {}
  BY <1>2, StepTypes, NextTextSteps
<1>4. Texts(property, at) = {NextText(at)}
  BY <1>2, TextsMove
<1>5. Types'
  BY <1>1, DynamicObjectAssumption DEF MInv, Types
<1>6. Living'
  BY <1>1, LivingStays DEF MInv
<1>7. pc = "close" => hardlocked' = {}
  BY <1>1, <1>2, <1>3, WayEnds DEF MInv, Walking
<1>8. CASE AfterText = "idle"
  <2>1. pc = "close" /\ pc' = "idle" /\ asked' = Nothing
    BY <1>1, <1>8 DEF AfterText
  <2>2. Asked' /\ Walking' /\ Meant'
    BY <1>7, <2>1 DEF Asked, Walking, Meant, Nothing
  <2> QED
    BY <1>5, <1>6, <2>2 DEF MInv
<1>9. CASE AfterText # "idle"
  <2>1. /\ UNCHANGED asked /\ Opened' = Opened
        /\ \/ pc = "close" /\ pc' = "apply" /\ asked.kind # "print" /\ text' = text
           \/ pc = "open" /\ pc' = "close" /\ asked.kind = "print" /\ at' = asked.on /\ text' = NextText(at)
           \/ pc = "open" /\ pc' = "find" /\ asked.kind # "print" /\ text' = NextText(at)
    BY <1>1, <1>9 DEF AfterText, Opened
  <2>2. Asked'
    BY <1>1, <2>1, InRequest, AskedStays DEF MInv
  <2>3. pc = "open" => Leads(TextSteps(property), Opened, {Opened} \union hardlocked')
    BY <1>1 DEF MInv, Walking, Leads
  <2>4. pc # "idle" => Leads(PrototypeSteps(property), asked.on, {level})
    BY DEF MInv, Walking
  <2>5. Walking'
    <3>1. CASE pc' = "apply"
      BY <1>1, <1>7, <2>1, <2>4, <3>1 DEF Walking
    <3>2. CASE pc' = "close"
      <4>1. Opened = asked.on
        BY <2>1, <3>2 DEF Opened
      <4>2. Leads(TextSteps(property), Opened, hardlocked')
        BY <2>1, <2>3, <3>2 DEF Leads
      <4> QED
        BY <1>1, <1>2, <2>1, <2>3, <2>4, <3>2, <4>1, <4>2 DEF Walking
    <3>3. CASE pc' = "find"
      <4>1. Opened = asked.key /\ asked.key \notin Names
        BY <1>2, <2>1, <3>3, DynamicObjectAssumption DEF Opened
      <4>2. Leads(TextSteps(property), Opened, hardlocked')
        BY <2>1, <2>3, <3>3 DEF Leads
      <4> QED
        BY <1>1, <2>1, <2>4, <3>3, <4>1, <4>2 DEF Walking
    <3> QED
      BY <2>1, <3>1, <3>2, <3>3
  <2>6. Texts(property, Opened) = {text'}
    BY <1>4, <2>1 DEF MInv, Meant
  <2>7. pc = "open" => ~found
    BY DEF IInv, Phases
  <2>8. Meant'
    BY <1>1, <2>1, <2>6, <2>7 DEF MInv, Meant
  <2> QED
    BY <1>5, <1>6, <2>2, <2>5, <2>8 DEF MInv
<1> QED
  BY <1>8, <1>9

LEMMA GetStringMInv == ASSUME IInv, MInv, GetString PROVE MInv'
<1>1. at \in Objects /\ property \in Tables
  BY DEF GetString, MInv, Walking, Types
<1> QED
  BY <1>1, NextTextSteps, GetStringOnMInv, GetStringEndMInv

\* The key is closed: its text is what it was, and so is the way to it.
LEMMA CloseKeyWalks ==
  ASSUME IInv, MInv, pc = "find", CloseKey, property' \in Tables,
         TextSteps(property') = TextSteps(property), TextEnds(property') = TextEnds(property),
         PrototypeSteps(property') = PrototypeSteps(property),
         asked.kind = "get" => property' = property,
         found' <=> property'[level][text] # Absent,
         UNCHANGED <<hardlocked, held, asked, level, text>>
  PROVE  Asked' /\ Walking' /\ Meant'
<1>1. asked.kind # "print" /\ Opened = asked.key /\ Opened' = asked.key
  BY DEF IInv, Phases, Opened
<1>2. asked.key \in held \union Names /\ held \subseteq Objects
  BY <1>1, InRequest
<1>3. \/ asked.key \in Objects /\ asked.key \notin Names /\ pc' = "close" /\ at' = asked.key
      \/ asked.key \in Names /\ pc' = "apply"
  BY <1>2, DynamicObjectAssumption DEF CloseKey
<1>4. Asked'
  BY <1>3, InRequest, AskedStays DEF MInv
<1>5. asked.key \in Objects => Leads(TextSteps(property'), asked.key, {asked.key} \union hardlocked')
  BY <1>3 DEF MInv, Walking, Leads
<1>6. asked.key \in Objects => Leads(TextSteps(property'), asked.key, hardlocked')
  BY <1>5 DEF Leads
<1>7. Walking'
  BY <1>1, <1>3, <1>5, <1>6 DEF MInv, Walking
<1>8. \A k : Texts(property', k) = Texts(property, k)
  BY DEF Texts
<1>9. Meant'
  BY <1>1, <1>3, <1>8 DEF MInv, Meant
<1> QED
  BY <1>4, <1>7, <1>9

LEMMA FindMInv == ASSUME IInv, MInv, Find \/ FindFails PROVE MInv'
<1>1. /\ pc = "find" /\ CloseKey
      /\ UNCHANGED <<life, property, hardlocked, held, asked, level, text, condemned>>
      /\ found' <=> property[level][text] # Absent
  BY DEF Find, FindFails, IInv, Phases
<1>2. Types' /\ Living'
  BY <1>1, LivingStays DEF MInv, Types
<1>3. Asked' /\ Walking' /\ Meant'
  BY <1>1, CloseKeyWalks DEF MInv, Types
<1> QED
  BY <1>2, <1>3 DEF MInv

\* What leaves the hardcoded properties alone leaves texts and prototypes.
LEMMA HardcodedLead ==
  ASSUME NEW w, NEW w2, \A o \in Objects, n \in Hardcoded : w2[o][n] = w[o][n]
  PROVE  /\ TextSteps(w2) = TextSteps(w) /\ TextEnds(w2) = TextEnds(w)
         /\ PrototypeSteps(w2) = PrototypeSteps(w)
<1>1. {PrototypeName, StringName} \subseteq Hardcoded
  BY DEF Hardcoded
<1>2. \A o \in Objects : w2[o][StringName] = w[o][StringName] /\ w2[o][PrototypeName] = w[o][PrototypeName]
  BY <1>1
<1> QED
  BY <1>2 DEF TextSteps, TextEnds, PrototypeSteps, Other

\* A write of one property keeps what is said of objects that are alive.
LEMMA WriteLiving ==
  ASSUME IInv, MInv, NEW x \in held \union Names \union FastStrings \union {Undefined, Absent}, level \in held,
         text \in Hardcoded => x # Absent,
         property' = [property EXCEPT ![level][text] = x], UNCHANGED <<life, held, condemned>>
  PROVE  Living' /\ property' \in Tables
         /\ \A o \in Objects, n \in Names :
              property'[o][n] = IF o = level /\ n = text THEN x ELSE property[o][n]
<1>1. held \subseteq Objects /\ text \in Names /\ property \in Tables
  BY DEF IInv, Phases, MInv, Types
<1>2. \A o \in Objects, n \in Names :
        property'[o][n] = IF o = level /\ n = text THEN x ELSE property[o][n]
  BY <1>1 DEF Tables
<1>3. property' \in Tables
  <2>1. x \in Values \union {Absent}
    BY <1>1 DEF Values
  <2>2. property' \in [Objects -> [Names -> Values \union {Absent}]]
    BY <1>1, <2>1 DEF Tables
  <2>3. Hardcoded \subseteq Names
    BY DynamicObjectAssumption DEF Hardcoded
  <2>4. \A o \in Objects, n \in Hardcoded : property'[o][n] # Absent
    BY <1>1, <1>2, <2>3 DEF Tables
  <2> QED
    BY <2>2, <2>4 DEF Tables
<1>4. Living'
  <2>1. \A o \in Objects, n \in Names :
          property'[o][n] \in Objects => life[property'[o][n]] = "alive"
    BY <1>1, <1>2, DynamicObjectAssumption DEF MInv, Living
  <2>2. \A o \in Objects : life[o] # "alive" => property'[o] = Blank
    BY <1>1 DEF MInv, Living, Tables
  <2>3. condemned # Undefined => condemned \in Objects /\ Dead(condemned)'
    BY <1>1, <1>2, DynamicObjectAssumption DEF MInv, Living, Dead
  <2> QED
    BY <2>1, <2>2, <2>3 DEF MInv, Living
<1> QED
  BY <1>2, <1>3, <1>4

LEMMA FindCreatesMInv == ASSUME IInv, MInv, FindCreates PROVE MInv'
<1>1. /\ pc = "find" /\ CloseKey /\ asked.kind = "set" /\ found'
      /\ property[level][text] = Absent
      /\ property' = [property EXCEPT ![level][text] = Undefined]
      /\ UNCHANGED <<life, hardlocked, held, asked, level, text, condemned>>
  BY DEF FindCreates
<1>2. level \in held /\ level \in Objects
  BY <1>1, InRequest
<1>3. Undefined # Absent /\ Hardcoded \subseteq Names
  BY DynamicObjectAssumption DEF Hardcoded
<1>4. /\ Living' /\ property' \in Tables
      /\ \A o \in Objects, n \in Names :
           property'[o][n] = IF o = level /\ n = text THEN Undefined ELSE property[o][n]
  BY <1>1, <1>2, <1>3, WriteLiving
<1>5. text \in Names /\ text \notin Hardcoded
  BY <1>1, <1>2 DEF MInv, Types, Tables
<1>6. \A o \in Objects, n \in Hardcoded : property'[o][n] = property[o][n]
  BY <1>3, <1>4, <1>5
<1>7. /\ TextSteps(property') = TextSteps(property) /\ TextEnds(property') = TextEnds(property)
      /\ PrototypeSteps(property') = PrototypeSteps(property)
  BY <1>6, HardcodedLead
<1>8. property'[level][text] = Undefined
  BY <1>2, <1>4, <1>5
<1>9. Asked' /\ Walking' /\ Meant'
  BY <1>1, <1>3, <1>4, <1>7, <1>8, CloseKeyWalks
<1> QED
  BY <1>1, <1>4, <1>9 DEF MInv, Types

\* The collector's object is on no prototype's way.
LEMMA LevelIsHeld ==
  ASSUME IInv, MInv, pc # "idle", condemned # Undefined
  PROVE  level # condemned
<1> DEFINE next == PrototypeSteps(property)
<1>1. condemned \in Objects /\ Dead(condemned) /\ asked.on \in Objects \ {condemned}
  BY InRequest DEF MInv, Living, Dead
<1>2. SameBut(condemned, next, next, next, next)
  BY <1>1, StepTypes, DynamicObjectAssumption DEF SameBut, PrototypeSteps, Other, Dead
<1>3. Leads(next, asked.on, {level})
  BY DEF MInv, Walking
<1> QED
  BY <1>1, <1>2, <1>3, WayAvoids

\* A request ends.
LEMMA ReturnMInv ==
  ASSUME IInv, MInv, pc = "apply", Return, property' \in Tables, Living',
         UNCHANGED <<life, hardlocked>>
  PROVE  MInv'
<1>1. pc' = "idle" /\ asked' = Nothing /\ text' = DefaultText /\ hardlocked' = {}
  BY DEF Return, MInv, Walking
<1> QED
  BY <1>1, DynamicObjectAssumption DEF MInv, Types, Asked, Walking, Meant, Nothing

LEMMA ApplyMInv ==
  ASSUME IInv, MInv, GetFound \/ GetNothing \/ Refuse \/ Set \/ Delete
  PROVE  MInv'
<1>1. pc = "apply" /\ Return /\ UNCHANGED <<life, hardlocked, condemned>>
  BY DEF GetFound, GetNothing, Refuse, Set, Delete, Answer
<1>2. level \in Objects /\ text \in Names /\ property \in Tables
  BY <1>1, InRequest DEF MInv, Types
<1>3. CASE GetFound
  <2>1. UNCHANGED property /\ held' = held \union ({property[level][text]} \cap Objects)
    BY <1>3 DEF GetFound, Answer
  <2>2. \A o \in held' : life[o] = "alive"
    BY <1>2, <2>1 DEF MInv, Living
  <2>3. condemned # Undefined => condemned \notin held'
    BY <1>1, <1>2, <2>1, LevelIsHeld DEF MInv, Living, Dead
  <2>4. Living'
    BY <1>1, <2>1, <2>2, <2>3 DEF MInv, Living, Dead
  <2> QED
    BY <1>1, <1>2, <2>1, <2>4, ReturnMInv
<1>4. CASE GetNothing \/ Refuse
  <2>1. UNCHANGED <<property, held>>
    BY <1>4, DynamicObjectAssumption DEF GetNothing, Refuse, Answer
  <2> QED
    BY <1>1, <1>2, <2>1, LivingStays, ReturnMInv DEF MInv
<1>5. CASE Set
  <2>1. asked.kind = "set" /\ property' = [property EXCEPT ![level][text] = asked.value]
        /\ UNCHANGED held
    BY <1>5 DEF Set
  <2>2. level \in held /\ asked.value \in held \union Names \union FastStrings \union {Undefined, Absent}
        /\ asked.value # Absent
    BY <1>1, <2>1, InRequest, DynamicObjectAssumption
  <2> QED
    BY <1>1, <2>1, <2>2, WriteLiving, ReturnMInv
<1>6. CASE Delete
  <2>1. asked.kind = "delete" /\ property' = [property EXCEPT ![level][text] = Absent]
        /\ UNCHANGED held /\ text \notin Hardcoded
    BY <1>6 DEF Delete, Refused
  <2>2. level \in held
    BY <1>1, <2>1, InRequest
  <2> QED
    BY <1>1, <2>1, <2>2, WriteLiving, ReturnMInv
<1> QED
  BY <1>3, <1>4, <1>5, <1>6

LEMMA GetFromPrototypeMInv == ASSUME IInv, MInv, GetFromPrototype PROVE MInv'
<1> DEFINE next == property[level][PrototypeName]
<1>1. /\ pc = "apply" /\ asked.kind = "get" /\ ~found
      /\ next \in Objects \ {level} /\ level' = next /\ OpenKey(asked.key)
      /\ UNCHANGED <<life, property, hardlocked, held, asked, condemned>>
  BY DEF GetFromPrototype
<1>2. /\ level \in Objects /\ text \in Names /\ property \in Tables /\ hardlocked = {}
      /\ asked.key \in Objects \union Names /\ asked # Nothing
  BY <1>1, InRequest DEF MInv, Types, Walking
<1>3. Opened = asked.key /\ Opened' = asked.key
  BY <1>1 DEF Opened
<1>4. Leads(PrototypeSteps(property), asked.on, {next})
  <2>1. PrototypeSteps(property) \in [Objects -> SUBSET Objects]
        /\ PrototypeSteps(property)[level] = {next}
    BY <1>1, <1>2, StepTypes DEF PrototypeSteps, Other
  <2>2. Leads(PrototypeSteps(property), asked.on, {level})
    BY <1>1 DEF MInv, Walking
  <2> QED
    BY <1>1, <1>2, <2>1, <2>2 DEF Leads
<1>5. \A n \in Texts(property, asked.key) :
        ValuesOf(property, asked.on, n) = ValuesOf(property, next, n)
  <2>1. Texts(property, asked.key) = {text} /\ property[level][text] = Absent
    BY <1>1, <1>3 DEF MInv, Meant
  <2>2. ValuesOf(property, asked.on, text) = ValuesOf(property, level, text)
    BY <1>1, <2>1 DEF MInv, Meant
  <2> QED
    BY <1>1, <1>2, <2>1, <2>2, ValuesMove
<1> HIDE DEF next
<1>6. Walking' /\ Meant' /\ text' \in Names /\ pc' # "idle"
  BY <1>1, <1>2, <1>3, <1>4, <1>5, OpenKeyWalks
<1>7. Types' /\ Living'
  BY <1>1, <1>6, LivingStays DEF MInv, Types
<1>8. Asked'
  BY <1>1, <1>6, AskedStays DEF MInv
<1> QED
  BY <1>6, <1>7, <1>8 DEF MInv

LEMMA CondemnMInv == ASSUME MInv, NEW o \in Objects, Condemn(o) PROVE MInv'
<1>1. /\ Dead(o) /\ condemned' = o
      /\ UNCHANGED <<life, property, hardlocked, held, asked, pc, level, at, text, found>>
  BY DEF Condemn, walk
<1>2. Living'
  BY <1>1 DEF MInv, Living, Dead
<1>3. Types' /\ Asked' /\ Walking' /\ Meant'
  BY <1>1 DEF MInv, Types, Asked, Requests, Walking, Meant, Opened
<1> QED
  BY <1>2, <1>3 DEF MInv

\* What the release of an object that nothing holds leaves as it was.
LEMMA ReleaseLeads ==
  ASSUME MInv, Release
  PROVE  /\ condemned \in Objects /\ condemned \notin held
         /\ \A o \in Objects : property'[o] = IF o = condemned THEN Blank ELSE property[o]
         /\ property' \in Tables
         /\ SameBut(condemned, TextSteps(property), TextEnds(property),
                    TextSteps(property'), TextEnds(property'))
         /\ SameBut(condemned, PrototypeSteps(property), {}, PrototypeSteps(property'), {})
         /\ \A n \in Names : SameBut(condemned, ValueSteps(property, n), ValueEnds(property, n),
                                   ValueSteps(property', n), ValueEnds(property', n))
<1>1. condemned \in Objects /\ Dead(condemned) /\ property \in Tables
      /\ property' = [property EXCEPT ![condemned] = Blank]
  BY DEF Release, MInv, Living, Types
<1>2. \A o \in Objects : property'[o] = IF o = condemned THEN Blank ELSE property[o]
  BY <1>1 DEF Tables
<1>3. property' \in Tables
  BY <1>1, <1>2, DynamicObjectAssumption DEF Tables, Blank, Values, Hardcoded
<1>4. {PrototypeName, StringName} \subseteq Names
  BY DynamicObjectAssumption
<1>5. \A o \in Objects \ {condemned}, n \in Names :
        property'[o][n] = property[o][n] /\ property[o][n] # condemned
  BY <1>1, <1>2 DEF Dead
<1>6. \A o \in Objects \ {condemned}, n \in Names :
        Other(property', o, n) = Other(property, o, n) /\ condemned \notin Other(property, o, n)
  BY <1>5 DEF Other
<1>7. SameBut(condemned, TextSteps(property), TextEnds(property),
              TextSteps(property'), TextEnds(property'))
  <2>1. \A o \in Objects \ {condemned} :
          /\ TextSteps(property)[o] = TextSteps(property')[o]
          /\ TextEnds(property)[o] = TextEnds(property')[o]
          /\ condemned \notin TextSteps(property)[o]
    BY <1>4, <1>5, <1>6 DEF TextSteps, TextEnds
  <2> QED
    BY <2>1, StepTypes DEF SameBut
<1>8. SameBut(condemned, PrototypeSteps(property), {}, PrototypeSteps(property'), {})
  <2>1. \A o \in Objects \ {condemned} :
          /\ PrototypeSteps(property)[o] = PrototypeSteps(property')[o]
          /\ condemned \notin PrototypeSteps(property)[o]
    BY <1>4, <1>6 DEF PrototypeSteps
  <2> QED
    BY <2>1, StepTypes DEF SameBut
<1>9. ASSUME NEW n \in Names
      PROVE  SameBut(condemned, ValueSteps(property, n), ValueEnds(property, n),
                     ValueSteps(property', n), ValueEnds(property', n))
  <2>1. \A o \in Objects \ {condemned} :
          /\ ValueSteps(property, n)[o] = ValueSteps(property', n)[o]
          /\ ValueEnds(property, n)[o] = ValueEnds(property', n)[o]
          /\ condemned \notin ValueSteps(property, n)[o]
    BY <1>4, <1>5, <1>6 DEF ValueSteps, ValueEnds
  <2> QED
    BY <2>1, StepTypes DEF SameBut
<1> QED
  BY <1>1, <1>2, <1>3, <1>7, <1>8, <1>9 DEF Dead

LEMMA ReleaseMInv == ASSUME IInv, MInv, Release PROVE MInv'
<1> DEFINE c == condemned
<1>1. /\ c # Undefined /\ life' = [life EXCEPT ![c] = "released"] /\ condemned' = Undefined
      /\ UNCHANGED <<hardlocked, held, asked, pc, level, at, text, found>>
  BY DEF Release, walk
<1>2. /\ c \in Objects /\ c \notin held /\ held \subseteq Objects
      /\ \A o \in Objects : property'[o] = IF o = c THEN Blank ELSE property[o]
      /\ property' \in Tables
  BY ReleaseLeads DEF IInv, Phases
<1>3. SameBut(c, TextSteps(property), TextEnds(property), TextSteps(property'), TextEnds(property'))
  BY ReleaseLeads
<1>4. SameBut(c, PrototypeSteps(property), {}, PrototypeSteps(property'), {})
  BY ReleaseLeads
<1>5. \A n \in Names : SameBut(c, ValueSteps(property, n), ValueEnds(property, n),
                               ValueSteps(property', n), ValueEnds(property', n))
  BY ReleaseLeads
<1>6. Types'
  BY <1>1, <1>2 DEF MInv, Types
<1>7. Living'
  <2>1. \A o \in held : life'[o] = "alive"
    BY <1>1, <1>2 DEF MInv, Types, Living
  <2>2. \A o \in Objects, n \in Names :
          property'[o][n] \in Objects => life'[property'[o][n]] = "alive"
    <3>1. \A n \in Names : Blank[n] \notin Objects
      BY DynamicObjectAssumption DEF Blank
    <3>2. \A o \in Objects \ {c}, n \in Names : property[o][n] # c
      BY <1>1 DEF MInv, Living, Dead
    <3> QED
      BY <1>1, <1>2, <3>1, <3>2 DEF MInv, Types, Living
  <2>3. \A o \in Objects : life'[o] # "alive" => property'[o] = Blank
    BY <1>1, <1>2 DEF MInv, Types, Living
  <2> QED
    BY <1>1, <2>1, <2>2, <2>3 DEF Living
<1>8. pc # "idle" =>
        /\ asked.on \in Objects \ {c} /\ level \in Objects \ {c}
        /\ asked.kind # "print" => asked.key \in (Objects \ {c}) \union Names
  BY <1>1, <1>2, InRequest, LevelIsHeld
<1>9. Opened' = Opened
  BY <1>1 DEF Opened
<1>10. pc \in {"open", "close"} => Opened \in Objects \ {c} /\ at \in Objects \ {c}
  <2> SUFFICES ASSUME pc \in {"open", "close"}
               PROVE  Opened \in Objects \ {c} /\ at \in Objects \ {c}
    OBVIOUS
  <2>1. Opened \in Objects /\ at \in Objects /\ Leads(TextSteps(property), Opened, {at} \union hardlocked)
    BY DEF MInv, Walking
  <2>2. Opened # c
    BY <1>8, <2>1, DynamicObjectAssumption, <1>2, InRequest DEF Opened
  <2>3. c \notin {at} \union hardlocked
    BY <1>3, <2>1, <2>2, WayAvoids
  <2> QED
    BY <2>1, <2>2, <2>3
<1> HIDE DEF c
<1>11. Asked'
  BY <1>1 DEF MInv, Asked, Requests
<1>12. Walking'
  <2>1. pc \in {"open", "close"} => Leads(TextSteps(property'), Opened, {at} \union hardlocked)
    BY <1>3, <1>10, WayStays DEF MInv, Walking
  <2>2. pc = "find" /\ asked.key \notin Names => Leads(TextSteps(property'), asked.key, hardlocked)
    <3> SUFFICES ASSUME pc = "find", asked.key \notin Names
                 PROVE  Leads(TextSteps(property'), asked.key, hardlocked)
      OBVIOUS
    <3>1. asked.key \in Objects \ {c}
      BY <1>8 DEF IInv, Phases
    <3> QED
      BY <1>3, <3>1, WayStays DEF MInv, Walking
  <2>3. pc = "close" => Leads(TextSteps(property'), at, hardlocked)
    BY <1>3, <1>10, WayStays DEF MInv, Walking
  <2>4. pc # "idle" => Leads(PrototypeSteps(property'), asked.on, {level})
    BY <1>4, <1>8, WayStays DEF MInv, Walking
  <2> QED
    BY <1>1, <1>9, <2>1, <2>2, <2>3, <2>4 DEF MInv, Walking
<1>13. Meant'
  <2>1. \A k \in (Objects \ {c}) \union Names : Texts(property', k) = Texts(property, k)
    BY <1>3, EndStays DEF Texts
  <2>2. \A o \in Objects \ {c}, n \in Names : ValuesOf(property', o, n) = ValuesOf(property, o, n)
    BY <1>5, EndStays DEF ValuesOf
  <2>3. pc # "idle" => Opened \in (Objects \ {c}) \union Names
    BY <1>8 DEF Opened
  <2>4. pc # "idle" /\ asked.kind = "get" =>
          \A n \in Texts(property', asked.key) :
            ValuesOf(property', asked.on, n) = ValuesOf(property', level, n)
    <3> SUFFICES ASSUME pc # "idle", asked.kind = "get", NEW n \in Texts(property', asked.key)
                 PROVE  ValuesOf(property', asked.on, n) = ValuesOf(property', level, n)
      OBVIOUS
    <3>1. n \in Texts(property, asked.key)
      BY <1>8, <2>1
    <3>2. n \in Names
      BY <1>8, <3>1, TextsAreNames
    <3> QED
      BY <1>8, <2>2, <3>1, <3>2 DEF MInv, Meant
  <2>5. pc \in {"close", "apply"} => property'[level][text] = property[level][text]
    BY <1>2, <1>8
  <2> QED
    BY <1>1, <1>9, <1>10, <2>1, <2>3, <2>4, <2>5 DEF MInv, Meant
<1> QED
  BY <1>6, <1>7, <1>11, <1>12, <1>13 DEF MInv

LEMMA NextMInv == ASSUME IInv, MInv, [Next]_vars PROVE MInv'
<1>1. CASE UNCHANGED vars
  BY <1>1 DEF vars, walk, MInv, Types, Asked, Requests, Living, Dead, Walking, Meant, Opened
<1>2. CASE ProgramStep
  BY <1>2, GetStringMInv, FindMInv, FindCreatesMInv, ApplyMInv, GetFromPrototypeMInv DEF ProgramStep
<1>3. CASE CollectorStep
  BY <1>3, CondemnMInv, ReleaseMInv DEF CollectorStep
<1> QED
  BY <1>1, <1>2, <1>3, CreateMInv, ForgetMInv, AskMInv DEF Next

-----------------------------------------------------------------------------
(* Every step is one of the map, or none.                                   *)

\* What the map sees when no write has taken place.
LEMMA PlainMap ==
  ASSUME property \in Tables, ~Written
  PROVE  /\ \A k : Map!TextOf(k) = Texts(property, k)
         /\ \A o, n : Map!ValueOf(o, n) = ValuesOf(property, o, n)
<1>1. Map!TextNext = TextSteps(property) /\ Map!TextEnd = TextEnds(property)
  BY DEF Map!TextNext, Map!TextEnd, Map!Other, TextSteps, TextEnds, Other
<1>2. ASSUME NEW n
      PROVE  Map!ValueNext(n) = ValueSteps(property, n) /\ Map!ValueEnd(n) = ValueEnds(property, n)
  BY DEF Map!ValueNext, Map!ValueEnd, Map!Other, ValueSteps, ValueEnds, Other
<1> QED
  BY <1>1, <1>2 DEF Map!TextOf, Map!ValueOf, Texts, ValuesOf

\* What the map sees of the state.
Table == IF Written THEN [property EXCEPT ![level][text] = asked.value] ELSE property
Request == IF Written THEN Nothing ELSE asked
Seen == <<Table, held, Request, answer>>

LEMMA IdleIsNotWritten == asked = Nothing => ~Written
  BY DEF Written, Nothing

\* Nothing to be seen.
LEMMA QuietSteps ==
  ASSUME ~Written, ~Written', UNCHANGED <<property, held, asked, answer>>
  PROVE  UNCHANGED Seen
  BY DEF Seen, Table, Request

LEMMA CreateIsCreate ==
  ASSUME MInv, NEW o \in Objects, NEW p \in Objects \union {Undefined}, Create(o, p)
  PROVE  Map!Create(o, p)
<1>1. /\ pc = "idle" /\ life[o] = "unborn" /\ p \in held \union {Undefined}
      /\ property' = [property EXCEPT ![o][PrototypeName] = p]
      /\ held' = held \union {o}
      /\ UNCHANGED <<asked, answer>>
  BY DEF Create, walk
<1>2. ~Written /\ ~Written'
  BY <1>1, IdleIsNotWritten DEF MInv, Asked, Nothing, Written
<1>3. property[o] = Map!Blank
  BY <1>1 DEF MInv, Living, Blank, Map!Blank, Map!Hardcoded, Hardcoded
<1>4. o \notin held /\ \A q \in Objects \ {o}, n \in Names : property[q][n] # o
  BY <1>1 DEF MInv, Living
<1> QED
  BY <1>1, <1>2, <1>3, <1>4 DEF Map!Create, Map!Dead

LEMMA ForgetIsForget ==
  ASSUME MInv, NEW o \in Objects, Forget(o)
  PROVE  Map!Forget(o)
<1>1. pc = "idle" /\ held' = held \ {o} /\ UNCHANGED <<property, asked, answer>>
  BY DEF Forget
<1>2. asked = Nothing /\ ~Written /\ ~Written'
  BY <1>1, IdleIsNotWritten DEF MInv, Asked, Nothing, Written
<1> QED
  BY <1>1, <1>2 DEF Map!Forget, Map!Nothing, Nothing

LEMMA AskIsAsk == ASSUME IInv, MInv, MInv', Asks PROVE Map!Ask
<1>1. pc = "idle" /\ ~found' /\ answer' = Undefined /\ UNCHANGED <<property, held>>
      /\ pc' # "idle"
  <2>1. PICK request : Ask(request)
    BY DEF Asks
  <2> QED
    BY <2>1, OpenKeyPhases DEF Ask
<1>2. asked = Nothing /\ ~Written /\ ~Written'
  BY <1>1, IdleIsNotWritten DEF MInv, Asked, Written
<1>3. asked' \in [kind : {"get", "set", "delete", "print"}, on : held,
                  key : Names \union held \union {Undefined}, value : Map!Values]
  BY <1>1 DEF MInv, Asked, Requests, IInv, Phases, Map!Values
<1> QED
  BY <1>1, <1>2, <1>3 DEF Map!Ask, Map!Nothing, Nothing

\* get_string is seen only when it ends a print.
LEMMA GetStringIsPrint ==
  ASSUME IInv, MInv, GetString
  PROVE  Map!ServePrint \/ UNCHANGED Seen
<1>1. /\ pc \in {"open", "close"} /\ at \notin locked
      /\ hardlocked' = IF pc = "open" THEN hardlocked \union {at} ELSE hardlocked \ {at}
      /\ UNCHANGED <<property, held, level, found>>
  BY DEF GetString
<1>2. CASE pc = "close" /\ asked.kind = "print" /\ NextText(at) \in Names
  <2>1. asked' = Nothing /\ answer' = text
    BY <1>2, DynamicObjectAssumption DEF GetString, AfterText
  <2>2. ~Written /\ ~Written'
    BY <1>2, <2>1, IdleIsNotWritten DEF Written, Nothing
  <2>3. Texts(property, asked.on) = {text} /\ text \in Names /\ property \in Tables
    BY <1>2 DEF MInv, Meant, Opened, Types
  <2>4. Map!TextOf(asked.on) = {text}
    BY <2>2, <2>3, PlainMap
  <2>5. held \union ({text} \cap Objects) = held
    BY <2>3, DynamicObjectAssumption
  <2> QED
    BY <1>1, <1>2, <2>1, <2>2, <2>4, <2>5 DEF Map!ServePrint, Map!Answer, Map!Nothing, Nothing
<1>3. CASE ~(pc = "close" /\ asked.kind = "print" /\ NextText(at) \in Names)
  <2>1. UNCHANGED <<asked, answer>> /\ (found => text' = text)
    <3>1. at \in Objects /\ property \in Tables
      BY <1>1 DEF MInv, Walking, Types
    <3>2. CASE NextText(at) \in Objects
      BY <3>2, DynamicObjectAssumption DEF GetString
    <3>3. CASE NextText(at) \in Names
      <4>1. AfterText # "idle"
        BY <1>1, <1>3, <3>3 DEF AfterText
      <4>2. /\ text' = IF pc = "open" THEN NextText(at)
                        ELSE IF AfterText = "idle" THEN DefaultText ELSE text
            /\ asked' = IF AfterText = "idle" THEN Nothing ELSE asked
            /\ answer' = IF AfterText = "idle" THEN text ELSE answer
        BY <3>3, DynamicObjectAssumption DEF GetString
      <4>3. found => pc # "open"
        BY DEF IInv, Phases
      <4> QED
        BY <4>1, <4>2, <4>3
    <3> QED
      BY <3>1, <3>2, <3>3, NextTextSteps
  <2>2. found => level \in locked
    BY DEF IInv, Locks, Taken
  <2>3. found => (level \in hardlocked' <=> level \in hardlocked)
    BY <1>1, <2>2
  <2>4. Written' <=> Written
    BY <1>1, <2>1, <2>3 DEF Written, Refused
  <2>5. Written => text' = text
    BY <2>1 DEF Written
  <2> QED
    BY <1>1, <2>1, <2>4, <2>5 DEF Seen, Table, Request
<1> QED
  BY <1>2, <1>3

\* A write is seen when its property is found or made.
LEMMA FindIsServed ==
  ASSUME IInv, MInv, Find \/ FindCreates \/ FindFails
  PROVE  Map!ServeSet \/ UNCHANGED Seen
<1>1. /\ pc = "find"
      /\ UNCHANGED <<hardlocked, held, asked, level, text, answer>>
      /\ \/ UNCHANGED property
         \/ /\ property' = [property EXCEPT ![level][text] = Undefined] /\ found'
            /\ asked.kind = "set" /\ property[level][text] = Absent
  BY DEF Find, FindCreates, FindFails
<1>2. ~found /\ ~Written
  BY <1>1 DEF IInv, Phases, Written
<1>3. level \in Objects /\ text \in Names /\ property \in Tables
  BY <1>1, InRequest DEF MInv, Types
<1>4. ~Written' => UNCHANGED property
  <2>1. property[level][text] = Absent => text \notin Hardcoded
    BY <1>3 DEF Tables
  <2>2. property[level][text] = Absent /\ found' /\ asked.kind = "set" => ~Refused'
    BY <1>1, <2>1 DEF Refused, Hardcoded
  <2> QED
    BY <1>1, <2>2 DEF Written
<1>5. CASE ~Written'
  BY <1>1, <1>2, <1>4, <1>5, QuietSteps
<1>6. CASE Written'
  <2>1. asked.kind = "set" /\ text # PrototypeName /\ level = asked.on
    BY <1>1, <1>6, InRequest DEF Written, Refused
  <2>2. [property' EXCEPT ![level'][text'] = asked'.value] = [property EXCEPT ![level][text] = asked.value]
    <3>1. \A w \in [Objects -> [Names -> Values \union {Absent}]] : \A x :
            [[w EXCEPT ![level][text] = Undefined] EXCEPT ![level][text] = x]
              = [w EXCEPT ![level][text] = x]
      BY <1>3
    <3>2. property \in [Objects -> [Names -> Values \union {Absent}]]
      BY <1>3 DEF Tables
    <3>3. level' = level /\ text' = text /\ asked' = asked
      BY <1>1
    <3>4. property' = property \/ property' = [property EXCEPT ![level][text] = Undefined]
      BY <1>1
    <3> DEFINE value == asked.value
    <3>5. [[property EXCEPT ![level][text] = Undefined] EXCEPT ![level][text] = value]
            = [property EXCEPT ![level][text] = value]
      BY <3>1, <3>2
    <3> HIDE DEF value
    <3>6. [property' EXCEPT ![level][text] = value] = [property EXCEPT ![level][text] = value]
      BY <3>4, <3>5, ZenonT(40)
    <3>7. asked'.value = value
      BY <3>3 DEF value
    <3>8. asked.value = value
      BY DEF value
    <3> QED
      BY <3>3, <3>6, <3>7, <3>8, ZenonT(40)
  <2>3. Texts(property, asked.key) = {text}
    BY <1>1, <2>1 DEF MInv, Meant, Opened
  <2>4. text \in Map!TextOf(asked.key)
    BY <1>2, <1>3, <2>3, PlainMap
  <2> QED
    BY <1>1, <1>2, <1>6, <2>1, <2>2, <2>4 DEF Map!ServeSet, Map!Nothing, Nothing
<1> QED
  BY <1>5, <1>6

\* A read ends with what the map's would, and a delete, or a refused write, too;
\* of a write nothing more is seen.
LEMMA ApplyIsServed ==
  ASSUME IInv, MInv, GetFound \/ GetNothing \/ Refuse \/ Set \/ Delete
  PROVE  Map!ServeGet \/ Map!ServeSet \/ Map!ServeDelete \/ UNCHANGED Seen
<1>1. pc = "apply" /\ asked' = Nothing
  BY DEF GetFound, GetNothing, Refuse, Set, Delete, Answer, Return
<1>2. ~Written'
  BY <1>1 DEF Written, Nothing
<1>3. /\ level \in Objects /\ text \in Names /\ property \in Tables /\ hardlocked = {}
      /\ asked.kind # "print" /\ (asked.kind # "get" => level = asked.on)
      /\ Opened = asked.key
  BY <1>1, InRequest DEF MInv, Types, Walking, IInv, Phases, Opened
<1>4. Texts(property, asked.key) = {text} /\ (found <=> property[level][text] # Absent)
  BY <1>1, <1>3 DEF MInv, Meant
<1>5. ~Written => text \in Map!TextOf(asked.key)
  BY <1>3, <1>4, PlainMap
<1>6. CASE GetFound \/ GetNothing
  <2>1. asked.kind = "get" /\ UNCHANGED property /\ held' = held \union ({answer'} \cap Objects)
    BY <1>6, DynamicObjectAssumption DEF GetFound, GetNothing, Answer
  <2>2. ~Written
    BY <2>1 DEF Written
  <2>3. answer' \in ValuesOf(property, level, text)
    BY <1>3, <1>4, <1>6, ValuesMove DEF GetFound, GetNothing, Answer
  <2>4. ValuesOf(property, level, text) = Map!ValueOf(asked.on, text)
    BY <1>1, <1>3, <1>4, <2>1, <2>2, PlainMap DEF MInv, Meant
  <2> QED
    BY <1>1, <1>2, <1>5, <2>1, <2>2, <2>3, <2>4 DEF Map!ServeGet, Map!Answer, Map!Nothing, Nothing
<1>7. CASE Refuse
  <2>1. asked.kind \in {"set", "delete"} /\ Refused /\ UNCHANGED <<property, held, answer>>
    BY <1>7 DEF Refuse
  <2>2. ~Written
    BY <2>1 DEF Written
  <2>3. CASE asked.kind = "set"
    <3>1. text = PrototypeName \/ property[asked.on][text] = Absent
      BY <1>3, <1>4, <2>1, <2>3 DEF Refused
    <3> QED
      BY <1>1, <1>2, <1>5, <2>1, <2>2, <2>3, <3>1 DEF Map!ServeSet, Map!Nothing, Nothing
  <2>4. CASE asked.kind = "delete"
    <3>1. text \in Hardcoded \/ [property EXCEPT ![asked.on][text] = Absent] = property
      BY <1>3, <1>4, <2>1, <2>4 DEF Refused, Tables
    <3> QED
      BY <1>1, <1>2, <1>5, <2>1, <2>2, <2>4, <3>1
      DEF Map!ServeDelete, Map!Nothing, Nothing, Map!Hardcoded, Hardcoded
  <2> QED
    BY <2>1, <2>3, <2>4
<1>8. CASE Set
  <2>1. asked.kind = "set" /\ ~Refused /\ property' = [property EXCEPT ![level][text] = asked.value]
        /\ UNCHANGED <<held, answer>>
    BY <1>8 DEF Set
  <2>2. Written
    BY <2>1 DEF Written, Refused
  <2> QED
    BY <1>1, <1>2, <2>1, <2>2 DEF Seen, Table, Request
<1>9. CASE Delete
  <2>1. asked.kind = "delete" /\ text \notin Hardcoded
        /\ property' = [property EXCEPT ![level][text] = Absent] /\ UNCHANGED <<held, answer>>
    BY <1>9 DEF Delete, Refused
  <2>2. ~Written
    BY <2>1 DEF Written
  <2> QED
    BY <1>1, <1>2, <1>3, <1>5, <2>1, <2>2
    DEF Map!ServeDelete, Map!Nothing, Nothing, Map!Hardcoded, Hardcoded
<1> QED
  BY <1>6, <1>7, <1>8, <1>9

LEMMA GetFromPrototypeIsQuiet == ASSUME GetFromPrototype PROVE UNCHANGED Seen
<1>1. asked.kind = "get" /\ UNCHANGED <<property, held, asked, answer>>
  BY DEF GetFromPrototype
<1>2. ~Written /\ ~Written'
  BY <1>1 DEF Written
<1> QED
  BY <1>1, <1>2, QuietSteps

LEMMA ReleaseIsCollect == ASSUME IInv, MInv, Release PROVE Map!Collect(condemned)
<1> DEFINE c == condemned
<1>1. c # Undefined /\ property' = [property EXCEPT ![c] = Blank]
      /\ UNCHANGED <<hardlocked, held, asked, level, text, found, answer>>
  BY DEF Release, walk
<1>2. c \in Objects /\ c \notin held /\ property \in Tables
      /\ \A p \in Objects \ {c}, n \in Names : property[p][n] # c
  BY <1>1 DEF MInv, Living, Dead, Types
<1>3. Written' <=> Written
  BY <1>1 DEF Written, Refused
<1>4. Blank = Map!Blank
  BY DEF Blank, Map!Blank, Hardcoded, Map!Hardcoded
<1>5. CASE ~Written
  BY <1>1, <1>2, <1>3, <1>4, <1>5 DEF Map!Collect, Map!Dead
<1>6. CASE Written
  <2>1. pc # "idle"
    BY <1>6, IdleIsNotWritten DEF MInv, Asked
  <2>2. level \in Objects \ {c} /\ text \in Names
        /\ asked.value \in held \union Names \union FastStrings \union {Undefined}
    BY <1>1, <2>1, InRequest, LevelIsHeld DEF MInv, Types
  <2>3. asked.value # c
    BY <1>2, <2>2, DynamicObjectAssumption
  <2> DEFINE t == [property EXCEPT ![level][text] = asked.value]
  <2>4. [property' EXCEPT ![level'][text'] = asked'.value] = [t EXCEPT ![c] = Blank]
    BY <1>1, <1>2, <2>2 DEF Tables
  <2>5. \A p \in Objects \ {c}, n \in Names : t[p][n] # c
    BY <1>2, <2>2, <2>3 DEF Tables
  <2> QED
    BY <1>1, <1>2, <1>3, <1>4, <1>6, <2>4, <2>5 DEF Map!Collect, Map!Dead
<1> QED
  BY <1>5, <1>6

LEMMA NextIsMap ==
  ASSUME IInv, MInv, MInv', [Next]_vars
  PROVE  Map!Next \/ UNCHANGED Seen
<1>1. CASE UNCHANGED vars
  BY <1>1 DEF vars, walk, Seen, Table, Request, Written, Refused
<1>2. CASE ProgramStep
  BY <1>2, GetStringIsPrint, FindIsServed, ApplyIsServed, GetFromPrototypeIsQuiet
  DEF ProgramStep, Map!Next
<1>3. CASE Release
  <2>1. condemned \in Objects
    BY <1>3, ReleaseLeads
  <2> QED
    BY <1>3, <2>1, ReleaseIsCollect DEF Map!Next
<1>4. ASSUME NEW o \in Objects, Condemn(o)
      PROVE  UNCHANGED Seen
  BY <1>4 DEF Condemn, walk, Seen, Table, Request, Written, Refused
<1>5. CASE CollectorStep
  BY <1>3, <1>4, <1>5 DEF CollectorStep
<1>6. ASSUME NEW o \in Objects, NEW p \in Objects \union {Undefined}, Create(o, p)
      PROVE  Map!Next
  BY <1>6, CreateIsCreate DEF Map!Next
<1>7. ASSUME NEW o \in Objects, Forget(o)
      PROVE  Map!Next
  BY <1>7, ForgetIsForget DEF Map!Next
<1>8. CASE Asks
  BY <1>8, AskIsAsk DEF Map!Next
<1> QED
  BY <1>1, <1>2, <1>5, <1>6, <1>7, <1>8 DEF Next

\* Whatever the objects, names and prototypes: requests, with their locks and
\* their walks over texts and prototypes, are requests of the map, which are
\* served at once; a release by the other thread changes no answer.
THEOREM RequestsLookAtomic == Spec => ImplementsMap
<1>1. Init => Map!Init
  <2> SUFFICES ASSUME Init PROVE Map!Init
    OBVIOUS
  <2>1. asked = Nothing /\ ~Written
    BY IdleIsNotWritten DEF Init
  <2> QED
    BY <2>1 DEF Init, Map!Init, Map!Nothing, Nothing, Blank, Map!Blank, Hardcoded, Map!Hardcoded
<1>2. IInv /\ MInv /\ MInv' /\ [Next]_vars => [Map!Next]_Seen
  BY NextIsMap
<1>3. Spec => [](IInv /\ MInv)
  BY InitIInv, NextIInv, InitMInv, NextMInv, PTL DEF Spec
<1> QED
  BY <1>1, <1>2, <1>3, PTL DEF ImplementsMap, Map!Spec, Spec, Seen, Table, Request
=============================================================================
