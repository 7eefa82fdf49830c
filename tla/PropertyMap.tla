---------------------------- MODULE PropertyMap ----------------------------
(***************************************************************************)
(* What dynamic objects promise a program: each object is a table of named  *)
(* values, one request is served at a time and at once, a missing property  *)
(* is looked up in the prototype, and an object used as a name stands for   *)
(* its text.  There are no locks, no list and no activations here.          *)
(***************************************************************************)
CONSTANTS
  Objects, Names,
  PrototypeName,  \* the property that holds the prototype; never written again
  StringName,     \* the property that gives an object its text
  DefaultText,    \* the text of an object that has none
  FastStrings,    \* the values that give an object its text
  Spelling,       \* the name each of them spells
  Undefined, Absent

VARIABLES table, held, asked, answer

Hardcoded == {PrototypeName, StringName}
Values == Objects \union Names \union FastStrings \union {Undefined}
Blank == [n \in Names |-> IF n \in Hardcoded THEN Undefined ELSE Absent]
Nothing == [kind |-> "none", on |-> Undefined, key |-> Undefined, value |-> Undefined]

\* The object other than o that a property of o holds, if it holds one.
Other(o, n) == {table[o][n]} \cap (Objects \ {o})

\* The objects nothing holds but perhaps themselves.
Dead(o) == o \notin held /\ \A p \in Objects \ {o}, n \in Names : table[p][n] # o

\* What the object has to which the steps in next lead from o: no set that is
\* closed under them avoids it.  Nothing, when they lead back.
EndOf(o, next, end) ==
  {v \in Values :
     \A S \in SUBSET Objects :
       o \in S /\ (\A p \in S : next[p] \subseteq S)
         => \E p \in S : next[p] = {} /\ end[p] = v}

\* A text follows string properties, and prototypes where there is none.  A
\* name in a string property is none.
TextNext ==
  [o \in Objects |->
     IF Other(o, StringName) # {} THEN Other(o, StringName)
     ELSE IF table[o][StringName] \in FastStrings THEN {} ELSE Other(o, PrototypeName)]
TextEnd ==
  [o \in Objects |->
     IF table[o][StringName] \in FastStrings THEN Spelling[table[o][StringName]] ELSE DefaultText]

TextOf(key) == IF key \in Names THEN {key} ELSE EndOf(key, TextNext, TextEnd)

\* A missing property is that of the prototype.
ValueNext(name) ==
  [o \in Objects |-> IF table[o][name] # Absent THEN {} ELSE Other(o, PrototypeName)]
ValueEnd(name) ==
  [o \in Objects |-> IF table[o][name] # Absent THEN table[o][name] ELSE Undefined]

ValueOf(object, name) == EndOf(object, ValueNext(name), ValueEnd(name))

Init ==
  /\ table = [o \in Objects |-> Blank]
  /\ held = {}
  /\ asked = Nothing
  /\ answer = Undefined

Create(o, prototype) ==
  /\ Dead(o) /\ table[o] = Blank
  /\ prototype \in held \union {Undefined}
  /\ table' = [table EXCEPT ![o][PrototypeName] = prototype]
  /\ held' = held \union {o}
  /\ UNCHANGED <<asked, answer>>

Forget(o) ==
  /\ asked = Nothing
  /\ held' = held \ {o}
  /\ UNCHANGED <<table, asked, answer>>

Collect(o) ==
  /\ Dead(o)
  /\ table' = [table EXCEPT ![o] = Blank]
  /\ UNCHANGED <<held, asked, answer>>

Ask ==
  /\ asked = Nothing
  /\ asked' \in [kind : {"get", "set", "delete", "print"}, on : held,
                 key : Names \union held \union {Undefined}, value : Values]
  /\ answer' = Undefined
  /\ UNCHANGED <<table, held>>

Answer(values) ==
  /\ answer' \in values
  /\ held' = held \union ({answer'} \cap Objects)
  /\ asked' = Nothing
  /\ UNCHANGED table

ServeGet ==
  /\ asked.kind = "get"
  /\ \E name \in TextOf(asked.key) : Answer(ValueOf(asked.on, name))

ServePrint ==
  /\ asked.kind = "print"
  /\ Answer(TextOf(asked.on))

\* A write of the prototype does nothing, nor does one that finds no memory
\* for a new property.
ServeSet ==
  /\ asked.kind = "set"
  /\ \E name \in TextOf(asked.key) :
       \/ /\ name # PrototypeName
          /\ table' = [table EXCEPT ![asked.on][name] = asked.value]
       \/ /\ name = PrototypeName \/ table[asked.on][name] = Absent
          /\ UNCHANGED table
  /\ asked' = Nothing
  /\ UNCHANGED <<held, answer>>

ServeDelete ==
  /\ asked.kind = "delete"
  /\ \E name \in TextOf(asked.key) :
       table' = IF name \in Hardcoded THEN table
                ELSE [table EXCEPT ![asked.on][name] = Absent]
  /\ asked' = Nothing
  /\ UNCHANGED <<held, answer>>

Next ==
  \/ \E o \in Objects : Forget(o) \/ Collect(o)
  \/ \E o \in Objects, p \in Objects \union {Undefined} : Create(o, p)
  \/ Ask \/ ServeGet \/ ServePrint \/ ServeSet \/ ServeDelete

Spec == Init /\ [][Next]_<<table, held, asked, answer>>
=============================================================================
