-------------------------- MODULE MCDynamicObject --------------------------
(* Three objects: a line of prototypes, texts that lead along it and back,   *)
(* one that a plugin stored and one of a program.                           *)
EXTENDS DynamicObject, TLC

CONSTANT PluginText  \* spells the name of the prototype property

MCObjects == 1 .. 3
MCPrototypes == {<<2, 1>>, <<3, 2>>}
MCSpelling == PluginText :> PrototypeName
MCForgettable == {3}
MCWritable ==
  {<<1, StringName, 3>>, <<2, StringName, 3>>, <<2, StringName, PrototypeName>>,
   <<3, StringName, 1>>, <<3, StringName, PluginText>>,
   <<1, PrototypeName, Undefined>>, <<3, PrototypeName, Undefined>>}
=============================================================================
