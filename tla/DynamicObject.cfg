CONSTANTS
  Objects <- MCObjects
  PrototypeName = PrototypeName
  StringName = StringName
  DefaultText = DefaultText
  Names = {PrototypeName, StringName, DefaultText}
  PluginText = PluginText
  FastStrings = {PluginText}
  Spelling <- MCSpelling
  MaxKept = 2
  Prototypes <- MCPrototypes
  Forgettable <- MCForgettable
  Writable <- MCWritable
  Undefined = Undefined
  Absent = Absent
SPECIFICATION FairSpec
INVARIANTS LocksAreReturned
PROPERTIES OperationsEnd DeadAreReleased ImplementsMap
CHECK_DEADLOCK FALSE
