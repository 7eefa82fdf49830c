CONSTANTS
  Bytecode <- MCCode
  StackSize = 60
  BlockSize <- MCBlockSize
  Shape <- MCShape
  Trees <- MCTrees
  Locals <- MCLocals
  Properties <- MCProperties
  CountedIn <- MCCountedIn
  Width = 16
SPECIFICATION MCSpec
INVARIANTS StackAgrees 
PROPERTIES NothingLeftAtReset CrashEndsInReset
