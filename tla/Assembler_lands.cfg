CONSTANTS
  Length = 6
  Programs <- AllPrograms
  Half = 6
SPECIFICATION FairSpec
INVARIANTS ReferencesLand
PROPERTIES Terminates
