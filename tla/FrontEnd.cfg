SPECIFICATION FrontSpec
CONSTANTS
  Sources <- MCSources
  Identifiers <- MCIdentifiers
  Files <- MCFiles
INVARIANTS WordsAreLexed LiteralsMean LinesShown FreedOnce ContextsFit SlotsFit ResolutionAgrees TextIsKept PrecedenceHolds
PROPERTIES Ends
