CONSTANTS
  Word = 64
  Block = 4
  Texts <- MCTexts
  Offsets = {0, 1, 2, 3, 5, 63}
  Sizes = {0, 1, 3, 5, 60, 63}
  MaxSize = 5
SPECIFICATION Spec
INVARIANTS TextFits HashIsFresh CharactersAreReplaced
CHECK_DEADLOCK FALSE
