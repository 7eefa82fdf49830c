CONSTANTS
  MaxEntries = 2
  PageEntries = 3
  MaxRequest = 4
SPECIFICATION FairSpec
INVARIANTS Bookkeeping
PROPERTIES NewOnlyWhenNothingFits ImplementsAllocator DestroyCompletes
