CONSTANTS
  Threads = {t1, t2}
  Pages = 7
  CountModulus = 4
  MaxRequest = 3
  Nothing = Nothing
SYMMETRY ThreadSymmetry
SPECIFICATION Spec
INVARIANTS Bookkeeping FindsOwner
PROPERTIES ImplementsAllocator
