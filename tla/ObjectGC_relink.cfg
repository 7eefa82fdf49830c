CONSTANTS
  o1 = o1
  o2 = o2
  o3 = o3
  r1 = r1
  r2 = r2
  proto = proto
  f1 = f1
  Objects = {o1, o2}
  Registers = {r1, r2}
  Fields = {proto, f1}
  Proto = proto
  Null = Null
  Links <- PairLinks
  SingleLink = FALSE
  MaxCount = 4
SYMMETRY RegisterSymmetry
SPECIFICATION Spec
INVARIANT DereferenceSucceeds
