CONSTANTS
  Registers = {r1, r2}
  Args = {a}
  Locals = {x}
  Objects = {o1}
  Plain = Plain
  MaxDepth = 2
  MaxCount = 6
SYMMETRY RegisterSymmetry
SPECIFICATION Spec
INVARIANTS Acyclic CountsExact
PROPERTIES UnlocksWhatItLocked
