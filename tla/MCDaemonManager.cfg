SPECIFICATION Spec
CONSTANTS
  Calls = {c1, c2, c3}
  Panes = {p1, p2}
  None = None
  Limits = {1, 2}
  MaxUpsets = 2
SYMMETRY Symmetry
CONSTRAINT Focus
INVARIANTS
  SlotsCounted
  PanesSound
PROPERTIES
  OnlyCurrentRegisters
CHECK_DEADLOCK FALSE
