SPECIFICATION Spec
CONSTANTS
  Ids = {i1,i2}
  Reqs = {r1, r2, r3}
  Socks = {k1}
  MaxSpawns = 1
  None = None
SYMMETRY CallSymmetry
CONSTRAINT CallsOnly
INVARIANTS
  TypeOK
  SpawnSlots
  Ownership
PROPERTIES
  RegistrySpec
CHECK_DEADLOCK FALSE
