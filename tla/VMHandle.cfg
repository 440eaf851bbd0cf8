CONSTANTS
  t1 = t1
  t2 = t2
  t3 = t3
  s1 = s1
  s2 = s2
  s3 = s3
  s4 = s4
  v1 = v1
  v2 = v2
  v3 = v3
  Null = Null
  Raw = Raw
  Thread <- MCThread
  Slot <- MCSlot
  VM <- MCVM
SPECIFICATION HandleSpec
SYMMETRY Symmetry
INVARIANTS
  OneHolder
  UsesAreAlive
