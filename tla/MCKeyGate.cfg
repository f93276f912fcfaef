SPECIFICATION Spec
CONSTANTS
  Names = {alice, bob}
  Keys = {k1, k2}
  None = None
  Commands = {c1, c2}
  Sessions = {s1}
SYMMETRY Symmetry
INVARIANTS TakenKeyIsBeingCut
PROPERTIES OnlyKeyHoldersWrite
CHECK_DEADLOCK FALSE
