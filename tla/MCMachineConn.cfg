CONSTANTS
  DoorIDs <- MCDoorIDs
  NoID = 0
  BadID = 99
  MaxCount = 9
  Callers = {c1, c2}
  StaleCallers = {}
  MaxMisses = 1
  MaxWire = 2
  MaxRetired = 1
  MaxFaults = 0
SPECIFICATION ConnSpec
SYMMETRY CallerSymmetry
INVARIANTS KeyMatchesDoor NoCompetingOpen
PROPERTY CountedOnce
