CONSTANTS
  DoorIDs <- MCDoorIDs
  NoID = 0
  BadID = 99
  MaxCount = 9
  Callers = {c1}
  StaleCallers = {}
  MaxMisses = 1
  MaxWire = 2
  MaxRetired = 1
  MaxFaults = 1
SPECIFICATION FairConnSpec
INVARIANT OneLine
PROPERTY TeardownReleases
