\* A death of the server between two steps of a rotation.
SPECIFICATION DoorJournalSpec
CONSTANTS
  MaxBytes = 1
  MaxArchives = 1
  MaxDoorLines = 4
  MaxStamps = 3
  MaxKills = 1
  MaxSinkFaults = 0
INVARIANT LineIsNeverLost
CHECK_DEADLOCK FALSE
