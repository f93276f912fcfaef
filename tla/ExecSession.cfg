\* Two chunks of stdin, one of stdout and one of stderr, one failed write.
SPECIFICATION ExecFairSpec
CONSTANTS
  MaxIn = 2
  MaxOut = 1
  MaxErr = 1
  MaxFaults = 1
INVARIANTS RecordingIsTrue EndIsLast
PROPERTIES SessionEnds
CHECK_DEADLOCK FALSE
