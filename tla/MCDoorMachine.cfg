SPECIFICATION MCSpec
CONSTANTS
  d1 = d1
  d2 = d2
  d3 = d3
  DoorIDs = {d1, d2, d3}
  NoID = NoID
  BadID = BadID
  MaxCount = 3
  Sizes <- MCSizes
  Numbers <- MCNumbers
  TabStop = 1
  MaxHistory = 1
  MaxInt = 15
  MaxInk = 2
  MaxLog = 3
SYMMETRY Symmetry
INVARIANTS DoorInv TerminalHolds
PROPERTIES RepeatedOnce ForgottenKeyStaysForgotten
