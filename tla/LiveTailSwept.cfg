\* Three sentences of the code about watching, asked one at a time: TLC finds each
\* of them violated.
SPECIFICATION LiveTailSpec
CONSTANTS
  Asks = {r1, r2}
  Admins = {alice}
  OwnMachine = OwnMachine
  Grace = 1
  MaxChunks = 2
  MaxClock = 2
  MaxEpochs = 1
  MaxLostWatches = 1
INVARIANT UnknownIsNotRead
\* INVARIANT NoneIsTooEarly
\* INVARIANT OneLineEver
CHECK_DEADLOCK FALSE
