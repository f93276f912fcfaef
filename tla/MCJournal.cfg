\* Two files, four lines, two failed writes; three requests of a client that
\* uses two ids, one handle, files of two chunks, one failed recording; two
\* requests of two administrators and a machine, over two connections; five
\* lines of a machine in files of two, one archive kept, two deaths of its server.
SPECIFICATION MCSpec
CONSTANTS
  Gw = Gw
  Local = Local
  Tick = Tick
  Cmds = {c1, c2}
  KeyOf <- MCKeyOf
  RotateAt = 1
  MaxFiles = 2
  MaxLines = 4
  MaxFaults = 2
  RequestIds = {1, 2}
  Handles = {h1}
  NoHandle = NoHandle
  MaxRequests = 4
  MaxAt = 1
  MaxNaming = 1
  MaxWork = 3
  MaxLogFaults = 1
  Asks = {r1, r2}
  Admins = {alice, bob}
  OwnMachine = OwnMachine
  Grace = 1
  MaxChunks = 2
  MaxClock = 2
  MaxEpochs = 2
  MaxLostWatches = 1
  MaxBytes = 2
  MaxArchives = 1
  MaxDoorLines = 5
  MaxStamps = 3
  MaxKills = 2
  MaxSinkFaults = 2
SYMMETRY Symmetry
INVARIANTS JournalHolds AuditIsHonest NothingChangesUnjudged LinesAreTrue WatchingIsTrue RotationKeeps
CHECK_DEADLOCK FALSE
