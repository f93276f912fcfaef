\* Two processes, two updates, one fault; two sessions of one chunk, on two of
\* three days, one fault.
SPECIFICATION MCSpec
CONSTANTS
  Procs = {p1, p2}
  NoProc = NoProc
  NoFile = NoFile
  Torn = Torn
  DurableReplace = TRUE
  MaxUpdates = 2
  MaxFaults = 1
  Recs = {s1, s2}
  NoRec = NoRec
  Retention = 1
  Attempts = 2
  MaxRecChunks = 1
  MaxNow = 2
  MaxRecDirFaults = 1
SYMMETRY Symmetry
INVARIANTS MemoryIsTheFile RecordingsAreTrue RotationSpares
PROPERTIES ArchivesHold ImplementsRegister
CHECK_DEADLOCK FALSE
