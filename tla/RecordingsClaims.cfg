\* Four sentences of the code about recordings, asked one at a time: TLC finds
\* each of them violated.
SPECIFICATION RecordingsSpec
CONSTANTS
  Recs = {s1, s2}
  NoRec = NoRec
  Retention = 1
  Attempts = 2
  MaxRecChunks = 1
  MaxNow = 2
  MaxRecDirFaults = 1
INVARIANT RecordedIsNeverDeleted
\* INVARIANT EveryByteFirst
\* INVARIANT OneSessionPerName
\* PROPERTY EveryRemovalHasItsLine
CHECK_DEADLOCK FALSE
