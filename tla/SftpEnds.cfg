\* A lost machine ends the session, whatever the goroutines were waiting for:
\* holds.  A refusal is always taken: violated, for nobody may read it any more.
\* Every change is judged: violated by what is handed on without being read.  A
\* hash is of what is in the file: violated by a copy that failed half-way.
SPECIFICATION SftpFairSpec
CONSTANTS
  RequestIds = {1, 2}
  Handles = {h1}
  NoHandle = NoHandle
  MaxRequests = 3
  MaxNaming = 1
  MaxWork = 2
  MaxAt = 0
  MaxLogFaults = 1
PROPERTY SftpEnds
\* PROPERTY RefusalReleased
\* INVARIANT EveryChangeIsJudged
\* INVARIANT HashIsOfTheFile
CHECK_DEADLOCK FALSE
