SPECIFICATION FairSpec
CONSTANTS
  Conns = {c1, c2, c3}
INVARIANTS DrainMissesNobody EveryoneIsTold CloseIsTheEnd
PROPERTIES StopEnds
CHECK_DEADLOCK FALSE
