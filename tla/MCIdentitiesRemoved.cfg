SPECIFICATION Spec
CONSTANTS
  Persons = {p1, p2}
  Machines = {m1}
  Keys = {k1, k2}
  NoKey = NoKey
  Logins = {l1, l2}
  NoLogin = NoLogin
  MissLimit = 2
  MaxTime = 1
  MaxBirths = 3
  MaxSecrets = 3
  MaxExecs = 1
SYMMETRY Symmetry
INVARIANT RemovedMachineIsGone
\* INVARIANT HistoryIsItsOwn
\* INVARIANT ApprovalsAreItsOwn
CHECK_DEADLOCK FALSE
