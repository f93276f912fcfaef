\* Violated: a chunk read ahead is not recorded when the machine then refuses the
\* command, or when the session ends with it in the buffer.
SPECIFICATION ExecSpec
CONSTANTS
  MaxIn = 2
  MaxOut = 1
  MaxErr = 1
  MaxFaults = 1
INVARIANT TakenIsRecorded
\* INVARIANT RevokedIsNoStop
CHECK_DEADLOCK FALSE
