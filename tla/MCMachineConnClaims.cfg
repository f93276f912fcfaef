\* Sentences about reservations and the machine's line, asked one at a time: TLC
\* finds each of them violated.  The first three are asked as the file stands;
\* OneLine is violated with Callers = {c1} and StaleCallers = {c1};
\* UnresponsiveIsLetGo is asked of TimedConnSpec, with Callers = {c1} and
\* MaxFaults = 0.
CONSTANTS
  DoorIDs <- MCDoorIDs
  NoID = 0
  BadID = 99
  MaxCount = 9
  Callers = {c1, c2}
  StaleCallers = {}
  MaxMisses = 1
  MaxWire = 2
  MaxRetired = 1
  MaxFaults = 1
SPECIFICATION ConnSpec
INVARIANT NobodyCountedTwice
\* INVARIANT NoForgottenReservation
\* PROPERTY IdleCloseSparesCallers
\* INVARIANT OneLine
\* SPECIFICATION TimedConnSpec
\* PROPERTY UnresponsiveIsLetGo
