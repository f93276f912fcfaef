SPECIFICATION Spec
CONSTANTS
  People = {alice, bob}
  Machines = {m1}
  Sessions = {s1}
  Users = {root}
  NoUser = NoUser
  MaxTime = 1
INVARIANTS EngineAgrees LiveSessionPermitted
PROPERTIES ExpiredEnds
