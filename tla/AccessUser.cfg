SPECIFICATION Spec
CONSTANTS
  People = {alice}
  Machines = {m1}
  Sessions = {s1}
  Users = {root, dev}
  NoUser = NoUser
  MaxTime = 1
INVARIANTS OnlyVerifiedUser
