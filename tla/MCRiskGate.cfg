SPECIFICATION Spec
CONSTANTS
  Persons = {p1, p2}
  Senders = {p1}
  Sessions = {s1, s2}
  Texts = {"list", "wipe"}
  RedTexts = {"wipe"}
  YellowTexts = {}
  ConfigMode = "ask"
  ConfigSource = "both"
  HasClient = TRUE
  TTL = 2
  MaxTime = 2
  MaxIds = 2
  MaxSwitches = 1
  NoOne = NoOne
SYMMETRY Symmetry
INVARIANTS ApprovalIsExact BarrierHolds
