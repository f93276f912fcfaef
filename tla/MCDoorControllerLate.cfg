CONSTANTS
  DoorIDs = {d1, d2}
  NoID = NoID
  Owners <- MCOwners
  Ctls <- MCCtls
  NoCtl = NoCtl
  OwnerOf <- MCOwnerOf
  NoOwner = NoOwner
  MaxFaults = 0
SPECIFICATION CtlSpec
INVARIANT ServeLeavesDoorClean
