CONSTANTS
  DoorIDs = {d1, d2}
  NoID = NoID
  Owners <- MCOwners
  Ctls <- MCCtls
  NoCtl = NoCtl
  OwnerOf <- MCOwnerOf
  NoOwner = NoOwner
  MaxFaults = 2
SPECIFICATION CtlSpec
INVARIANTS WatchdogsMatchLines ServedDoorIsOnDisk
PROPERTIES LineGoes
