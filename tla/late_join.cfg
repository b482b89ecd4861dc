CONSTANTS
  a = a
  NoOne = NoOne
  Machines = {a}
  BootS = 2
  MissingConfirmS = 0
  BlockedRetryS = 2
  AbortBlocked = TRUE
  Faults = {}
  MaxFaults = 0
SPECIFICATION Spec
PROPERTIES
  NeverBecameANode
