CONSTANTS
  a = a
  NoOne = NoOne
  Machines = {a}
  BootS = 2
  MissingConfirmS = 1
  BlockedRetryS = 2
  AbortBlocked = TRUE
  Faults = {"patch", "api", "hub", "timeout", "destroy", "crash", "vanish"}
  MaxFaults = 4
SPECIFICATION FairSpec
INVARIANTS
  HandshakeTypeOK
  SlicesHonest
  SlicesOwned
PROPERTIES
  RefusedLeftAlone
  UsefulOrGone
