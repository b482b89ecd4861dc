CONSTANTS
  a = a
  b = b
  c = c
  ovh = ovh
  vultr = vultr
  Names = {a}
  NoName = NoName
  Providers = {ovh}
  ProviderOf <- OneCloud
  PoolSeq <- OnePool
  PoolProviders <- OvhOnly
  Unknown = Unknown
  MinMachines <- FloorOfOne
  PoolMax <- Unlimited
  FleetMax = 0
  Batch <- BatchOfTwo
  Drain = TRUE
  BootS = 1
  IdleS = 1
  DeadS = 1
  MissingConfirmS = 1
  MaxPass = 1
  MaxNeed = 1
  Horizon = 3
  Events = {"pods", "demand", "blind", "omit", "vanish"}
  Broken = {}
SPECIFICATION FairSpecRestarted
PROPERTIES
  OrphansSwept
  CredentialsSwept
  ScalesToZero
  UnreachableReleased
INVARIANTS
  IdleStayedIdle
  AbsenceConfirmed
