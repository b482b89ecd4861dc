CONSTANTS
  a = a
  b = b
  c = c
  ovh = ovh
  vultr = vultr
  Names = {a}
  NoName = NoName
  Providers = {ovh}
  ProviderOf <- OneCloud
  PoolSeq <- OnePool
  PoolProviders <- OvhOnly
  Unknown = Unknown
  MinMachines <- NoFloor
  PoolMax <- Unlimited
  FleetMax = 1
  Batch <- BatchOfTwo
  Drain = FALSE
  BootS = 1
  IdleS = 1
  DeadS = 1
  MissingConfirmS = 1
  MaxPass = 1
  MaxNeed = 1
  Horizon = 3
  Events = {"demand", "vanish", "ambiguous", "api", "leftover", "crash", "condemn", "flap"}
  Broken = {ovh}
SPECIFICATION Spec
PROPERTIES
  KeepsFleet
INVARIANTS
  BoxHasSecret
  DestroyedOnce
