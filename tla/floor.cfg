CONSTANTS
  a = a
  b = b
  c = c
  ovh = ovh
  vultr = vultr
  Names = {a, b}
  NoName = NoName
  Providers = {ovh}
  ProviderOf <- OneCloud
  PoolSeq <- OnePool
  PoolProviders <- OvhOnly
  Unknown = Unknown
  MinMachines <- FloorOfOne
  PoolMax <- Unlimited
  FleetMax = 2
  Batch <- BatchOfTwo
  Drain = FALSE
  BootS = 1
  IdleS = 1
  DeadS = 1
  MissingConfirmS = 1
  MaxPass = 0
  MaxNeed = 1
  Horizon = 2
  Events = {"pods", "demand"}
  Broken = {}
SPECIFICATION Spec
INVARIANTS
  FloorKept
SYMMETRY SomeNames
