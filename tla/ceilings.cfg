CONSTANTS
  a = a
  b = b
  c = c
  ovh = ovh
  vultr = vultr
  Names = {a, b, c}
  NoName = NoName
  Providers = {ovh, vultr}
  ProviderOf <- TwoClouds
  PoolSeq <- TwoPools
  PoolProviders <- OvhFirst
  Unknown = Unknown
  MinMachines <- OneForGpu
  PoolMax <- TwoAndOne
  FleetMax = 2
  Batch <- BatchOfOne
  Drain = FALSE
  BootS = 0
  IdleS = 0
  DeadS = 0
  MissingConfirmS = 0
  MaxPass = 0
  MaxNeed = 2
  Horizon = 1
  Events = {"demand"}
  Broken = {}
SPECIFICATION Spec
INVARIANTS
  TypeOK
  PoolCeilingHeld
  CeilingHeld
