CONSTANTS
  a = a
  b = b
  c = c
  ovh = ovh
  vultr = vultr
  Names = {a, b}
  NoName = NoName
  Providers = {ovh, vultr}
  ProviderOf <- TwoClouds
  PoolSeq <- OnePool
  PoolProviders <- OvhFirst
  Unknown = Unknown
  MinMachines <- NoFloor
  PoolMax <- Unlimited
  FleetMax = 2
  Batch <- BatchOfTwo
  Drain = FALSE
  BootS = 1
  IdleS = 1
  DeadS = 1
  MissingConfirmS = 1
  MaxPass = 1
  MaxNeed = 1
  Horizon = 3
  Events = {"demand"}
  Broken = {ovh}
SPECIFICATION FairSpec
PROPERTIES
  OthersReleased
