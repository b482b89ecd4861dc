CONSTANTS
  Dims <- ThreeDims
  Pods = {1, 2}
  Wants <- SomeWants
  Frees <- NoFrees
  MaxFree = 0
  ShapeLists <- KnownLists
  Catalogs <- FullyReported
  PodCapacity <- TwoPods
  Reserve <- OneCpu
  Daemons <- NoDaemons
  MaxMachines = 2
SPECIFICATION FairSizingSpec
INVARIANTS
  SizingTypeOK
  
PROPERTIES
  EveryPodServed
