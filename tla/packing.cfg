CONSTANTS
  Dims <- ThreeDims
  Pods = {1, 2, 3, 4}
  Wants <- SomeWants
  Frees <- SomeFrees
  MaxFree = 1
  ShapeLists <- SomeShapeLists
SPECIFICATION PackingSpec
INVARIANTS
  NoBinOverflows
  NoneInVain
  FewestMachines
CHECK_DEADLOCK FALSE
