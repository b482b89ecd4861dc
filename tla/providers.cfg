CONSTANTS
  m = m
  n = n
  a10 = a10
  small = small
  large = large
  None = None
  Ids = {1, 2, 3}
  Ours = {m, n}
  Foreign = {a10}
  Flavors = {small, large}
  Wishes <- AnyOrder
  Regions = {"GRA", "BHS"}
  Account = "GRA"
  Careless = FALSE
  PerPage = 1
  BlockOnly = {}
  Faults = {}
SPECIFICATION ProvidersSpec
INVARIANTS
  ProvidersTypeOK
PROPERTIES
  KeepsContract
  CallsReturn
  RentsWhatItSized
