CONSTANTS
  cpu = cpu
  gpu = gpu
  ovh = ovh
  vultr = vultr
  other = other
  small = small
  large = large
  huge = huge
  retired = retired
  None = None
  Dims = {cpu, gpu}
  Types = {ovh, vultr}
  Size <- Sizes
  Sold <- Market
  Quotas = {ovh}
  MaxSlots = 2
  Faults = {}
  Cases <- SomeCases
  Others <- OneEach
  LiqoLabels <- Liqo
  LiqoTaint <- NotAllowed
  OwnLabels <- OfTheMachine
  PoolLabel = "pool"
  Absent = Absent
  Blank = FALSE
  Soft = FALSE
  Empty = FALSE
  Sidecars = FALSE
  Twice = FALSE
SPECIFICATION Spec
CHECK_DEADLOCK FALSE
INVARIANTS
  RentingTypeOK
  NotRentedInVain
  NotWithheld
  HoldsThroughout
  NothingToSpare
  InConfiguredOrder
  StopsWithAReason
