SPECIFICATION ListFairSpec
CONSTANTS
  FSize = 4
  NSize = 2
  Interval = 1
  NullPtr = NullPtr
  Itself = Itself
  LocalHead = LocalHead
  Cells <- AllCells
  Timers = {t1}
  Delays = {0, 13, 40, 62}
  Dues = {3}
  MaxBurst = 2
INVARIANTS PlacementInv ListsMatch
PROPERTIES FiresOnTime OnlyRunningFires FirstWheelFires
CHECK_DEADLOCK FALSE
