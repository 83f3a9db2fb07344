SPECIFICATION FairServiceSpec
CONSTANTS
  Interval = 2
  Uint16Size = 8
  StartTime = 1
  MaxTime = 8
  Users = {u1}
  Delays = {0, 4}
  Dues = {0, 3}
  Nobody = Nobody
  Ticker = Ticker
INVARIANTS NotOverdue OneMoreRound
PROPERTIES NotEarly MutexComesFree
CHECK_DEADLOCK FALSE
