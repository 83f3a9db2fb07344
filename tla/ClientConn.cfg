SPECIFICATION FairSpec
CONSTANTS
  MaxTimes = 2
  MaxSocks = 3
  MaxSends = 1
  MaxMsgs = 1
INVARIANTS OneReceive TakenBackIdle
PROPERTIES KeepsOpen EndIsNoticed ThreadEnds
CHECK_DEADLOCK FALSE
