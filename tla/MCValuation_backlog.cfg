SPECIFICATION FairSpec
CONSTANTS
  Time <- BusyTime
  PoolOf <- BusyPools
  Valued <- OnePool
  Priceable <- OnePool
  Legacy = 0
  DayLength = 10
  Window = 2
  MaxLag = 6
  Faults = {"write", "read"}
  MaxFaults = 1
INVARIANT NoneLeftBehind
PROPERTY AllPriced
CHECK_DEADLOCK FALSE
