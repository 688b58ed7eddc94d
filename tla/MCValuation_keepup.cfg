SPECIFICATION Spec
CONSTANTS
  Time <- SteadyTime
  PoolOf <- SteadyPools
  Valued <- OnePool
  Priceable <- OnePool
  Legacy = 0
  DayLength = 10
  Window = 4
  MaxLag = 1
  Faults = {"write", "abort"}
  MaxFaults = 1
INVARIANT TypeOK
PROPERTY DayNeverShrinks
CHECK_DEADLOCK FALSE
