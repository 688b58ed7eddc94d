SPECIFICATION FairSpec
CONSTANTS
  Time <- ShortTime
  PoolOf <- ShortPools
  Valued <- TwoPools
  Priceable <- OnePool
  Legacy = 3
  DayLength = 10
  Window = 2
  MaxLag = 1
  Faults = {"write", "abort", "drop", "quote"}
  MaxFaults = 1
INVARIANT AllDated
PROPERTY HealFinishes
CHECK_DEADLOCK FALSE
