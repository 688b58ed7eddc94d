SPECIFICATION Spec
CONSTANTS
  Swap <- FourSwaps
  Old = 2
  TokenOf <- TwoPools
  Day <- TwoDays
  SwapQueries <- MixedQueries
  ListQueries <- DayQueries
  WalkPool = "quiet"
  WalkFirst = 1
  DefaultFirst = 2
  MaxFirst = 3
  MaxUsd = 1
  StopInUpgrade = FALSE
  MaxStops = 1
INVARIANT TypeOK
INVARIANT SwapPagesRight
INVARIANT ListPagesRight
INVARIANT VolumeIsTrades
INVARIANT WalkWhole
CHECK_DEADLOCK FALSE
