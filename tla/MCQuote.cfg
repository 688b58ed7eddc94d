SPECIFICATION Spec
CONSTANTS
  Row <- SixRows
  Venue <- SixVenues
  Charge <- SixFees
  Market <- ThreeBlocks
  Wrapped = "wnat"
  Million = 1000
  MaxRoutes = 24
  Asks <- Trades
  Grants = {0, 6}
  Flaky = {1, 3}
  MaxAsks = 2
INVARIANTS TypeOK BestOfBook LegsOwnPool PairsAccept FillsAsQuoted
CHECK_DEADLOCK FALSE
