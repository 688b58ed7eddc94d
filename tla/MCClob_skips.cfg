SPECIFICATION Spec

CONSTANTS
  Market <- TwoMarkets
  Order <- OneOrder
  Place <- InOneMarket
  NChains = 2
  TradeLog <- LiveLog
  MaxHeight <- LiveHeight
  Page = 2
  RelaunchRunning = FALSE
  EvmWrites = 0
  MaxRefused = 0
  MaxCrashes = 1

INVARIANTS
  NeverSkipsFill
