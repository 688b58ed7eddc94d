SPECIFICATION FairSpec

CONSTANTS
  Market <- OneMarket
  Order <- OneOrder
  Place <- InOneMarket
  NChains = 2
  TradeLog <- LiveLog
  MaxHeight <- LiveHeight
  Page = 2
  RelaunchRunning = FALSE
  EvmWrites = 1
  MaxRefused = 1
  MaxCrashes = 1

INVARIANTS
  TypeOK

PROPERTIES
  TradesIngested
  BookRefreshed
  TradesMirrored
