SPECIFICATION Spec
CONSTANTS
  wnat = wnat
  odd = odd
  Token <- TwoTokens
  Native = wnat
  Answers <- MCAnswers
  FailSets <- LostCalls
  Traded <- TwoTokens
  Faults = {}
  MaxPasses = 2
  MaxFaults = 2
INVARIANT TypeOK
INVARIANT NativeStands
INVARIANT QuotesMatchBundle
INVARIANT SupplyScaled
PROPERTY KnownKept
CHECK_DEADLOCK FALSE
