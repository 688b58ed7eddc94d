SPECIFICATION Spec
CONSTANTS
  Clients = {c1, c2}
  Burst = 2
  Cost = 2
  Idle = 4
  Nap = 3
  MaxTime = 7
INVARIANT TypeOK
INVARIANT Bounded
PROPERTY EvictionUnseen
