SPECIFICATION MCSpec
CONSTANTS
  AmountProbes = 2
  MaximumHops = 2
  MaxTtl = 3
  Distance = 2
  MaxCopies = 1
  Urls = 3
  PoolLimit = 2
INVARIANTS
  HopsBounded
  ChainsCounted
  CountTruthful
  PoolBounded
PROPERTY
  TestEnds
