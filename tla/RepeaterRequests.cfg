SPECIFICATION MCSpec
CONSTANTS
  Requests = {r1, r2}
  Ids = {"all", "host", "other"}
  Matching = {"all", "host"}
  Locals <- MCLocals
  Payloads <- MCPayloads
  Sizes = {1, 3}
  BodySizes = {2}
  ContentSize = 1
  MaxUpdates = 2
INVARIANTS
  StoreIsOneUpdate
  BodyWithinLimit
  TimeoutJustified
PROPERTIES
  LatestScript
  Acknowledged
