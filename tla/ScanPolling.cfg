SPECIFICATION MCSpec
CONSTANTS
  MaxDepth = 2
  LiveStatuses = {"running", "queued"}
INVARIANTS
  BreakpointJustified
  ZeroMeansOverOrExpired
  LateRequestsBounded
PROPERTIES
  EndsInTime
  EndsWithScan
