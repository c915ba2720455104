SPECIFICATION MCSpec
CONSTANTS
  p1 = p1
  p2 = p2
  Processes = {p1, p2}
  MaxPublished = 1
  Length <- MCLength
  Invocations <- MCInvocations
  Documents <- MCDocuments
  Batch = 2
  Total = 4
INVARIANTS
  FileKeepsNewest
  ExitTruthful
  ListExact
PROPERTIES
  SentryKeepsUp
  CommandEnds
