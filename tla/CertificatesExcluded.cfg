SPECIFICATION MCSpec
CONSTANTS
  Requests = {"first", "second"}
  Certs = {"a.pfx", "b.pfx", "c.pem"}
  Pfx = {"a.pfx", "b.pfx"}
  Matchings <- MCMatchings
  Policies <- MCPolicies
  NoCert = "none"
PROPERTY
  ExcludedIsNotTried
CHECK_DEADLOCK FALSE
