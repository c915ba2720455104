SPECIFICATION MCSpec
CONSTANTS
  Requests = {"first", "second"}
  Certs = {"a.pfx", "b.pfx", "c.pem"}
  Pfx = {"a.pfx", "b.pfx"}
  Matchings <- MCMatchings
  Policies <- MCPolicies
  NoCert = "none"
INVARIANTS
  OwnCredentials
  CachedPfxSuffices
  CacheEarned
  ErrorJustified

  
CHECK_DEADLOCK FALSE
