SPECIFICATION Spec
CONSTANTS
  Caller = {p, q}
  NumCands = 2
  MaxRetries = 1
  MaxAttempts = 2
  Outcomes = {"ok", "http", "down", "broken"}
  MaxFetches = 2
  MaxCrashes = 1
INVARIANTS RequestsBounded
PROPERTIES EndsHonestly EveryCallEnds
