SPECIFICATION Spec
CONSTANTS
  NumChunks = 2
  Concurrency = 2
  MaxRetries = 0
  PersistEvery = 1
  Checked = FALSE
  Redownload = FALSE
  Faults = {"crash"}
  MaxFaults = 1
INVARIANTS OkMeansIntact
