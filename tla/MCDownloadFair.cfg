SPECIFICATION FairSpec
CONSTANTS
  NumChunks = 2
  Concurrency = 1
  MaxRetries = 1
  PersistEvery = 1
  Checked = TRUE
  Redownload = FALSE
  Faults = {"net"}
  MaxFaults = 3
PROPERTIES AttemptsDeliver
