SPECIFICATION Spec
CONSTANTS
  NumChunks = 3
  Concurrency = 2
  MaxRetries = 1
  PersistEvery = 3
  Checked = TRUE
  Redownload = FALSE
  Faults = {"net", "badbytes", "fullbody", "unlink", "crash"}
  MaxFaults = 2
INVARIANTS VerifiedDelivery
PROPERTIES FinishedIsLast KeepsPromise
