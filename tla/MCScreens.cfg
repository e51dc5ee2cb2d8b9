SPECIFICATION MCAppSpec
CONSTANTS
  NumChunks = 3
  Concurrency = 2
  MaxRetries = 1
  PersistEvery = 2
  Checked = FALSE
  Redownload = FALSE
  Faults = {"net", "unlink", "crash"}
  MaxFaults = 2
  Slot = {s1, s2}
  Premium = {alex}
  Cracked = {steve}
  NoAccount = NoAccount
  MaxTaps = 3
  Catalog <- MCCatalog
  Title <- MCTitle
  Look = {"plain", "moved"}
  ElementKind = {"btn"}
  MaxElements = 3
  MaxEdits = 3
  MaxEditorKills = 1
  Family = {"fabric", "forge"}
  GameVersions <- MCVersions
  Builds <- MCBuilds
  Dashboard = {home, other}
  Home = home
  MaxScreenTaps = 9
INVARIANTS ResumeSound ScreensSound
PROPERTIES FirstDeliveryComplete ScreensKeep
