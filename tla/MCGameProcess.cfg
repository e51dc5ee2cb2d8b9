SPECIFICATION SessionSpec
CONSTANTS
  MaxLines = 2
  PipeSize = 1
  Capacity = 2
  RingSize = 1
  MaxEvidence = 1
  Says <- MCSays
  Forks = TRUE
  Timely = TRUE
INVARIANTS LogIsFaithful NothingLostAtExit StoppedIsNoCrash ReportExplainsItself
PROPERTIES StopEndsGame ExitIsReported
CHECK_DEADLOCK FALSE
