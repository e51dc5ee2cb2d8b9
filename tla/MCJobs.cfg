SPECIFICATION MCSpec
CONSTANTS
  a = a
  b = b
  dl = dl
  kotlin = kotlin
  Job = {a, b}
  Thread = {a, b}
  Scope = {dl}
  ScopeOf <- MCScopeOf
  Steps <- MCSteps
  FailAt <- MCFailAt
  Event <- MCEvent
  NoJob = NoJob
  Echo <- MCEcho
  MaxEcho = 2
  MaxMoves = 1
  Sink = {kotlin, native}
  Reentrant = {native}
  NoSink = NoSink
  NoThread = NoThread
INVARIANTS JobsInv StreamInOrder CancelIsPrompt
PROPERTIES JobEnds
CHECK_DEADLOCK FALSE
