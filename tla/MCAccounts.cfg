SPECIFICATION Spec
CONSTANTS
  Caller = {p, q}
  Offline = {steve}
  Online = {alex}
  None = None
  MaxCalls = 3
  MaxKills = 1
  MaxGrants = 2
  MaxPolls = 1
  MaxFaults = 1
INVARIANTS AnsweredIsStored
PROPERTIES TokensOnlyAdvance ForeignStoreUntouched EveryCallEnds
