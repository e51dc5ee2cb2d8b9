SPECIFICATION Spec
CONSTANTS
  File <- MCFile
  Options <- MCOptions
  Published <- MCPublished
  Runtime <- MCRuntime
  Strict = {TRUE, FALSE}
  MaxLost = 1
  MaxTries = 2
INVARIANTS ChildOverrides PreparedIsWhole InstalledIsAccepted CommandIsSound
