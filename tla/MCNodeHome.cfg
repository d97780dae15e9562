CONSTANTS
  None = None
  Torn = Torn
  Default = Default
  Template = Template
  WellKnown = WellKnown
  Local = Local
  Public = Public
  Unsupported = Unsupported
  EnvKey = 0
  MaxKeys = 2
  MaxHeight = 3
  Rollbacks <- MCRollbacks
  Keep = 2
  MaxCommands = 3
  MaxCrashes = 1
SPECIFICATION Spec
INVARIANTS
  
  StartsAfterInit
  
CHECK_DEADLOCK FALSE
