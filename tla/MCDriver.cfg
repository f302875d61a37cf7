CONSTANTS
  Configurations <- MCConfigurations
  Before <- MCBefore
SPECIFICATION FairSpec
INVARIANTS TempsGone NoPartialOutput Built
PROPERTIES StageInputsWhole AbortsOnError Terminates
CHECK_DEADLOCK FALSE
