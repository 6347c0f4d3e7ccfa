SPECIFICATION Spec
CONSTANTS
  Inputs <- MCInputs
  Configs <- MCConfigs
  maxMessages = 2
  Builds = {"b1", "b2"}
INVARIANTS
  CheckpointResumable
  SameOutput
PROPERTIES
  ResumeKeepsProgress
  RunsEnd
CHECK_DEADLOCK FALSE
