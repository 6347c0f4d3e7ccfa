SPECIFICATION Spec
CONSTANTS
  low_low_pct = 15
  high_high_pct = 90
  min_on_s = 2
  min_off_s = 1
  telemetry_max_age_s = 1
  MaxTime = 3
  Planners = {"baseline", "generated"}
  Samples <- MCSamples
  Proposals <- MCProposals
  Hash <- MCHash
  GENESIS_HASH <- MCGenesis
INVARIANTS
  StandbyRequiresDuty
  JournalContinuity
  CheckpointRestorable
  EveryDecisionCounted
CHECK_DEADLOCK FALSE
