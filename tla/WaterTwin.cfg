SPECIFICATION Spec
CONSTANTS
  low_low_pct = 15
  high_high_pct = 90
  min_on_s = 2
  min_off_s = 1
  telemetry_max_age_s = 3
  duty_flow = 6
  standby_flow = 4
  Demands = {2, 9}
  InitialLevels = {12, 16, 88}
  Steps = 4
INVARIANTS
  SupplyHeld
  PlannersKeepLeadLag
PROPERTIES
  OverflowOnlyWhenBlind
  DutyDwellHonoured
CHECK_DEADLOCK FALSE
