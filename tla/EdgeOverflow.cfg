SPECIFICATION Spec
CONSTANTS
  Streams <- MCStreams
  ES_MAX_DEVICES = 2
  ES_MAX_METRICS = 2
  ES_WINDOW_SAMPLES = 2
  ES_MAX_BUFFER = 8
  ES_SILENCE_MS = 3
  ES_METRIC_WATERMARK = 9
  RolloverFrom = 14
  RolloverTo = 1
  HighAbove = 50
  ClearAt = 45
  Int32Limit = 128
  MaxRuns = 3
  DeviceId = 1
  Second = 2
  Codes <- MCCodes
INVARIANT
  NormalizedRetained
CHECK_DEADLOCK FALSE
