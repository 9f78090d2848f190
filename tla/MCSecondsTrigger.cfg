CONSTANTS
  NONE = NONE
  SeqSpace = 8
  TsSpace = 16
  Deltas = {20}
  MaxTicks = 4
  Scenarios <- FiveSecondsScenarios
SPECIFICATION EngineSpec
INVARIANT SecondsAreSeconds
