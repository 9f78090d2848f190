CONSTANTS
  NONE = NONE
  SeqSpace = 8
  TsSpace = 16
  Deltas = {2, 3}
  MaxTicks = 4
  Scenarios <- ZeroPauseScenarios
SPECIFICATION EngineSpec
PROPERTIES PauseLastsOneTick
