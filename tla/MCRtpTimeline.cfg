CONSTANTS
  NONE = NONE
  SeqSpace = 8
  TsSpace = 16
  Deltas = {2, 3}
  MaxTicks = 7
  Scenarios <- MCScenarios
SPECIFICATION TimelineSpec
INVARIANTS PendingIsFuture SeqFollowsScript TimestampFollowsScript SsrcFollowsScript SrcPortFollowsScript
PROPERTIES PauseLastsOneTick
