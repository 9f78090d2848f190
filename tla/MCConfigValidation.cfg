CONSTANTS
  NONE = NONE
  EMPTY = EMPTY
  SeqSpace = 3
  TsSpace = 3
  Ssrcs = {4, 5}
  Inputs <- MCInputs
SPECIFICATION ConfigSpec
INVARIANTS
  ConfigTypeOK
  AcceptedIsScenario
  VerdictFollowsInput
  DroppedIsWarned
  GivenValuesKept
  ResetsAreComplete
  UnitIsTheUsers
  NoBadAccess
CHECK_DEADLOCK FALSE
