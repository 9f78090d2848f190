CONSTANTS
  NONE = NONE
  EMPTY = EMPTY
  SeqSpace = 3
  TsSpace = 3
  Ssrcs = {4}
  Inputs <- MCInputs
SPECIFICATION ConfigSpec
INVARIANT CodecValuesKept
CHECK_DEADLOCK FALSE
