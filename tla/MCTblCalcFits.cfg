CONSTANTS
  SIZE_MAX = SIZE_MAX
  Inputs <- SpannedOnly
SPECIFICATION Spec
INVARIANT TableFitsLine
CHECK_DEADLOCK FALSE
