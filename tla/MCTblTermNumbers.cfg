CONSTANTS
  SIZE_MAX = SIZE_MAX
  NULL = NULL
  Docs <- NumberDocs
  Margins <- MCMargins
  MAXRMARGIN = 20
SPECIFICATION Spec
INVARIANT NumbersAligned
CHECK_DEADLOCK FALSE
