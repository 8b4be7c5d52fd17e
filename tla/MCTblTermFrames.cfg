CONSTANTS
  SIZE_MAX = SIZE_MAX
  NULL = NULL
  Docs <- MCDocs
  Margins <- MCMargins
  MAXRMARGIN = 20
SPECIFICATION Spec
INVARIANT FramesAligned
CHECK_DEADLOCK FALSE
