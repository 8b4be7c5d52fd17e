CONSTANTS
  SIZE_MAX = SIZE_MAX
  NULL = NULL
  Docs <- MCDocs
  Margins <- MCMargins
  MAXRMARGIN = 20
SPECIFICATION Spec
INVARIANTS
  TypeOK
  ColumnsStayPut
  CentredBalanced
  RulesMeetBars
PROPERTY
  OffsetRestored
CHECK_DEADLOCK FALSE
