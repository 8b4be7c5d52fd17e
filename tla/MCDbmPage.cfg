CONSTANTS
  a = a
  b = b
  c = c
  NULL = NULL
  MACRO_MAX = 2
  Strs = {a, b, c}
  Quals = {1, 2}
  Files <- MCFiles
  MaxPages <- MCMaxPages
  UnarmedNext = TRUE
  Matches = {a, b}
  MaxOpens = 3
  Calls = {"page"}

SPECIFICATION Spec

INVARIANT TypeOK
INVARIANT IterationFollowsFilter
INVARIANT FaultOnlyWhenUnarmed
CHECK_DEADLOCK FALSE
