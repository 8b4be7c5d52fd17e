CONSTANTS
  a = a
  b = b
  c = c
  NULL = NULL
  MACRO_MAX = 2
  Strs = {a, b, c}
  Quals = {1, 2}
  Files <- MCFiles
  MaxPages <- MCMaxPages
  UnarmedNext = TRUE
  Matches = {a, b}
  MaxOpens = 3
  Calls = {"bypage"}

SPECIFICATION Spec

INVARIANT MacroByPageFollows
INVARIANT FaultOnlyWhenUnarmed
CHECK_DEADLOCK FALSE
