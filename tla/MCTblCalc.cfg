CONSTANTS
  SIZE_MAX = SIZE_MAX
  Inputs <- MCInputs
SPECIFICATION Spec
INVARIANTS
  TypeOK
  NumbersFitColumn
  SharesSumToAvail
  MaximizedFitsLine
  WrapFits
  CellsFitColumns
CHECK_DEADLOCK FALSE
