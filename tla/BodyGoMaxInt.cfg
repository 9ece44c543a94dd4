SPECIFICATION Spec
CONSTANTS
  Langs = {"go"}
  Limits <- MCAllLimits
  MaxInt = 7
  MaxBody = 6
INVARIANTS
  SuccessMeansWholeBody
CHECK_DEADLOCK FALSE
