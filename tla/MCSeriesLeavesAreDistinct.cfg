SPECIFICATION Spec
CONSTANTS
  Words <- MCWords
  Leaves <- MCLeaves
  Prefix <- MCPrefix
  Digits <- MCDigits
  Target = t1
  MaxSamples = 3
INVARIANT LeavesAreDistinct
CHECK_DEADLOCK FALSE
