SPECIFICATION Spec
CONSTANTS
  Words <- MCWords
  Leaves <- MCLeaves
  Prefix <- MCPrefix
  Digits <- MCDigits
  Target = t1
  MaxSamples = 3
INVARIANTS ExportedAsNamed EntriesAreDistinct
CHECK_DEADLOCK FALSE
