CONSTANTS
  fldw = 4
  fldh = 2
  Straight = 5
  Diagonal = 7
  Huge = 99
SPECIFICATION FairSpec
INVARIANTS FieldDescends NoShortcut IsShortest
PROPERTIES ExpandedIsFinal Terminates
CHECK_DEADLOCK FALSE
