SPECIFICATION ResolutionSpec
CONSTANTS
  Version <- MCVersion
  Bound <- MCBound
  Asked <- MCRange
  TagRange <- MCTagRange
  Largest = 99
  Width = 2
  Page = 2
  MaxOld = 2
  MaxId = 3

INVARIANTS RangeAnswered FixReaches
CHECK_DEADLOCK FALSE
