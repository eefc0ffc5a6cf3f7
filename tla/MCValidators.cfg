SPECIFICATION RunSpec
CONSTANTS
  MaxRows = 3
  Amounts <- McAmounts
  Codes <- McCodes
  NoValue = NoValue
INVARIANTS
  BreaksAreGaps
  OneWrongRowIsSeen
  CodesAreJudged
CHECK_DEADLOCK FALSE
