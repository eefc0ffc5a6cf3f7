SPECIFICATION FairSpec
CONSTANTS
  WindowSize = 2
  Overlap = 1
  Fields <- MCFields
  FieldLists <- MCFieldLists
  PageCounts <- MCPageCounts
  Lines <- MCLines
  Key <- MCKey
  ZeroAmount = {"fee"}
  MaxConcurrent = 2
  MaxTokens = 1
  Actions = {"flag", "skip"}
  MaxCost = 2
INVARIANTS
  BudgetBound
  EveryLineOnce
  FieldsKept
PROPERTIES
  ExtractionEnds
CHECK_DEADLOCK FALSE
