SPECIFICATION Spec
CONSTANTS
  MaxPages = 3
  Heads <- McHeads
  PageKinds <- McPageKinds
  Hints = {"none", "unknown", "custody_statement"}
  VlmEnabled = FALSE
INVARIANTS
  SectionsPartition
  RowsInOrder
  RangeNamesItsPages
CHECK_DEADLOCK FALSE
