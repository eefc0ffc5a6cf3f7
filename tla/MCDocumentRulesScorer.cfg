SPECIFICATION Spec
CONSTANTS
  MaxPages = 1
  Heads <- McHeads
  PageKinds <- McPageKinds
  Hints = {"none", "unknown", "custody_statement"}
  VlmEnabled = TRUE
INVARIANT FlawedTablesFail
CHECK_DEADLOCK FALSE
