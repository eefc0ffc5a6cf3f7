SPECIFICATION Spec
CONSTANTS
  Names = {portfolio_id, statement_date}
  Custody = {portfolio_id}
  Synthetic = {statement_date}
  Metadata = {statement_date}
  Header = {statement_date}
  BudgetAction = "skip"
  MaxPages = 2
  MaxSections = 2
  OcrConcurrency = 1
  VlmConcurrency = 2
INVARIANTS FieldsAccountedFor TablesAreTraceable
PROPERTIES ProgressNeverGoesBack EveryRunEnds
CHECK_DEADLOCK FALSE
