SPECIFICATION Spec
CONSTANTS
  Tenants = {ta, tb}
  Keys = {k}
  Fields = {f}
  Tables = {x, y}
  Ids = {i1, i2}
  Limit = 1
  MaxCost = 2
  Expiry = 1
  NoEntry = NoEntry
INVARIANTS LookupIsGranted ApprovedOnce EveryDefinitionAnswered OneCallOver
SYMMETRY Symmetry
