CONSTANTS
  d1 = d1
  d2 = d2
  d3 = d3
  d4 = d4
  d5 = d5
  t1 = t1
  t2 = t2
  unseen = unseen
  giro = giro
  k1 = k1
  k2 = k2
  Docs = {d1, d2, d3, d4, d5}
  Tenants = {t1, t2}
  Layouts = {unseen, giro}
  Keys = {k1, k2}
  Scores = {0, 1}
  TenantOf <- MCTenantOf
  LayoutOf <- MCLayoutOf
  Themed = {unseen, giro}
  BuiltIn <- MCBuiltIn
  Global = Global
  Seed = Seed
  SeedKey = k1
  SeedScore <- MCSeedScore
  NoTemplate = NoTemplate
  MaxCorrections = 1
  MaxErrors = 1
SPECIFICATION Spec
CHECK_DEADLOCK FALSE
PROPERTIES OneDiscoveryPerBatch CorrectedLearnedStaysGone TenantsAreIsolated EveryRunEnds
