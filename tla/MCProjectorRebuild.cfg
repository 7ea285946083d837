SPECIFICATION Spec
CONSTANTS
  h1 = h1
  h2 = h2
  board = board
  totals = totals
  tb = tb
  tt = tt
  t1 = t1
  t2 = t2
  r1 = r1
  TenantOf <- MCTenantOf
  s1 = s1
  o1 = o1
  absent = absent
  Absent <- absent
  Handlers <- MCHandlers
  Rebuilders <- MCRebuilders
  Projections <- MCProjections
  Tables <- MCTables
  Layouts <- MCLayouts
  Tenants <- MCTenants
  Types <- MCTypes
  Ids <- MCIds
  RuleOf <- MCRuleOf
  Batches <- MCBatches
  MaxEvents = 2
  MaxFailures = 0
INVARIANTS NeverInvents
SYMMETRY Symmetry
