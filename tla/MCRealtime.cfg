SPECIFICATION FairSpec
CONSTANTS
  c1 = c1
  c2 = c2
  t1 = t1
  t2 = t2
  task = task
  note = note
  none = none
  any = any
  Clients <- MCClients
  Tenants <- MCTenants
  NoTenant <- none
  BufferSize = 1
  Writers = {w1, w2}
  Types <- MCTypes
  AnyType <- any
  TenantOf <- MCTenantOf
  FilterOf <- MCFilterOf
  Kinds <- MCKinds
  Stalled <- MCStalled
  WireSize = 1
  Luck = 2
  MaxBatch = 2
  MaxEvents = 3
  MaxFailures = 1
INVARIANTS TypeOK OrderedOnce
PROPERTIES DeliversUnlessRaced WritersNeverWait EventuallyCurrent
