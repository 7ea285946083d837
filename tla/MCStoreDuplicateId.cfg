SPECIFICATION Spec
CONSTANTS
  h1 = h1
  h2 = h2
  t1 = t1
  s1 = s1
  s2 = s2
  task = task
  note = note
  idA = idA
  idB = idB
  noType = noType
  generated = generated
  Handlers <- MCHandlers
  Tenants <- MCTenants
  Streams <- MCStreams
  Types <- MCTypes
  ClientIds <- MCClientIds
  NoType <- noType
  Generated <- generated
  Requests <- AllRequests
  Postgres = FALSE
  MaxRequests = 3
  MaxFaults = 0
  MaxCrashes = 0
INVARIANTS ConflictIsNews
