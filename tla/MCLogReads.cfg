SPECIFICATION FairSpec
CONSTANTS
  r1 = r1
  t1 = t1
  t2 = t2
  s1 = s1
  s2 = s2
  task = task
  note = note
  saga = saga
  alice = alice
  bob = bob
  manager = manager
  user = user
  any = any
  none = none
  never = never
  admin = admin
  garbage = garbage
  generated = generated
  Tenants = {t1, t2}
  Roles = {user, manager}
  Users = {alice, bob}
  None <- none
  Never <- never
  Now = 1
  AdminToken <- admin
  Streams = {s1, s2}
  Types = {task, note}
  Correlations = {saga}
  Any <- any
  Generated <- generated
  Dialects = {"sqlite", "postgres"}
  Configs <- MCConfigs
  Readers = {r1}
  Bodies <- MCBodies
  Calls <- MCCalls
  Garbage <- garbage
  DefaultLimit = 1
  MaxLimit = 2
  MaxBatch = 2
  MaxSeq = 3
INVARIANTS TypeOK OnlyPostgresLogsMiss ReadsItsTenant CapabilitiesEarned
PROPERTIES PagesDeliver ShortPageMeansEnd EverythingRead
