SPECIFICATION QSpec
CONSTANTS
  h1 = h1
  h2 = h2
  q1 = q1
  board = board
  tasks = tasks
  owner = owner
  done = done
  points = points
  user = user
  anyone = anyone
  t1 = t1
  t2 = t2
  alice = alice
  bob = bob
  none = none
  null = null
  Handlers <- MCHandlers
  Names = {board}
  Tables = {tasks}
  Columns = {owner, done, points}
  Policies <- MCPolicies
  Definitions <- MCDefinitions
  NoDef <- none
  MaxRequests = 4
  MaxFaults = 1
  Sessions = {q1}
  Callers <- MCCallers
  NoRole <- null
  AnyRole <- anyone
  Null <- null
  True = true
  False = false
  Tiny = tiny
  NotList = notList
  DefaultRows = 2
  MaxRows = 3
  IntMax <- MCIntMax
  Overflow <- MCOverflow
  Lenient = TRUE
  Rank <- MCRank
  Booleans = {done}
  PolicyOf <- MCPolicyOf
  Bodies <- MCBodies
  Rows <- MCRows
  Values <- MCValues
  Filters <- MCFilters
  Depth <- MCDepth
  Contents <- MCContents
SYMMETRY Symmetry
INVARIANTS QTypeOK MemoryInStep PolicyNotOlder AnswerIsConjunction HiddenColumnsMakeNoDifference TrueIsWhatTheFilterSays PagesAddUp
