SPECIFICATION Spec
CONSTANTS
  h1 = h1
  h2 = h2
  board = board
  totals = totals
  tasks = tasks
  archive = archive
  title = title
  owner = owner
  points = points
  user = user
  none = none
  Handlers <- MCHandlers
  Names = {board, totals}
  Tables = {tasks, archive}
  Columns = {title, owner, points}
  Policies = {user}
  Definitions <- MCDefinitions
  NoDef <- none
  MaxRequests = 4
  MaxFaults = 1
SYMMETRY Symmetry
INVARIANTS TypeOK RegisteredHasTable CurrentUnlessOverlapped RebuildFindsDefinition
