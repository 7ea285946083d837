SPECIFICATION Spec
CONSTANTS
  c1 = c1
  c2 = c2
  None = None
  Conns <- MCConns
  Lives = {12, 7}
  Second = 1
  Timeout = 2
  Attempts = 4
  Backoff = 1
  MaxPause = 2
  MaxTime = 18
SYMMETRY Symmetry
INVARIANTS TypeOK NoneOutlivesItsToken OutlivesBriefly WaitIsBounded
