SPECIFICATION Spec
CONSTANTS
  None = None
  c1 = c1
  k1 = k1
  Client = {c1}
  Shared = {}
  Call = {k1}
  Async = {c1}
  Cyclic = {}
  MaxIdle = 1
INVARIANT
  CallsKeepTheirClient
CHECK_DEADLOCK FALSE
