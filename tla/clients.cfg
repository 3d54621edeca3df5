SPECIFICATION Spec
CONSTANTS
  None = None
  c1 = c1
  c2 = c2
  s1 = s1
  k1 = k1
  k2 = k2
  Client = {c1, c2}
  Shared = {s1}
  Call = {k1, k2}
  Async = {c2}
  Cyclic = {c1}
  MaxIdle = 1
INVARIANT
  RefusedOnlyIfClosed
PROPERTIES
  SharedLeftAlone
  FallbackCloses
CHECK_DEADLOCK FALSE
