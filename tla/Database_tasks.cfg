SPECIFICATION Spec
CONSTANTS
  c1 = c1
  c2 = c2
  c3 = c3
  s1 = s1
  s2 = s2
  g1 = g1
  f1 = f1
  f2 = f2
  Create = {c1, c2, c3}
  Get = {g1}
  Set = {s1, s2}
  Field = {f1, f2}
  Required = {f1}
  Names <- MCNames
  Null = Null
  PoolSize = 2
  MaxId = 1
  MaxFaults = 2
\* The requests are answered, or the pool is exhausted.
CHECK_DEADLOCK FALSE
INVARIANTS
  PoolAccounted
  OrphansExplained
PROPERTIES
  AtomicRequests
  RequestsEnd
