SPECIFICATION StreamSpec
CONSTANTS
  k1 = k1
  k2 = k2
  empty = empty
  long = long
  huge = huge
  bad = bad
  Conn = {k1, k2}
  Datagram = {empty, long, huge, bad}
  Size <- MCSize
  Raising = {bad}
  MaxSize = 2
  Nobody = Nobody
  MaxSends = 3
\* The peers stop sending at MaxSends, and the connections may be lost.
CHECK_DEADLOCK FALSE
INVARIANT HandledInOrder
PROPERTY EverythingHandled
