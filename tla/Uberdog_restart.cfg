SPECIFICATION Spec
CONSTANTS
  r1 = r1
  r2 = r2
  r3 = r3
  av = av
  Query = {r1, r2, r3}
  avId <- MCavId
  context <- MCcontext
  MaxLives = 3
  MaxLost = 1
\* Calls and restarts come to an end.
CHECK_DEADLOCK FALSE
INVARIANTS
  NeverOlder
  OwnAnswer
  ObjectKept
PROPERTY ObjectGoesWithUberdog
