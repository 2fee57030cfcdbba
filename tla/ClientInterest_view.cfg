SPECIFICATION Spec
CONSTANTS
  Object = {o}
  Parent = {p1}
  Zone = {z1, z2}
  Handle = {h1, h2}
  Nowhere = Nowhere
  None = None
  Unseen = Unseen
  Self = Self
  z1 = z1
  z2 = z2
  h1 = h1
  h2 = h2
  p1 = p1
  p2 = p2
  Shared <- NoneShared
  FromAI = {FALSE}
  MaxRequests = 2
  MaxEvents = 2
SYMMETRY Symmetry
\* The client and the others stop at the bounds.
CHECK_DEADLOCK FALSE
INVARIANTS
  TypeOK
  InterestsHeard
  NothingElseHeard
  PendingHasReason
  ViewExact
