SPECIFICATION Spec
CONSTANTS
  Object = {o}
  Parent = {p1, p2}
  Zone = {z1}
  Handle = {h1, h2}
  Nowhere = Nowhere
  None = None
  Unseen = Unseen
  Self = Self
  z1 = z1
  z2 = z2
  h1 = h1
  h2 = h2
  p1 = p1
  p2 = p2
  Shared <- OneShared
  FromAI = {TRUE, FALSE}
  MaxRequests = 2
  MaxEvents = 1
\* The client and the others stop at the bounds.
CHECK_DEADLOCK FALSE
INVARIANTS
  ViewExact
PROPERTY InterestCompletes
