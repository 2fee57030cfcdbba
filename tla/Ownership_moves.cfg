SPECIFICATION Spec
CONSTANTS
  c1 = c1
  c2 = c2
  here = here
  there = there
  Client = {c1, c2}
  Place = {here, there}
  View <- MCView
  None = None
  Nowhere = Nowhere
  MaxMoves = 6
\* The bounded steps run out.
CHECK_DEADLOCK FALSE
INVARIANTS
  OwnerKnowsPlace
  SightExact
PROPERTY OwnerSettles
