SPECIFICATION ChannelsSpec
CONSTANTS
  ZONE_BITS = 2
  Object = {1, 5, 8}
  Location <- MCLocation
  Interest <- MCInterest
  Gone = Gone
  MaxSteps = 5
  MaxQueue = 1
\* The bounded steps run out.
CHECK_DEADLOCK FALSE
INVARIANTS
  ViewMatches
  ObjectsHear
PROPERTY MovesAlone
