SPECIFICATION Spec
CONSTANTS
  p1 = p1
  p2 = p2
  Participant <- MCParticipant
  Channel <- MCChannel
  Types <- MixedTypes
  MaxSends = 3
\* The peers stop sending at MaxSends, and every connection may be lost.
CHECK_DEADLOCK FALSE
INVARIANTS
  SubscriptionMirror
  SenderOrder
  PostRemovesFollowLoss
PROPERTY LastWordsRouted
