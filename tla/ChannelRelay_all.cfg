SPECIFICATION Spec
CONSTANTS
  d1 = d1
  d2 = d2
  m1 = m1
  m2 = m2
  m3 = m3
  c1 = c1
  Home <- MCHome
  Director = {d1, d2}
  Member = {m1, m2, m3}
  Channel = {c1}
  MaxBacklog = 3
  MaxRequests = 2
INVARIANTS
  RelayFaithful
  NoAnswerLost
PROPERTY InterestConverges
