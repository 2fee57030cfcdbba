SPECIFICATION Spec
CONSTANTS
  root = root
  p = p
  c = c
  ai1 = ai1
  DoId = {root, p, c}
  NoParent = NoParent
  Zone = {1, 2}
  RootZone = 2
  AI = {ai1}
  NoAI = NoAI
  Requests <- ChurnRequests
  MaxRequests = 4
\* The other processes stop at MaxRequests, and the state server may hang.
CHECK_DEADLOCK FALSE
INVARIANTS
  TypeOK
  NoticeChain
PROPERTIES
  QueryFailsOnlyInWindow
  IndexSettles
