SPECIFICATION Spec
CONSTANTS
  avatar = avatar
  s1 = s1
  s2 = s2
  s3 = s3
  DoId = {avatar}
  Session = {s1, s2, s3}
  None = None
  MaxGenerates = 1
\* Every session ends, or is left waiting.
CHECK_DEADLOCK FALSE
INVARIANTS
  AnswersExpected
  OneBody
  PlayerHasAvatar
  AvatarHasPlayer
PROPERTY LoginServed
