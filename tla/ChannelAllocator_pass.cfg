SPECIFICATION AllocatorSpec
CONSTANTS
  min_channel <- MCMinChannel
  max_channel <- MCMaxChannel
  MaxGrants <- MCMaxGrants
\* The environment stops asking at MaxGrants.
CHECK_DEADLOCK FALSE
INVARIANT NeverReissued
