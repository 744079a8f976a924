SPECIFICATION Spec
CONSTANTS
  CONFIRM_HITS = 3
  LOST_MISSES = 5
  MAX_PREDICT_INTERVAL = 2
  TIMESTAMPS = 8
  MAX_OUTCOMES = 10
INVARIANTS
  TrackTypeOK
PROPERTIES
  FollowsPolicy
