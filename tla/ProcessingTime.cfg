SPECIFICATION Spec
CONSTANTS
  CONFIRM_HITS = 2
  LOST_MISSES = 2
  MAX_PREDICT_INTERVAL = 1
  TIMESTAMPS = 6
  Contents <- MCContents
  QUEUE_DEPTH = 2
  RADAR_RX_TIMEOUT = 2
  LINE_LOSES_INIT = TRUE
  MAX_RUNS = 2
PROPERTIES
  LastValidIsTimeOfProcessing
