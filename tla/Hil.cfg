SPECIFICATION HilSpec
CONSTANTS
  CONFIRM_HITS = 2
  LOST_MISSES = 2
  MAX_PREDICT_INTERVAL = 6
  TIMESTAMPS = 23
  Contents <- MCContents
  QUEUE_DEPTH = 4
  RADAR_RX_TIMEOUT = 8
  LINE_LOSES_INIT = TRUE
  MAX_RUNS = 4
  TURN = 1
  PERIOD = 2
  SLACK = 1
  LATENCY = 1
  MAX_LOST = 1
  MAX_ELAPSED = 11
INVARIANTS
  MeasurementsAreUsed
  QueueKeepsUp
  NewsArrives
PROPERTIES
  KeepsTrack
