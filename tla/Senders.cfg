SPECIFICATION SenderSpec
CONSTANTS
  BASE = 16
  PARTS = 2
  Byte <- MCByte
  STX = 14
  MAX_PAYLOAD = 12
  Crc <- MCCrc
  Options <- MCOptions
  Readings <- MCReadings
  MIN_GUI_PERIOD = 4
  MAX_GUI_PERIOD = 8
  MAX_GUI_DURATION = 4096
  MAX_CLUTTER = 1
  MAX_CLOCK = 14
INVARIANTS
  NeverAhead
  CarriesMeasurement
  FramesPack
PROPERTIES
  TransmitsRuns
  TimestampsAdvance
  NoCatchUp
\* Programs end.
CHECK_DEADLOCK FALSE
