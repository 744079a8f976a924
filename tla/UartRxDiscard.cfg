SPECIFICATION LiveSpec
CONSTANTS
  Byte <- MCByte
  STX = 3
  MAX_PAYLOAD = 1
  Crc <- MCCrc
  Streams <- MCStreams
  BUFFER_SIZE = 4
  QUEUE_DEPTH = 1
  FRAME_RX_TIMEOUT = 2
  RX_OVERFLOW_POLICY = "DISCARD_ALL"
PROPERTIES
  RecoveryCompletes
