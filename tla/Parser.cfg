SPECIFICATION MachineSpec
CONSTANTS
  Byte <- MCByte
  STX = 3
  MAX_PAYLOAD = 2
  Crc <- MCCrc
INVARIANTS
  ParserTypeOK
  PayloadIndexInBounds
  AlwaysProgresses
PROPERTIES
  RecognisesFormat
