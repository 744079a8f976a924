SPECIFICATION Spec
CONSTANTS
  Byte <- MCByte
  BUFFER_SIZE = 4
  IndexRange = 8
INVARIANT
  RingTypeOK
PROPERTY
  ImplementsFifo
