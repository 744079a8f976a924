SPECIFICATION GuiSpec
CONSTANTS
  p = p
  q = q
  Ports <- MCPorts
  NoPort = NoPort
  MAX_RUNS = 2
  MAX_COMMANDS = 2
  MAX_SIGNALS = 4
INVARIANTS
  FailedSessionShowsError
