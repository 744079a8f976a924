SPECIFICATION GuiLiveSpec
CONSTANTS
  p = p
  q = q
  Ports <- MCPorts
  NoPort = NoPort
  MAX_RUNS = 3
  MAX_COMMANDS = 3
  MAX_SIGNALS = 4
INVARIANTS
  GuiTypeOK
  StoppedMeansQuiet
  ViewAgreesAtRest
  PlotShowsOneRun
  PortsReleased
PROPERTIES
  CloseCompletes
  WaitEnds
