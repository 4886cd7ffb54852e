SPECIFICATION BoardSpec
CONSTANTS
  Oscillators <- MCOscillators
  TrueKhz <- MCTrueKhz
  Targets = {200000, 798720, 999999}
  MaxTimeouts = 1
  Dividers = {0, 1, 3, 4}
  TickHz = 10
  TickClocks = {0, 10, 35, 90, 640, 2560, 5120}
  Prescalers <- MCPrescalers
  PeriodMax = 7
  MsWrap = 3
  MaxInterrupts = 5
  Divisions <- MCDivisions
  BrgMax = 7
  BitRates <- MCBitRates
  Lengths64 = {0, 1, 8, 9, 12, 13, 20, 21, 24, 33, 48, 49, 63, 64}
  Pads = {"RB1"}
  Lights = {"RB2"}
  Virtual = {"RPV"}
  Functions = {"SDO", "SCK"}
  Inputs = {"SDI"}
  Present = {"SDO", "SDI"}
  PinConfigs <- MCPinConfigs
  Pins = {p1, p2}
  Users = {u1, u2}
  MaxEdges = 3
  MaxCalls = 3
  Wrap = 16
  Periods = {0, 2}
  MaxDepth = 3
  MaxCatchup = 2
  Vectors <- MCVectors
  MaxTicks = 5
  MaxRuns = 2
  MaxResets = 2
  TickWrap = 5
  Debounce = 2
  MaxGap = 2
  Lists = {0, 1}
  RecordMax = 2
  TadBase = 400
  PerNs = 10
  WordSize = 1024
  CountMax = 20
  ListConfigs <- MCListConfigs
  Raws = {40, 42, 80}
  Idle = 40
  Garbage = 80
  Others = {TRUE}
  Pairs <- MCPairs
  T <- MCSettings
  MaxDisturbed = 1
INVARIANTS  ChangesAreTold CallsAreWhole  
PROPERTIES EdgesAlternate KeysAreScanned
CHECK_DEADLOCK FALSE
