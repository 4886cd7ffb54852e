SPECIFICATION FlowSpec
CONSTANTS
  FifoDepth = 2
  Lengths = {1, 3}
  MaxTransfers = 3
  Depth = 1
  MaxFrames = 2
  MaxStalls = 1
  NumLegs = 3
  Domains = {0, 2}
  MaxHalves = 6
  Channels = {c1}
  Neighbours = {n1}
  NoChannel = NoChannel
  MaxConfigs = 2
INVARIANTS DriversAreSettled NothingIsLostUnseen DomainsRunWhole StreamIsAccounted
PROPERTIES FailureIsUndone TransmissionsEnd
CHECK_DEADLOCK FALSE
