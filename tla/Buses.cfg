SPECIFICATION BusSpec
CONSTANTS
  Timeouts = {0, 1}
  PendingTimeouts = {2}
  TickMod = 3
  MaxWrite = 1
  MaxRead = 1
  MaxFaults = 1
  CrossDeinit = FALSE
  MaxBytes = 4
  MaxLen = 2
  Reinit = FALSE
  UartFifo = 1
INVARIANTS  LineIsOrderly DriversAreSettled
PROPERTY CallsReturn
CHECK_DEADLOCK FALSE
