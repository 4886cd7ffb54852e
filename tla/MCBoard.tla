------------------------------- MODULE MCBoard -------------------------------
EXTENDS Board
MCOscillators == {"FRC", "BFRC", "PRIMARY", "LPRC"}
MCTrueKhz == [s \in MCOscillators |-> CASE s = "PRIMARY" -> 12288 [] s = "LPRC" -> 32 [] OTHER -> 8000]

\* A clock for every result, at each prescaler.
MCPrescalers == <<1, 8, 64, 256>>
MCDivisions == [clk : {0, 100, 99, 101, 40000}, rate : {0, 7, 33, 50, 64, 66, 200, 201}]

\* What the board asks for, a sample point out of range, rates that no phase, or only the
\* other phase, can have, splits at the end of a limit.
MCBitRates ==
  {[clk |-> 40000000, nominal |-> 500000, data |-> 2000000, pct |-> 80],
   [clk |-> 40000000, nominal |-> 500000, data |-> 2000000, pct |-> 100],
   [clk |-> 40000000, nominal |-> 125000, data |-> 8000000, pct |-> 75],
   [clk |-> 80000000, nominal |-> 10000, data |-> 5000000, pct |-> 87],
   [clk |-> 40000000, nominal |-> 500000, data |-> 3000000, pct |-> 80],
   [clk |-> 40000000, nominal |-> 500000, data |-> 0, pct |-> 80],
   [clk |-> 20000000, nominal |-> 1000000, data |-> 5000000, pct |-> 60],
   [clk |-> 40000000, nominal |-> 1000, data |-> 1000000, pct |-> 99]}

MCSettings ==
  [press |-> 2, release |-> 1, coldPress |-> 2, debounce |-> 1, coldDebounce |-> 2, releaseDebounce |-> 1,
   baselineDiv |-> 32, stallPolls |-> 1, settleScans |-> 1, seedAgreeDiv |-> 32, implausibleDiv |-> 4,
   rejectRunMax |-> 2, magScans |-> 2, learnPresses |-> 1, learnSamplesMax |-> 1, candMin |-> 2,
   candMult |-> 2, learnRun |-> 1, learnNum |-> 3, learnDen |-> 4, floorMin |-> 2, floorMult |-> 2,
   floorMax |-> 3, idleDiv |-> 1, quietRun |-> 1]

MCPairs == {[press |-> 2, release |-> 1]}

MCPinConfigs ==
  {[out |-> TRUE, pull |-> "UP", drain |-> TRUE, high |-> TRUE, analog |-> FALSE],
   [out |-> TRUE, pull |-> "NONE", drain |-> FALSE, high |-> FALSE, analog |-> FALSE],
   [out |-> FALSE, pull |-> "DOWN", drain |-> FALSE, high |-> FALSE, analog |-> TRUE]}

MCVectors == {[owner |-> "LEG_A", prio |-> 1], [owner |-> "LEG_B", prio |-> 2], [owner |-> "OTHER", prio |-> 3]}

\* Both triggers, a time that is refused as 0, one that does not fit a word, too many records.
MCListConfigs ==
  {[clock |-> 20, charge |-> 3, balance |-> 5, period |-> 1, trigger |-> "timer", records |-> 1],
   [clock |-> 20, charge |-> 7, balance |-> 2, period |-> 0, trigger |-> "software", records |-> 2],
   [clock |-> 20, charge |-> 120, balance |-> 2, period |-> 0, trigger |-> "software", records |-> 1],
   [clock |-> 20, charge |-> 0, balance |-> 2, period |-> 0, trigger |-> "software", records |-> 1],
   [clock |-> 20, charge |-> 3, balance |-> 5, period |-> 1, trigger |-> "software", records |-> 3]}
=============================================================================
