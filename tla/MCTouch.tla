------------------------------ MODULE MCTouch ------------------------------
EXTENDS Touch

MCSettings ==
  [press |-> 2, release |-> 1, coldPress |-> 2, debounce |-> 1, coldDebounce |-> 2, releaseDebounce |-> 1,
   baselineDiv |-> 32, stallPolls |-> 1, settleScans |-> 1, seedAgreeDiv |-> 32, implausibleDiv |-> 4,
   rejectRunMax |-> 2, magScans |-> 2, learnPresses |-> 1, learnSamplesMax |-> 1, candMin |-> 2,
   candMult |-> 2, learnRun |-> 1, learnNum |-> 3, learnDen |-> 4, floorMin |-> 2, floorMult |-> 3,
   floorMax |-> 3, idleDiv |-> 1, quietRun |-> 2]

MCPairs == {[press |-> 2, release |-> 1]}
=============================================================================
