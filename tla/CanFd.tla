------------------------------- MODULE CanFd -------------------------------
(* The CAN FD node of hal_can and its event layer: one thread that calls,   *)
(* the handler with a callback that drains the receive FIFO and may send    *)
(* again, and a bus.  Frames are counted, not told apart.  The interrupt    *)
(* lines follow their sources (the flags are levels).                       *)
(* The callers disable the event layer before they initialize or release    *)
(* the node, as every caller in the repository does.                        *)
EXTENDS Naturals, Sequences

CONSTANTS
  Depth,      \* objects in the transmit queue, and in the receive FIFO
  MaxFrames,  \* bound on frames received, and on frames sent
  MaxStalls   \* bound on mode requests that run into their timeout

VARIABLES
  canMode,    \* g_mode # NONE
  nodeUp,     \* g_node.initialized
  canOn,      \* CON.ON
  opmod,      \* CON.OPMOD: configuration, or the operating mode
  reqop,      \* CON.REQOP
  txq, rxf,   \* frames in the transmit queue and in the receive FIFO
  rxov,       \* FIFOSTA1.RXOVIF
  txqeie, txFifoIe, txLine, \* the queue-empty source, its roll-up, its CPU line
  rxLine,     \* the receive sources and the CPU line
  isrEnabled, txBusy,   \* g_isr_enabled, g_tx_busy
  canCall,    \* steps the thread's call has yet to take
  canIrq,     \* the handler: idle, or the INT it read and where it is
  canRet,     \* what the last call returned
  dropped,    \* a received frame was dropped and nobody was told yet
  received, sent, stalls

hwVars == <<opmod, txq, rxf, rxov, received>>
nodeVars == <<canMode, nodeUp, canOn, reqop>>
lineVars == <<txqeie, txFifoIe, txLine, rxLine, isrEnabled, txBusy>>
canVars == <<hwVars, nodeVars, lineVars, canCall, canIrq, canRet, dropped, sent, stalls>>

NoIrq == [at |-> "idle", rx |-> FALSE, ov |-> FALSE, tx |-> FALSE]
CanInIrq == canIrq # NoIrq
CanBusy == canCall # <<>>
CanReturn(status) == canCall' = <<>> /\ canRet' = status
Next1 == IF Len(canCall) = 1 THEN CanReturn("OK") ELSE canCall' = Tail(canCall) /\ UNCHANGED canRet

\* Mutant of CanStartCall: busy is stored last.
CanStartCallBusyLast == <<"room", "put", "txqeie", "txFifoIe", "line", "busy">>
\* The steps of each call, in the order of its stores and waits.
CanStartCall == <<"room", "put", "busy", "txqeie", "txFifoIe", "line">>
CanAbortCall == <<"noTxqeie", "noTxFifoIe", "noLine", "notBusy">>
IsrEnable == <<"sources", "notBusy", "lines", "enabled">>
IsrDisable == <<"disabled", "noLines", "noSources", "noTxqeie", "notBusy">>
\* Mutant of CanInit: up only once it operates.
CanInitLate == <<"on", "config", "operate", "up">>
CanInit == <<"none", "on", "config", "operate", "up">>
SetBitrate == <<"config", "operate">>
CanDeinit == <<"leave", "off", "none">>

Call(steps) == /\ ~CanInIrq /\ ~CanBusy /\ canCall' = steps /\ canRet' = "none"
               /\ UNCHANGED <<hwVars, nodeVars, lineVars, canIrq, dropped, sent, stalls>>
CanRefuse(status) == /\ ~CanInIrq /\ ~CanBusy /\ canRet' = status
                     /\ UNCHANGED <<hwVars, nodeVars, lineVars, canCall, canIrq, dropped, sent, stalls>>

CanCalls ==
  \/ ~isrEnabled /\ Call(CanInit)
  \/ ~isrEnabled /\ IF canMode THEN Call(CanDeinit) ELSE CanRefuse("OK")
  \/ IF nodeUp THEN Call(SetBitrate) ELSE CanRefuse("NOT_INITIALIZED")
  \/ IF canMode THEN Call(IsrEnable) ELSE CanRefuse("NOT_INITIALIZED")
  \/ Call(IsrDisable)
  \/ IF isrEnabled THEN (sent < MaxFrames /\ Call(CanStartCall)) ELSE CanRefuse("SEQUENCE")
  \/ Call(CanAbortCall)

\* nora_canfd_receive without the event layer: the thread takes a frame.
CanReceive == /\ nodeUp /\ ~isrEnabled /\ ~CanBusy /\ rxf > 0 /\ rxf' = rxf - 1
              /\ UNCHANGED <<opmod, txq, rxov, received, nodeVars, lineVars, canCall, canIrq, canRet, dropped, sent, stalls>>

\* nora_canfd_get_status, and clear_rx_overflow when it said so.
CanPoll == /\ ~CanInIrq /\ ~CanBusy /\ rxov /\ rxov' = FALSE /\ dropped' = FALSE
           /\ UNCHANGED <<opmod, txq, rxf, received, nodeVars, lineVars, canCall, canIrq, canRet, sent, stalls>>

-----------------------------------------------------------------------------
(* The thread's steps; the handler may run between any two.                 *)

Doing(step) == CanBusy /\ ~CanInIrq /\ canCall[1] = step

\* request_mode: write REQOP, then wait; the timeout ends the call, and
\* nora_canfd_init switches the module off again.
Request(step, mode) ==
  /\ Doing(step)
  /\ IF reqop # mode
     THEN reqop' = mode /\ UNCHANGED <<canCall, canRet, canOn, stalls, opmod, txq, rxf>>
     ELSE \/ opmod = mode /\ Next1 /\ UNCHANGED <<reqop, canOn, stalls, opmod, txq, rxf>>
          \/ /\ opmod # mode /\ stalls < MaxStalls /\ stalls' = stalls + 1
             /\ IF "up" \in {canCall[i] : i \in DOMAIN canCall}
                THEN /\ canOn' = FALSE /\ opmod' = "config" /\ reqop' = "config"
                     /\ txq' = 0 /\ rxf' = 0
                ELSE UNCHANGED <<canOn, opmod, reqop, txq, rxf>>
             /\ CanReturn("TIMEOUT")
  /\ UNCHANGED <<canMode, nodeUp, rxov, received, lineVars, canIrq, dropped, sent>>

\* nora_canfd_deinit takes no notice of the timeout.
Leave ==
  /\ Doing("leave")
  /\ IF reqop # "config" THEN reqop' = "config" /\ UNCHANGED <<canCall, canRet, stalls>>
     ELSE /\ UNCHANGED reqop /\ Next1
          /\ \/ opmod = "config" /\ UNCHANGED stalls
             \/ opmod # "config" /\ stalls < MaxStalls /\ stalls' = stalls + 1
  /\ UNCHANGED <<hwVars, canMode, nodeUp, canOn, lineVars, canIrq, dropped, sent>>

\* Stores to the node's own state.
Node(step, mode, up, isOn) ==
  /\ Doing(step) /\ Next1 /\ canMode' = mode /\ nodeUp' = up /\ canOn' = isOn
  /\ IF isOn THEN UNCHANGED <<opmod, reqop, txq, rxf>>
             ELSE opmod' = "config" /\ reqop' = "config" /\ txq' = 0 /\ rxf' = 0
  /\ UNCHANGED <<rxov, received, lineVars, canIrq, dropped, sent, stalls>>

NodeSteps == \/ Node("none", FALSE, FALSE, canOn)
             \/ Node("on", canMode, nodeUp, TRUE)
             \/ Node("up", TRUE, TRUE, canOn)
             \/ Node("off", canMode, nodeUp, FALSE)

\* Stores to the interrupt sources, the CPU lines and the two flags.
Lines(step, empty, rollup, line, rx, isr, busy) ==
  /\ Doing(step) /\ Next1
  /\ txqeie' = empty /\ txFifoIe' = rollup /\ txLine' = line /\ rxLine' = rx
  /\ isrEnabled' = isr /\ txBusy' = busy
  /\ UNCHANGED <<hwVars, nodeVars, canIrq, dropped, sent, stalls>>

LineSteps ==
  \/ Lines("busy", txqeie, txFifoIe, txLine, rxLine, isrEnabled, TRUE)
  \/ Lines("notBusy", txqeie, txFifoIe, txLine, rxLine, isrEnabled, FALSE)
  \/ Lines("txqeie", TRUE, txFifoIe, txLine, rxLine, isrEnabled, txBusy)
  \/ Lines("noTxqeie", FALSE, txFifoIe, txLine, rxLine, isrEnabled, txBusy)
  \/ Lines("txFifoIe", txqeie, TRUE, txLine, rxLine, isrEnabled, txBusy)
  \/ Lines("noTxFifoIe", txqeie, FALSE, txLine, rxLine, isrEnabled, txBusy)
  \/ Lines("line", txqeie, txFifoIe, TRUE, rxLine, isrEnabled, txBusy)
  \/ Lines("noLine", txqeie, txFifoIe, FALSE, rxLine, isrEnabled, txBusy)
  \/ Lines("sources", txqeie, txFifoIe, txLine, rxLine, isrEnabled, txBusy)
  \/ Lines("lines", txqeie, txFifoIe, txLine, TRUE, isrEnabled, txBusy)
  \/ Lines("noLines", txqeie, txFifoIe, FALSE, FALSE, isrEnabled, txBusy)
  \/ Lines("noSources", txqeie, FALSE, txLine, rxLine, isrEnabled, txBusy)
  \/ Lines("enabled", txqeie, txFifoIe, txLine, rxLine, TRUE, txBusy)
  \/ Lines("disabled", txqeie, txFifoIe, txLine, rxLine, FALSE, txBusy)

\* nora_canfd_transmit: room in the queue or the timeout, then the commit.
Room == /\ Doing("room")
        /\ \/ txq < Depth /\ Next1 /\ UNCHANGED stalls
           \/ txq = Depth /\ stalls < MaxStalls /\ stalls' = stalls + 1 /\ CanReturn("TIMEOUT")
        /\ UNCHANGED <<hwVars, nodeVars, lineVars, canIrq, dropped, sent>>
Put == /\ Doing("put") /\ Next1 /\ txq' = txq + 1 /\ sent' = sent + 1
       /\ UNCHANGED <<opmod, rxf, rxov, received, nodeVars, lineVars, canIrq, dropped, stalls>>

CanThread == \/ Request("config", "config") \/ Request("operate", "operating") \/ Leave
             \/ NodeSteps \/ LineSteps \/ Room \/ Put

-----------------------------------------------------------------------------
(* nora_canfd_irq_handler.                                                  *)

TxDone == txFifoIe /\ txqeie /\ txq = 0
Pending == (rxLine /\ (rxf > 0 \/ rxov)) \/ (txLine /\ TxDone)

ReadInt == /\ ~CanInIrq /\ Pending
           /\ canIrq' = [at |-> "service", rx |-> rxf > 0, ov |-> rxov, tx |-> TxDone]
           /\ UNCHANGED <<hwVars, nodeVars, lineVars, canCall, canRet, dropped, sent, stalls>>

\* TX_COMPLETE is reported once.
Disarm == txqeie' = FALSE /\ txFifoIe' = FALSE /\ txLine' = FALSE /\ txBusy' = FALSE

\* Mutant of Overflow: one that came meanwhile is cleared too.
OverflowLost == FALSE
\* Only an overflow that was read is cleared.
Overflow == rxov /\ ~canIrq.ov

Service ==
  /\ canIrq.at = "service"
  /\ rxov' = Overflow /\ dropped' = (dropped /\ ~canIrq.ov)
  /\ IF canIrq.tx /\ TxDone THEN Disarm ELSE UNCHANGED <<txqeie, txFifoIe, txLine, txBusy>>
  /\ canIrq' = [canIrq EXCEPT !.at = "callback"]
  /\ UNCHANGED <<opmod, txq, rxf, received, nodeVars, rxLine, isrEnabled, canCall, canRet, sent, stalls>>

\* The callback: receive until nothing is left; perhaps send the next frame.
CallbackReceive == /\ canIrq.at = "callback" /\ nodeUp /\ rxf > 0 /\ rxf' = rxf - 1
                   /\ UNCHANGED <<opmod, txq, rxov, received, nodeVars, lineVars, canCall, canIrq, canRet, dropped, sent, stalls>>
CallbackSend == /\ canIrq.at = "callback" /\ nodeUp /\ isrEnabled /\ txq < Depth /\ sent < MaxFrames
                /\ txq' = txq + 1 /\ sent' = sent + 1 /\ txBusy' = TRUE
                /\ txqeie' = TRUE /\ txFifoIe' = TRUE /\ txLine' = TRUE
                /\ UNCHANGED <<opmod, rxf, rxov, received, nodeVars, rxLine, isrEnabled, canCall, canIrq, canRet, dropped, stalls>>
CallbackEnds == /\ canIrq.at = "callback" /\ (canIrq.rx /\ nodeUp => rxf = 0) /\ canIrq' = NoIrq
                /\ UNCHANGED <<hwVars, nodeVars, lineVars, canCall, canRet, dropped, sent, stalls>>

CanHandler == ReadInt \/ Service \/ CallbackReceive \/ CallbackSend \/ CallbackEnds

-----------------------------------------------------------------------------
(* The module and the bus.                                                  *)

CanHw(mode, queue, fifo, ov) ==
  /\ canOn /\ opmod' = mode /\ txq' = queue /\ rxf' = fifo /\ rxov' = ov
  /\ UNCHANGED <<nodeVars, lineVars, canCall, canIrq, canRet, sent, stalls>>

\* Configuration mode empties the queue and the FIFO, or leaves them.
ModeChanges == /\ opmod # reqop
               /\ \/ CanHw(reqop, txq, rxf, rxov)
                  \/ reqop = "config" /\ CanHw("config", 0, 0, rxov)
               /\ UNCHANGED <<received, dropped>>
FrameSent == opmod = "operating" /\ txq > 0 /\ CanHw(opmod, txq - 1, rxf, rxov) /\ UNCHANGED <<received, dropped>>
FrameArrives == /\ opmod = "operating" /\ received < MaxFrames /\ received' = received + 1
                /\ IF rxf < Depth THEN CanHw(opmod, txq, rxf + 1, rxov) /\ UNCHANGED dropped
                                  ELSE CanHw(opmod, txq, rxf, TRUE) /\ dropped' = TRUE

CanBus == ModeChanges \/ FrameSent \/ FrameArrives

CanInitState ==
  /\ canMode = FALSE /\ nodeUp = FALSE /\ canOn = FALSE /\ opmod = "config" /\ reqop = "config"
  /\ txq = 0 /\ rxf = 0 /\ rxov = FALSE
  /\ txqeie = FALSE /\ txFifoIe = FALSE /\ txLine = FALSE /\ rxLine = FALSE
  /\ isrEnabled = FALSE /\ txBusy = FALSE
  /\ canCall = <<>> /\ canIrq = NoIrq /\ canRet = "none" /\ dropped = FALSE
  /\ received = 0 /\ sent = 0 /\ stalls = 0

CanNext == CanCalls \/ CanReceive \/ CanPoll \/ CanThread \/ CanHandler \/ CanBus

\* A call goes on, a pending interrupt is served, the callback takes what was
\* received and returns, and the bus sends what is queued.
CanFairness ==
  /\ WF_canVars(CanThread) /\ WF_canVars(ReadInt) /\ WF_canVars(Service)
  /\ WF_canVars(CallbackReceive) /\ WF_canVars(CallbackEnds)
  /\ WF_canVars(FrameSent)

-----------------------------------------------------------------------------
(* Properties.                                                              *)

CanQuiet == ~CanBusy /\ ~CanInIrq

\* Between calls: every bring-up and release, also one that failed half way,
\* left the two records of the node's state agreeing with each other and with
\* the module; and "true between tx_start() and the TX_COMPLETE event": while a
\* transmission is said to be under way, the interrupt that ends it is armed.
CanSettled == CanQuiet => /\ canMode = nodeUp /\ nodeUp = canOn
                          /\ txBusy => isrEnabled /\ txqeie /\ txFifoIe /\ txLine

\* A frame the FIFO had no room for is reported: by the event, or by a flag
\* that stands until the event or the polled status has taken it.
DropIsTold == dropped => rxov

\* Every transmission that was started completes, unless the node leaves the bus.
SendsComplete == txBusy ~> (~txBusy \/ opmod = "config")

=============================================================================
