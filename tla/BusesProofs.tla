----------------------------- MODULE BusesProofs -----------------------------
(* What the drivers whose calls poll and wait promise: the I2C master and   *)
(* slave, the SPI master and the calls of a UART, for any number of bytes,  *)
(* any lengths, any FIFO, any time limits and any faults.                   *)
EXTENDS Buses, Integers, SequenceTheorems, TLAPS

(* The SPI master.  As long as no transfer gave up on a byte under way, the *)
(* byte last written is in exactly one place while its call waits for it,   *)
(* and nothing is anywhere at all otherwise.                                *)

SpiSteps == {"none", "room", "arrive", "drain", "recover", "emptied", "still", "settled"}
SpiCalls == [step : SpiSteps, left : Int, timed : BOOLEAN]

SpiTyped ==
  /\ spiUp \in BOOLEAN /\ spirov \in BOOLEAN /\ own \in BOOLEAN /\ late \in BOOLEAN /\ spiCall \in SpiCalls
  /\ tbf \in Nat /\ shifter \in Nat /\ rbf \in Nat /\ written \in Nat

\* A call in progress has not returned; it drains only after it gave up.
SpiCallOK ==
  /\ SpiBusy => spiRet = "none"
  /\ SpiAt("drain") \/ SpiAt("recover") => late

\* Where the bytes are.
NothingUnderWay == tbf = 0 /\ shifter = 0 /\ rbf = 0
LastUnderWay ==
  \/ tbf = written /\ shifter = 0 /\ rbf = 0
  \/ tbf = 0 /\ shifter = written /\ rbf = 0
  \/ tbf = 0 /\ shifter = 0 /\ rbf = written
SpiInStep ==
  ~late => IF SpiAt("arrive") THEN LastUnderWay /\ written > 0 ELSE NothingUnderWay

OwnSoFar == ~late /\ (SpiAt("room") \/ SpiAt("arrive") \/ spiRet = "OK") => own

\* What the wait has seen stays so.
WaitOK ==
  /\ SpiAt("still") \/ SpiAt("settled") \/ spiRet = "DONE" => tbf = 0
  /\ SpiAt("settled") \/ spiRet = "DONE" => shifter = 0

SpiInv == SpiTyped /\ SpiCallOK /\ SpiInStep /\ OwnSoFar /\ WaitOK

LEMMA IdleCall == SpiIdle \in SpiCalls /\ SpiIdle.step = "none"
BY DEF SpiIdle, SpiCalls, SpiSteps

LEMMA SpiInitInv == SpiInitState => SpiInv
<1> SUFFICES ASSUME SpiInitState PROVE SpiInv
  OBVIOUS
<1>1. SpiTyped
  BY IdleCall DEF SpiInitState, SpiTyped
<1>2. spiCall.step = "none"
  BY IdleCall DEF SpiInitState
<1>3. SpiCallOK /\ SpiInStep /\ OwnSoFar /\ WaitOK
  BY <1>2 DEF SpiInitState, SpiCallOK, SpiInStep, NothingUnderWay, OwnSoFar, WaitOK, SpiAt, SpiBusy
<1>4. QED
  BY <1>1, <1>3 DEF SpiInv

\* A call made while none is in progress, that returns or begins to transfer or to wait.
LEMMA SpiCallsKeep ==
  ASSUME SpiInv,
         \/ SpiInit \/ SpiDeinit \/ SpiClearError
         \/ \E n \in 0..MaxLen, timed \in BOOLEAN : SpiTransfer(n, timed)
         \/ \E timed \in BOOLEAN : SpiWaitDone(timed)
  PROVE  SpiInv'
<1> USE DEF SpiInv, SpiTyped, SpiCallOK, SpiInStep, NothingUnderWay, LastUnderWay, OwnSoFar, WaitOK,
            SpiCalls, SpiSteps, SpiIdle, SpiAt, SpiBusy
<1>1. CASE SpiInit
  BY <1>1 DEF SpiInit
<1>2. CASE SpiDeinit
  BY <1>2 DEF SpiDeinit
<1>3. CASE SpiClearError
  <2>1. spirov' \in BOOLEAN /\ rbf' \in {0, rbf}
    BY <1>3, Zenon DEF SpiClearError
  <2>2. QED
    BY <1>3, <2>1 DEF SpiClearError
<1>4. ASSUME NEW n \in 0..MaxLen, NEW timed \in BOOLEAN, SpiTransfer(n, timed) PROVE SpiInv'
  <2>1. CASE ~spiUp
    BY <1>4, <2>1 DEF SpiTransfer
  <2>2. CASE spiUp /\ n = 0
    BY <1>4, <2>2 DEF SpiTransfer
  <2>3. CASE spiUp /\ n # 0
    BY <1>4, <2>3 DEF SpiTransfer
  <2>4. QED
    BY <2>1, <2>2, <2>3
<1>5. ASSUME NEW timed \in BOOLEAN, SpiWaitDone(timed) PROVE SpiInv'
  BY <1>5 DEF SpiWaitDone
<1>6. QED
  BY <1>1, <1>2, <1>3, <1>4, <1>5

\* The steps of a call in progress.
LEMMA SpiStepsKeep ==
  ASSUME SpiInv, WriteBuf \/ ReadBuf \/ GiveUp \/ Drain \/ WaitForDone \/ CheckOverflow
  PROVE  SpiInv'
<1> USE DEF SpiInv, SpiTyped, SpiCallOK, SpiInStep, NothingUnderWay, LastUnderWay, OwnSoFar, WaitOK,
            SpiCalls, SpiSteps, SpiAt, SpiBusy, SpiGo, SpiReturn
<1>1. CASE WriteBuf
  BY <1>1 DEF WriteBuf
<1>2. CASE ReadBuf
  <2>1. own' \in BOOLEAN /\ (own' <=> own /\ rbf = written)
    BY <1>2, Zenon DEF ReadBuf
  <2>2. SpiCallOK' /\ SpiInStep' /\ OwnSoFar' /\ WaitOK'
    <3>1. CASE spiCall.left = 1
      BY <1>2, <2>1, <3>1, IdleCall DEF ReadBuf
    <3>2. CASE spiCall.left # 1
      BY <1>2, <2>1, <3>2 DEF ReadBuf
    <3>3. QED
      BY <3>1, <3>2
  <2>3. spiCall' \in SpiCalls
    <3>1. CASE spiCall.left = 1
      BY <1>2, <3>1, IdleCall DEF ReadBuf
    <3>2. CASE spiCall.left # 1
      <4>1. spiCall' = [spiCall EXCEPT !.step = "room", !.left = spiCall.left - 1]
        BY <1>2, <3>2 DEF ReadBuf
      <4>2. spiCall.left - 1 \in Int
        OBVIOUS
      <4>3. QED
        BY <4>1, <4>2
    <3>3. QED
      BY <3>1, <3>2
  <2>4. QED
    BY <1>2, <2>1, <2>2, <2>3 DEF ReadBuf
<1>3. CASE GiveUp
  <2>1. CASE SpiAt("arrive")
    BY <1>3, <2>1 DEF GiveUp
  <2>2. CASE ~SpiAt("arrive")
    <3>1. spiCall' = SpiIdle /\ spiRet' = "TIMEOUT" /\ late' = late
      BY <1>3, <2>2 DEF GiveUp
    <3>2. QED
      BY <1>3, <2>2, <3>1, IdleCall DEF GiveUp
  <2>3. QED
    BY <2>1, <2>2
<1>4. CASE Drain
  BY <1>4 DEF Drain
<1>5. CASE WaitForDone
  BY <1>5 DEF WaitForDone, WaitsForDone
<1>6. CASE CheckOverflow
  <2>1. spiCall' = SpiIdle /\ spiRet' \in {"TIMEOUT", "OVERFLOW", "DONE"} /\ (spiRet' = "DONE" => SpiAt("settled"))
    BY <1>6 DEF CheckOverflow
  <2>2. rbf' \in {0, rbf} /\ spirov' \in BOOLEAN
    BY <1>6, Zenon DEF CheckOverflow
  <2>3. SpiTyped'
    BY <1>6, <2>1, <2>2, IdleCall DEF CheckOverflow
  <2>4. SpiCallOK' /\ SpiInStep' /\ OwnSoFar' /\ WaitOK'
    BY <1>6, <2>1, <2>2, IdleCall DEF CheckOverflow
  <2>5. QED
    BY <2>3, <2>4
<1>7. QED
  BY <1>1, <1>2, <1>3, <1>4, <1>5, <1>6

\* The hardware moves the byte on, wherever the thread is.
LEMMA SpiShifterKeeps ==
  ASSUME SpiInv, ShiftIn \/ Shifted
  PROVE  SpiInv'
<1> USE DEF SpiInv, SpiTyped, SpiCallOK, SpiInStep, NothingUnderWay, LastUnderWay, OwnSoFar, WaitOK,
            SpiCalls, SpiSteps, SpiIdle, SpiAt, SpiBusy
<1>1. CASE ShiftIn
  BY <1>1 DEF ShiftIn
<1>2. CASE Shifted
  BY <1>2 DEF Shifted
<1>3. QED
  BY <1>1, <1>2

LEMMA SpiStep == SpiInv /\ [SpiNext]_spiVars => SpiInv'
<1> SUFFICES ASSUME SpiInv, [SpiNext]_spiVars PROVE SpiInv'
  OBVIOUS
<1>1. CASE UNCHANGED spiVars
  BY <1>1 DEF spiVars, SpiInv, SpiTyped, SpiCallOK, SpiInStep, NothingUnderWay, LastUnderWay, OwnSoFar,
              WaitOK, SpiAt, SpiBusy
<1>2. CASE SpiNext
  BY <1>2, SpiCallsKeep, SpiStepsKeep, SpiShifterKeeps DEF SpiNext
<1>3. QED
  BY <1>1, <1>2

LEMMA SpiInvariant == SpiSpec => []SpiInv
BY SpiInitInv, SpiStep, PTL DEF SpiSpec

\* A transfer that returned OK handed over its own bytes, unless one gave up before it:
\* whatever polls ran out and whatever was left in the buffers when the module was last
\* initialized.
THEOREM TransfersOwnBytes == SpiSpec => []OwnBytes
<1>1. SpiInv => OwnBytes
  BY DEF SpiInv, OwnSoFar, OwnBytes
<1>2. QED
  BY <1>1, SpiInvariant, PTL

\* After nora_spi_wait_done_ex returned, nothing is left to shift.
THEOREM WaitedIsIdle == SpiSpec => []DoneIsIdle
<1>1. SpiInv => DoneIsIdle
  BY DEF SpiInv, WaitOK, DoneIsIdle
<1>2. QED
  BY <1>1, SpiInvariant, PTL

-----------------------------------------------------------------------------
(* The UART.  A receiver's backend and its interrupt go together: without   *)
(* this a transfer could be taken for one that the interrupt will end.      *)

UartTyped ==
  /\ uartUp \in BOOLEAN /\ rxMode \in {"polling", "ring"}
  /\ con \in [on : BOOLEAN, tx : BOOLEAN, rx : BOOLEAN]
  /\ ie \in [rx : BOOLEAN, tx : BOOLEAN, prio : BOOLEAN]
  /\ transfers \in [tx : BOOLEAN, rx : BOOLEAN]

ModeIsArmed == /\ rxMode = "ring" <=> ie.rx
               /\ ie.rx => uartUp
               /\ uartUp => con.on
DownIsOff == ~uartUp => con = AllOff /\ ~ie.tx /\ transfers = NoTransfers
UnderWay == /\ transfers.tx => con.tx /\ ie.tx /\ ie.prio
            /\ transfers.rx => con.rx /\ ie.rx

UartInv == UartTyped /\ ModeIsArmed /\ DownIsOff /\ UnderWay

LEMMA UartConstants ==
  /\ AllOff \in [on : BOOLEAN, tx : BOOLEAN, rx : BOOLEAN] /\ ~AllOff.on /\ ~AllOff.tx /\ ~AllOff.rx
  /\ NoIe \in [rx : BOOLEAN, tx : BOOLEAN, prio : BOOLEAN] /\ ~NoIe.rx /\ ~NoIe.tx
  /\ NoTransfers \in [tx : BOOLEAN, rx : BOOLEAN] /\ ~NoTransfers.tx /\ ~NoTransfers.rx
BY DEF AllOff, NoIe, NoTransfers

LEMMA UartInitInv == UartInitState => UartInv
BY UartConstants DEF UartInitState, UartInv, UartTyped, ModeIsArmed, DownIsOff, UnderWay

\* What leaves the instance off.
LEMMA OffKeeps ==
  ASSUME ~uartUp', rxMode' = "polling", con' = AllOff, transfers' = NoTransfers,
         ie' \in [rx : BOOLEAN, tx : BOOLEAN, prio : BOOLEAN], ~ie'.rx, ~ie'.tx, uartUp' \in BOOLEAN
  PROVE  UartInv'
BY UartConstants DEF UartInv, UartTyped, ModeIsArmed, DownIsOff, UnderWay

LEMMA UartKept ==
  ASSUME UartInv, UNCHANGED <<uartUp, rxMode, con, ie, transfers>>
  PROVE  UartInv'
BY DEF UartInv, UartTyped, ModeIsArmed, DownIsOff, UnderWay

LEMMA UartInitKeeps ==
  ASSUME ~Reinit, UartInv, NEW mode \in {"polling", "ring"}, NEW tx \in BOOLEAN, NEW rx \in BOOLEAN,
         NEW prio \in BOOLEAN, UartInit(mode, tx, rx, prio)
  PROVE  UartInv'
<1>1. CASE BadConfig
  BY <1>1, UartKept DEF BadConfig, UartRefuse
<1>2. CASE RingFails
  BY <1>2, OffKeeps, UartConstants DEF RingFails
<1>3. CASE /\ uartUp' = TRUE /\ rxMode' = mode /\ transfers' = NoTransfers
           /\ con' = [on |-> TRUE, tx |-> tx, rx |-> rx]
           /\ ie' = [rx |-> mode = "ring" \/ ie.rx, tx |-> FALSE, prio |-> prio]
  <2>1. ~uartUp /\ ~ie.rx
    BY DEF UartInit, UartInv, ModeIsArmed
  <2>2. ie' \in [rx : BOOLEAN, tx : BOOLEAN, prio : BOOLEAN] /\ ~ie'.tx
    BY <1>3
  <2>3. ie'.rx <=> mode = "ring"
    BY <1>3, <2>1
  <2>4. con' \in [on : BOOLEAN, tx : BOOLEAN, rx : BOOLEAN] /\ con'.on
    BY <1>3
  <2>5. QED
    BY <1>3, <2>2, <2>3, <2>4, UartConstants DEF UartInv, UartTyped, ModeIsArmed, DownIsOff, UnderWay
<1>4. QED
  BY <1>1, <1>2, <1>3 DEF UartInit

LEMMA UartDeinitKeeps ==
  ASSUME UartInv, UartDeinit
  PROVE  UartInv'
<1>1. ie' = [NoIe EXCEPT !.rx = ie.rx /\ rxMode # "ring"] /\ ~(ie.rx /\ rxMode # "ring")
  BY DEF UartDeinit, UartTurnOff, UartInv, ModeIsArmed
<1>2. ie' \in [rx : BOOLEAN, tx : BOOLEAN, prio : BOOLEAN] /\ ~ie'.rx /\ ~ie'.tx
  BY <1>1 DEF NoIe
<1>3. QED
  BY <1>2, OffKeeps DEF UartDeinit, UartTurnOff

LEMMA LineKeeps ==
  ASSUME UartInv, NEW line \in {"tx", "rx"}, NEW enable \in BOOLEAN, LineEnable(line, enable)
  PROVE  UartInv'
<1>1. CASE \E status \in {"NOT_INITIALIZED", "BUSY"} : UartRefuse(status)
  BY <1>1, UartKept DEF UartRefuse
<1>2. CASE /\ Require /\ ~Strands(line, enable)
           /\ con' = [con EXCEPT ![line] = enable]
           /\ UNCHANGED <<uartUp, rxMode, ie, transfers>>
  <2>1. CASE line = "tx"
    BY <1>2, <2>1 DEF UartInv, UartTyped, ModeIsArmed, DownIsOff, UnderWay, Require, Strands
  <2>2. CASE line = "rx"
    BY <1>2, <2>2 DEF UartInv, UartTyped, ModeIsArmed, DownIsOff, UnderWay, Require, Strands
  <2>3. QED
    BY <2>1, <2>2
<1>3. QED
  BY <1>1, <1>2 DEF LineEnable

LEMMA StartKeeps ==
  ASSUME UartInv, NEW line \in {"tx", "rx"}, StartTransfer(line)
  PROVE  UartInv'
<1>1. CASE \E status \in {"NOT_INITIALIZED", "BUSY", "UNSUPPORTED"} : UartRefuse(status)
  BY <1>1, UartKept DEF UartRefuse
<1>2. CASE /\ Require /\ (IF line = "tx" THEN con.tx /\ ie.prio ELSE con.rx /\ rxMode = "ring")
           /\ transfers' = [transfers EXCEPT ![line] = TRUE]
           /\ ie' = IF line = "tx" THEN [ie EXCEPT !.tx = TRUE] ELSE ie
           /\ UNCHANGED <<uartUp, rxMode, con>>
  <2>1. CASE line = "tx"
    BY <1>2, <2>1 DEF UartInv, UartTyped, ModeIsArmed, DownIsOff, UnderWay, Require
  <2>2. CASE line = "rx"
    BY <1>2, <2>2 DEF UartInv, UartTyped, ModeIsArmed, DownIsOff, UnderWay, Require
  <2>3. QED
    BY <2>1, <2>2
<1>3. QED
  BY <1>1, <1>2 DEF StartTransfer

LEMMA EndKeeps ==
  ASSUME UartInv, NEW line \in {"tx", "rx"}, EndTransfer(line)
  PROVE  UartInv'
<1>1. CASE line = "tx"
  BY <1>1 DEF EndTransfer, UartInv, UartTyped, ModeIsArmed, DownIsOff, UnderWay, Require
<1>2. CASE line = "rx"
  BY <1>2 DEF EndTransfer, UartInv, UartTyped, ModeIsArmed, DownIsOff, UnderWay, Require
<1>3. QED
  BY <1>1, <1>2

LEMMA UartStep == ASSUME ~Reinit PROVE UartInv /\ [UartNext]_uartVars => UartInv'
<1> SUFFICES ASSUME UartInv, [UartNext]_uartVars PROVE UartInv'
  OBVIOUS
<1>1. CASE UNCHANGED uartVars
  BY <1>1, UartKept DEF uartVars
<1>2. CASE SetBaudrate \/ WriteByteCall \/ ReadByteCall \/ ByteLeaves \/ ByteArrives \/ HandlerTakes
  BY <1>2, UartKept DEF SetBaudrate, WriteByteCall, ReadByteCall, ByteLeaves, ByteArrives,
                        HandlerTakes, UartRefuse
<1>3. QED
  BY <1>1, <1>2, UartInitKeeps, UartDeinitKeeps, LineKeeps, StartKeeps, EndKeeps DEF UartNext

LEMMA UartInvariant == ASSUME ~Reinit PROVE UartSpec => []UartInv
BY UartInitInv, UartStep, PTL DEF UartSpec

\* Unless a live instance is initialized again, a transfer has its line and its interrupt
\* on whatever was called, refused or failed, so that it can end; and what is off is quiet.
THEOREM UartStaysSettled == ASSUME ~Reinit PROVE UartSpec => []UartSettled
<1>1. UartInv => UartSettled
  BY DEF UartInv, ModeIsArmed, DownIsOff, UnderWay, UartSettled
<1>2. QED
  BY <1>1, UartInvariant, PTL

\* Nor does a handler take the bytes that a polling receiver waits for.
THEOREM PollingIsLeftAlone == ASSUME ~Reinit PROVE UartSpec => []PollingHasNoInterrupt
<1>1. UartInv => PollingHasNoInterrupt
  BY DEF UartInv, ModeIsArmed, PollingHasNoInterrupt
<1>2. QED
  BY <1>1, UartInvariant, PTL

-----------------------------------------------------------------------------
(* The I2C slave.  The flag or the handler stands for what is left to do:   *)
(* what the handler has sampled is all there is, unless the flag is set     *)
(* again, and while SCL is held for it nothing moves on the bus.            *)
Sampled == "sampled" \in irq
Waiting == flag \/ InHandler
\* STAT1 as the next service goes by it.
Seen == IF Sampled THEN irq ELSE stat1

SlaveTyped ==
  /\ active \in BOOLEAN /\ reading \in BOOLEAN /\ flag \in BOOLEAN /\ held \in BOOLEAN /\ trn \in BOOLEAN
  /\ crowded \in BOOLEAN /\ skipped \in BOOLEAN /\ open \in BOOLEAN
  /\ stat1 \subseteq Stat1Bits /\ bus \in {"free", "write", "read", "done"}
  /\ irq = {"idle"} \/ irq = {"entered"} \/ (Sampled /\ irq \subseteq Stat1Bits \cup {"sampled"})

\* The handler serves what it sampled, which is all there is unless the flag is set again;
\* and nothing moves on the bus while SCL is held for it.
HandlerOK ==
  /\ ~skipped
  /\ InHandler => active
  /\ active =>
       /\ Sampled /\ ~flag => irq = stat1 \cup {"sampled"}
       /\ ~Waiting => stat1 \cap {"RBF", "I2COV"} = {}
       /\ trn => bus = "read" /\ ~held
       /\ held => (flag <=> ~InHandler)

ReadOK == active /\ bus = "read" =>
  /\ stat1 \cap {"P", "NACK"} = {}
  /\ IF "RBF" \in stat1 THEN held /\ {"ADDR", "R_W"} \subseteq stat1 ELSE reading /\ open /\ "I2COV" \notin stat1
  /\ ~held => ~Waiting /\ trn

WriteOK == active /\ bus = "write" =>
  /\ stat1 \cap {"P", "R_W"} = {}
  /\ IF held THEN {"ADDR", "RBF"} \subseteq stat1
     ELSE ~reading /\ open /\ Seen \cap {"P", "R_W"} = {}

DoneOK == active /\ bus = "done" =>
  /\ ~held /\ open /\ "NACK" \in stat1 /\ stat1 \cap {"RBF", "I2COV", "P"} = {}
  /\ reading => Waiting
  /\ Sampled => irq = stat1 \cup {"sampled"}

FreeOK == active /\ bus = "free" =>
  /\ ~held
  /\ Waiting => "P" \in stat1
  /\ open \/ reading => Waiting
  /\ reading => "NACK" \in Seen /\ "RBF" \notin Seen
  /\ \A s \in {stat1, Seen} : "RBF" \in s => "R_W" \notin s

SlaveInv == SlaveTyped /\ HandlerOK /\ ReadOK /\ WriteOK /\ DoneOK /\ FreeOK

LEMMA Bits == /\ "sampled" \notin Stat1Bits /\ "idle" \notin Stat1Bits /\ "entered" \notin Stat1Bits
              /\ {"RBF", "ADDR", "R_W", "NACK", "P", "I2COV"} \subseteq Stat1Bits
BY DEF Stat1Bits

LEMMA SlaveInitStep == SlaveInitState => SlaveInv
BY DEF SlaveInitState, SlaveInv, SlaveTyped, HandlerOK, ReadOK, WriteOK, DoneOK, FreeOK, Sampled, Waiting, Seen, InHandler, NoHandler

\* What the handler's states are to each other.
LEMMA HandlerStates ==
  /\ {"entered"} # {"idle"} /\ "sampled" \notin {"entered"} /\ "sampled" \notin {"idle"}
  /\ \A s \in SUBSET Stat1Bits : s \cup {"sampled"} # {"idle"}
<1>1. "entered" \in {"entered"} /\ "entered" \notin {"idle"} /\ "sampled" \notin {"entered"} /\ "sampled" \notin {"idle"}
  OBVIOUS
<1>2. \A s \in SUBSET Stat1Bits : "sampled" \in s \cup {"sampled"}
  OBVIOUS
<1>3. QED
  BY <1>1, <1>2

LEMMA SlaveCallsStep == SlaveInv /\ (SlaveInit \/ SlaveDeinit) => SlaveInv'
<1> SUFFICES ASSUME SlaveInv, SlaveInit \/ SlaveDeinit PROVE SlaveInv'
  OBVIOUS
<1>1. /\ irq = {"idle"} /\ irq' = {"idle"} /\ active' \in BOOLEAN /\ ~reading' /\ ~flag' /\ stat1' = {} /\ ~held' /\ ~trn'
      /\ bus' = "free" /\ ~open' /\ UNCHANGED <<crowded, skipped>>
      /\ reading' = FALSE /\ flag' = FALSE /\ held' = FALSE /\ trn' = FALSE /\ open' = FALSE
  BY DEF SlaveInit, SlaveDeinit, InHandler, NoHandler
<1>2. ~Sampled' /\ ~InHandler' /\ ~Waiting' /\ Seen' = {}
  BY <1>1, HandlerStates DEF Sampled, InHandler, NoHandler, Waiting, Seen
<1>3. SlaveTyped'
  BY <1>1 DEF SlaveInv, SlaveTyped
<1>4. HandlerOK' /\ FreeOK'
  BY <1>1, <1>2 DEF SlaveInv, HandlerOK, FreeOK
<1>5. ReadOK' /\ WriteOK' /\ DoneOK'
  BY <1>1 DEF ReadOK, WriteOK, DoneOK
<1>6. QED
  BY <1>3, <1>4, <1>5 DEF SlaveInv

LEMMA EventIrqStep == SlaveInv /\ EventIrq => SlaveInv'
<1> SUFFICES ASSUME SlaveInv, EventIrq PROVE SlaveInv'
  OBVIOUS
<1>1. active /\ flag /\ irq = {"idle"} /\ flag' = FALSE /\ irq' = {"entered"} /\ crowded' = FALSE
  BY DEF EventIrq, ClearsFirst, InHandler, NoHandler
<1>2. UNCHANGED <<active, reading, stat1, held, trn, bus, skipped, open>>
  BY DEF EventIrq
<1>3. InHandler' /\ Waiting' /\ Waiting /\ ~InHandler /\ ~Sampled /\ ~Sampled' /\ Seen' = Seen
  BY <1>1, <1>2, HandlerStates DEF InHandler, Waiting, Sampled, Seen, NoHandler
<1>4. SlaveTyped'
  BY <1>1, <1>2 DEF SlaveInv, SlaveTyped
<1>5. HandlerOK'
  BY <1>1, <1>2, <1>3 DEF SlaveInv, HandlerOK
<1>6. ReadOK' /\ DoneOK'
  BY <1>1, <1>2, <1>3 DEF SlaveInv, ReadOK, DoneOK
<1>7. WriteOK' /\ FreeOK'
  BY <1>1, <1>2, <1>3 DEF SlaveInv, WriteOK, FreeOK
<1>8. QED
  BY <1>4, <1>5, <1>6, <1>7 DEF SlaveInv

LEMMA SampleStep == SlaveInv /\ Sample => SlaveInv'
<1> SUFFICES ASSUME SlaveInv, Sample PROVE SlaveInv'
  OBVIOUS
<1>1. irq = {"entered"} /\ irq' = stat1 \cup {"sampled"} /\ stat1 \subseteq Stat1Bits
  BY DEF Sample, SlaveInv, SlaveTyped
<1>2. UNCHANGED <<flag, crowded, active, reading, stat1, held, trn, bus, skipped, open>>
  BY DEF Sample
<1>3. InHandler' /\ InHandler /\ Waiting' /\ Waiting /\ ~Sampled /\ Sampled' /\ Seen' = stat1 \cup {"sampled"} /\ Seen = stat1
  BY <1>1, <1>2, HandlerStates DEF InHandler, Waiting, Sampled, Seen, NoHandler
<1>4. SlaveTyped'
  BY <1>1, <1>2, <1>3 DEF SlaveInv, SlaveTyped
<1>5. HandlerOK'
  BY <1>1, <1>2, <1>3 DEF SlaveInv, HandlerOK
<1>6. ReadOK' /\ DoneOK'
  BY <1>1, <1>2, <1>3 DEF SlaveInv, ReadOK, DoneOK
<1>7. WriteOK'
  BY <1>1, <1>2, <1>3, Bits DEF SlaveInv, WriteOK
<1>8. FreeOK'
  BY <1>1, <1>2, <1>3, Bits DEF SlaveInv, FreeOK
<1>9. QED
  BY <1>4, <1>5, <1>6, <1>7, <1>8 DEF SlaveInv

LEMMA ServeStep == SlaveInv /\ Serve => SlaveInv'
<1> SUFFICES ASSUME SlaveInv, Serve PROVE SlaveInv'
  OBVIOUS
<1> USE Bits DEF NoLoad, Load, IsAddress, IsRead
<1>0. irq' = {"idle"} /\ flag' = flag /\ active' = active /\ bus' = bus /\ crowded' = crowded /\ active /\ Sampled
  BY DEF Serve, ClearsFirst, NoHandler, SlaveInv, HandlerOK, Sampled, InHandler
<1>a. ~InHandler' /\ InHandler /\ ~Sampled' /\ Seen = irq /\ Seen' = stat1' /\ (Waiting' <=> flag)
  BY <1>0, HandlerStates DEF InHandler, Waiting, Sampled, Seen, NoHandler, SlaveInv, SlaveTyped
<1>1. trn' \in BOOLEAN /\ held' \in BOOLEAN /\ reading' \in BOOLEAN /\ open' \in BOOLEAN /\ stat1' \subseteq Stat1Bits /\ skipped' \in BOOLEAN
  BY DEF Serve, SlaveInv, SlaveTyped
<1>2. SlaveTyped'
  BY <1>0, <1>1 DEF SlaveInv, SlaveTyped
<1> DEFINE took == "RBF" \in irq
           answered == "RBF" \notin irq /\ reading /\ "NACK" \notin irq
<1>b. /\ held' <=> held /\ ~took /\ ~answered
      /\ reading' <=> "P" \notin irq /\ IF took THEN (IF "ADDR" \in irq THEN "R_W" \in irq ELSE reading) ELSE answered
      /\ trn' <=> trn \/ answered \/ (took /\ "ADDR" \in irq /\ "R_W" \in irq)
      /\ skipped' => skipped \/ trn
  <2>1. CASE took /\ "ADDR" \in irq /\ "R_W" \in irq
    BY <2>1 DEF Serve, SlaveInv, SlaveTyped
  <2>2. CASE took /\ ~("ADDR" \in irq /\ "R_W" \in irq)
    BY <2>2 DEF Serve, SlaveInv, SlaveTyped
  <2>3. CASE ~took /\ answered
    BY <2>3 DEF Serve, SlaveInv, SlaveTyped
  <2>4. CASE ~took /\ ~answered
    BY <2>4 DEF Serve, SlaveInv, SlaveTyped
  <2>5. QED
    BY <2>1, <2>2, <2>3, <2>4
<1>c. /\ stat1' = stat1 \ ({"I2COV"} \cup (IF took THEN {"RBF"} ELSE {}))
      /\ open' <=> (open \/ (took /\ "ADDR" \in irq)) /\ "P" \notin irq
  BY DEF Serve
<1>d. /\ "ADDR" \in stat1' <=> "ADDR" \in stat1
      /\ "R_W" \in stat1' <=> "R_W" \in stat1
      /\ "NACK" \in stat1' <=> "NACK" \in stat1
      /\ "P" \in stat1' <=> "P" \in stat1
  BY <1>c
<1>e. "I2COV" \notin stat1' /\ ("RBF" \in stat1' <=> "RBF" \in stat1 /\ ~took)
  BY <1>c
<1>f. ~flag => /\ "ADDR" \in irq <=> "ADDR" \in stat1
               /\ "R_W" \in irq <=> "R_W" \in stat1
               /\ "NACK" \in irq <=> "NACK" \in stat1
               /\ "P" \in irq <=> "P" \in stat1
               /\ "RBF" \in irq <=> "RBF" \in stat1
  BY <1>0, Bits DEF SlaveInv, HandlerOK
<1> HIDE DEF took, answered
<1>g. trn' => bus = "read"
  BY <1>0, <1>a, <1>b, <1>f DEF SlaveInv, SlaveTyped, HandlerOK, WriteOK, DoneOK, FreeOK, took, answered
<1>h. bus = "read" => ~trn /\ held /\ ~flag
  BY <1>0, <1>a DEF SlaveInv, HandlerOK, ReadOK, Waiting
<1>i. held => ~held'
  BY <1>0, <1>a, <1>b, <1>f, Bits DEF SlaveInv, SlaveTyped, HandlerOK, ReadOK, WriteOK, DoneOK, FreeOK, took, answered
<1>3. HandlerOK'
  <2>1. ~skipped'
    BY <1>b, <1>g, <1>h DEF SlaveInv, HandlerOK
  <2>2. ~Waiting' => stat1' \cap {"RBF", "I2COV"} = {}
    BY <1>a, <1>c, <1>e, <1>f, Bits DEF took
  <2>3. (trn' => bus' = "read" /\ ~held') /\ (held' => (flag' <=> ~InHandler'))
    BY <1>0, <1>a, <1>b, <1>g, <1>h, <1>i
  <2>4. QED
    BY <1>0, <1>a, <2>1, <2>2, <2>3 DEF HandlerOK
<1>4. ReadOK'
  <2> SUFFICES ASSUME bus = "read" PROVE ReadOK'
    BY <1>0 DEF ReadOK
  <2>1. /\ "P" \notin stat1 /\ "NACK" \notin stat1
        /\ "RBF" \in stat1 => "ADDR" \in stat1 /\ "R_W" \in stat1
        /\ "RBF" \notin stat1 => reading /\ open
    BY <1>0 DEF SlaveInv, ReadOK
  <2>2. trn' /\ reading' /\ open' /\ ~held'
    BY <1>b, <1>c, <1>f, <1>h, <1>i, <2>1 DEF took, answered
  <2>3. "RBF" \notin stat1' /\ "P" \notin stat1' /\ "NACK" \notin stat1'
    BY <1>d, <1>e, <1>f, <1>h, <2>1 DEF took
  <2>4. QED
    BY <1>0, <1>a, <1>e, <1>h, <2>2, <2>3 DEF ReadOK
<1>5. WriteOK'
  BY <1>0, <1>1, <1>a, <1>b, <1>c, <1>d, <1>e, <1>f DEF SlaveInv, SlaveTyped, HandlerOK, WriteOK, took, answered
<1>6. DoneOK'
  BY <1>0, <1>1, <1>a, <1>b, <1>c, <1>d, <1>e, <1>f DEF SlaveInv, SlaveTyped, HandlerOK, DoneOK, took, answered
<1>7. FreeOK'
  <2> SUFFICES ASSUME bus = "free" PROVE FreeOK'
    BY <1>0 DEF FreeOK
  <2>1. /\ ~held /\ "P" \in stat1
        /\ reading => "NACK" \in irq /\ "RBF" \notin irq
        /\ "RBF" \in stat1 => "R_W" \notin stat1
        /\ "RBF" \in irq => "R_W" \notin irq
    BY <1>0, <1>a DEF SlaveInv, FreeOK, Waiting
  <2>2. ~held' /\ ~reading' /\ (open' => flag)
    BY <1>b, <1>c, <1>f, <2>1 DEF took, answered
  <2>3. ("RBF" \in stat1' => "R_W" \notin stat1') /\ "P" \in stat1'
    BY <1>d, <1>e, <2>1
  <2>4. QED
    BY <1>a, <2>2, <2>3 DEF FreeOK
<1>8. QED
  BY <1>2, <1>3, <1>4, <1>5, <1>6, <1>7 DEF SlaveInv

LEMMA BusStep == SlaveInv /\ Bus => SlaveInv'
<1> SUFFICES ASSUME SlaveInv, Bus PROVE SlaveInv'
  OBVIOUS
<1> USE Bits DEF SlaveInv, SlaveTyped, HandlerOK, ReadOK, WriteOK, DoneOK, FreeOK, Sampled, Waiting, Seen, InHandler, NoHandler, BusMoves
<1>1. CASE BusAddress
  <2>1. /\ active /\ ~InHandler /\ ~held /\ held' = TRUE /\ flag' = TRUE /\ trn' = FALSE
        /\ UNCHANGED <<active, reading, irq, skipped, open>> /\ crowded' \in BOOLEAN
    BY <1>1 DEF BusAddress
  <2>2. PICK dir \in {"read", "write"} :
          bus' = dir /\ Receive({"ADDR"} \cup (IF dir = "read" THEN {"R_W"} ELSE {}))
    BY <1>1 DEF BusAddress
  <2>3. /\ stat1' \subseteq Stat1Bits /\ "RBF" \in stat1' /\ "ADDR" \in stat1'
        /\ "P" \notin stat1' /\ "NACK" \notin stat1' /\ ("R_W" \in stat1' <=> dir = "read")
    BY <2>2 DEF Receive
  <2>4. ~Sampled /\ irq = {"idle"} /\ ~InHandler' /\ ~Sampled' /\ Waiting' /\ Seen' = stat1'
    BY <2>1, HandlerStates
  <2> HIDE DEF Sampled, Waiting, Seen, InHandler
  <2>5. SlaveTyped'
    BY <2>1, <2>2, <2>3, <2>4
  <2>6. HandlerOK'
    BY <2>1, <2>2, <2>3, <2>4
  <2>7. ReadOK' /\ WriteOK' /\ DoneOK' /\ FreeOK'
    BY <2>1, <2>2, <2>3, <2>4
  <2>8. QED
    BY <2>5, <2>6, <2>7
<1>2. CASE BusWrite
  BY <1>2 DEF BusWrite, Receive
<1>3. CASE BusRead
  BY <1>3 DEF BusRead
<1>4. CASE BusStop
  BY <1>4 DEF BusStop
<1>5. QED
  BY <1>1, <1>2, <1>3, <1>4 DEF Bus

LEMMA SlavePromise == SlaveInv => SlaveTypeOK /\ SlaveKeepsUp
<1> SUFFICES ASSUME SlaveInv PROVE SlaveTypeOK /\ SlaveKeepsUp
  OBVIOUS
<1>1. SlaveTypeOK
  BY DEF SlaveInv, SlaveTyped, SlaveTypeOK
<1>2. SlaveKeepsUp
  BY DEF SlaveInv, SlaveTyped, HandlerOK, ReadOK, WriteOK, DoneOK, FreeOK, Sampled, Waiting, Seen, InHandler, NoHandler, SlaveKeepsUp
<1>3. QED
  BY <1>1, <1>2

-----------------------------------------------------------------------------
(* The I2C master.  A call is a row of steps and has a row of signals to    *)
(* put on the bus; both are taken from the front.                           *)

Puts == {"SEN", "RSEN", "TRN", "RCEN", "ACK", "NACK", "PEN"}
StepNames == Puts \cup Waits \cup {"pend"}
Signals == {"S", "Sr", "byte", "in", "ack", "nack", "P"}
SignalOf(s) ==
  CASE s = "SEN" -> "S" [] s = "RSEN" -> "Sr" [] s = "TRN" -> "byte" [] s = "RCEN" -> "in"
    [] s = "ACK" -> "ack" [] s = "NACK" -> "nack" [] s = "PEN" -> "P"

\* f counts the signals that the first steps of t put on the bus.
Counted(t, d, f) ==
  /\ f[0] = 0 /\ f[Len(t)] = Len(d)
  /\ \A i, j \in 0..Len(t) : i <= j => f[i] <= f[j]
  /\ \A i \in 1..Len(t) : IF t[i] \in Puts THEN f[i] = f[i - 1] + 1 /\ d[f[i]] = SignalOf(t[i])
                                           ELSE f[i] = f[i - 1]

\* The steps t put exactly the signals d on the bus, in this order.
Matches(t, d) == \E f \in [0..Len(t) -> 0..Len(d)] : Counted(t, d, f)

\* What may follow a step.
Follows ==
  {<<"SEN", "started">>, <<"started", "ready">>, <<"ready", "host">>, <<"host", "TRN">>, <<"TRN", "sent">>,
   <<"sent", "accepted">>, <<"accepted", "ready">>, <<"accepted", "RCEN">>, <<"accepted", "pend">>,
   <<"pend", "PEN">>, <<"pend", "RSEN">>, <<"RSEN", "restarted">>, <<"restarted", "ready">>,
   <<"RCEN", "filled">>, <<"filled", "ACK">>, <<"filled", "NACK">>, <<"ACK", "answered">>,
   <<"NACK", "answered">>, <<"answered", "RCEN">>, <<"answered", "PEN">>, <<"PEN", "stopped">>}
Chained(t) == \A i \in 1..(Len(t) - 1) : <<t[i], t[i + 1]>> \in Follows

\* A part of a transaction, from its first step to its last.
Part(t, d, first, last) ==
  /\ t \in Seq(StepNames) /\ d \in Seq(Signals) /\ t # <<>>
  /\ t[1] = first /\ t[Len(t)] = last /\ Chained(t) /\ Matches(t, d)

LEMMA NothingLeft ==
  ASSUME NEW t, t \in Seq(StepNames), NEW d, d \in Seq(Signals), Matches(t, d), Len(t) = 1, t[1] \notin Puts
  PROVE  d = <<>>
<1>1. PICK f \in [0..Len(t) -> 0..Len(d)] : Counted(t, d, f)
  BY DEF Matches
<1>2. f[0] = 0 /\ f[1] = Len(d) /\ f[1] = f[0]
  BY <1>1 DEF Counted
<1>3. QED
  BY <1>2, EmptySeq

LEMMA MatchTail ==
  ASSUME NEW t, t \in Seq(StepNames), NEW d, d \in Seq(Signals), Matches(t, d), t # <<>>
  PROVE  /\ t[1] \in Puts => d # <<>> /\ d[1] = SignalOf(t[1]) /\ Matches(Tail(t), Tail(d))
         /\ t[1] \notin Puts => Matches(Tail(t), d)
<1>1. PICK f \in [0..Len(t) -> 0..Len(d)] : Counted(t, d, f)
  BY DEF Matches
<1>2. Len(t) \in Nat \ {0} /\ Len(d) \in Nat /\ Len(Tail(t)) = Len(t) - 1
      /\ \A i \in 1..(Len(t) - 1) : Tail(t)[i] = t[i + 1]
  BY EmptySeq, LenProperties, HeadTailProperties
<1>3. \A i \in 0..Len(t) : f[i] \in 0..Len(d)
  OBVIOUS
<1> DEFINE n == Len(t)  m == Len(d)
           g == [i \in 0..(n - 1) |-> f[i + 1] - f[1]]
<1>4. f[0] = 0 /\ f[n] = m /\ \A i \in 1..n : f[1] <= f[i]
  BY <1>1, <1>2 DEF Counted
<1>5. CASE t[1] \in Puts
  <2>1. f[1] = 1 /\ d[1] = SignalOf(t[1]) /\ m >= 1
    BY <1>1, <1>2, <1>3, <1>4, <1>5 DEF Counted
  <2>2. d # <<>> /\ Len(Tail(d)) = m - 1 /\ \A i \in 1..(m - 1) : Tail(d)[i] = d[i + 1]
    BY <2>1, EmptySeq, HeadTailProperties
  <2>3. g \in [0..Len(Tail(t)) -> 0..Len(Tail(d))]
    BY <1>2, <1>3, <1>4, <2>1, <2>2
  <2>4. Counted(Tail(t), Tail(d), g)
    <3>1. g[0] = 0 /\ g[Len(Tail(t))] = Len(Tail(d))
      BY <1>2, <1>4, <2>1, <2>2
    <3>2. \A i, j \in 0..Len(Tail(t)) : i <= j => g[i] <= g[j]
      BY <1>1, <1>2, <1>3 DEF Counted
    <3>3. ASSUME NEW i \in 1..Len(Tail(t))
          PROVE  IF Tail(t)[i] \in Puts THEN g[i] = g[i - 1] + 1 /\ Tail(d)[g[i]] = SignalOf(Tail(t)[i])
                                        ELSE g[i] = g[i - 1]
      <4>1. Tail(t)[i] = t[i + 1] /\ g[i] = f[i + 1] - 1 /\ g[i - 1] = f[i] - 1 /\ i + 1 \in 2..n /\ f[i] >= 1
            /\ f[i] \in Nat /\ f[i + 1] \in 0..m
        BY <1>2, <1>3, <1>4, <2>1
      <4>2. IF t[i + 1] \in Puts THEN f[i + 1] = f[i] + 1 /\ d[f[i + 1]] = SignalOf(t[i + 1]) ELSE f[i + 1] = f[i]
        BY <1>1, <4>1 DEF Counted
      <4>3. CASE t[i + 1] \in Puts
        <5>1. g[i] \in 1..(m - 1) /\ g[i] + 1 = f[i + 1]
          BY <4>1, <4>2, <4>3
        <5> HIDE DEF g
        <5>2. Tail(d)[g[i]] = d[f[i + 1]]
          BY <2>2, <5>1
        <5>3. g[i] = g[i - 1] + 1
          BY <4>1, <4>2, <4>3
        <5>4. Tail(t)[i] \in Puts /\ Tail(d)[g[i]] = SignalOf(Tail(t)[i])
          BY <4>1, <4>2, <4>3, <5>2
        <5>5. QED
          BY <5>3, <5>4
      <4>4. CASE t[i + 1] \notin Puts
        BY <4>1, <4>2, <4>4
      <4>5. QED
        BY <4>3, <4>4
    <3>4. QED
      BY <3>1, <3>2, <3>3 DEF Counted
  <2>5. QED
    BY <1>5, <2>1, <2>2, <2>3, <2>4 DEF Matches
<1>6. CASE t[1] \notin Puts
  <2>1. f[1] = 0
    BY <1>1, <1>2, <1>6 DEF Counted
  <2>2. g \in [0..Len(Tail(t)) -> 0..m]
    BY <1>2, <1>3, <1>4, <2>1
  <2>3. Counted(Tail(t), d, g)
    <3>1. g[0] = 0 /\ g[Len(Tail(t))] = m
      BY <1>2, <1>4, <2>1
    <3>2. \A i, j \in 0..Len(Tail(t)) : i <= j => g[i] <= g[j]
      BY <1>1, <1>2, <1>3 DEF Counted
    <3>3. ASSUME NEW i \in 1..Len(Tail(t))
          PROVE  IF Tail(t)[i] \in Puts THEN g[i] = g[i - 1] + 1 /\ d[g[i]] = SignalOf(Tail(t)[i])
                                        ELSE g[i] = g[i - 1]
      <4>1. Tail(t)[i] = t[i + 1] /\ g[i] = f[i + 1] /\ g[i - 1] = f[i] /\ i + 1 \in 2..n
        BY <1>2, <1>3, <2>1
      <4>2. IF t[i + 1] \in Puts THEN f[i + 1] = f[i] + 1 /\ d[f[i + 1]] = SignalOf(t[i + 1]) ELSE f[i + 1] = f[i]
        BY <1>1, <4>1 DEF Counted
      <4> HIDE DEF g
      <4>3. QED
        BY <4>1, <4>2
    <3>4. QED
      BY <3>1, <3>2, <3>3 DEF Counted
  <2>4. QED
    BY <1>6, <2>2, <2>3 DEF Matches
<1>7. QED
  BY <1>5, <1>6

LEMMA PartsJoin ==
  ASSUME NEW a, NEW b, NEW c, NEW d, NEW x, NEW y, NEW z, NEW w,
         Part(a, b, x, y), Part(c, d, z, w), <<y, z>> \in Follows
  PROVE  Part(a \o c, b \o d, x, w)
<1>1. a \in Seq(StepNames) /\ c \in Seq(StepNames) /\ b \in Seq(Signals) /\ d \in Seq(Signals) /\ a # <<>> /\ c # <<>>
  BY DEF Part
<1>2. PICK la \in Nat \ {0}, lb \in Nat, lc \in Nat \ {0}, ld \in Nat :
        la = Len(a) /\ lb = Len(b) /\ lc = Len(c) /\ ld = Len(d)
  <2>1. Len(a) \in Nat \ {0} /\ Len(b) \in Nat /\ Len(c) \in Nat \ {0} /\ Len(d) \in Nat
    BY <1>1, EmptySeq, LenProperties
  <2>2. QED
    BY <2>1
<1>3. PICK t : /\ t = a \o c /\ t \in Seq(StepNames) /\ Len(t) = la + lc
               /\ \A i \in 1..(la + lc) : t[i] = IF i <= la THEN a[i] ELSE c[i - la]
  <2>1. /\ a \o c \in Seq(StepNames) /\ Len(a \o c) = la + lc
        /\ \A i \in 1..(la + lc) : (a \o c)[i] = IF i <= la THEN a[i] ELSE c[i - la]
    BY <1>1, <1>2, ConcatProperties
  <2>2. QED
    BY <2>1
<1>4. PICK e : /\ e = b \o d /\ e \in Seq(Signals) /\ Len(e) = lb + ld
               /\ \A i \in 1..(lb + ld) : e[i] = IF i <= lb THEN b[i] ELSE d[i - lb]
  <2>1. /\ b \o d \in Seq(Signals) /\ Len(b \o d) = lb + ld
        /\ \A i \in 1..(lb + ld) : (b \o d)[i] = IF i <= lb THEN b[i] ELSE d[i - lb]
    BY <1>1, <1>2, ConcatProperties
  <2>2. QED
    BY <2>1
<1>5. t # <<>> /\ t[1] = x /\ t[Len(t)] = w
  <2>1. a[1] = x /\ c[lc] = w
    BY <1>2 DEF Part
  <2>2. 1 \in 1..(la + lc) /\ la + lc \in 1..(la + lc) /\ 1 <= la /\ ~(la + lc <= la) /\ la + lc - la = lc
    BY <1>2
  <2>3. QED
    BY <1>2, <1>3, <2>1, <2>2
<1>6. Chained(t)
  <2> SUFFICES ASSUME NEW i \in 1..(la + lc - 1) PROVE <<t[i], t[i + 1]>> \in Follows
    BY <1>3 DEF Chained
  <2>1. CASE i < la
    <3>1. t[i] = a[i] /\ t[i + 1] = a[i + 1] /\ i \in 1..(la - 1)
      BY <1>2, <1>3, <2>1
    <3>2. QED
      BY <1>2, <3>1 DEF Part, Chained
  <2>2. CASE i = la
    <3>1. t[i] = a[la] /\ t[i + 1] = c[1]
      BY <1>2, <1>3, <2>2
    <3>2. QED
      BY <1>2, <3>1 DEF Part
  <2>3. CASE i > la
    <3>1. t[i] = c[i - la] /\ t[i + 1] = c[i - la + 1] /\ i - la \in 1..(lc - 1)
      BY <1>2, <1>3, <2>3
    <3> DEFINE k == i - la
    <3>2. t[i] = c[k] /\ t[i + 1] = c[k + 1] /\ k \in 1..(lc - 1)
      BY <3>1
    <3> HIDE DEF k
    <3>3. QED
      BY <1>2, <3>2 DEF Part, Chained
  <2>4. QED
    BY <1>2, <2>1, <2>2, <2>3
<1>7. Matches(t, e)
  <2>1. PICK f \in [0..la -> 0..lb] : Counted(a, b, f)
    BY <1>2 DEF Part, Matches
  <2>2. PICK g \in [0..lc -> 0..ld] : Counted(c, d, g)
    BY <1>2 DEF Part, Matches
  <2> DEFINE h == [i \in 0..(la + lc) |-> IF i <= la THEN f[i] ELSE lb + g[i - la]]
  <2>3. f[0] = 0 /\ f[la] = lb /\ g[0] = 0 /\ g[lc] = ld
    BY <1>2, <2>1, <2>2 DEF Counted
  <2>4. (\A i \in 0..la : f[i] \in 0..lb) /\ \A i \in 0..lc : g[i] \in 0..ld
    OBVIOUS
  <2>5. h \in [0..(la + lc) -> 0..(lb + ld)]
    <3>1. ASSUME NEW i \in 0..(la + lc), i <= la PROVE f[i] \in 0..(lb + ld)
      BY <1>2, <2>4, <3>1
    <3>2. ASSUME NEW i \in 0..(la + lc), ~(i <= la) PROVE lb + g[i - la] \in 0..(lb + ld)
      <4>1. i - la \in 0..lc
        BY <1>2, <3>2
      <4>2. PICK m \in 0..ld : m = g[i - la]
        BY <2>4, <4>1
      <4>3. lb + m \in 0..(lb + ld)
        BY <1>2
      <4>4. QED
        BY <4>2, <4>3
    <3>3. \A i \in 0..(la + lc) : (IF i <= la THEN f[i] ELSE lb + g[i - la]) \in 0..(lb + ld)
      BY <3>1, <3>2
    <3>4. QED
      BY <3>3, Zenon
  <2>7. (\A i \in 0..la : h[i] = f[i]) /\ \A i \in 0..lc : h[la + i] = lb + g[i]
    <3>1. ASSUME NEW i \in 0..la PROVE h[i] = f[i]
      BY <1>2
    <3>2. ASSUME NEW i \in 0..lc PROVE h[la + i] = lb + g[i]
      <4>1. la + i \in 0..(la + lc) /\ (la + i) - la = i /\ (la + i <= la <=> i = 0)
        BY <1>2
      <4>2. CASE i = 0
        BY <1>2, <2>3, <4>2
      <4>3. CASE i # 0
        BY <4>1, <4>3
      <4>4. QED
        BY <4>2, <4>3
    <3>3. QED
      BY <3>1, <3>2
  <2>6. h[0] = 0 /\ h[la + lc] = lb + ld
    <3>1. 0 \in 0..la /\ lc \in 0..lc
      BY <1>2
    <3>2. QED
      BY <2>3, <2>7, <3>1
  <2>a. \A i, j \in 0..la : i <= j => f[i] <= f[j]
    BY <1>2, <2>1 DEF Counted
  <2>b. \A i, j \in 0..lc : i <= j => g[i] <= g[j]
    BY <1>2, <2>2 DEF Counted
  <2>8. ASSUME NEW i \in 0..(la + lc), NEW j \in 0..(la + lc), i <= j PROVE h[i] <= h[j]
    <3>1. CASE j <= la
      <4>1. i \in 0..la /\ j \in 0..la
        BY <2>8, <1>2, <3>1
      <4> HIDE DEF h
      <4>2. QED
        BY <2>8, <2>a, <2>7, <4>1
    <3>2. CASE i > la
      <4> DEFINE p == i - la  q == j - la
      <4>1. p \in 0..lc /\ q \in 0..lc /\ p <= q /\ i = la + p /\ j = la + q
        BY <2>8, <1>2, <3>2
      <4> HIDE DEF h, p, q
      <4>2. h[i] = lb + g[p] /\ h[j] = lb + g[q] /\ g[p] <= g[q] /\ g[p] \in 0..ld /\ g[q] \in 0..ld
        BY <2>7, <2>b, <2>4, <4>1
      <4>3. QED
        BY <2>8, <1>2, <4>2
    <3>3. CASE i <= la /\ j > la
      <4>1. h[i] = f[i] /\ f[i] \in 0..lb /\ h[j] = lb + g[j - la] /\ g[j - la] \in 0..ld
        BY <2>8, <1>2, <2>4, <3>3
      <4>2. QED
        BY <2>8, <1>2, <4>1
    <3>4. QED
      BY <2>8, <1>2, <3>1, <3>2, <3>3
  <2>9. ASSUME NEW i \in 1..(la + lc)
        PROVE  IF t[i] \in Puts THEN h[i] = h[i - 1] + 1 /\ e[h[i]] = SignalOf(t[i]) ELSE h[i] = h[i - 1]
    <3>1. CASE i <= la
      <4>1. t[i] = a[i] /\ h[i] = f[i] /\ h[i - 1] = f[i - 1] /\ f[i] \in 0..lb /\ f[i - 1] \in 0..lb /\ i \in 1..la
        BY <1>2, <1>3, <2>4, <3>1
      <4>2. IF a[i] \in Puts THEN f[i] = f[i - 1] + 1 /\ b[f[i]] = SignalOf(a[i]) ELSE f[i] = f[i - 1]
        BY <1>2, <2>1, <4>1 DEF Counted
      <4> HIDE DEF h
      <4>3. f[i] \in 1..lb => e[f[i]] = b[f[i]]
        BY <1>2, <1>4
      <4>4. QED
        BY <1>2, <4>1, <4>2, <4>3
    <3>2. CASE i > la
      <4> DEFINE k == i - la
      <4>1. k \in 1..lc /\ t[i] = c[k] /\ h[i] = lb + g[k] /\ h[i - 1] = lb + g[k - 1]
        <5>0. t[i] = c[i - la]
          BY <1>2, <1>3, <3>2
        <5>1. k \in 1..lc /\ t[i] = c[k] /\ i = la + k /\ i - 1 = la + (k - 1) /\ k - 1 \in 0..lc /\ k \in 0..lc
          BY <1>2, <3>2, <5>0
        <5> HIDE DEF h, k
        <5>2. h[la + k] = lb + g[k] /\ h[la + (k - 1)] = lb + g[k - 1]
          BY <2>7, <5>1
        <5>3. QED
          BY <5>1, <5>2
      <4>2. g[k] \in 0..ld /\ g[k - 1] \in 0..ld
        BY <2>4, <4>1, <1>2
      <4>3. IF c[k] \in Puts THEN g[k] = g[k - 1] + 1 /\ d[g[k]] = SignalOf(c[k]) ELSE g[k] = g[k - 1]
        BY <1>2, <2>2, <4>1 DEF Counted
      <4> HIDE DEF h, k
      <4> DEFINE m == g[k]
      <4>a. m \in 0..ld
        BY <4>2
      <4> HIDE DEF m
      <4>4. m \in 1..ld => e[lb + m] = d[m]
        <5>1. m \in 1..ld => lb + m \in 1..(lb + ld) /\ ~(lb + m <= lb) /\ (lb + m) - lb = m
          BY <1>2, <4>a
        <5> DEFINE j == lb + m
        <5>2. m \in 1..ld => j \in 1..(lb + ld) /\ ~(j <= lb) /\ j - lb = m
          BY <5>1
        <5>3. e[lb + m] = e[j]
          OBVIOUS
        <5> HIDE DEF j
        <5>4. m \in 1..ld => e[j] = d[j - lb]
          BY <1>4, <5>2
        <5>5. QED
          BY <5>2, <5>3, <5>4
      <4>5. CASE c[k] \in Puts
        <5>a. m = g[k - 1] + 1 /\ d[m] = SignalOf(c[k])
          BY <4>3, <4>5 DEF m
        <5>b. m \in 1..ld
          BY <1>2, <4>2, <4>a, <5>a
        <5>1. m = g[k - 1] + 1 /\ m \in 1..ld /\ d[m] = SignalOf(c[k])
          BY <5>a, <5>b
        <5>2. h[i] = lb + m /\ h[i] = h[i - 1] + 1
          BY <1>2, <4>1, <4>2, <5>1 DEF m
        <5>3. QED
          BY <4>1, <4>4, <4>5, <5>1, <5>2
      <4>6. CASE c[k] \notin Puts
        BY <1>2, <4>1, <4>2, <4>3, <4>6
      <4>7. QED
        BY <4>5, <4>6
    <3>3. QED
      BY <1>2, <3>1, <3>2
  <2> HIDE DEF h
  <2>10. Counted(t, e, h)
    BY <1>3, <1>4, <2>6, <2>8, <2>9 DEF Counted
  <2>11. QED
    BY <1>3, <1>4, <2>5, <2>10 DEF Matches
<1>8. QED
  BY <1>3, <1>4, <1>5, <1>6, <1>7 DEF Part

\* The calls of a Part, each with the step it begins and ends with.
LEMMA SmallParts ==
  /\ Part(Start, <<"S">>, "SEN", "started")
  /\ Part(Restart, <<"Sr">>, "RSEN", "restarted")
  /\ Part(Stop, <<"P">>, "PEN", "stopped")
  /\ Part(<<"pend">>, <<>>, "pend", "pend")
  /\ Part(WriteByte, <<"byte">>, "ready", "accepted")
  /\ Part(ReadByte(TRUE), <<"in", "nack">>, "RCEN", "answered")
<1>1. Part(Start, <<"S">>, "SEN", "started")
  <2> DEFINE f == [i \in 0..2 |-> IF i = 0 THEN 0 ELSE 1]
  <2>1. f \in [0..2 -> 0..1] /\ Counted(Start, <<"S">>, f)
    BY DEF Counted, Puts, SignalOf, Start
  <2>2. Len(Start) = 2 /\ Len(<<"S">>) = 1 /\ Start # <<>>
    BY DEF Start
  <2>3. Start \in Seq(StepNames) /\ <<"S">> \in Seq(Signals)
    BY DEF StepNames, Puts, Waits, Signals, Start
  <2>4. Chained(Start)
    BY DEF Chained, Follows, Start
  <2>5. Matches(Start, <<"S">>)
    BY <2>1, <2>2 DEF Matches
  <2>6. QED
    BY <2>2, <2>3, <2>4, <2>5 DEF Part, Start
<1>2. Part(Restart, <<"Sr">>, "RSEN", "restarted")
  <2> DEFINE f == [i \in 0..2 |-> IF i = 0 THEN 0 ELSE 1]
  <2>1. f \in [0..2 -> 0..1] /\ Counted(Restart, <<"Sr">>, f)
    BY DEF Counted, Puts, SignalOf, Restart
  <2>2. Len(Restart) = 2 /\ Len(<<"Sr">>) = 1 /\ Restart # <<>>
    BY DEF Restart
  <2>3. Restart \in Seq(StepNames) /\ <<"Sr">> \in Seq(Signals)
    BY DEF StepNames, Puts, Waits, Signals, Restart
  <2>4. Chained(Restart)
    BY DEF Chained, Follows, Restart
  <2>5. Matches(Restart, <<"Sr">>)
    BY <2>1, <2>2 DEF Matches
  <2>6. QED
    BY <2>2, <2>3, <2>4, <2>5 DEF Part, Restart
<1>3. Part(Stop, <<"P">>, "PEN", "stopped")
  <2> DEFINE f == [i \in 0..2 |-> IF i = 0 THEN 0 ELSE 1]
  <2>1. f \in [0..2 -> 0..1] /\ Counted(Stop, <<"P">>, f)
    BY DEF Counted, Puts, SignalOf, Stop
  <2>2. Len(Stop) = 2 /\ Len(<<"P">>) = 1 /\ Stop # <<>>
    BY DEF Stop
  <2>3. Stop \in Seq(StepNames) /\ <<"P">> \in Seq(Signals)
    BY DEF StepNames, Puts, Waits, Signals, Stop
  <2>4. Chained(Stop)
    BY DEF Chained, Follows, Stop
  <2>5. Matches(Stop, <<"P">>)
    BY <2>1, <2>2 DEF Matches
  <2>6. QED
    BY <2>2, <2>3, <2>4, <2>5 DEF Part, Stop
<1>4. Part(<<"pend">>, <<>>, "pend", "pend")
  <2> DEFINE f == [i \in 0..1 |-> 0]
  <2>1. f \in [0..1 -> 0..0] /\ Counted(<<"pend">>, <<>>, f)
    BY DEF Counted, Puts, SignalOf
  <2>2. Len(<<"pend">>) = 1 /\ Len(<<>>) = 0 /\ <<"pend">> # <<>>
    BY DEF Puts
  <2>3. <<"pend">> \in Seq(StepNames) /\ <<>> \in Seq(Signals)
    BY DEF StepNames, Puts, Waits, Signals
  <2>4. Chained(<<"pend">>)
    BY DEF Chained, Follows
  <2>5. Matches(<<"pend">>, <<>>)
    BY <2>1, <2>2 DEF Matches
  <2>6. QED
    BY <2>2, <2>3, <2>4, <2>5 DEF Part
<1>5. Part(WriteByte, <<"byte">>, "ready", "accepted")
  <2> DEFINE f == [i \in 0..5 |-> IF i < 3 THEN 0 ELSE 1]
  <2>1. f \in [0..5 -> 0..1] /\ Counted(WriteByte, <<"byte">>, f)
    BY DEF Counted, Puts, SignalOf, WriteByte
  <2>2. Len(WriteByte) = 5 /\ Len(<<"byte">>) = 1 /\ WriteByte # <<>>
    BY DEF WriteByte
  <2>3. WriteByte \in Seq(StepNames) /\ <<"byte">> \in Seq(Signals)
    BY DEF StepNames, Puts, Waits, Signals, WriteByte
  <2>4. Chained(WriteByte)
    BY DEF Chained, Follows, WriteByte
  <2>5. Matches(WriteByte, <<"byte">>)
    BY <2>1, <2>2 DEF Matches
  <2>6. QED
    BY <2>2, <2>3, <2>4, <2>5 DEF Part, WriteByte
<1>6. Part(ReadByte(TRUE), <<"in", "nack">>, "RCEN", "answered")
  <2> DEFINE f == [i \in 0..4 |-> IF i = 0 THEN 0 ELSE IF i < 3 THEN 1 ELSE 2]
  <2>1. f \in [0..4 -> 0..2] /\ Counted(ReadByte(TRUE), <<"in", "nack">>, f)
    BY DEF Counted, Puts, SignalOf, ReadByte
  <2>2. Len(ReadByte(TRUE)) = 4 /\ Len(<<"in", "nack">>) = 2 /\ ReadByte(TRUE) # <<>>
    BY DEF ReadByte
  <2>3. ReadByte(TRUE) \in Seq(StepNames) /\ <<"in", "nack">> \in Seq(Signals)
    BY DEF StepNames, Puts, Waits, Signals, ReadByte
  <2>4. Chained(ReadByte(TRUE))
    BY DEF Chained, Follows, ReadByte
  <2>5. Matches(ReadByte(TRUE), <<"in", "nack">>)
    BY <2>1, <2>2 DEF Matches
  <2>6. QED
    BY <2>2, <2>3, <2>4, <2>5 DEF Part, ReadByte
<1>7. QED
  BY <1>1, <1>2, <1>3, <1>4, <1>5, <1>6

\* A byte that is written is five steps and one signal.
LEMMA WrittenBytes ==
  ASSUME NEW m \in Nat \ {0}
  PROVE  Part(Repeat(m, WriteByte), Repeat(m, <<"byte">>), "ready", "accepted")
<1> DEFINE t == Repeat(m, WriteByte)
           d == Repeat(m, <<"byte">>)
           f == [i \in 0..(m * 5) |-> (i + 2) \div 5]
<1>1. /\ t = [i \in 1..(m * 5) |-> WriteByte[((i - 1) % 5) + 1]]
      /\ d = [i \in 1..m |-> "byte"]
  BY DEF Repeat, WriteByte
<1>2. \A i \in 1..(m * 5) : /\ (i - 1) % 5 = 0 => t[i] = "ready"
                            /\ (i - 1) % 5 = 1 => t[i] = "host"
                            /\ (i - 1) % 5 = 2 => t[i] = "TRN"
                            /\ (i - 1) % 5 = 3 => t[i] = "sent"
                            /\ (i - 1) % 5 = 4 => t[i] = "accepted"
  BY <1>1 DEF WriteByte
<1>a. \A i \in 1..m : d[i] = "byte"
  BY <1>1
<1>b. \A i \in 1..(m * 5) : (i - 1) % 5 \in {0, 1, 2, 3, 4}
  OBVIOUS
<1>3. t \in Seq(StepNames) /\ d \in Seq(Signals) /\ Len(t) = m * 5 /\ Len(d) = m
  <2>0. \A i \in 1..(m * 5) : t[i] \in StepNames
    BY <1>2, <1>b DEF StepNames, Puts, Waits
  <2>1. t \in [1..(m * 5) -> StepNames] /\ d \in [1..m -> Signals] /\ m * 5 \in Nat
    BY <1>1, <1>a, <2>0 DEF Signals
  <2> HIDE DEF t, d
  <2>2. QED
    BY <2>1, SeqDef
<1> HIDE DEF t, d
<1>4. t # <<>> /\ t[1] = "ready" /\ t[Len(t)] = "accepted"
  <2>1. 1 \in 1..(m * 5) /\ m * 5 \in 1..(m * 5) /\ (1 - 1) % 5 = 0 /\ (m * 5 - 1) % 5 = 4
    OBVIOUS
  <2>2. QED
    BY <1>2, <1>3, <2>1, EmptySeq
<1>5. Chained(t)
  <2> SUFFICES ASSUME NEW i \in 1..(m * 5 - 1) PROVE <<t[i], t[i + 1]>> \in Follows
    BY <1>3 DEF Chained
  <2>1. i \in 1..(m * 5) /\ i + 1 \in 1..(m * 5) /\ (i - 1) % 5 \in {0, 1, 2, 3, 4}
        /\ ((i + 1) - 1) % 5 = IF (i - 1) % 5 = 4 THEN 0 ELSE ((i - 1) % 5) + 1
    OBVIOUS
  <2>2. QED
    BY <1>2, <2>1 DEF Follows
<1>6. Matches(t, d)
  <2>1. f \in [0..(m * 5) -> 0..m] /\ f[0] = 0 /\ f[m * 5] = m
    OBVIOUS
  <2>2. \A i, j \in 0..(m * 5) : i <= j => f[i] <= f[j]
    OBVIOUS
  <2>3. ASSUME NEW i \in 1..(m * 5)
        PROVE  IF t[i] \in Puts THEN f[i] = f[i - 1] + 1 /\ d[f[i]] = SignalOf(t[i]) ELSE f[i] = f[i - 1]
    <3>1. f[i] = (i + 2) \div 5 /\ f[i - 1] = (i + 1) \div 5 /\ f[i] \in 0..m /\ f[i - 1] \in 0..m
      OBVIOUS
    <3> HIDE DEF f
    <3>2. CASE (i - 1) % 5 = 2
      <4>1. f[i] = f[i - 1] + 1
        BY <3>1, <3>2
      <4>2. f[i] \in 1..m
        BY <3>1, <4>1
      <4> HIDE DEF f
      <4>3. t[i] = "TRN" /\ d[f[i]] = "byte"
        BY <1>2, <1>a, <3>2, <4>2
      <4>4. QED
        BY <4>1, <4>3 DEF Puts, SignalOf
    <3>3. CASE (i - 1) % 5 # 2
      <4>1. f[i] = f[i - 1]
        BY <3>1, <3>3
      <4>2. t[i] \notin Puts
        BY <1>2, <1>b, <3>3 DEF Puts
      <4>3. QED
        BY <4>1, <4>2
    <3>4. QED
      BY <3>2, <3>3
  <2> HIDE DEF f
  <2>4. Counted(t, d, f)
    BY <1>3, <2>1, <2>2, <2>3 DEF Counted
  <2>5. QED
    BY <1>3, <2>1, <2>4 DEF Matches
<1>7. QED
  BY <1>3, <1>4, <1>5, <1>6 DEF Part, t, d

\* A byte that is read and acknowledged is four steps and two signals.
LEMMA ReadBytesAcked ==
  ASSUME NEW m \in Nat \ {0}
  PROVE  Part(Repeat(m, ReadByte(FALSE)), Repeat(m, <<"in", "ack">>), "RCEN", "answered")
<1> DEFINE t == Repeat(m, ReadByte(FALSE))
           d == Repeat(m, <<"in", "ack">>)
           f == [i \in 0..(m * 4) |-> (i + 1) \div 2]
<1>1. /\ t = [i \in 1..(m * 4) |-> ReadByte(FALSE)[((i - 1) % 4) + 1]]
      /\ d = [i \in 1..(m * 2) |-> <<"in", "ack">>[((i - 1) % 2) + 1]]
  BY DEF Repeat, ReadByte
<1>2. \A i \in 1..(m * 4) : /\ (i - 1) % 4 = 0 => t[i] = "RCEN"
                            /\ (i - 1) % 4 = 1 => t[i] = "filled"
                            /\ (i - 1) % 4 = 2 => t[i] = "ACK"
                            /\ (i - 1) % 4 = 3 => t[i] = "answered"
  BY <1>1 DEF ReadByte
<1>a. \A i \in 1..(m * 2) : d[i] = IF (i - 1) % 2 = 0 THEN "in" ELSE "ack"
  <2>1. ASSUME NEW i \in 1..(m * 2) PROVE d[i] = IF (i - 1) % 2 = 0 THEN "in" ELSE "ack"
    <3>1. (i - 1) % 2 = 0 \/ (i - 1) % 2 = 1
      OBVIOUS
    <3>2. QED
      BY <1>1, <3>1
  <2>2. QED
    BY <2>1
<1>b. \A i \in 1..(m * 4) : (i - 1) % 4 \in {0, 1, 2, 3}
  OBVIOUS
<1>3. t \in Seq(StepNames) /\ d \in Seq(Signals) /\ Len(t) = m * 4 /\ Len(d) = m * 2
  <2>0. (\A i \in 1..(m * 4) : t[i] \in StepNames) /\ \A i \in 1..(m * 2) : d[i] \in Signals
    BY <1>2, <1>a, <1>b DEF StepNames, Puts, Waits, Signals
  <2>1. t \in [1..(m * 4) -> StepNames] /\ d \in [1..(m * 2) -> Signals] /\ m * 4 \in Nat /\ m * 2 \in Nat
    <3>1. t = [i \in 1..(m * 4) |-> t[i]] /\ d = [i \in 1..(m * 2) |-> d[i]]
      BY <1>1
    <3> HIDE DEF t, d
    <3>2. QED
      BY <2>0, <3>1
  <2> HIDE DEF t, d
  <2>2. QED
    BY <2>1, SeqDef
<1> HIDE DEF t, d
<1>4. t # <<>> /\ t[1] = "RCEN" /\ t[Len(t)] = "answered"
  <2>1. 1 \in 1..(m * 4) /\ m * 4 \in 1..(m * 4) /\ (1 - 1) % 4 = 0 /\ (m * 4 - 1) % 4 = 3
    OBVIOUS
  <2>2. QED
    BY <1>2, <1>3, <2>1, EmptySeq
<1>5. Chained(t)
  <2> SUFFICES ASSUME NEW i \in 1..(m * 4 - 1) PROVE <<t[i], t[i + 1]>> \in Follows
    BY <1>3 DEF Chained
  <2>1. i \in 1..(m * 4) /\ i + 1 \in 1..(m * 4) /\ (i - 1) % 4 \in {0, 1, 2, 3}
        /\ ((i + 1) - 1) % 4 = IF (i - 1) % 4 = 3 THEN 0 ELSE ((i - 1) % 4) + 1
    OBVIOUS
  <2>2. QED
    BY <1>2, <2>1 DEF Follows
<1>6. Matches(t, d)
  <2>1. f \in [0..(m * 4) -> 0..(m * 2)] /\ f[0] = 0 /\ f[m * 4] = m * 2
    OBVIOUS
  <2>2. \A i, j \in 0..(m * 4) : i <= j => f[i] <= f[j]
    OBVIOUS
  <2>3. ASSUME NEW i \in 1..(m * 4)
        PROVE  IF t[i] \in Puts THEN f[i] = f[i - 1] + 1 /\ d[f[i]] = SignalOf(t[i]) ELSE f[i] = f[i - 1]
    <3>1. f[i] = (i + 1) \div 2 /\ f[i - 1] = i \div 2 /\ f[i] \in 0..(m * 2) /\ f[i - 1] \in 0..(m * 2)
      OBVIOUS
    <3> HIDE DEF f
    <3>2. CASE (i - 1) % 4 \in {0, 2}
      <4>1. f[i] = f[i - 1] + 1 /\ (f[i] - 1) % 2 = (IF (i - 1) % 4 = 0 THEN 0 ELSE 1)
        BY <3>1, <3>2
      <4>2. f[i] \in 1..(m * 2)
        BY <3>1, <4>1
      <4> HIDE DEF f
      <4>3. d[f[i]] = IF (i - 1) % 4 = 0 THEN "in" ELSE "ack"
        BY <1>a, <4>1, <4>2
      <4>4. t[i] = IF (i - 1) % 4 = 0 THEN "RCEN" ELSE "ACK"
        BY <1>2, <3>2
      <4>5. QED
        BY <4>1, <4>3, <4>4 DEF Puts, SignalOf
    <3>3. CASE (i - 1) % 4 \notin {0, 2}
      <4>1. f[i] = f[i - 1]
        BY <3>1, <3>3
      <4>2. t[i] \notin Puts
        BY <1>2, <1>b, <3>3 DEF Puts
      <4>3. QED
        BY <4>1, <4>2
    <3>4. QED
      BY <3>2, <3>3
  <2> HIDE DEF f
  <2>4. Counted(t, d, f)
    BY <1>3, <2>1, <2>2, <2>3 DEF Counted
  <2>5. QED
    BY <1>3, <2>1, <2>4 DEF Matches
<1>7. QED
  BY <1>3, <1>4, <1>5, <1>6 DEF Part, t, d

\* No step of t sets the pending state.
NoPend(t) == t \in Seq(Puts \cup Waits)

\* The part that reads n bytes, and what it puts on the bus.
InBytes(n) == <<"byte">> \o Repeat(n - 1, <<"in", "ack">>) \o <<"in", "nack", "P">>
OutBytes(n) == <<"S">> \o Repeat(n + 1, <<"byte">>)

LEMMA ReadBytesPart ==
  ASSUME NEW n \in Nat \ {0}
  PROVE  Part(ReadBytes(n), InBytes(n), "ready", "stopped") /\ NoPend(ReadBytes(n))
<1> DEFINE acks == Repeat(n - 1, ReadByte(FALSE))
           inAcks == Repeat(n - 1, <<"in", "ack">>)
<1>1. Part(WriteByte \o acks, <<"byte">> \o inAcks, "ready", "accepted")
      \/ Part(WriteByte \o acks, <<"byte">> \o inAcks, "ready", "answered")
  <2>1. CASE n = 1
    <3>1. acks = <<>> /\ inAcks = <<>>
      BY <2>1 DEF Repeat, ReadByte
    <3>2. WriteByte \o <<>> = WriteByte /\ <<"byte">> \o <<>> = <<"byte">>
      BY SmallParts, ConcatEmptySeq DEF Part
    <3>3. QED
      BY <3>1, <3>2, SmallParts
  <2>2. CASE n # 1
    <3>1. n - 1 \in Nat \ {0}
      BY <2>2
    <3>2. Part(acks, inAcks, "RCEN", "answered")
      BY <3>1, ReadBytesAcked
    <3>3. <<"accepted", "RCEN">> \in Follows
      BY DEF Follows
    <3> HIDE DEF acks, inAcks
    <3>4. QED
      BY <3>2, <3>3, SmallParts, PartsJoin
  <2>3. QED
    BY <2>1, <2>2
<1>2. NoPend(WriteByte \o acks)
  <2>1. acks \in Seq(Puts \cup Waits)
    <3>1. PICK m \in Nat : m = n - 1
      OBVIOUS
    <3>2. PICK t : t = acks /\ t = [i \in 1..(m * 4) |-> ReadByte(FALSE)[((i - 1) % 4) + 1]]
      BY <3>1 DEF Repeat, ReadByte
    <3>3. ASSUME NEW i \in 1..(m * 4) PROVE t[i] \in Puts \cup Waits
      <4>1. (i - 1) % 4 = 0 \/ (i - 1) % 4 = 1 \/ (i - 1) % 4 = 2 \/ (i - 1) % 4 = 3
        OBVIOUS
      <4>2. QED
        BY <3>2, <4>1 DEF ReadByte, Puts, Waits
    <3>4. PICK p \in Nat : p = m * 4
      OBVIOUS
    <3>5. t \in [1..p -> Puts \cup Waits]
      BY <3>2, <3>3, <3>4
    <3>6. t \in Seq(Puts \cup Waits)
      BY <3>5, SeqDef
    <3>7. QED
      BY <3>2, <3>6
  <2>2. WriteByte \in Seq(Puts \cup Waits)
    BY DEF WriteByte, Puts, Waits
  <2> HIDE DEF acks
  <2>3. QED
    BY <2>1, <2>2, ConcatProperties DEF NoPend
<1> DEFINE t == WriteByte \o acks
           d == <<"byte">> \o inAcks
<1> HIDE DEF t, d
<1>3. Part(t \o ReadByte(TRUE), d \o <<"in", "nack">>, "ready", "answered")
  <2>1. <<"accepted", "RCEN">> \in Follows /\ <<"answered", "RCEN">> \in Follows
    BY DEF Follows
  <2>2. Part(t, d, "ready", "accepted") \/ Part(t, d, "ready", "answered")
    BY <1>1 DEF t, d
  <2>3. QED
    BY <2>1, <2>2, SmallParts, PartsJoin
<1>4. Part((t \o ReadByte(TRUE)) \o Stop, (d \o <<"in", "nack">>) \o <<"P">>, "ready", "stopped")
  <2>1. <<"answered", "PEN">> \in Follows
    BY DEF Follows
  <2>2. QED
    BY <1>3, <2>1, SmallParts, PartsJoin
<1>5. (d \o <<"in", "nack">>) \o <<"P">> = d \o <<"in", "nack", "P">>
  <2>1. d \in Seq(Signals) /\ <<"in", "nack">> \in Seq(Signals) /\ <<"P">> \in Seq(Signals)
    BY <1>1, SmallParts DEF Part, t, d
  <2>2. <<"in", "nack">> \o <<"P">> = <<"in", "nack", "P">>
    <3>1. Len(<<"in", "nack">>) = 2 /\ Len(<<"P">>) = 1 /\ Len(<<"in", "nack", "P">>) = 3
          /\ <<"in", "nack", "P">> \in Seq(Signals)
      BY DEF Signals
    <3> DEFINE s == <<"in", "nack">> \o <<"P">>
    <3>2. s \in Seq(Signals) /\ Len(s) = 3
          /\ \A i \in 1..3 : s[i] = IF i <= 2 THEN <<"in", "nack">>[i] ELSE <<"P">>[i - 2]
      BY <2>1, <3>1, ConcatProperties
    <3> HIDE DEF s
    <3>3. \A i \in 1..3 : s[i] = <<"in", "nack", "P">>[i]
      <4>1. s[1] = "in" /\ s[2] = "nack" /\ s[3] = "P"
        BY <3>2
      <4>2. QED
        BY <4>1
    <3>4. s = <<"in", "nack", "P">>
      BY <3>1, <3>2, <3>3, SeqEqual
    <3>5. QED
      BY <3>4 DEF s
  <2>3. QED
    BY <2>1, <2>2, ConcatAssociative
<1>6. NoPend((t \o ReadByte(TRUE)) \o Stop)
  <2>1. ReadByte(TRUE) \in Seq(Puts \cup Waits) /\ Stop \in Seq(Puts \cup Waits)
    BY DEF ReadByte, Stop, Puts, Waits
  <2>2. t \in Seq(Puts \cup Waits)
    BY <1>2 DEF NoPend, t
  <2>3. t \o ReadByte(TRUE) \in Seq(Puts \cup Waits)
    BY <2>1, <2>2, ConcatProperties
  <2>4. QED
    BY <2>1, <2>3, ConcatProperties DEF NoPend
<1>7. QED
  BY <1>4, <1>5, <1>6 DEF ReadBytes, InBytes, t, d

LEMMA WriteNoStopPart ==
  ASSUME NEW n \in Nat
  PROVE  Part(WriteNoStop(n), OutBytes(n), "SEN", "pend")
<1> DEFINE t == Repeat(n + 1, WriteByte)
           d == Repeat(n + 1, <<"byte">>)
<1>1. Part(t, d, "ready", "accepted")
  BY WrittenBytes
<1> HIDE DEF t, d
<1>2. Part(Start \o t, <<"S">> \o d, "SEN", "accepted")
  <2>1. <<"started", "ready">> \in Follows
    BY DEF Follows
  <2>2. QED
    BY <1>1, <2>1, SmallParts, PartsJoin
<1>3. Part((Start \o t) \o <<"pend">>, (<<"S">> \o d) \o <<>>, "SEN", "pend")
  <2>1. <<"accepted", "pend">> \in Follows
    BY DEF Follows
  <2>2. QED
    BY <1>2, <2>1, SmallParts, PartsJoin
<1>4. (<<"S">> \o d) \o <<>> = <<"S">> \o d
  BY <1>2, ConcatEmptySeq DEF Part
<1>5. QED
  BY <1>3, <1>4 DEF WriteNoStop, OutBytes, t, d

\* Every call is a row of steps that puts its own transaction on the bus, from a START or,
\* when a transaction is pending, from a repeated START or a STOP.
LEMMA CallsArePart ==
  ASSUME NEW op \in Independent \cup Continuing, NEW n \in Nat, NEW k \in Nat \ {0}
  PROVE  \E first \in {"SEN", "RSEN", "PEN"}, last \in {"pend", "stopped"} :
           /\ Part(Steps(op, n, k), OnWire(op, n, k), first, last)
           /\ op \in Independent => first = "SEN"
           /\ op \in Continuing => first # "SEN" /\ NoPend(Steps(op, n, k))
<1>1. /\ Part(WriteNoStop(n), OutBytes(n), "SEN", "pend")
      /\ Part(ReadBytes(k), InBytes(k), "ready", "stopped") /\ NoPend(ReadBytes(k))
  BY ReadBytesPart, WriteNoStopPart
<1>2. /\ <<"pend", "PEN">> \in Follows /\ <<"started", "ready">> \in Follows
      /\ <<"pend", "RSEN">> \in Follows /\ <<"restarted", "ready">> \in Follows
  BY DEF Follows
<1> DEFINE out == OutBytes(n)  in == InBytes(k)  w == WriteNoStop(n)  r == ReadBytes(k)
<1>o. /\ op = "write" => Steps(op, n, k) = w \o Stop /\ OnWire(op, n, k) = out \o <<"P">>
      /\ op = "read" => Steps(op, n, k) = Start \o r /\ OnWire(op, n, k) = <<"S">> \o in
      /\ op = "write_read" => Steps(op, n, k) = (w \o Restart) \o r /\ OnWire(op, n, k) = (out \o <<"Sr">>) \o in
      /\ op = "write_no_stop" => Steps(op, n, k) = w /\ OnWire(op, n, k) = out
      /\ op = "after_restart" => Steps(op, n, k) = Restart \o r /\ OnWire(op, n, k) = <<"Sr">> \o in
      /\ op = "stop" => Steps(op, n, k) = Stop /\ OnWire(op, n, k) = <<"P">>
  BY DEF Steps, OnWire, OutBytes, InBytes
<1>p. Part(w, out, "SEN", "pend") /\ Part(r, in, "ready", "stopped") /\ NoPend(r)
  BY <1>1
<1> HIDE DEF out, in, w, r
<1>c. op \in {"write", "read", "write_read", "write_no_stop", "after_restart", "stop"}
  BY DEF Independent, Continuing
<1>i. /\ op \in Independent <=> op \in {"write", "read", "write_read", "write_no_stop"}
      /\ op \in Continuing <=> op \in {"after_restart", "stop"}
  BY DEF Independent, Continuing
<1>3. CASE op = "write"
  <2>1. Part(w \o Stop, out \o <<"P">>, "SEN", "stopped")
    BY <1>p, <1>2, SmallParts, PartsJoin
  <2>2. QED
    BY <1>3, <1>o, <1>i, <2>1
<1>4. CASE op = "read"
  <2>1. Part(Start \o r, <<"S">> \o in, "SEN", "stopped")
    BY <1>p, <1>2, SmallParts, PartsJoin
  <2>2. QED
    BY <1>4, <1>o, <1>i, <2>1
<1>5. CASE op = "write_read"
  <2>1. Part(w \o Restart, out \o <<"Sr">>, "SEN", "restarted")
    BY <1>p, <1>2, SmallParts, PartsJoin
  <2>2. Part((w \o Restart) \o r, (out \o <<"Sr">>) \o in, "SEN", "stopped")
    BY <1>p, <1>2, <2>1, PartsJoin
  <2>3. QED
    BY <1>5, <1>o, <1>i, <2>2
<1>6. CASE op = "write_no_stop"
  BY <1>6, <1>o, <1>i, <1>p
<1>7. CASE op = "after_restart"
  <2>1. Part(Restart \o r, <<"Sr">> \o in, "RSEN", "stopped")
    BY <1>p, <1>2, SmallParts, PartsJoin
  <2>2. NoPend(Restart \o r)
    <3>1. Restart \in Seq(Puts \cup Waits)
      BY DEF Restart, Puts, Waits
    <3>2. QED
      BY <1>p, <3>1, ConcatProperties DEF NoPend
  <2>3. QED
    BY <1>7, <1>o, <1>i, <2>1, <2>2
<1>8. CASE op = "stop"
  <2>1. NoPend(Stop)
    BY DEF Stop, NoPend, Puts, Waits
  <2>2. QED
    BY <1>8, <1>o, <1>i, <2>1, SmallParts
<1>9. QED
  BY <1>c, <1>3, <1>4, <1>5, <1>6, <1>7, <1>8

\* The steps that are left once the first was taken.
LEMMA TailChained ==
  ASSUME NEW t, t \in Seq(StepNames), t # <<>>, Chained(t), t[Len(t)] \in {"pend", "stopped"}
  PROVE  /\ t[1] \in StepNames
         /\ Tail(t) \in Seq(StepNames) /\ Chained(Tail(t))
         /\ Len(t) = 1 => t[1] \in {"pend", "stopped"}
         /\ Len(t) # 1 => /\ Tail(t) # <<>> /\ <<t[1], Tail(t)[1]>> \in Follows
                          /\ Tail(t)[Len(Tail(t))] \in {"pend", "stopped"}
         /\ NoPend(t) => NoPend(Tail(t))
<1>1. Len(t) \in Nat \ {0} /\ Len(Tail(t)) = Len(t) - 1 /\ Tail(t) \in Seq(StepNames)
      /\ \A i \in 1..(Len(t) - 1) : Tail(t)[i] = t[i + 1]
  BY EmptySeq, HeadTailProperties
<1>2. PICK n \in Nat \ {0} : n = Len(t)
  BY <1>1
<1>3. ASSUME NEW i \in 1..(n - 2) PROVE <<Tail(t)[i], Tail(t)[i + 1]>> \in Follows
  <2>1. Tail(t)[i] = t[i + 1] /\ Tail(t)[i + 1] = t[(i + 1) + 1] /\ i + 1 \in 1..(n - 1)
    BY <1>1, <1>2
  <2>2. QED
    BY <1>2, <2>1 DEF Chained
<1>4. Chained(Tail(t))
  BY <1>1, <1>2, <1>3 DEF Chained
<1>5. ASSUME n # 1
      PROVE  Tail(t) # <<>> /\ <<t[1], Tail(t)[1]>> \in Follows /\ Tail(t)[Len(Tail(t))] \in {"pend", "stopped"}
  <2>1. 1 \in 1..(n - 1) /\ n - 1 \in 1..(n - 1) /\ (n - 1) + 1 = n /\ 1 + 1 = 2
    BY <1>5
  <2>2. Tail(t)[1] = t[1 + 1] /\ Tail(t)[n - 1] = t[n] /\ <<t[1], t[1 + 1]>> \in Follows
    BY <1>1, <1>2, <2>1 DEF Chained
  <2>3. Tail(t) # <<>>
    BY <1>1, <1>2, <1>5, EmptySeq
  <2>4. Len(Tail(t)) = n - 1
    BY <1>1, <1>2
  <2>5. QED
    BY <1>2, <2>1, <2>2, <2>3, <2>4
<1>6. NoPend(t) => NoPend(Tail(t))
  BY HeadTailProperties DEF NoPend
<1>7. t[1] \in StepNames
  BY <1>1, ElementOfSeq
<1>8. QED
  BY <1>1, <1>2, <1>4, <1>5, <1>6, <1>7

Reqs == {"SEN", "RSEN", "PEN", "RCEN", "ACKEN", "ACKDT", "TRSTAT"}
Stats == {"BCL", "IWCOL", "ERR", "STARTE", "STOPE", "NACKE", "S", "D_A", "RBF"}
Endings == {"none", "steps", "quiet", "abort", "recover", "deinit"}

MasterTyped ==
  /\ role \in Roles /\ on \in BOOLEAN /\ initialized \in BOOLEAN /\ pending \in BOOLEAN
  /\ host \in BOOLEAN /\ unclean \in BOOLEAN
  /\ limits \in [timeout : 0..(TickMod - 1), pending : 0..(TickMod - 1)]
  /\ pendingAge \in 0..(TickMod - 1) /\ waited \in 0..(TickMod - 1) /\ faults \in 0..MaxFaults
  /\ req \subseteq Reqs /\ stat \subseteq Stats
  /\ ret \in [status : Statuses, stale : BOOLEAN, clean : BOOLEAN]
  /\ call \in [todo : Seq(StepNames), ending : Endings, status : Statuses]

\* The steps that are left end with a STOP or leave the transaction pending.
Ending(t) == t # <<>> /\ Chained(t) /\ t[Len(t)] \in {"pend", "stopped"}

\* A call in progress: its steps, how it ends, and what was true when it began.
CallOK ==
  /\ Busy => /\ Ending(call.todo) /\ initialized /\ call.ending # "none"
             /\ call.ending \in {"quiet", "abort"} => call.status # "OK"
             /\ call.ending # "steps" => NoPend(call.todo) /\ Step \in {"PEN", "stopped"}
             /\ call.ending = "steps" => ~ret.stale
             /\ ret.clean => ~unclean
             /\ ~unclean /\ ~ret.clean => NoPend(call.todo)
             /\ ret.status = "none"

Faulty == "BCL" \in stat \/ "ERR" \in stat

\* A bus that no failed STOP left in disorder, between calls and before a START.
FreeBus == ~pending /\ req = {} /\ ~host /\ "S" \notin stat
AtRest == ~Busy /\ ~unclean => IF pending THEN req = {} /\ "RBF" \notin stat ELSE FreeBus
BeforeStart == Busy /\ Step = "SEN" /\ ~unclean => FreeBus

\* A STOP that was asked for is still asked for, or is done, or the bus failed.
StopOK == Busy /\ Step = "stopped" => "PEN" \in req \/ Faulty \/ (req = {} /\ ~host /\ "S" \notin stat)

\* The calls that OkMeansOnWire is about, as long as they follow their steps.
Good == Busy /\ ret.clean /\ call.ending = "steps"
\* What is due on the bus is what the steps to come put there,
Settled == due \in Seq(Signals) /\ Matches(call.todo, due)
\* or that after the signal that was asked for with r.
Due(signal) == due \in Seq(Signals) /\ due # <<>> /\ due[1] = signal /\ Matches(call.todo, Tail(due))
Asked(r, signal) == req = r /\ Due(signal)
Made == req = {} /\ Settled

Fronts == {"ready", "host", "TRN", "RSEN", "PEN", "RCEN", "ACK", "NACK", "pend"}
FrontOK == Step \in Fronts => host /\ Made /\ ("RBF" \in stat <=> Step \in {"ACK", "NACK"})
StartedOK ==
  Step = "started" =>
    IF host THEN Made /\ "RBF" \notin stat
            ELSE Asked({"SEN"}, "S") /\ "S" \notin stat /\ "STARTE" \notin stat
RestartedOK ==
  Step = "restarted" => host /\ "RBF" \notin stat /\ (Made \/ (Asked({"RSEN"}, "Sr") /\ "STARTE" \notin stat))
SentOK ==
  /\ Step = "sent" => /\ host /\ "RBF" \notin stat
                      /\ Asked({"TRSTAT"}, "byte") \/ (req = {} /\ (Settled \/ "NACKE" \in stat))
  /\ Step = "accepted" => host /\ "RBF" \notin stat /\ req = {} /\ (Settled \/ "NACKE" \in stat)
ReadingOK ==
  /\ Step = "filled" => host /\ ((Made /\ "RBF" \in stat) \/ (Asked({"RCEN"}, "in") /\ "RBF" \notin stat))
  /\ Step = "answered" => /\ host /\ "RBF" \notin stat
                          /\ Made \/ Asked({"ACKEN"}, "ack") \/ Asked({"ACKEN", "ACKDT"}, "nack")
StoppedOK == Step = "stopped" => (Asked({"PEN"}, "P") /\ host) \/ Made

\* Where a good call stands, step by step.
InStep ==
  Good => /\ Step = "SEN" => Settled
          /\ Step = "pend" => Made /\ "RBF" \notin stat
          /\ ~Faulty => FrontOK /\ StartedOK /\ RestartedOK /\ SentOK /\ ReadingOK /\ StoppedOK

OkStays == ~Busy /\ ret.status = "OK" => ~ret.stale /\ (ret.clean => due = <<>> /\ req = {})

MasterInv == MasterTyped /\ CallOK /\ AtRest /\ BeforeStart /\ StopOK /\ InStep /\ OkStays

LEMMA IdleIs == Idle \in [todo : Seq(StepNames), ending : Endings, status : Statuses]
BY EmptySeq DEF Idle, Endings, Statuses

LEMMA ReportIs == ASSUME NEW s \in Statuses
                  PROVE  /\ Report(s) \in [status : Statuses, stale : BOOLEAN, clean : BOOLEAN]
                         /\ Report(s).status = s /\ ~Report(s).stale /\ ~Report(s).clean
BY DEF Report

LEMMA MasterInitInv == MasterInitState => MasterInv
<1> SUFFICES ASSUME MasterInitState PROVE MasterInv
  OBVIOUS
<1>a. 0 \in 0..(TickMod - 1) /\ 0 \in 0..MaxFaults /\ "none" \in Statuses
  BY I2cTicks, I2cBounds DEF Statuses
<1>b. ret \in [status : Statuses, stale : BOOLEAN, clean : BOOLEAN] /\ call \in [todo : Seq(StepNames), ending : Endings, status : Statuses]
  BY <1>a, IdleIs, ReportIs DEF MasterInitState
<1>1. MasterTyped
  BY <1>a, <1>b DEF MasterInitState, MasterTyped, Roles
<1>2. ~Busy /\ ret.status = "none"
  BY DEF MasterInitState, Busy, Report
<1>3. QED
  BY <1>1, <1>2 DEF MasterInitState, MasterInv, CallOK, AtRest, FreeBus, BeforeStart, StopOK, InStep, Good, OkStays

\* A step of the tick or of the slave: nothing of the master but an age.
LEMMA NothingMoved ==
  ASSUME MasterInv, MasterTyped', UNCHANGED <<initialized, pending, call, ret, unclean>>, UNCHANGED <<req, stat, host, due>>
  PROVE  MasterInv'
BY DEF MasterInv, CallOK, AtRest, FreeBus, BeforeStart, StopOK, InStep, Good, OkStays, Busy, Faulty, Step, Settled, Asked, Due, Made,
       FrontOK, StartedOK, RestartedOK, SentOK, ReadingOK, StoppedOK

\* Calls that are refused, or do without the bus.
LEMMA RefuseStep ==
  ASSUME MasterInv, ~Busy, NEW s \in Statuses, Refuse(s)
  PROVE  MasterInv'
<1>1. MasterTyped'
  BY ReportIs DEF MasterInv, MasterTyped, Refuse, controller
<1>2. ~Busy' /\ ret'.clean = FALSE /\ ret'.stale = FALSE
  BY ReportIs DEF Refuse, Busy, Report
<1>3. QED
  BY <1>1, <1>2 DEF Refuse, controller, MasterInv, CallOK, AtRest, FreeBus, BeforeStart, StopOK, InStep, Good, OkStays

\* The controller is off, or starts from zero, between calls.
LEMMA OffStep ==
  ASSUME MasterTyped', ~Busy', req' = {}, stat' = {}, host' = FALSE, due' = <<>>,
         ret'.status = "OK" => ~ret'.stale
  PROVE  MasterInv'
BY DEF MasterInv, CallOK, AtRest, FreeBus, BeforeStart, StopOK, InStep, Good, OkStays

LEMMA TurnOffStep ==
  ASSUME MasterInv, NEW s \in Statuses, TurnOff(s)
  PROVE  MasterInv'
<1>1. /\ role' = "none" /\ on' = FALSE /\ initialized' = FALSE /\ limits' = [timeout |-> 0, pending |-> 0]
      /\ pending' = FALSE /\ pendingAge' = 0 /\ unclean' = FALSE
      /\ req' = {} /\ host' = FALSE /\ due' = <<>> /\ stat' = {} /\ call' = Idle /\ ret' = Report(s)
      /\ UNCHANGED <<waited, faults>>
  BY DEF TurnOff
<1>2. limits' \in [timeout : 0..(TickMod - 1), pending : 0..(TickMod - 1)] /\ 0 \in 0..(TickMod - 1)
  BY <1>1, I2cTicks
<1>3. ret' \in [status : Statuses, stale : BOOLEAN, clean : BOOLEAN] /\ ~ret'.stale
  BY <1>1, ReportIs
<1>4. MasterTyped'
  BY <1>1, <1>2, <1>3, IdleIs DEF MasterInv, MasterTyped, Roles
<1>5. ~Busy'
  BY <1>1 DEF Busy
<1>6. QED
  BY <1>1, <1>3, <1>4, <1>5, OffStep

\* A call begins: the steps of a transaction, or the STOP of one that grew stale.
LEMMA UndertakeStep ==
  ASSUME MasterInv, ~Busy, initialized, NEW t, NEW ending, NEW d, Undertake(t, ending, d),
         \/ ending \in {"recover", "deinit"} /\ Stale /\ t = Stop
         \/ /\ ending = "steps" /\ ~Stale /\ t[1] \in {"SEN", "RSEN", "PEN"}
            /\ t[Len(t)] \in {"pend", "stopped"} /\ Part(t, d, t[1], t[Len(t)])
            /\ IF pending THEN t[1] # "SEN" /\ NoPend(t) ELSE t[1] = "SEN"
  PROVE  MasterInv'
<1>1. t \in Seq(StepNames) /\ t # <<>> /\ Ending(t)
  BY SmallParts DEF Part, Ending, Stop
<1>2. call' = [todo |-> t, ending |-> ending, status |-> "OK"] /\ ending \in Endings
  BY DEF Undertake, Endings
<1>3. call'.todo = t /\ call'.ending = ending /\ call'.status = "OK" /\ Busy'
  BY <1>1, <1>2 DEF Busy, Idle
<1>4. /\ ret' = [status |-> "none", stale |-> Stale, clean |-> Clean]
      /\ waited' = 0 /\ due' = d
      /\ UNCHANGED <<role, on, initialized, limits, pending, pendingAge, unclean>>
      /\ UNCHANGED <<req, stat, host, faults>>
  BY DEF Undertake
<1>5. MasterTyped'
  <2>1. call' \in [todo : Seq(StepNames), ending : Endings, status : Statuses]
    BY <1>1, <1>2 DEF Statuses
  <2>2. ret' \in [status : Statuses, stale : BOOLEAN, clean : BOOLEAN]
    BY <1>4 DEF Statuses, Stale, Clean, MasterInv, MasterTyped
  <2>3. 0 \in 0..(TickMod - 1)
    BY I2cTicks
  <2>4. QED
    BY <1>4, <2>1, <2>2, <2>3 DEF MasterInv, MasterTyped
<1>6. /\ ret'.status = "none" /\ (ret'.stale <=> Stale) /\ (ret'.clean <=> Clean)
      /\ ret'.clean \in BOOLEAN /\ ret'.stale \in BOOLEAN
  BY <1>4 DEF Stale, Clean, MasterInv, MasterTyped
<1>7. Step' = t[1]
  BY <1>3 DEF Step
<1>8. ending # "steps" => NoPend(t) /\ t[1] = "PEN"
  <2>1. Stop \in Seq(Puts \cup Waits)
    BY DEF Stop, Puts, Waits
  <2>2. Stop[1] = "PEN"
    BY DEF Stop
  <2>3. QED
    BY <2>1, <2>2 DEF NoPend
<1>9. ~unclean => IF pending THEN req = {} /\ "RBF" \notin stat ELSE FreeBus
  BY DEF MasterInv, AtRest
<1>10. Clean => req = {} /\ (host <=> pending) /\ ~unclean
  BY DEF Clean, MasterInv, MasterTyped
<1>11. ~unclean /\ ~Clean => NoPend(t)
  BY <1>8, <1>9 DEF FreeBus, Clean, MasterInv, MasterTyped
<1>12. CallOK'
  BY <1>1, <1>3, <1>4, <1>6, <1>7, <1>8, <1>10, <1>11 DEF CallOK
<1>13. AtRest' /\ OkStays'
  BY <1>3, <1>6 DEF AtRest, OkStays
<1>14. BeforeStart'
  BY <1>4, <1>7, <1>8, <1>9 DEF BeforeStart, FreeBus
<1>15. StopOK'
  BY <1>7, <1>8 DEF StopOK
<1>16. InStep'
  <2> SUFFICES ASSUME ret'.clean, ending = "steps" PROVE InStep'
    BY <1>3 DEF InStep, Good
  <2>1. Clean /\ Part(t, d, t[1], t[Len(t)])
    BY <1>6
  <2>2. due' \in Seq(Signals) /\ Matches(call'.todo, due')
    BY <1>3, <1>4, <2>1 DEF Part
  <2>3. Settled'
    BY <2>2 DEF Settled
  <2>4. Step' # "SEN" => host' /\ Made' /\ "RBF" \notin stat'
    BY <1>4, <1>7, <1>8, <1>9, <1>10, <2>1, <2>3 DEF Made
  <2>5. Step' \in {"SEN", "RSEN", "PEN"}
    <3>1. "PEN" \in {"SEN", "RSEN", "PEN"}
      OBVIOUS
    <3>2. QED
      BY <1>7, <1>8, <3>1
  <2>6. FrontOK'
    BY <2>4, <2>5 DEF FrontOK, Fronts
  <2>7. StartedOK' /\ RestartedOK' /\ SentOK' /\ ReadingOK' /\ StoppedOK' /\ Step' # "pend"
    BY <2>5 DEF StartedOK, RestartedOK, SentOK, ReadingOK, StoppedOK
  <2>8. QED
    BY <2>3, <2>6, <2>7 DEF InStep
<1>17. QED
  BY <1>5, <1>12, <1>13, <1>14, <1>15, <1>16 DEF MasterInv

\* The public calls.
LEMMA MasterCallStep == MasterInv /\ MasterCall => MasterInv'
<1> SUFFICES ASSUME MasterInv, MasterCall PROVE MasterInv'
  OBVIOUS
<1>r. {"OK", "NOT_INITIALIZED", "BUSY", "SEQUENCE"} \subseteq Statuses
  BY DEF Statuses
<1>1. ASSUME NEW op \in Independent \cup Continuing, NEW n \in 0..MaxWrite, NEW k \in 1..MaxRead, Transact(op, n, k)
      PROVE  MasterInv'
  <2>1. CASE Refuse("NOT_INITIALIZED") \/ Refuse("BUSY") \/ Refuse("SEQUENCE")
    BY <1>1, <1>r, <2>1, RefuseStep DEF Transact
  <2>2. CASE initialized /\ Stale /\ Undertake(Stop, "recover", <<"P">>)
    BY <1>1, <2>2, UndertakeStep DEF Transact
  <2>3. CASE /\ initialized /\ ~Stale /\ (pending <=> op \in Continuing)
             /\ Undertake(Steps(op, n, k), "steps", OnWire(op, n, k))
    <3>1. n \in Nat /\ k \in Nat \ {0}
      BY I2cBounds
    <3>2. PICK first \in {"SEN", "RSEN", "PEN"}, last \in {"pend", "stopped"} :
           /\ Part(Steps(op, n, k), OnWire(op, n, k), first, last)
           /\ op \in Independent => first = "SEN"
           /\ op \in Continuing => first # "SEN" /\ NoPend(Steps(op, n, k))
      BY <3>1, CallsArePart
    <3> DEFINE t == Steps(op, n, k)
    <3>3. t[1] = first /\ t[Len(t)] = last /\ Part(t, OnWire(op, n, k), t[1], t[Len(t)])
      BY <3>2 DEF Part
    <3>4. IF pending THEN t[1] # "SEN" /\ NoPend(t) ELSE t[1] = "SEN"
      BY <2>3, <3>2, <3>3
    <3>5. Undertake(t, "steps", OnWire(op, n, k)) /\ ~Busy
      BY <1>1, <2>3 DEF Transact
    <3> HIDE DEF t
    <3>6. QED
      BY <2>3, <3>3, <3>4, <3>5, UndertakeStep
  <2>4. QED
    BY <1>1, <2>1, <2>2, <2>3 DEF Transact
<1>2. ASSUME NEW t \in Timeouts, NEW p \in PendingTimeouts, MasterInit(t, p)
      PROVE  MasterInv'
  <2>1. CASE Refuse("BUSY")
    BY <1>2, <1>r, <2>1, RefuseStep DEF MasterInit
  <2>2. CASE ~Refuse("BUSY")
    <3>1. /\ ~Busy /\ role' = "master" /\ on' = TRUE /\ initialized' = TRUE
          /\ limits' = [timeout |-> t, pending |-> p] /\ pending' = FALSE /\ pendingAge' = 0 /\ unclean' = FALSE
          /\ req' = {} /\ host' = FALSE /\ due' = <<>> /\ stat' = {} /\ ret' = Report("OK")
          /\ UNCHANGED <<call, waited, faults>>
      BY <1>2, <2>2 DEF MasterInit
    <3>2. limits' \in [timeout : 0..(TickMod - 1), pending : 0..(TickMod - 1)] /\ 0 \in 0..(TickMod - 1)
      BY <3>1, I2cTicks
    <3>3. ret' \in [status : Statuses, stale : BOOLEAN, clean : BOOLEAN] /\ ~ret'.stale
      BY <1>r, <3>1, ReportIs
    <3>4. MasterTyped'
      BY <3>1, <3>2, <3>3 DEF MasterInv, MasterTyped, Roles
    <3>5. QED
      BY <3>1, <3>3, <3>4, OffStep DEF Busy
  <2>3. QED
    BY <2>1, <2>2
<1>3. CASE MasterDeinit
  <2>1. CASE Refuse("NOT_INITIALIZED") \/ Refuse("BUSY")
    BY <1>3, <1>r, <2>1, RefuseStep DEF MasterDeinit
  <2>2. CASE initialized /\ Stale /\ Undertake(Stop, "deinit", <<"P">>)
    BY <1>3, <2>2, UndertakeStep DEF MasterDeinit
  <2>3. CASE TurnOff("OK")
    BY <1>r, <2>3, TurnOffStep
  <2>4. QED
    BY <1>3, <2>1, <2>2, <2>3 DEF MasterDeinit
<1>4. CASE SetBusSpeed
  BY <1>4, <1>r, RefuseStep DEF SetBusSpeed
<1>5. QED
  BY <1>1, <1>2, <1>3, <1>4 DEF MasterCall

\* What a call in progress looks like one step on.
LEMMA AdvanceIs ==
  ASSUME MasterInv, Busy, Advance, Step \notin {"pend", "stopped"} \/ ~Ends
  PROVE  /\ call'.todo = Tail(call.todo) /\ call'.ending = call.ending /\ call'.status = call.status
         /\ call' \in [todo : Seq(StepNames), ending : Endings, status : Statuses]
         /\ Busy' /\ Ending(call'.todo) /\ <<Step, Step'>> \in Follows /\ waited' = 0
         /\ NoPend(call.todo) => NoPend(call'.todo)
<1> DEFINE t == call.todo
<1>1. t \in Seq(StepNames) /\ t # <<>> /\ Chained(t) /\ t[Len(t)] \in {"pend", "stopped"}
  BY DEF MasterInv, MasterTyped, CallOK, Ending
<1>2. call' = [call EXCEPT !.todo = Tail(t)] /\ waited' = 0
  BY DEF Advance
<1>3. call'.todo = Tail(t) /\ call'.ending = call.ending /\ call'.status = call.status
  BY <1>2 DEF MasterInv, MasterTyped
<1>4. Len(t) # 1
  BY <1>1, TailChained DEF Step, Ends
<1>5. /\ Tail(t) \in Seq(StepNames) /\ Chained(Tail(t)) /\ Tail(t) # <<>>
      /\ <<t[1], Tail(t)[1]>> \in Follows /\ Tail(t)[Len(Tail(t))] \in {"pend", "stopped"}
      /\ NoPend(t) => NoPend(Tail(t))
  BY <1>1, <1>4, TailChained
<1>6. call' \in [todo : Seq(StepNames), ending : Endings, status : Statuses]
  BY <1>2, <1>5 DEF MasterInv, MasterTyped
<1>7. Busy'
  <2>1. Idle.todo = <<>>
    BY DEF Idle
  <2>2. QED
    BY <1>3, <1>5, <2>1 DEF Busy
<1>8. Ending(call'.todo)
  BY <1>3, <1>5 DEF Ending
<1>9. <<Step, Step'>> \in Follows
  BY <1>3, <1>5 DEF Step
<1>10. QED
  BY <1>2, <1>3, <1>5, <1>6, <1>7, <1>8, <1>9

\* What may come after the steps that do not end a call.
LEMMA FollowsOne ==
  ASSUME NEW a, NEW b, <<a, b>> \in Follows
  PROVE  /\ b # "SEN" /\ a # "stopped" /\ (b = "stopped" <=> a = "PEN") /\ (b = "pend" => a = "accepted")
         /\ a = "SEN" => b = "started"
         /\ a = "RSEN" => b = "restarted"
         /\ a = "TRN" => b = "sent"
         /\ a = "RCEN" => b = "filled"
         /\ a \in {"ACK", "NACK"} => b = "answered"
         /\ a \in {"started", "restarted"} => b = "ready"
         /\ a = "ready" => b = "host"
         /\ a = "host" => b = "TRN"
         /\ a = "sent" => b = "accepted"
         /\ a = "accepted" => b \in {"ready", "RCEN", "pend"}
         /\ a = "filled" => b \in {"ACK", "NACK"}
         /\ a = "answered" => b \in {"RCEN", "PEN"}
         /\ a = "pend" => b \in {"PEN", "RSEN"}
BY DEF Follows

\* A call goes on by one step; the rest of the invariant is said of each step.
LEMMA AdvanceKeeps ==
  ASSUME MasterInv, Busy, Advance, Step \notin {"pend", "stopped"} \/ ~Ends,
         UNCHANGED <<role, on, initialized, limits, ret, unclean, faults>>,
         pending' \in BOOLEAN, pendingAge' \in 0..(TickMod - 1),
         req' \subseteq Reqs, stat' \subseteq Stats, host' \in BOOLEAN,
         Step = "PEN" => "PEN" \in req',
         Good' => (~Faulty' => FrontOK' /\ StartedOK' /\ RestartedOK' /\ SentOK' /\ ReadingOK' /\ StoppedOK'),
         Good' /\ Step' = "pend" => Made' /\ "RBF" \notin stat'
  PROVE  MasterInv'
<1>1. /\ call'.todo = Tail(call.todo) /\ call'.ending = call.ending /\ call'.status = call.status
      /\ call' \in [todo : Seq(StepNames), ending : Endings, status : Statuses]
      /\ Busy' /\ Ending(call'.todo) /\ <<Step, Step'>> \in Follows /\ waited' = 0
      /\ NoPend(call.todo) => NoPend(call'.todo)
  BY AdvanceIs
<1>2. Step' # "SEN" /\ (Step' = "stopped" <=> Step = "PEN") /\ Step # "stopped"
  BY <1>1, FollowsOne
<1>3. MasterTyped'
  <2>1. 0 \in 0..(TickMod - 1)
    BY I2cTicks
  <2>2. QED
    BY <1>1, <2>1 DEF MasterInv, MasterTyped
<1>4. CallOK'
  BY <1>1, <1>2 DEF MasterInv, CallOK
<1>5. AtRest' /\ OkStays' /\ BeforeStart' /\ StopOK'
  BY <1>1, <1>2 DEF AtRest, OkStays, BeforeStart, StopOK
<1>6. InStep'
  BY <1>2 DEF InStep
<1>7. QED
  BY <1>3, <1>4, <1>5, <1>6 DEF MasterInv

\* The signal of a step is the first that is due.
LEMMA PutStep ==
  ASSUME MasterInv, Good, Step \in Puts, Settled, call'.todo = Tail(call.todo), due' = due, NEW signal, signal = SignalOf(Step)
  PROVE  Due(signal)'
<1>1. call.todo \in Seq(StepNames) /\ call.todo # <<>>
  BY DEF MasterInv, MasterTyped, CallOK, Ending, Good
<1>2. due \in Seq(Signals) /\ Matches(call.todo, due)
  BY DEF Settled
<1>3. due # <<>> /\ due[1] = SignalOf(Step) /\ Matches(Tail(call.todo), Tail(due))
  BY <1>1, <1>2, MatchTail DEF Step
<1>4. due' \in Seq(Signals) /\ due' # <<>> /\ due'[1] = signal /\ Matches(call'.todo, Tail(due'))
  BY <1>2, <1>3
<1>5. QED
  BY <1>4 DEF Due

\* A wait puts nothing on the bus.
LEMMA WaitedStep ==
  ASSUME MasterInv, Busy, Step \notin Puts, Settled, call'.todo = Tail(call.todo), due' = due
  PROVE  Settled'
<1>1. call.todo \in Seq(StepNames) /\ call.todo # <<>>
  BY DEF MasterInv, MasterTyped, CallOK, Ending
<1>2. due \in Seq(Signals) /\ Matches(call.todo, due)
  BY DEF Settled
<1>3. Matches(Tail(call.todo), due)
  BY <1>1, <1>2, MatchTail DEF Step
<1>4. QED
  BY <1>2, <1>3 DEF Settled

\* Where a good call asks for something of the bus, nothing else is asked for, and the
\* signal it asks for is due.
LEMMA PutsReady ==
  ASSUME MasterInv, Good, Step \in Puts, Step = "SEN" \/ ~Faulty
  PROVE  /\ req = {} /\ Settled
         /\ IF Step = "SEN" THEN ~host /\ "S" \notin stat
            ELSE host /\ ("RBF" \in stat <=> Step \in {"ACK", "NACK"})
<1>1. CASE Step = "SEN"
  BY <1>1 DEF MasterInv, InStep, BeforeStart, FreeBus, CallOK, Good
<1>2. CASE Step # "SEN"
  BY <1>2 DEF MasterInv, InStep, FrontOK, Fronts, Made, Puts
<1>3. QED
  BY <1>1, <1>2

\* A register step: its request is made, and its wait looks at a fresh status.
LEMMA WriteKeeps ==
  ASSUME MasterInv, NEW s \in Puts, NEW r, r \in SUBSET Reqs, NEW q, q \in SUBSET Stats, Write(s, r, q),
         s = "PEN" => "PEN" \in r,
         Good' => (~Faulty' => FrontOK' /\ StartedOK' /\ RestartedOK' /\ SentOK' /\ ReadingOK' /\ StoppedOK')
  PROVE  MasterInv'
<1>1. /\ Busy /\ Step = s /\ Advance /\ req' = r /\ stat' = q
      /\ UNCHANGED <<role, on, initialized, limits, pending, pendingAge, ret, unclean, host, due, faults>>
  BY DEF Write
<1>2. Step \notin {"pend", "stopped"}
  BY <1>1 DEF Puts
<1>3. Step' # "pend"
  BY <1>1, <1>2, AdvanceIs, FollowsOne DEF Puts
<1>4. pending' \in BOOLEAN /\ pendingAge' \in 0..(TickMod - 1) /\ host' \in BOOLEAN
  BY <1>1 DEF MasterInv, MasterTyped
<1>5. QED
  BY <1>1, <1>2, <1>3, <1>4, AdvanceKeeps

\* What a register step leaves to its wait.
LEMMA WriteAsks ==
  ASSUME MasterInv, NEW s \in Puts, NEW r, NEW q, Write(s, r, q), Good', NEW signal, signal = SignalOf(s),
         s = "SEN" \/ ~Faulty
  PROVE  /\ Due(signal)' /\ req = {} /\ req' = r /\ <<s, Step'>> \in Follows /\ host' = host /\ stat' = q
         /\ IF s = "SEN" THEN ~host /\ "S" \notin stat
            ELSE host /\ ("RBF" \in stat <=> s \in {"ACK", "NACK"})
<1>1. Busy /\ Step = s /\ Advance /\ ret' = ret /\ req' = r /\ stat' = q /\ due' = due /\ host' = host
  BY DEF Write
<1>2. Step \notin {"pend", "stopped"}
  BY <1>1 DEF Puts
<1>3. call'.todo = Tail(call.todo) /\ call'.ending = call.ending /\ <<s, Step'>> \in Follows
  BY <1>1, <1>2, AdvanceIs
<1>4. Good
  BY <1>1, <1>3 DEF Good
<1>5. QED
  BY <1>1, <1>3, <1>4, PutsReady, PutStep

LEMMA IssueStep == MasterInv /\ Issue => MasterInv'
<1> SUFFICES ASSUME MasterInv, Issue PROVE MasterInv'
  OBVIOUS
<1>t. req \in SUBSET Reqs /\ stat \in SUBSET Stats
  BY DEF MasterInv, MasterTyped
<1> USE DEF Issue
<1>1. CASE IssueStart
  <2> DEFINE r == req \cup {"SEN"}  q == stat \ TransferBits
  <2>1. Write("SEN", r, q) /\ r \in SUBSET Reqs /\ q \in SUBSET Stats /\ "SEN" \in Puts
    BY <1>t, <1>1 DEF IssueStart, Reqs, Puts
  <2>2. "S" \notin stat => "S" \notin q
    OBVIOUS
  <2>3. "STARTE" \notin q /\ SignalOf("SEN") = "S"
    BY DEF TransferBits, SignalOf
  <2>4. req = {} => r = {"SEN"}
    OBVIOUS
  <2> HIDE DEF r, q
  <2>5. ASSUME Good'
        PROVE  FrontOK' /\ StartedOK' /\ RestartedOK' /\ SentOK' /\ ReadingOK' /\ StoppedOK'
    <3>1. Due("S")' /\ req = {} /\ req' = r /\ <<"SEN", Step'>> \in Follows /\ host' = host /\ stat' = q /\ ~host /\ "S" \notin stat
      BY <2>1, <2>3, <2>5, WriteAsks
    <3>2. Step' = "started"
      BY <3>1, FollowsOne
    <3>3. StartedOK'
      BY <2>2, <2>3, <2>4, <3>1 DEF StartedOK, Asked
    <3>4. QED
      BY <3>2, <3>3 DEF FrontOK, Fronts, RestartedOK, SentOK, ReadingOK, StoppedOK
  <2>6. QED
    BY <2>1, <2>5, WriteKeeps
<1>2. CASE IssueRestart
  <2> DEFINE r == req \cup {"RSEN"}  q == stat \ {"STARTE"}
  <2>1. Write("RSEN", r, q) /\ r \in SUBSET Reqs /\ q \in SUBSET Stats /\ "RSEN" \in Puts
    BY <1>t, <1>2 DEF IssueRestart, Reqs, Puts
  <2>2. /\ "RBF" \in q <=> "RBF" \in stat
        /\ "BCL" \in q <=> "BCL" \in stat
        /\ "ERR" \in q <=> "ERR" \in stat
    OBVIOUS
  <2>3. "STARTE" \notin q /\ SignalOf("RSEN") = "Sr"
    BY DEF SignalOf
  <2>4. req = {} => r = {"RSEN"}
    OBVIOUS
  <2> HIDE DEF r, q
  <2>5. ASSUME Good', ~Faulty'
        PROVE  FrontOK' /\ StartedOK' /\ RestartedOK' /\ SentOK' /\ ReadingOK' /\ StoppedOK'
    <3>0. ~Faulty
      BY <2>1, <2>2, <2>5 DEF Write, Faulty
    <3>1. Due("Sr")' /\ req = {} /\ req' = r /\ <<"RSEN", Step'>> \in Follows /\ host' = host /\ stat' = q /\ host /\ "RBF" \notin stat
      BY <2>1, <2>3, <2>5, <3>0, WriteAsks
    <3>2. Step' = "restarted"
      BY <3>1, FollowsOne
    <3>3. RestartedOK'
      BY <2>2, <2>3, <2>4, <3>1 DEF RestartedOK, Asked
    <3>4. QED
      BY <3>2, <3>3 DEF FrontOK, Fronts, StartedOK, SentOK, ReadingOK, StoppedOK
  <2>6. QED
    BY <2>1, <2>5, WriteKeeps
<1>3. CASE IssueStop
  <2> DEFINE r == req \cup {"PEN"}  q == stat \ {"STOPE"}
  <2>1. Write("PEN", r, q) /\ r \in SUBSET Reqs /\ q \in SUBSET Stats /\ "PEN" \in Puts /\ "PEN" \in r
    BY <1>t, <1>3 DEF IssueStop, Reqs, Puts
  <2>2. /\ "BCL" \in q <=> "BCL" \in stat
        /\ "ERR" \in q <=> "ERR" \in stat
    OBVIOUS
  <2>3. SignalOf("PEN") = "P"
    BY DEF SignalOf
  <2>4. req = {} => r = {"PEN"}
    OBVIOUS
  <2> HIDE DEF r, q
  <2>5. ASSUME Good', ~Faulty'
        PROVE  FrontOK' /\ StartedOK' /\ RestartedOK' /\ SentOK' /\ ReadingOK' /\ StoppedOK'
    <3>0. ~Faulty
      BY <2>1, <2>2, <2>5 DEF Write, Faulty
    <3>1. Due("P")' /\ req = {} /\ req' = r /\ <<"PEN", Step'>> \in Follows /\ host' = host /\ stat' = q /\ host
      BY <2>1, <2>3, <2>5, <3>0, WriteAsks
    <3>2. Step' = "stopped"
      BY <3>1, FollowsOne
    <3>3. StoppedOK'
      BY <2>4, <3>1 DEF StoppedOK, Asked
    <3>4. QED
      BY <3>2, <3>3 DEF FrontOK, Fronts, StartedOK, RestartedOK, SentOK, ReadingOK
  <2>6. QED
    BY <2>1, <2>5, WriteKeeps
<1>4. CASE IssueByte
  <2> DEFINE r == req \cup {"TRSTAT"}  q == (stat \ {"IWCOL", "NACKE"}) \cup (IF host THEN {} ELSE {"IWCOL"})
  <2>1. Write("TRN", r, q) /\ r \in SUBSET Reqs /\ q \in SUBSET Stats /\ "TRN" \in Puts
    BY <1>t, <1>4 DEF IssueByte, Reqs, Stats, Puts
  <2>2. /\ "RBF" \in q <=> "RBF" \in stat
        /\ "BCL" \in q <=> "BCL" \in stat
        /\ "ERR" \in q <=> "ERR" \in stat
    OBVIOUS
  <2>3. SignalOf("TRN") = "byte"
    BY DEF SignalOf
  <2>4. req = {} => r = {"TRSTAT"}
    OBVIOUS
  <2> HIDE DEF r, q
  <2>5. ASSUME Good', ~Faulty'
        PROVE  FrontOK' /\ StartedOK' /\ RestartedOK' /\ SentOK' /\ ReadingOK' /\ StoppedOK'
    <3>0. ~Faulty
      BY <2>1, <2>2, <2>5 DEF Write, Faulty
    <3>1. Due("byte")' /\ req = {} /\ req' = r /\ <<"TRN", Step'>> \in Follows /\ host' = host /\ stat' = q /\ host /\ "RBF" \notin stat
      BY <2>1, <2>3, <2>5, <3>0, WriteAsks
    <3>2. Step' = "sent"
      BY <3>1, FollowsOne
    <3>3. SentOK'
      BY <2>2, <2>4, <3>1, <3>2 DEF SentOK, Asked
    <3>4. QED
      BY <3>2, <3>3 DEF FrontOK, Fronts, StartedOK, RestartedOK, ReadingOK, StoppedOK
  <2>6. QED
    BY <2>1, <2>5, WriteKeeps
<1>5. CASE IssueRead
  <2> DEFINE r == req \cup {"RCEN"}
  <2>1. Write("RCEN", r, stat) /\ r \in SUBSET Reqs /\ stat \in SUBSET Stats /\ "RCEN" \in Puts
    BY <1>t, <1>5 DEF IssueRead, Reqs, Puts
  <2>3. SignalOf("RCEN") = "in"
    BY DEF SignalOf
  <2>4. req = {} => r = {"RCEN"}
    OBVIOUS
  <2> HIDE DEF r
  <2>5. ASSUME Good', ~Faulty'
        PROVE  FrontOK' /\ StartedOK' /\ RestartedOK' /\ SentOK' /\ ReadingOK' /\ StoppedOK'
    <3>0. ~Faulty
      BY <2>1, <2>5 DEF Write, Faulty
    <3>1. Due("in")' /\ req = {} /\ req' = r /\ <<"RCEN", Step'>> \in Follows /\ host' = host /\ stat' = stat /\ host /\ "RBF" \notin stat
      BY <2>1, <2>3, <2>5, <3>0, WriteAsks
    <3>2. Step' = "filled"
      BY <3>1, FollowsOne
    <3>3. ReadingOK'
      BY <2>4, <3>1, <3>2 DEF ReadingOK, Asked
    <3>4. QED
      BY <3>2, <3>3 DEF FrontOK, Fronts, StartedOK, RestartedOK, SentOK, StoppedOK
  <2>6. QED
    BY <2>1, <2>5, WriteKeeps
<1>6. ASSUME NEW s \in {"ACK", "NACK"}, NEW r, r = IF s = "ACK" THEN (req \ {"ACKDT"}) \cup {"ACKEN"} ELSE req \cup {"ACKDT", "ACKEN"},
             Write(s, r, stat \ {"RBF"})
      PROVE  MasterInv'
  <2> DEFINE q == stat \ {"RBF"}
  <2>1. Write(s, r, q) /\ r \in SUBSET Reqs /\ q \in SUBSET Stats /\ s \in Puts /\ s # "PEN" /\ s # "SEN"
    BY <1>t, <1>6 DEF Reqs, Puts
  <2>2. /\ "RBF" \notin q
        /\ "BCL" \in q <=> "BCL" \in stat
        /\ "ERR" \in q <=> "ERR" \in stat
    OBVIOUS
  <2>3. SignalOf(s) = IF s = "ACK" THEN "ack" ELSE "nack"
    BY DEF SignalOf
  <2>4. req = {} => r = IF s = "ACK" THEN {"ACKEN"} ELSE {"ACKEN", "ACKDT"}
    BY <1>6
  <2> HIDE DEF q
  <2>5. ASSUME Good', ~Faulty'
        PROVE  FrontOK' /\ StartedOK' /\ RestartedOK' /\ SentOK' /\ ReadingOK' /\ StoppedOK'
    <3>0. ~Faulty
      BY <2>1, <2>2, <2>5 DEF Write, Faulty
    <3> DEFINE x == IF s = "ACK" THEN "ack" ELSE "nack"
    <3>x. x = SignalOf(s)
      BY <2>3
    <3> HIDE DEF x
    <3>1. Due(x)' /\ req = {} /\ req' = r /\ <<s, Step'>> \in Follows /\ host' = host /\ stat' = q /\ host
      BY <2>1, <3>x, <2>5, <3>0, WriteAsks
    <3>2. Step' = "answered"
      BY <3>1, FollowsOne
    <3>3. Asked({"ACKEN"}, "ack")' \/ Asked({"ACKEN", "ACKDT"}, "nack")'
      BY <2>4, <3>1 DEF x, Asked
    <3>4. ReadingOK'
      BY <2>2, <3>1, <3>2, <3>3 DEF ReadingOK, Asked
    <3>5. QED
      BY <3>2, <3>4 DEF FrontOK, Fronts, StartedOK, RestartedOK, SentOK, StoppedOK
  <2>6. QED
    BY <2>1, <2>5, WriteKeeps
<1>7. CASE IssueAck
  BY <1>6, <1>7 DEF IssueAck
<1>8. QED
  BY <1>1, <1>2, <1>3, <1>4, <1>5, <1>7

LEMMA PendStep == MasterInv /\ Pend => MasterInv'
<1> SUFFICES ASSUME MasterInv, Pend PROVE MasterInv'
  OBVIOUS
<1>1. Busy /\ Step = "pend" /\ pending' = TRUE /\ pendingAge' = 0
      /\ UNCHANGED <<role, on, initialized, limits, unclean>> /\ UNCHANGED <<req, stat, host, due, faults>>
  BY DEF Pend, controller
<1>t. 0 \in 0..(TickMod - 1) /\ req \subseteq Reqs /\ stat \subseteq Stats /\ host \in BOOLEAN
  BY I2cTicks DEF MasterInv, MasterTyped
<1>w. call.todo \in Seq(StepNames) /\ call.todo # <<>> /\ ~NoPend(call.todo) /\ call.ending = "steps" /\ ~ret.stale
  <2>1. call.todo \in Seq(StepNames) /\ call.todo # <<>>
    BY <1>1 DEF MasterInv, MasterTyped, CallOK, Ending
  <2>2. 1 \in 1..Len(call.todo)
    BY <2>1, EmptySeq, LenProperties
  <2>3. "pend" \notin Puts \cup Waits
    BY DEF Puts, Waits
  <2>4. ~NoPend(call.todo)
    BY <1>1, <2>2, <2>3, ElementOfSeq DEF NoPend, Step
  <2>5. QED
    BY <1>1, <2>1, <2>4 DEF MasterInv, CallOK
<1>g. ~unclean => Good
  BY <1>1, <1>w DEF MasterInv, CallOK, Good, MasterTyped
<1>m. Good => Made /\ "RBF" \notin stat /\ (~Faulty => host)
  BY <1>1 DEF MasterInv, InStep, FrontOK, Fronts
<1>2. CASE Ends
  <2>1. ret' = [ret EXCEPT !.status = "OK"] /\ call' = Idle /\ waited' = waited
    BY <1>1, <1>2 DEF Pend, Return
  <2>2. ret' \in [status : Statuses, stale : BOOLEAN, clean : BOOLEAN] /\ ret'.stale = ret.stale /\ ret'.clean = ret.clean
    BY <2>1 DEF MasterInv, MasterTyped, Statuses
  <2>3. MasterTyped'
    BY <1>1, <1>t, <2>1, <2>2, IdleIs DEF MasterInv, MasterTyped
  <2>4. ~Busy'
    BY <2>1 DEF Busy
  <2>5. ret.clean => due = <<>> /\ req = {}
    <3> SUFFICES ASSUME ret.clean PROVE due = <<>> /\ req = {}
      OBVIOUS
    <3>1. Made
      BY <1>1, <1>w, <1>m DEF Good
    <3>2. "pend" \notin Puts
      BY DEF Puts
    <3>3. QED
      BY <1>1, <1>2, <1>w, <3>1, <3>2, NothingLeft DEF Made, Settled, Ends, Step
  <2>6. AtRest' /\ OkStays'
    BY <1>1, <1>g, <1>m, <1>w, <2>2, <2>4, <2>5 DEF AtRest, OkStays, Made
  <2>7. QED
    BY <2>3, <2>4, <2>6 DEF MasterInv, CallOK, BeforeStart, StopOK, InStep, Good
<1>3. CASE ~Ends
  <2>1. Advance /\ ret' = ret
    BY <1>1, <1>3 DEF Pend
  <2>2. call'.todo = Tail(call.todo) /\ call'.ending = call.ending /\ <<"pend", Step'>> \in Follows
    BY <1>1, <1>3, <2>1, AdvanceIs
  <2>3. Step' \in {"PEN", "RSEN"}
    BY <2>2, FollowsOne
  <2>4. ASSUME Good', ~Faulty'
        PROVE  FrontOK' /\ StartedOK' /\ RestartedOK' /\ SentOK' /\ ReadingOK' /\ StoppedOK'
    <3>1. Good
      BY <1>1, <2>1, <2>2, <2>4 DEF Good
    <3>2. host /\ Made /\ "RBF" \notin stat
      BY <1>1, <1>m, <2>4, <3>1 DEF Faulty
    <3>3. Settled'
      <4>1. "pend" \notin Puts
        BY DEF Puts
      <4>2. QED
        BY <1>1, <2>2, <3>2, <4>1, WaitedStep DEF Made
    <3>4. QED
      BY <1>1, <2>3, <3>2, <3>3 DEF Made, FrontOK, Fronts, StartedOK, RestartedOK, SentOK, ReadingOK, StoppedOK
  <2>5. QED
    BY <1>1, <1>3, <1>t, <2>1, <2>3, <2>4, AdvanceKeeps
<1>4. QED
  BY <1>2, <1>3

\* What a wait that is over has seen.
LEMMA ResultIs ==
  ASSUME Step \in Waits
  PROVE  /\ Result # "waiting" => Result \in {"OK", "NACK", "COLLISION", "BUS", "TIMEOUT"}
         /\ Result = "OK" => Done /\ ~Faulty /\ (Step = "accepted" => "NACKE" \notin stat)
BY DEF Result, WaitResult, Collided, Faulty

\* A wait that ends well, in a good call, found what its step was to bring about.
LEMMA WaitEnds ==
  ASSUME MasterInv, Good, Step \in Waits, Result = "OK"
  PROVE  /\ req = {} /\ (Settled \/ (Step = "sent" /\ "NACKE" \in stat))
         /\ Step # "stopped" => host /\ ("RBF" \in stat <=> Step = "filled")
<1>1. Done /\ ~Faulty /\ (Step = "accepted" => "NACKE" \notin stat)
  BY ResultIs
<1>2. FrontOK /\ StartedOK /\ RestartedOK /\ SentOK /\ ReadingOK /\ StoppedOK
  BY <1>1 DEF MasterInv, InStep
<1>3. CASE Step \in {"ready", "host"}
  BY <1>2, <1>3 DEF FrontOK, Fronts, Made, Asked
<1>4. CASE Step = "started"
  BY <1>1, <1>2, <1>4 DEF StartedOK, Done, StartDone, Made, Asked
<1>5. CASE Step = "restarted"
  BY <1>1, <1>2, <1>5 DEF RestartedOK, Done, RestartDone, Made, Asked
<1>6. CASE Step = "sent"
  <2>1. "TRSTAT" \notin req
    BY <1>1, <1>6 DEF Done
  <2>2. QED
    BY <1>2, <1>6, <2>1 DEF SentOK, Asked
<1>7. CASE Step = "accepted"
  BY <1>1, <1>2, <1>7 DEF SentOK, Made
<1>8. CASE Step = "filled"
  BY <1>1, <1>2, <1>8 DEF ReadingOK, Done, Made, Asked
<1>9. CASE Step = "answered"
  <2>1. "ACKEN" \notin req
    BY <1>1, <1>9 DEF Done
  <2>2. QED
    BY <1>2, <1>9, <2>1 DEF ReadingOK, Asked, Made
<1>10. CASE Step = "stopped"
  <2>1. "PEN" \notin req
    BY <1>1, <1>10 DEF Done, StopFullyDone
  <2>2. QED
    BY <1>2, <1>10, <2>1 DEF StoppedOK, Asked, Made
<1>11. QED
  BY <1>3, <1>4, <1>5, <1>6, <1>7, <1>8, <1>9, <1>10 DEF Waits

LEMMA WaitStep == MasterInv /\ Wait => MasterInv'
<1> SUFFICES ASSUME MasterInv, Wait PROVE MasterInv'
  OBVIOUS
<1>1. Busy /\ Step \in Waits /\ Step # "stopped" /\ Result # "waiting"
      /\ UNCHANGED <<role, on, initialized, limits, pending, pendingAge, ret, unclean>>
      /\ UNCHANGED <<req, stat, host, due, faults>>
  BY DEF Wait, Stopping, controller
<1>w. "pend" \notin Waits /\ "PEN" \notin Waits /\ Waits \cap Puts = {}
  BY DEF Waits, Puts
<1>t. 0 \in 0..(TickMod - 1) /\ req \subseteq Reqs /\ stat \subseteq Stats /\ host \in BOOLEAN
      /\ pending \in BOOLEAN /\ pendingAge \in 0..(TickMod - 1)
  BY I2cTicks DEF MasterInv, MasterTyped
<1>2. CASE Result = "OK"
  <2>1. Advance
    BY <1>2 DEF Wait
  <2>2. call'.todo = Tail(call.todo) /\ call'.ending = call.ending /\ <<Step, Step'>> \in Follows
    BY <1>1, <1>w, <2>1, AdvanceIs
  <2>3. Good' => Good
    BY <1>1, <2>2 DEF Good
  <2>4. /\ Step' \in {"ready", "host", "TRN", "accepted", "RCEN", "pend", "ACK", "NACK", "PEN"}
        /\ Step' \in {"ACK", "NACK"} <=> Step = "filled"
        /\ Step' = "accepted" <=> Step = "sent"
    BY <1>1, <2>2, FollowsOne DEF Waits
  <2>5. ASSUME Good'
        PROVE  /\ host' /\ req' = {} /\ (Settled' \/ (Step = "sent" /\ "NACKE" \in stat'))
               /\ "RBF" \in stat' <=> Step' \in {"ACK", "NACK"}
    <3>1. req = {} /\ (Settled \/ (Step = "sent" /\ "NACKE" \in stat)) /\ host /\ ("RBF" \in stat <=> Step = "filled")
      BY <1>1, <1>2, <2>3, <2>5, WaitEnds
    <3>2. Settled => Settled'
      BY <1>1, <1>w, <2>2, WaitedStep
    <3>3. QED
      BY <1>1, <2>4, <3>1, <3>2
  <2>6. ASSUME Good', Step' # "accepted"
        PROVE  /\ Step' \in Fronts /\ host' /\ Made' /\ ("RBF" \in stat' <=> Step' \in {"ACK", "NACK"})
    BY <2>4, <2>5, <2>6 DEF Made, Fronts
  <2>7. ASSUME Good'
        PROVE  FrontOK' /\ StartedOK' /\ RestartedOK' /\ SentOK' /\ ReadingOK' /\ StoppedOK'
    <3>1. CASE Step' = "accepted"
      BY <2>5, <2>7, <3>1 DEF FrontOK, Fronts, StartedOK, RestartedOK, SentOK, ReadingOK, StoppedOK
    <3>2. CASE Step' # "accepted"
      BY <2>6, <2>7, <3>2 DEF FrontOK, Fronts, StartedOK, RestartedOK, SentOK, ReadingOK, StoppedOK
    <3>3. QED
      BY <3>1, <3>2
  <2>8. Good' /\ Step' = "pend" => Made' /\ "RBF" \notin stat'
    BY <2>6
  <2>9. QED
    BY <1>1, <1>t, <1>w, <2>1, <2>7, <2>8, AdvanceKeeps
<1>3. CASE Result # "OK"
  <2>1. call' = [call EXCEPT !.todo = Stop, !.status = Result, !.ending = IF pending THEN "abort" ELSE "quiet"] /\ waited' = 0
    BY <1>1, <1>3 DEF Wait
  <2>2. Stop \in Seq(StepNames) /\ Stop # <<>> /\ Stop[1] = "PEN" /\ Ending(Stop)
    BY SmallParts DEF Part, Ending, Stop
  <2>3. NoPend(Stop)
    <3>1. Stop \in Seq(Puts \cup Waits)
      BY DEF Stop, Puts, Waits
    <3>2. QED
      BY <3>1 DEF NoPend
  <2>4. Result \in Statuses
    BY <1>1, ResultIs DEF Statuses
  <2>5. call' \in [todo : Seq(StepNames), ending : Endings, status : Statuses]
        /\ call'.todo = Stop /\ call'.status = Result /\ call'.ending \in {"abort", "quiet"}
    BY <2>1, <2>2, <2>4 DEF MasterInv, MasterTyped, Endings
  <2>6. MasterTyped'
    BY <1>1, <1>t, <2>1, <2>5 DEF MasterInv, MasterTyped
  <2>7. Busy' /\ Step' = "PEN"
    BY <2>2, <2>5 DEF Busy, Idle, Step
  <2>8. CallOK'
    BY <1>1, <1>3, <2>2, <2>3, <2>5, <2>7 DEF MasterInv, CallOK
  <2>9. ~Good'
    BY <2>5 DEF Good
  <2>10. QED
    BY <2>6, <2>7, <2>8, <2>9 DEF MasterInv, AtRest, BeforeStart, StopOK, InStep, OkStays
<1>4. QED
  BY <1>2, <1>3

LEMMA WaitStopStep == MasterInv /\ WaitStop => MasterInv'
<1> SUFFICES ASSUME MasterInv, WaitStop PROVE MasterInv'
  OBVIOUS
<1>1. Busy /\ Step = "stopped" /\ Result # "waiting" /\ Step \in Waits
  BY DEF WaitStop, Stopping, Waits
<1>2. Result \in {"OK", "NACK", "COLLISION", "BUS", "TIMEOUT"}
  BY <1>1, ResultIs
<1>c. call.ending \in Endings /\ call.status \in Statuses /\ call.ending # "none"
      /\ call.todo \in Seq(StepNames) /\ Ending(call.todo)
  BY <1>1 DEF MasterInv, MasterTyped, CallOK
<1>3. Outcome(Result) \in Statuses
  BY <1>2, <1>c DEF Outcome, Statuses, Endings
<1>4. Outcome(Result) = "OK" => Result = "OK" /\ call.ending = "steps"
  BY <1>1, <1>c DEF Outcome, Endings, MasterInv, CallOK
<1>5. CASE call.ending = "deinit"
  BY <1>3, <1>5, TurnOffStep DEF WaitStop
<1>6. CASE call.ending # "deinit"
  <2>1. /\ Return(Outcome(Result)) /\ pending' = StillPending(Result)
        /\ pendingAge' = IF StillPending(Result) THEN pendingAge ELSE 0
        /\ unclean' = (Result # "OK")
        /\ UNCHANGED <<role, on, initialized, limits, waited>> /\ UNCHANGED <<req, stat, host, due, faults>>
    BY <1>6 DEF WaitStop, controller
  <2>2. call' = Idle /\ ~Busy'
    BY <2>1 DEF Return, Busy
  <2>3. ret' \in [status : Statuses, stale : BOOLEAN, clean : BOOLEAN]
        /\ (ret'.status = "OK" => Outcome(Result) = "OK" /\ ret'.stale = ret.stale /\ ret'.clean = ret.clean)
    <3>1. CASE Outcome(Result) = "OK"
      <4>1. ret' = [ret EXCEPT !.status = "OK"]
        BY <2>1, <3>1 DEF Return
      <4>2. QED
        BY <3>1, <4>1 DEF MasterInv, MasterTyped, Statuses
    <3>2. CASE Outcome(Result) # "OK"
      <4>1. ret' = Report(Outcome(Result))
        BY <2>1, <3>2 DEF Return
      <4>2. QED
        BY <1>3, <3>2, <4>1, ReportIs
    <3>3. QED
      BY <3>1, <3>2
  <2>4. pending' \in BOOLEAN /\ unclean' \in BOOLEAN /\ pendingAge' \in 0..(TickMod - 1)
    BY <2>1, I2cTicks DEF StillPending, MasterInv, MasterTyped
  <2>5. MasterTyped'
    BY <2>1, <2>2, <2>3, <2>4, IdleIs DEF MasterInv, MasterTyped
  <2>6. AtRest'
    <3> SUFFICES ASSUME Result = "OK" PROVE ~pending' /\ FreeBus'
      BY <2>1 DEF AtRest
    <3>1. Done /\ ~Faulty
      BY <1>1, ResultIs
    <3>2. "PEN" \notin req
      BY <1>1, <3>1 DEF Done, StopFullyDone
    <3>3. req = {} /\ ~host /\ "S" \notin stat
      BY <1>1, <3>1, <3>2 DEF MasterInv, StopOK
    <3>4. QED
      BY <2>1, <3>3 DEF FreeBus, StillPending
  <2>7. OkStays'
    <3> SUFFICES ASSUME ret'.status = "OK" PROVE ~ret'.stale /\ (ret'.clean => due' = <<>> /\ req' = {})
      BY DEF OkStays
    <3>1. Result = "OK" /\ call.ending = "steps" /\ ret'.stale = ret.stale /\ ret'.clean = ret.clean
      BY <1>4, <2>3
    <3>2. ~ret.stale
      BY <1>1, <3>1 DEF MasterInv, CallOK
    <3>3. ASSUME ret.clean PROVE due = <<>> /\ req = {}
      <4>1. Good
        BY <1>1, <3>1, <3>3 DEF Good
      <4>2. req = {} /\ Settled
        BY <1>1, <3>1, <4>1, WaitEnds
      <4>3. Len(call.todo) = 1
        <5>1. call.todo # <<>> /\ Chained(call.todo) /\ call.todo[Len(call.todo)] \in {"pend", "stopped"}
          BY <1>c DEF Ending
        <5>2. Len(call.todo) # 1 => <<Step, Tail(call.todo)[1]>> \in Follows
          BY <1>c, <5>1, TailChained DEF Step
        <5>3. QED
          BY <1>1, <5>2, FollowsOne
      <4>4. "stopped" \notin Puts
        BY DEF Puts
      <4>5. QED
        BY <1>1, <1>c, <4>2, <4>3, <4>4, NothingLeft DEF Settled, Step
    <3>4. QED
      BY <2>1, <3>1, <3>2, <3>3
  <2>8. QED
    BY <2>2, <2>5, <2>6, <2>7 DEF MasterInv, CallOK, BeforeStart, StopOK, InStep, Good
<1>7. QED
  BY <1>5, <1>6

\* The tick only ages what waits.
LEMMA TickStep == MasterInv /\ MasterTick => MasterInv'
<1> SUFFICES ASSUME MasterInv, MasterTick PROVE MasterInv'
  OBVIOUS
<1>1. /\ UNCHANGED <<role, on, initialized, limits, pending, call, ret, unclean>>
      /\ UNCHANGED <<req, stat, host, due, faults>>
  BY DEF MasterTick, controller
<1>2. limits.timeout \in 0..(TickMod - 1) /\ pendingAge \in Nat /\ waited \in Nat /\ TickMod \in Nat \ {0}
  BY I2cTicks DEF MasterInv, MasterTyped
<1>3. pendingAge' \in 0..(TickMod - 1)
  BY <1>2 DEF MasterTick
<1>4. waited' \in 0..(TickMod - 1)
  BY <1>2 DEF MasterTick
<1>5. MasterTyped'
  BY <1>1, <1>3, <1>4 DEF MasterInv, MasterTyped
<1>6. QED
  BY <1>1, <1>5, NothingMoved

LEMMA FirstAlone ==
  ASSUME NEW S, NEW s \in Seq(S), s # <<>>
  PROVE  SubSeq(s, 1, 1) = <<s[1]>>
<1>1. Len(s) \in Nat \ {0}
  BY EmptySeq, LenProperties
<1>2. s[1] \in S
  BY <1>1, ElementOfSeq
<1>3. PICK a : a = SubSeq(s, 1, 1) /\ a \in Seq(S) /\ Len(a) = 1 /\ a[1] = s[1]
  <2>1. \A i \in 1..1 : s[i] \in S
    BY <1>2
  <2>2. SubSeq(s, 1, 1) \in Seq(S) /\ Len(SubSeq(s, 1, 1)) = (IF 1 <= 1 THEN 1 - 1 + 1 ELSE 0)
        /\ \A i \in 1..(1 - 1 + 1) : SubSeq(s, 1, 1)[i] = s[1 + i - 1]
    BY <2>1, SubSeqProperties
  <2>3. SubSeq(s, 1, 1)[1] = s[1]
    BY <2>2
  <2>4. Len(SubSeq(s, 1, 1)) = 1
    BY <2>2
  <2> DEFINE c == SubSeq(s, 1, 1)
  <2>5. c \in Seq(S) /\ Len(c) = 1 /\ c[1] = s[1]
    BY <2>2, <2>3, <2>4
  <2> HIDE DEF c
  <2>6. \E a : a = c /\ a \in Seq(S) /\ Len(a) = 1 /\ a[1] = s[1]
    BY <2>5
  <2>7. QED
    BY <2>6 DEF c
<1>4. PICK b : b = <<s[1]>> /\ b \in Seq(S) /\ Len(b) = 1 /\ b[1] = s[1]
  <2> DEFINE c == <<s[1]>>
  <2>1. c \in Seq(S) /\ Len(c) = 1 /\ c[1] = s[1]
    BY <1>2
  <2> HIDE DEF c
  <2>2. \E b : b = c /\ b \in Seq(S) /\ Len(b) = 1 /\ b[1] = s[1]
    BY <2>1
  <2>3. QED
    BY <2>2 DEF c
<1>5. \A i \in 1..Len(a) : a[i] = b[i]
  BY <1>3, <1>4
<1>6. a = b
  BY <1>3, <1>4, <1>5, SeqEqual
<1>7. QED
  BY <1>3, <1>4, <1>6

\* A signal that is due and is put on the bus is checked off.
LEMMA CheckedOff ==
  ASSUME NEW x \in Signals, Due(x), due' = IF IsPrefix(<<x>>, due) THEN Tail(due) ELSE Wrong, call' = call
  PROVE  Settled'
<1>1. PICK d \in Seq(Signals) : d = due /\ d # <<>> /\ d[1] = x /\ Matches(call.todo, Tail(d))
  BY DEF Due
<1>2. Len(d) \in Nat \ {0} /\ Tail(d) \in Seq(Signals)
  BY <1>1, EmptySeq, LenProperties, HeadTailProperties
<1>3. IsPrefix(<<x>>, d)
  <2>1. Len(<<x>>) = 1 /\ <<x>>[1] = x /\ <<x>> \in Seq(Signals) /\ <<x>> # <<>>
    OBVIOUS
  <2>2. SubSeq(<<x>>, 1, 1) = <<x>>
    BY <2>1, FirstAlone
  <2>3. SubSeq(d, 1, 1) = <<x>>
    BY <1>1, FirstAlone
  <2>4. Len(<<x>>) <= Len(d)
    BY <1>2, <2>1
  <2>5. QED
    BY <2>1, <2>2, <2>3, <2>4 DEF IsPrefix
<1>4. QED
  BY <1>1, <1>2, <1>3 DEF Settled

\* Requests are only made by a call in progress, past its START's wait for the bus.
LEMMA Requested ==
  ASSUME MasterInv, req # {}
  PROVE  /\ ~Busy => unclean /\ (ret.status = "OK" => ~ret.clean)
         /\ Busy /\ Step = "SEN" => unclean
         /\ Good => Step \notin {"SEN", "pend"}
         /\ Good /\ ~Faulty =>
              \/ Step = "started" /\ Asked({"SEN"}, "S") /\ ~host
              \/ Step = "restarted" /\ Asked({"RSEN"}, "Sr") /\ "RBF" \notin stat
              \/ Step = "sent" /\ Asked({"TRSTAT"}, "byte") /\ "RBF" \notin stat
              \/ Step = "filled" /\ Asked({"RCEN"}, "in")
              \/ Step = "answered" /\ "RBF" \notin stat
                 /\ (Asked({"ACKEN"}, "ack") \/ Asked({"ACKEN", "ACKDT"}, "nack"))
              \/ Step = "stopped" /\ Asked({"PEN"}, "P") /\ host
<1>1. ~Busy => unclean /\ (ret.status = "OK" => ~ret.clean)
  BY DEF MasterInv, AtRest, FreeBus, OkStays
<1>2. Busy /\ Step = "SEN" => unclean
  BY DEF MasterInv, BeforeStart, FreeBus
<1>3. Good => Step \notin {"SEN", "pend"}
  BY <1>2 DEF MasterInv, InStep, Made, Good, CallOK
<1>4. ASSUME Good, ~Faulty
      PROVE  \/ Step = "started" /\ Asked({"SEN"}, "S") /\ ~host
             \/ Step = "restarted" /\ Asked({"RSEN"}, "Sr") /\ "RBF" \notin stat
             \/ Step = "sent" /\ Asked({"TRSTAT"}, "byte") /\ "RBF" \notin stat
             \/ Step = "filled" /\ Asked({"RCEN"}, "in")
             \/ Step = "answered" /\ "RBF" \notin stat
                /\ (Asked({"ACKEN"}, "ack") \/ Asked({"ACKEN", "ACKDT"}, "nack"))
             \/ Step = "stopped" /\ Asked({"PEN"}, "P") /\ host
  <2>1. FrontOK /\ StartedOK /\ RestartedOK /\ SentOK /\ ReadingOK /\ StoppedOK
    BY <1>4 DEF MasterInv, InStep
  <2>2. Step \in StepNames
    <3>1. call.todo \in Seq(StepNames) /\ call.todo # <<>>
      BY <1>4 DEF MasterInv, MasterTyped, CallOK, Ending, Good
    <3>2. 1 \in 1..Len(call.todo)
      BY <3>1, EmptySeq, LenProperties
    <3>3. QED
      BY <3>1, <3>2, ElementOfSeq DEF Step
  <2>3. Step \notin Fronts
    BY <2>1 DEF FrontOK, Made
  <2>4. Step \in {"started", "restarted", "sent", "accepted", "filled", "answered", "stopped"}
    BY <1>3, <1>4, <2>2, <2>3 DEF StepNames, Puts, Waits, Fronts
  <2>5. Step # "accepted"
    BY <2>1 DEF SentOK
  <2>6. CASE Step = "started"
    BY <2>1, <2>6 DEF StartedOK, Made
  <2>7. CASE Step = "restarted"
    BY <2>1, <2>7 DEF RestartedOK, Made
  <2>8. CASE Step = "sent"
    BY <2>1, <2>8 DEF SentOK
  <2>9. CASE Step \in {"filled", "answered"}
    BY <2>1, <2>9 DEF ReadingOK, Made
  <2>10. CASE Step = "stopped"
    BY <2>1, <2>10 DEF StoppedOK, Made
  <2>11. QED
    BY <2>4, <2>5, <2>6, <2>7, <2>8, <2>9, <2>10
<1>5. QED
  BY <1>1, <1>2, <1>3, <1>4

\* The controller serves a request; what it does to a good call is said of each.
LEMMA ServedKeeps ==
  ASSUME MasterInv, req # {}, req' \subseteq Reqs, stat' \subseteq Stats, host' \in BOOLEAN, faults' \in 0..MaxFaults,
         UNCHANGED <<role, on>>, UNCHANGED <<initialized, limits, pending, pendingAge, call, waited, ret, unclean>>,
         ~Busy \/ StopOK',
         Good /\ ~Faulty' => FrontOK' /\ StartedOK' /\ RestartedOK' /\ SentOK' /\ ReadingOK' /\ StoppedOK'
  PROVE  MasterInv'
<1>1. /\ ~Busy => unclean /\ (ret.status = "OK" => ~ret.clean)
      /\ Busy /\ Step = "SEN" => unclean
      /\ Good => Step \notin {"SEN", "pend"}
  BY Requested
<1>2. (Busy' <=> Busy) /\ (Good' <=> Good) /\ Step' = Step
  BY DEF Busy, Good, Step
<1>3. MasterTyped'
  BY DEF MasterInv, MasterTyped
<1>4. CallOK'
  BY <1>2 DEF MasterInv, CallOK
<1>5. AtRest' /\ BeforeStart'
  BY <1>1, <1>2 DEF AtRest, BeforeStart
<1>6. OkStays'
  BY <1>1, <1>2 DEF MasterInv, OkStays
<1>7. StopOK'
  BY <1>2 DEF StopOK
<1>8. InStep'
  BY <1>1, <1>2 DEF InStep
<1>9. QED
  BY <1>3, <1>4, <1>5, <1>6, <1>7, <1>8 DEF MasterInv

\* A signal goes out on a bus this host owns, and the request that asked for it ends.
LEMMA SignalKeeps ==
  ASSUME MasterInv, NEW r, r \in SUBSET Reqs, NEW s, s \in SUBSET Stats, NEW x \in Signals,
         Hardware(r, s, TRUE, <<x>>), req # {}, "PEN" \in req => "PEN" \in r,
         Faulty => "BCL" \in s \/ "ERR" \in s,
         Good /\ ~Faulty /\ Due(x) /\ Settled' => FrontOK' /\ StartedOK' /\ RestartedOK' /\ SentOK' /\ ReadingOK' /\ StoppedOK',
         Good /\ ~Faulty => Due(x)
  PROVE  MasterInv'
<1>1. /\ req' = r /\ stat' = s /\ host' = TRUE
      /\ due' = IF IsPrefix(<<x>>, due) THEN Tail(due) ELSE Wrong
      /\ UNCHANGED <<role, on>> /\ UNCHANGED <<initialized, limits, pending, pendingAge, call, waited, ret, unclean>>
      /\ faults' = faults
  BY DEF Hardware, engine
<1>2. ~Busy \/ StopOK'
  BY <1>1 DEF MasterInv, StopOK, Busy, Step, Faulty
<1>3. ASSUME Good, ~Faulty'
      PROVE  FrontOK' /\ StartedOK' /\ RestartedOK' /\ SentOK' /\ ReadingOK' /\ StoppedOK'
  <2>1. ~Faulty
    BY <1>1, <1>3 DEF Faulty
  <2>2. Due(x)
    BY <1>3, <2>1
  <2>3. Settled'
    BY <1>1, <2>2, CheckedOff
  <2>4. QED
    BY <1>3, <2>1, <2>2, <2>3
<1>4. faults' \in 0..MaxFaults
  BY <1>1 DEF MasterInv, MasterTyped
<1>5. QED
  BY <1>1, <1>2, <1>3, <1>4, ServedKeeps

LEMMA MasterRanges ==
  ASSUME MasterInv
  PROVE  req \in SUBSET Reqs /\ stat \in SUBSET Stats /\ host \in BOOLEAN /\ faults \in 0..MaxFaults
BY DEF MasterInv, MasterTyped

LEMMA HwStartStep == MasterInv /\ HwStart => MasterInv'
<1> SUFFICES ASSUME MasterInv, HwStart PROVE MasterInv'
  OBVIOUS
<1> DEFINE r == req \ {"SEN"}  s == (stat \ {"D_A", "RBF"}) \cup {"STARTE", "S"}
<1>1. "SEN" \in req /\ "PEN" \notin req /\ ~host /\ Hardware(r, s, TRUE, <<"S">>)
  BY DEF HwStart
<1>2. r \in SUBSET Reqs /\ s \in SUBSET Stats /\ "S" \in Signals
  BY MasterRanges DEF Reqs, Stats, Signals
<1>3. /\ "BCL" \in s <=> "BCL" \in stat
      /\ "ERR" \in s <=> "ERR" \in stat
      /\ "RBF" \notin s
      /\ req = {"SEN"} => r = {}
  OBVIOUS
<1>4. req' = r /\ stat' = s /\ host' = TRUE /\ call' = call
  BY <1>1 DEF Hardware, engine
<1> HIDE DEF r, s
<1>5. req # {}
  BY <1>1
<1>6. ASSUME Good, ~Faulty PROVE Step = "started" /\ Asked({"SEN"}, "S")
  BY <1>1, <1>5, <1>6, Requested DEF Asked
<1>7. ASSUME Good, ~Faulty, Settled'
      PROVE  FrontOK' /\ StartedOK' /\ RestartedOK' /\ SentOK' /\ ReadingOK' /\ StoppedOK'
  BY <1>3, <1>4, <1>6, <1>7 DEF Asked, Made, Step, FrontOK, Fronts, StartedOK, RestartedOK, SentOK, ReadingOK, StoppedOK
<1>8. QED
  BY <1>1, <1>2, <1>3, <1>5, <1>6, <1>7, SignalKeeps DEF Asked, Faulty

LEMMA HwRestartStep == MasterInv /\ HwRestart => MasterInv'
<1> SUFFICES ASSUME MasterInv, HwRestart PROVE MasterInv'
  OBVIOUS
<1> DEFINE r == req \ {"RSEN"}  s == (stat \ {"D_A"}) \cup {"STARTE", "S"}
<1>1. "RSEN" \in req /\ Hardware(r, s, TRUE, <<"Sr">>)
  BY DEF HwRestart
<1>2. r \in SUBSET Reqs /\ s \in SUBSET Stats /\ "Sr" \in Signals
  BY MasterRanges DEF Reqs, Stats, Signals
<1>3. /\ "BCL" \in s <=> "BCL" \in stat
      /\ "ERR" \in s <=> "ERR" \in stat
      /\ "RBF" \in s <=> "RBF" \in stat
      /\ "PEN" \in r <=> "PEN" \in req
      /\ req = {"RSEN"} => r = {}
  OBVIOUS
<1>4. req' = r /\ stat' = s /\ host' = TRUE /\ call' = call
  BY <1>1 DEF Hardware, engine
<1> HIDE DEF r, s
<1>5. req # {}
  BY <1>1
<1>6. ASSUME Good, ~Faulty PROVE Step = "restarted" /\ Asked({"RSEN"}, "Sr") /\ "RBF" \notin stat
  BY <1>1, <1>5, <1>6, Requested DEF Asked
<1>7. ASSUME Good, ~Faulty, Settled'
      PROVE  FrontOK' /\ StartedOK' /\ RestartedOK' /\ SentOK' /\ ReadingOK' /\ StoppedOK'
  BY <1>3, <1>4, <1>6, <1>7 DEF Asked, Made, Step, FrontOK, Fronts, StartedOK, RestartedOK, SentOK, ReadingOK, StoppedOK
<1>8. QED
  BY <1>1, <1>2, <1>3, <1>5, <1>6, <1>7, SignalKeeps DEF Asked, Faulty

LEMMA HwByteStep == MasterInv /\ HwByte => MasterInv'
<1> SUFFICES ASSUME MasterInv, HwByte PROVE MasterInv'
  OBVIOUS
<1> DEFINE r == req \ {"TRSTAT"}
<1>1. "TRSTAT" \in req /\ host
  BY DEF HwByte
<1>2. r \in SUBSET Reqs /\ "byte" \in Signals
  BY MasterRanges DEF Reqs, Signals
<1>3. ("PEN" \in r <=> "PEN" \in req) /\ (req = {"TRSTAT"} => r = {})
  OBVIOUS
<1> HIDE DEF r
<1>5. req # {}
  BY <1>1
<1>6. ASSUME Good, ~Faulty PROVE Step = "sent" /\ Asked({"TRSTAT"}, "byte") /\ "RBF" \notin stat
  BY <1>1, <1>5, <1>6, Requested DEF Asked
<1>7. CASE Hardware(r, stat \cup {"D_A"}, TRUE, <<"byte">>)
  <2> DEFINE s == stat \cup {"D_A"}
  <2>1. s \in SUBSET Stats
    BY MasterRanges DEF Stats
  <2>2. /\ "BCL" \in s <=> "BCL" \in stat
        /\ "ERR" \in s <=> "ERR" \in stat
        /\ "RBF" \in s <=> "RBF" \in stat
    OBVIOUS
  <2>3. req' = r /\ stat' = s /\ host' = TRUE /\ call' = call
    BY <1>7 DEF Hardware, engine
  <2>4. Hardware(r, s, TRUE, <<"byte">>)
    BY <1>7
  <2> HIDE DEF s
  <2>5. ASSUME Good, ~Faulty, Settled'
        PROVE  FrontOK' /\ StartedOK' /\ RestartedOK' /\ SentOK' /\ ReadingOK' /\ StoppedOK'
    BY <1>3, <1>6, <2>2, <2>3, <2>5 DEF Asked, Step, FrontOK, Fronts, StartedOK, RestartedOK, SentOK, ReadingOK, StoppedOK
  <2>6. QED
    BY <1>2, <1>3, <1>5, <1>6, <2>1, <2>2, <2>4, <2>5, SignalKeeps DEF Asked, Faulty
<1>8. CASE Hardware(r, stat \cup {"D_A", "NACKE"}, TRUE, <<"refused">>)
  <2> DEFINE s == stat \cup {"D_A", "NACKE"}
  <2>1. s \in SUBSET Stats
    BY MasterRanges DEF Stats
  <2>2. /\ "BCL" \in s <=> "BCL" \in stat
        /\ "ERR" \in s <=> "ERR" \in stat
        /\ "RBF" \in s <=> "RBF" \in stat
        /\ "NACKE" \in s
    OBVIOUS
  <2>3. /\ req' = r /\ stat' = s /\ host' = TRUE /\ faults' = faults
        /\ UNCHANGED <<role, on>> /\ UNCHANGED <<initialized, limits, pending, pendingAge, call, waited, ret, unclean>>
    BY <1>8 DEF Hardware, engine
  <2> HIDE DEF s
  <2>4. ~Busy \/ StopOK'
    BY <1>1, <1>3, <2>2, <2>3 DEF MasterInv, StopOK, Busy, Step, Faulty
  <2>5. ASSUME Good, ~Faulty'
        PROVE  FrontOK' /\ StartedOK' /\ RestartedOK' /\ SentOK' /\ ReadingOK' /\ StoppedOK'
    <3>1. ~Faulty
      BY <2>2, <2>3, <2>5 DEF Faulty
    <3>2. Step = "sent" /\ req = {"TRSTAT"} /\ "RBF" \notin stat
      BY <1>6, <2>5, <3>1 DEF Asked
    <3>3. QED
      BY <1>3, <2>2, <2>3, <3>2 DEF Step, FrontOK, Fronts, StartedOK, RestartedOK, SentOK, ReadingOK, StoppedOK
  <2>6. QED
    BY <1>2, <1>5, <2>1, <2>3, <2>4, <2>5, MasterRanges, ServedKeeps
<1>9. QED
  BY <1>7, <1>8 DEF HwByte, r

LEMMA HwReadStep == MasterInv /\ HwRead => MasterInv'
<1> SUFFICES ASSUME MasterInv, HwRead PROVE MasterInv'
  OBVIOUS
<1> DEFINE r == req \ {"RCEN"}  s == stat \cup {"RBF"}
<1>1. "RCEN" \in req /\ Hardware(r, s, TRUE, <<"in">>)
  BY DEF HwRead
<1>2. r \in SUBSET Reqs /\ s \in SUBSET Stats /\ "in" \in Signals
  BY MasterRanges DEF Reqs, Stats, Signals
<1>3. /\ "BCL" \in s <=> "BCL" \in stat
      /\ "ERR" \in s <=> "ERR" \in stat
      /\ "RBF" \in s
      /\ "PEN" \in r <=> "PEN" \in req
      /\ req = {"RCEN"} => r = {}
  OBVIOUS
<1>4. req' = r /\ stat' = s /\ host' = TRUE /\ call' = call
  BY <1>1 DEF Hardware, engine
<1> HIDE DEF r, s
<1>5. req # {}
  BY <1>1
<1>6. ASSUME Good, ~Faulty PROVE Step = "filled" /\ Asked({"RCEN"}, "in")
  BY <1>1, <1>5, <1>6, Requested DEF Asked
<1>7. ASSUME Good, ~Faulty, Settled'
      PROVE  FrontOK' /\ StartedOK' /\ RestartedOK' /\ SentOK' /\ ReadingOK' /\ StoppedOK'
  BY <1>3, <1>4, <1>6, <1>7 DEF Asked, Made, Step, FrontOK, Fronts, StartedOK, RestartedOK, SentOK, ReadingOK, StoppedOK
<1>8. QED
  BY <1>1, <1>2, <1>3, <1>5, <1>6, <1>7, SignalKeeps DEF Asked, Faulty

LEMMA HwAckStep == MasterInv /\ HwAck => MasterInv'
<1> SUFFICES ASSUME MasterInv, HwAck PROVE MasterInv'
  OBVIOUS
<1> DEFINE r == req \ {"ACKEN", "ACKDT"}
<1>1. "ACKEN" \in req /\ Hardware(r, stat, TRUE, <<IF "ACKDT" \in req THEN "nack" ELSE "ack">>)
  BY DEF HwAck
<1>2. r \in SUBSET Reqs /\ stat \in SUBSET Stats /\ {"ack", "nack"} \subseteq Signals
  BY MasterRanges DEF Reqs, Stats, Signals
<1>3. /\ "PEN" \in r <=> "PEN" \in req
      /\ req = {"ACKEN"} \/ req = {"ACKEN", "ACKDT"} => r = {}
  OBVIOUS
<1>4. req' = r /\ stat' = stat /\ host' = TRUE /\ call' = call
  BY <1>1 DEF Hardware, engine
<1> HIDE DEF r
<1>5. req # {}
  BY <1>1
<1>6. ASSUME Good, ~Faulty
      PROVE  Step = "answered" /\ "RBF" \notin stat /\ (Asked({"ACKEN"}, "ack") \/ Asked({"ACKEN", "ACKDT"}, "nack"))
  BY <1>1, <1>5, <1>6, Requested DEF Asked
<1>7. ASSUME Good, ~Faulty, Settled'
      PROVE  FrontOK' /\ StartedOK' /\ RestartedOK' /\ SentOK' /\ ReadingOK' /\ StoppedOK'
  BY <1>3, <1>4, <1>6, <1>7 DEF Asked, Made, Step, FrontOK, Fronts, StartedOK, RestartedOK, SentOK, ReadingOK, StoppedOK
<1>8. CASE "ACKDT" \in req
  <2>1. Hardware(r, stat, TRUE, <<"nack">>) /\ "nack" \in Signals
    BY <1>1, <1>2, <1>8
  <2>2. Good /\ ~Faulty => Due("nack")
    BY <1>6, <1>8 DEF Asked
  <2>3. QED
    BY <1>2, <1>3, <1>5, <1>7, <2>1, <2>2, SignalKeeps DEF Faulty
<1>9. CASE "ACKDT" \notin req
  <2>1. Hardware(r, stat, TRUE, <<"ack">>) /\ "ack" \in Signals
    BY <1>1, <1>2, <1>9
  <2>2. Good /\ ~Faulty => Due("ack")
    BY <1>6, <1>9 DEF Asked
  <2>3. QED
    BY <1>2, <1>3, <1>5, <1>7, <2>1, <2>2, SignalKeeps DEF Faulty
<1>10. QED
  BY <1>8, <1>9

LEMMA HwStopStep == MasterInv /\ (HwStopEvent \/ HwStopDone) => MasterInv'
<1> SUFFICES ASSUME MasterInv, HwStopEvent \/ HwStopDone PROVE MasterInv'
  OBVIOUS
<1>1. "PEN" \in req /\ req # {}
  BY DEF HwStopEvent, HwStopDone
<1>2. ASSUME Good, ~Faulty PROVE Step = "stopped" /\ Asked({"PEN"}, "P") /\ host
  BY <1>1, <1>2, Requested DEF Asked
<1>3. CASE HwStopEvent
  <2> DEFINE s == stat \cup {"STOPE"}
  <2>1. /\ req' = req /\ stat' = s /\ host' = host /\ due' = due /\ faults' = faults
        /\ UNCHANGED <<role, on>> /\ UNCHANGED <<initialized, limits, pending, pendingAge, call, waited, ret, unclean>>
    BY <1>3 DEF HwStopEvent, Hardware, engine
  <2>2. s \subseteq Stats
    BY MasterRanges DEF Stats
  <2>3. ("BCL" \in s <=> "BCL" \in stat) /\ ("ERR" \in s <=> "ERR" \in stat)
    OBVIOUS
  <2> HIDE DEF s
  <2>4. StopOK'
    BY <1>1, <2>1 DEF StopOK
  <2>5. ASSUME Good, ~Faulty'
        PROVE  FrontOK' /\ StartedOK' /\ RestartedOK' /\ SentOK' /\ ReadingOK' /\ StoppedOK'
    <3>1. Step = "stopped" /\ Asked({"PEN"}, "P") /\ host
      BY <1>2, <2>1, <2>3, <2>5 DEF Faulty
    <3>2. Step' = "stopped" /\ Asked({"PEN"}, "P")' /\ host'
      BY <2>1, <3>1 DEF Step, Asked, Due
    <3>3. QED
      BY <3>2 DEF FrontOK, Fronts, StartedOK, RestartedOK, SentOK, ReadingOK, StoppedOK
  <2>6. QED
    BY <1>1, <2>1, <2>2, <2>4, <2>5, MasterRanges, ServedKeeps
<1>4. CASE HwStopDone
  <2> DEFINE s == stat \ {"S", "D_A"}
  <2>1. /\ req' = {} /\ stat' = s /\ host' = FALSE /\ faults' = faults
        /\ host => due' = IF IsPrefix(<<"P">>, due) THEN Tail(due) ELSE Wrong
        /\ UNCHANGED <<role, on>> /\ UNCHANGED <<initialized, limits, pending, pendingAge, call, waited, ret, unclean>>
    BY <1>4 DEF HwStopDone, Hardware, engine
  <2>2. s \subseteq Stats
    BY MasterRanges DEF Stats
  <2>3. ("BCL" \in s <=> "BCL" \in stat) /\ ("ERR" \in s <=> "ERR" \in stat) /\ "S" \notin s
    OBVIOUS
  <2> HIDE DEF s
  <2>4. StopOK'
    BY <2>1, <2>3 DEF StopOK
  <2>5. ASSUME Good, ~Faulty'
        PROVE  FrontOK' /\ StartedOK' /\ RestartedOK' /\ SentOK' /\ ReadingOK' /\ StoppedOK'
    <3>1. Step = "stopped" /\ Asked({"PEN"}, "P") /\ host
      BY <1>2, <2>1, <2>3, <2>5 DEF Faulty
    <3>2. "P" \in Signals
      BY DEF Signals
    <3>3. Settled'
      BY <2>1, <3>1, <3>2, CheckedOff DEF Asked
    <3>4. Step' = "stopped" /\ Made'
      BY <2>1, <3>1, <3>3 DEF Step, Made
    <3>5. QED
      BY <3>4 DEF FrontOK, Fronts, StartedOK, RestartedOK, SentOK, ReadingOK, StoppedOK
  <2>6. {} \subseteq Reqs /\ FALSE \in BOOLEAN
    OBVIOUS
  <2>7. QED
    BY <1>1, <2>1, <2>2, <2>4, <2>5, <2>6, MasterRanges, ServedKeeps
<1>5. QED
  BY <1>3, <1>4

LEMMA HwFaultStep == MasterInv /\ HwFault => MasterInv'
<1> SUFFICES ASSUME MasterInv, HwFault PROVE MasterInv'
  OBVIOUS
<1>1. /\ faults < MaxFaults /\ req' = {} /\ host' = FALSE /\ faults' = faults + 1
      /\ UNCHANGED <<role, on, due>> /\ UNCHANGED <<initialized, limits, pending, pendingAge, call, waited, ret, unclean>>
  BY DEF HwFault, engine
<1>2. PICK f \in {"BCL", "ERR"}, kept \in {{}, {"S"}} : stat' = (stat \ ({"S"} \ kept)) \cup {f}
  BY DEF HwFault
<1>3. stat' \subseteq Stats /\ Faulty' /\ ("RBF" \in stat' <=> "RBF" \in stat) /\ ("S" \in stat' => "S" \in stat)
  BY <1>2, MasterRanges DEF Stats, Faulty
<1>4. faults' \in 0..MaxFaults
  BY <1>1, MasterRanges, I2cBounds
<1>5. (Busy' <=> Busy) /\ (Good' <=> Good) /\ Step' = Step /\ (Settled' <=> Settled)
  BY <1>1 DEF Busy, Good, Step, Settled
<1>6. MasterTyped'
  BY <1>1, <1>3, <1>4 DEF MasterInv, MasterTyped
<1>7. CallOK'
  BY <1>1, <1>5 DEF MasterInv, CallOK
<1>8. AtRest' /\ BeforeStart'
  BY <1>1, <1>3, <1>5 DEF MasterInv, AtRest, BeforeStart, FreeBus
<1>9. StopOK' /\ OkStays'
  BY <1>1, <1>3, <1>5 DEF MasterInv, StopOK, OkStays
<1>10. InStep'
  BY <1>1, <1>3, <1>5 DEF MasterInv, InStep, Made
<1>11. QED
  BY <1>6, <1>7, <1>8, <1>9, <1>10 DEF MasterInv

LEMMA MasterStep == MasterInv /\ MasterNext => MasterInv'
<1>1. MasterInv /\ Thread => MasterInv'
  BY IssueStep, PendStep, WaitStep, WaitStopStep DEF Thread
<1>2. MasterInv /\ MasterHardware => MasterInv'
  BY HwStartStep, HwRestartStep, HwByteStep, HwReadStep, HwAckStep, HwStopStep, HwFaultStep DEF MasterHardware
<1>3. QED
  BY <1>1, <1>2, MasterCallStep, TickStep DEF MasterNext

\* What the callers of the master are promised.
LEMMA MasterPromise == MasterInv => MasterTypeOK /\ OkMeansOnWire /\ StartsOnFreeBus
<1> SUFFICES ASSUME MasterInv PROVE MasterTypeOK /\ OkMeansOnWire /\ StartsOnFreeBus
  OBVIOUS
<1>1. MasterTypeOK
  BY DEF MasterInv, MasterTyped, MasterTypeOK, Reqs, Stats
<1>2. OkMeansOnWire
  BY DEF MasterInv, OkStays, OkMeansOnWire
<1>3. StartsOnFreeBus
  BY DEF MasterInv, BeforeStart, FreeBus, StartsOnFreeBus
<1>4. QED
  BY <1>1, <1>2, <1>3

-----------------------------------------------------------------------------
(* The two engines of an I2C instance, and the drivers side by side.        *)

LEMMA MasterKept == MasterInv /\ UNCHANGED masterVars => MasterInv'
<1> SUFFICES ASSUME MasterInv, UNCHANGED masterVars PROVE MasterInv'
  OBVIOUS
<1>1. /\ UNCHANGED <<role, on, initialized, limits, pending, pendingAge, call, waited, ret, unclean>>
      /\ UNCHANGED <<req, stat, host, due, faults>>
  BY DEF masterVars, engine, controller
<1>2. MasterTyped'
  BY <1>1 DEF MasterInv, MasterTyped
<1>3. QED
  BY <1>1, <1>2, NothingMoved

LEMMA SlaveKept == SlaveInv /\ UNCHANGED slaveOnly => SlaveInv'
BY DEF slaveOnly, SlaveInv, SlaveTyped, HandlerOK, ReadOK, WriteOK, DoneOK, FreeOK, Sampled, Waiting, Seen, InHandler

\* A slave that is switched on or off finds no call of the master in progress, and its
\* handler leaves the master alone.
LEMMA SlaveSideStep == MasterInv /\ SlaveSide => MasterInv'
<1> SUFFICES ASSUME MasterInv, SlaveSide PROVE MasterInv'
  OBVIOUS
<1>1. CASE (SlaveInit \/ SlaveDeinit) /\ ~Busy /\ ControllerOff /\ UNCHANGED engine
  <2>1. /\ UNCHANGED <<initialized, limits, pending, pendingAge, call, waited, ret, unclean>>
        /\ req' = {} /\ stat' = {} /\ host' = FALSE /\ due' = <<>> /\ faults' = faults
    BY <1>1 DEF ControllerOff, engine
  <2>2. role' \in Roles /\ on' \in BOOLEAN
    BY <1>1 DEF SlaveInit, SlaveDeinit, Roles
  <2>3. MasterTyped' /\ ~Busy'
    BY <1>1, <2>1, <2>2 DEF MasterInv, MasterTyped, Busy
  <2>4. ret'.status = "OK" => ~ret'.stale
    BY <1>1, <2>1 DEF MasterInv, OkStays
  <2>5. QED
    BY <2>1, <2>3, <2>4, OffStep
<1>2. CASE (SlaveHandler \/ Bus) /\ UNCHANGED engine /\ UNCHANGED controller
  <2>1. UNCHANGED <<role, on>>
    BY <1>2 DEF SlaveHandler, Bus, EventIrq, Sample, Serve, BusAddress, BusWrite, BusRead, BusStop, BusMoves
  <2>2. QED
    BY <1>2, <2>1, MasterKept DEF masterVars
<1>3. QED
  BY <1>1, <1>2 DEF SlaveSide

I2cInv == MasterInv /\ SlaveInv

LEMMA I2cStep == I2cInv /\ [I2cNext]_i2cVars => I2cInv'
<1> SUFFICES ASSUME MasterInv, SlaveInv, [I2cNext]_i2cVars PROVE MasterInv' /\ SlaveInv'
  BY DEF I2cInv
<1>1. CASE UNCHANGED i2cVars
  BY <1>1, MasterKept, SlaveKept DEF i2cVars
<1>2. CASE SlaveSide
  <2>1. SlaveInv'
    BY <1>2, SlaveCallsStep, EventIrqStep, SampleStep, ServeStep, BusStep DEF SlaveSide, SlaveHandler
  <2>2. QED
    BY <1>2, <2>1, SlaveSideStep
<1>3. CASE MasterNext /\ UNCHANGED slaveOnly
  BY <1>3, MasterStep, SlaveKept
<1>4. QED
  BY <1>1, <1>2, <1>3 DEF I2cNext

\* Which engine is live; a call of the master is made by the one that is.
Live == /\ initialized => role = "master" /\ ~active
        /\ active => role = "slave"

LEMMA LiveStep ==
  ASSUME ~CrossDeinit, I2cInv, Live, [I2cNext]_i2cVars
  PROVE  Live'
<1>b. Busy => initialized
  BY DEF I2cInv, MasterInv, CallOK
<1>1. CASE UNCHANGED i2cVars
  BY <1>1 DEF i2cVars, masterVars, engine, slaveOnly, Live
<1>2. CASE SlaveSide
  <2>1. CASE (SlaveInit \/ (SlaveDeinit /\ role # "master")) /\ UNCHANGED engine
    BY <2>1 DEF SlaveInit, SlaveDeinit, engine, Live
  <2>2. CASE (SlaveHandler \/ Bus) /\ UNCHANGED engine
    <3>1. UNCHANGED <<role, active>>
      BY <2>2 DEF SlaveHandler, Bus, EventIrq, Sample, Serve, BusAddress, BusWrite, BusRead, BusStop, BusMoves
    <3>2. QED
      BY <2>2, <3>1 DEF engine, Live
  <2>3. QED
    BY <1>2, <2>1, <2>2 DEF SlaveSide
<1>3. CASE MasterNext /\ UNCHANGED slaveOnly
  <2>0. active' = active
    BY <1>3 DEF slaveOnly
  <2>1. CASE UNCHANGED <<role, initialized>>
    BY <2>0, <2>1 DEF Live
  <2>2. ASSUME NEW status, TurnOff(status), initialized PROVE Live'
    BY <2>0, <2>2 DEF TurnOff, Live
  <2>3. CASE MasterCall
    <3>1. ASSUME NEW op, NEW n, NEW k, Transact(op, n, k) PROVE UNCHANGED <<role, initialized>>
      BY <3>1 DEF Transact, Refuse, Undertake
    <3>2. ASSUME NEW t, NEW p, MasterInit(t, p) PROVE Live'
      BY <2>0, <3>2 DEF MasterInit, Refuse, Live
    <3>3. CASE MasterDeinit
      BY <2>1, <2>2, <3>3 DEF MasterDeinit, Refuse, Undertake
    <3>4. CASE SetBusSpeed
      BY <2>1, <3>4 DEF SetBusSpeed, Refuse
    <3>5. QED
      BY <2>1, <2>3, <3>1, <3>2, <3>3, <3>4 DEF MasterCall
  <2>4. CASE Thread
    <3>1. CASE Issue
      BY <2>1, <3>1 DEF Issue, IssueStart, IssueRestart, IssueStop, IssueByte, IssueRead, IssueAck, Write
    <3>2. CASE Pend \/ Wait
      BY <2>1, <3>2 DEF Pend, Wait
    <3>3. CASE WaitStop
      BY <1>b, <2>1, <2>2, <3>3 DEF WaitStop
    <3>4. QED
      BY <2>4, <3>1, <3>2, <3>3 DEF Thread
  <2>5. CASE MasterTick
    BY <2>1, <2>5 DEF MasterTick
  <2>6. CASE MasterHardware
    <3>1. UNCHANGED <<role, on>> /\ UNCHANGED engine
      BY <2>6 DEF MasterHardware, HwStart, HwRestart, HwByte, HwRead, HwAck, HwStopEvent, HwStopDone, HwFault, Hardware
    <3>2. QED
      BY <2>1, <3>1 DEF engine
  <2>7. QED
    BY <1>3, <2>3, <2>4, <2>5, <2>6 DEF MasterNext
<1>4. QED
  BY <1>1, <1>2, <1>3 DEF I2cNext

\* A step of the buses is a step of each driver, or leaves it as it is.
LEMMA DriversSteps == [BusNext]_busVars => [I2cNext]_i2cVars /\ [SpiNext]_spiVars /\ [UartNext]_uartVars
BY DEF BusNext, busVars

LEMMA I2cHolds == BusSpec => []I2cInv
<1>1. BusInit => I2cInv
  BY MasterInitInv, SlaveInitStep DEF BusInit, I2cInit, I2cInv
<1>2. I2cInv /\ [BusNext]_busVars => I2cInv'
  BY DriversSteps, I2cStep
<1>3. QED
  BY <1>1, <1>2, PTL DEF BusSpec

\* A call of the I2C master that found the bus in order and returned OK put exactly its own
\* transaction on the bus, whatever it asked for, whatever the bus did meanwhile and
\* whatever was called before; an SPI transfer that returned OK got its own bytes; and
\* after the SPI wait nothing is left to shift.
THEOREM ReportsHold == BusSpec => []ReportsAreTrue
<1>1. BusInit => SpiInv
  BY SpiInitInv DEF BusInit
<1>2. SpiInv /\ [BusNext]_busVars => SpiInv'
  BY DriversSteps, SpiStep
<1>3. I2cInv /\ SpiInv => ReportsAreTrue
  BY MasterPromise DEF I2cInv, SpiInv, OwnSoFar, WaitOK, OwnBytes, DoneIsIdle, ReportsAreTrue
<1>4. QED
  BY <1>1, <1>2, <1>3, I2cHolds, PTL DEF BusSpec

\* A START is asked for on a bus that the STOP before has freed, unless a best-effort STOP
\* failed; and a slave whose handler has nothing left to run for has left nothing undone:
\* no byte unread, no SCL held, no read unanswered, no byte skipped, for every order in
\* which the bus moves while the handler runs.
THEOREM LineStaysOrderly == BusSpec => []LineIsOrderly
<1>1. I2cInv => LineIsOrderly
  BY MasterPromise, SlavePromise DEF I2cInv, LineIsOrderly
<1>2. QED
  BY <1>1, I2cHolds, PTL

\* Unless a caller releases a live master as if it were a slave, or initializes a live UART
\* again, no instance is run by both of its engines, the tick's ages stay in the tick's
\* width, and the UART's backends and interrupts agree.
THEOREM DriversStaySettled == ASSUME ~Reinit, ~CrossDeinit PROVE BusSpec => []DriversAreSettled
<1>1. BusInit => UartInv /\ Live
  BY UartInitInv DEF BusInit, I2cInit, MasterInitState, SlaveInitState, Live
<1>2. UartInv /\ [BusNext]_busVars => UartInv'
  BY DriversSteps, UartStep
<1>3. I2cInv /\ Live /\ [BusNext]_busVars => Live'
  BY DriversSteps, LiveStep
<1>4. I2cInv /\ Live /\ UartInv => DriversAreSettled
  BY MasterPromise, SlavePromise DEF I2cInv, Live, UartInv, ModeIsArmed, DownIsOff, UnderWay,
     I2cTypeOK, OneRole, UartSettled, PollingHasNoInterrupt, DriversAreSettled
<1>5. QED
  BY <1>1, <1>2, <1>3, <1>4, I2cHolds, PTL DEF BusSpec

=============================================================================
