-------------------------------- MODULE Spi --------------------------------
(* The blocking SPI master of hal_spi: byte exchanges polled through the    *)
(* transmit buffer, the shifter and the receive buffer, with poll counts    *)
(* that run out at any time.  A byte is its number in the order of writing, *)
(* and the byte exchanged for it bears the same number.                     *)
EXTENDS Naturals

CONSTANTS
  MaxBytes,  \* bound on the bytes written
  MaxLen     \* bound on the length of a transfer

VARIABLES
  spiUp,    \* handle->initialized, and CON1.ON
  spiCall,  \* the call in progress: its step, bytes left, whether its polls are counted
  tbf,      \* the transmit buffer (SPITBF), 0 when empty
  shifter,  \* the shift register (SPIBUSY), 0 when idle
  rbf,      \* the receive buffer (SPIRBF), 0 when empty
  spirov,   \* SPIROV
  written,  \* bytes written to BUF
  own,      \* every byte the last transfer handed over was the one exchanged for its own
  late,     \* a transfer gave up on a byte under way since init
  spiRet    \* what the last call returned

spiVars == <<spiUp, spiCall, tbf, shifter, rbf, spirov, written, own, late, spiRet>>

SpiIdle == [step |-> "none", left |-> 0, timed |-> FALSE]
SpiAt(step) == spiCall.step = step
SpiBusy == ~SpiAt("none")
SpiGo(step) == spiCall' = [spiCall EXCEPT !.step = step]
SpiReturn(status) == spiCall' = SpiIdle /\ spiRet' = status

\* Mutant of SpiInit: without the flush.
SpiInitNoFlush ==
  /\ ~SpiBusy
  /\ spiUp' = TRUE /\ tbf' = 0 /\ shifter' = 0 /\ spirov' = FALSE
  /\ late' = FALSE /\ spiRet' = "INIT" /\ UNCHANGED <<spiCall, rbf, written, own>>

\* nora_spi_init: off, cleared, a stale byte flushed, on.
SpiInit ==
  /\ ~SpiBusy
  /\ spiUp' = TRUE /\ tbf' = 0 /\ shifter' = 0 /\ rbf' = 0 /\ spirov' = FALSE
  /\ late' = FALSE /\ spiRet' = "INIT" /\ UNCHANGED <<spiCall, written, own>>

SpiDeinit ==
  /\ ~SpiBusy
  /\ spiUp' = FALSE /\ tbf' = 0 /\ shifter' = 0 /\ spiRet' = "INIT"
  /\ UNCHANGED <<spiCall, rbf, spirov, written, own, late>>

\* The transfer, write and read calls; waiting for the last byte to leave.
SpiTransfer(n, timed) ==
  /\ ~SpiBusy /\ own' = TRUE
  /\ CASE ~spiUp -> spiRet' = "NOT_INITIALIZED" /\ UNCHANGED spiCall
       [] spiUp /\ n = 0 -> spiRet' = "OK" /\ UNCHANGED spiCall
       [] OTHER -> spiCall' = [step |-> "room", left |-> n, timed |-> timed] /\ spiRet' = "none"
  /\ UNCHANGED <<spiUp, tbf, shifter, rbf, spirov, written, late>>

SpiWaitDone(timed) ==
  /\ ~SpiBusy
  /\ IF spiUp
     THEN spiCall' = [step |-> "emptied", left |-> 0, timed |-> timed] /\ spiRet' = "none"
     ELSE spiRet' = "NOT_INITIALIZED" /\ UNCHANGED spiCall
  /\ UNCHANGED <<spiUp, tbf, shifter, rbf, spirov, written, own, late>>

SpiClearError ==
  /\ ~SpiBusy /\ spiRet' = "CLEARED"
  /\ IF spiUp /\ spirov THEN rbf' = 0 /\ spirov' = FALSE ELSE UNCHANGED <<rbf, spirov>>
  /\ UNCHANGED <<spiUp, spiCall, tbf, shifter, written, own, late>>

-----------------------------------------------------------------------------
(* dspic33ak_spi_xfer_one.                                                  *)

WriteBuf ==
  /\ SpiAt("room") /\ tbf = 0 /\ written < MaxBytes
  /\ written' = written + 1 /\ tbf' = written + 1 /\ SpiGo("arrive")
  /\ UNCHANGED <<spiUp, shifter, rbf, spirov, own, late, spiRet>>

ReadBuf ==
  /\ SpiAt("arrive") /\ rbf # 0
  /\ own' = (own /\ rbf = written) /\ rbf' = 0
  /\ IF spiCall.left = 1 THEN SpiReturn("OK")
     ELSE spiCall' = [spiCall EXCEPT !.step = "room", !.left = @ - 1] /\ UNCHANGED spiRet
  /\ UNCHANGED <<spiUp, tbf, shifter, spirov, written, late>>

\* A poll count that runs out: the flag was looked at once more.
GiveUp ==
  /\ spiCall.timed
  /\ \/ SpiAt("room") /\ tbf # 0 /\ SpiReturn("TIMEOUT") /\ UNCHANGED late
     \/ SpiAt("arrive") /\ rbf = 0 /\ SpiGo("drain") /\ late' = TRUE /\ UNCHANGED spiRet
     \/ SpiAt("emptied") /\ tbf # 0 /\ SpiReturn("TIMEOUT") /\ UNCHANGED late
     \/ SpiAt("still") /\ shifter # 0 /\ SpiReturn("TIMEOUT") /\ UNCHANGED late
  /\ UNCHANGED <<spiUp, tbf, shifter, rbf, spirov, written, own>>

Drain == /\ SpiAt("drain") /\ rbf' = 0 /\ SpiGo("recover")
         /\ UNCHANGED <<spiUp, tbf, shifter, spirov, written, own, late, spiRet>>

\* Mutant of WaitsForDone: the other way round.
WaitsSwapped == \/ SpiAt("emptied") /\ shifter = 0 /\ SpiGo("still")
                \/ SpiAt("still") /\ tbf = 0 /\ SpiGo("settled")
\* The two waits of nora_spi_wait_done_ex.
WaitsForDone == \/ SpiAt("emptied") /\ tbf = 0 /\ SpiGo("still")
                \/ SpiAt("still") /\ shifter = 0 /\ SpiGo("settled")

WaitForDone == WaitsForDone /\ UNCHANGED <<spiUp, tbf, shifter, rbf, spirov, written, own, late, spiRet>>

\* dspic33ak_spi_check_and_clear_overflow
CheckOverflow ==
  /\ SpiAt("recover") \/ SpiAt("settled")
  /\ IF spirov THEN rbf' = 0 /\ spirov' = FALSE ELSE UNCHANGED <<rbf, spirov>>
  /\ SpiReturn(IF SpiAt("recover") THEN "TIMEOUT" ELSE IF spirov THEN "OVERFLOW" ELSE "DONE")
  /\ UNCHANGED <<spiUp, tbf, shifter, written, own, late>>

-----------------------------------------------------------------------------
(* The shifter; a full receive buffer keeps its byte (IGNROV).              *)

ShiftIn == /\ spiUp /\ tbf # 0 /\ shifter = 0 /\ shifter' = tbf /\ tbf' = 0
         /\ UNCHANGED <<spiUp, spiCall, rbf, spirov, written, own, late, spiRet>>

Shifted == /\ spiUp /\ shifter # 0 /\ shifter' = 0
           /\ IF rbf = 0 THEN rbf' = shifter /\ UNCHANGED spirov
                         ELSE spirov' = TRUE /\ UNCHANGED rbf
           /\ UNCHANGED <<spiUp, spiCall, tbf, written, own, late, spiRet>>

SpiInitState ==
  /\ spiUp = FALSE /\ spiCall = SpiIdle /\ tbf = 0 /\ shifter = 0 /\ rbf = 0 /\ spirov = FALSE
  /\ written = 0 /\ own = TRUE /\ late = FALSE /\ spiRet = "none"

SpiNext ==
  \/ SpiInit \/ SpiDeinit \/ SpiClearError
  \/ \E n \in 0..MaxLen, timed \in BOOLEAN : SpiTransfer(n, timed)
  \/ \E timed \in BOOLEAN : SpiWaitDone(timed)
  \/ WriteBuf \/ ReadBuf \/ GiveUp \/ Drain \/ WaitForDone \/ CheckOverflow
  \/ ShiftIn \/ Shifted

SpiSpec == SpiInitState /\ [][SpiNext]_spiVars

-----------------------------------------------------------------------------
\* A transfer that succeeded handed over the bytes exchanged for its own, never
\* one left from before, unless some transfer since init timed out with its
\* byte under way: that late byte is read in place of the next transfer's, and
\* every later one is off by one until the module is initialized again.
OwnBytes == spiRet = "OK" /\ ~late => own

\* nora_spi_wait_done_ex: once it has returned, nothing is left to shift and
\* the chip select may be raised.
DoneIsIdle == spiRet = "DONE" => tbf = 0 /\ shifter = 0

=============================================================================
