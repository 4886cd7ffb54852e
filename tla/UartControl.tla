---------------------------- MODULE UartControl ----------------------------
(* The life of one UART: init with either receive backend, deinit, the line *)
(* enables, the baud rate, the polled calls, and the transfers that forbid  *)
(* some of them.  Each call is one step; what its stores interleave with is *)
(* in UartRx and UartTx.  The registers of the instance exist.              *)
EXTENDS Naturals

CONSTANTS
  Reinit,     \* whether a live instance is initialized again
  UartFifo    \* bytes in the transmit FIFO, and in the receive FIFO

VARIABLES
  uartUp,     \* g_initialized
  rxMode,     \* g_rx_mode
  con,        \* CON: the module, TXEN, RXEN (and g_tx_enabled, g_rx_enabled)
  ie,         \* the interrupt enables, and whether the transmit priority is not 0
  transfers,  \* g_tx_busy, g_rx_busy
  txCount,    \* bytes in the transmit FIFO and the shifter
  rxCount,    \* bytes in the receive FIFO
  uartRet     \* what the last call returned

uartVars == <<uartUp, rxMode, con, ie, transfers, txCount, rxCount, uartRet>>

AllOff == [on |-> FALSE, tx |-> FALSE, rx |-> FALSE]
NoIe == [rx |-> FALSE, tx |-> FALSE, prio |-> FALSE]
NoTransfers == [tx |-> FALSE, rx |-> FALSE]

UartRefuse(status) == uartRet' = status /\ UNCHANGED <<uartUp, rxMode, con, ie, transfers, txCount, rxCount>>

\* uart_require_initialized
Require == uartUp

UartTurnOff(status) ==
  /\ uartUp' = FALSE /\ rxMode' = "polling" /\ con' = AllOff /\ transfers' = NoTransfers
  /\ ie' = [NoIe EXCEPT !.rx = ie.rx /\ rxMode # "ring"]
  /\ txCount' = 0 /\ rxCount' = 0 /\ uartRet' = status

UartDeinit == UartTurnOff("OK")

\* The configuration is refused before a register is touched.
BadConfig == \E status \in {"INVALID_ARG", "UNSUPPORTED"} : UartRefuse(status)

\* The ring could not be set up: unwound by nora_uart_deinit.
RingFails == /\ uartUp' = FALSE /\ rxMode' = "polling" /\ con' = AllOff
             /\ transfers' = NoTransfers /\ ie' = NoIe
             /\ txCount' = 0 /\ rxCount' = 0 /\ uartRet' = "INVALID_ARG"

UartInit(mode, tx, rx, prio) ==
  /\ uartUp => Reinit
  /\ \/ BadConfig
     \/ mode = "ring" /\ RingFails
     \/ /\ uartUp' = TRUE /\ rxMode' = mode /\ transfers' = NoTransfers
        /\ con' = [on |-> TRUE, tx |-> tx, rx |-> rx]
        /\ ie' = [rx |-> mode = "ring" \/ ie.rx, tx |-> FALSE, prio |-> prio]
        /\ txCount' = 0 /\ rxCount' = 0 /\ uartRet' = "OK"

\* Mutant of Strands: a transfer is not looked for.
StrandsNot(line, enable) == FALSE
\* Switching a line off under a transfer would strand it.
Strands(line, enable) == ~enable /\ transfers[line]

LineEnable(line, enable) ==
  \/ ~Require /\ UartRefuse("NOT_INITIALIZED")
  \/ Require /\ Strands(line, enable) /\ UartRefuse("BUSY")
  \/ /\ Require /\ ~Strands(line, enable)
     /\ con' = [con EXCEPT ![line] = enable] /\ uartRet' = "OK"
     /\ UNCHANGED <<uartUp, rxMode, ie, transfers, txCount, rxCount>>

\* nora_uart_set_baudrate; the rate itself is left out.
SetBaudrate ==
  UartRefuse(IF ~Require THEN "NOT_INITIALIZED"
                         ELSE IF transfers # NoTransfers \/ txCount > 0 THEN "BUSY" ELSE "OK")

StartTransfer(line) ==
  LET able == IF line = "tx" THEN con.tx /\ ie.prio ELSE con.rx /\ rxMode = "ring" IN
  \/ ~Require /\ UartRefuse("NOT_INITIALIZED")
  \/ Require /\ transfers[line] /\ UartRefuse("BUSY")
  \/ Require /\ ~transfers[line] /\ ~able /\ UartRefuse("UNSUPPORTED")
  \/ /\ Require /\ ~transfers[line] /\ able
     /\ transfers' = [transfers EXCEPT ![line] = TRUE]
     /\ ie' = IF line = "tx" THEN [ie EXCEPT !.tx = TRUE] ELSE ie
     /\ uartRet' = "OK" /\ UNCHANGED <<uartUp, rxMode, con, txCount, rxCount>>

\* A transfer ends: by its handler, or by an abort.
EndTransfer(line) ==
  /\ Require /\ transfers[line]
  /\ transfers' = [transfers EXCEPT ![line] = FALSE]
  /\ ie' = IF line = "tx" THEN [ie EXCEPT !.tx = FALSE] ELSE ie
  /\ UNCHANGED <<uartUp, rxMode, con, txCount, rxCount, uartRet>>

\* nora_uart_write_byte and, per byte, nora_uart_write: waits for room.
WriteByteCall ==
  \/ ~Require /\ UartRefuse("NOT_INITIALIZED")
  \/ Require /\ txCount > UartFifo /\ UartRefuse("TIMEOUT")
  \/ /\ Require /\ txCount <= UartFifo /\ txCount' = txCount + 1 /\ uartRet' = "OK"
     /\ UNCHANGED <<uartUp, rxMode, con, ie, transfers, rxCount>>

\* nora_uart_read_byte and nora_uart_rx_flush with the polling backend.
ReadByteCall ==
  \/ ~Require /\ UartRefuse("NOT_INITIALIZED")
  \/ Require /\ rxMode = "polling" /\ rxCount = 0 /\ UartRefuse("RX_EMPTY")
  \/ /\ Require /\ rxMode = "polling" /\ rxCount > 0 /\ rxCount' \in {0, rxCount - 1}
     /\ uartRet' = "OK" /\ UNCHANGED <<uartUp, rxMode, con, ie, transfers, txCount>>

\* The line: a byte leaves, a byte arrives; the handler takes what arrived.
ByteLeaves == /\ con.on /\ con.tx /\ txCount > 0 /\ txCount' = txCount - 1
              /\ UNCHANGED <<uartUp, rxMode, con, ie, transfers, rxCount, uartRet>>
ByteArrives == /\ con.on /\ con.rx /\ rxCount < UartFifo /\ rxCount' = rxCount + 1
               /\ UNCHANGED <<uartUp, rxMode, con, ie, transfers, txCount, uartRet>>
HandlerTakes == /\ ie.rx /\ rxCount > 0 /\ rxCount' = 0
                /\ UNCHANGED <<uartUp, rxMode, con, ie, transfers, txCount, uartRet>>

UartInitState ==
  /\ uartUp = FALSE /\ rxMode = "polling" /\ con = AllOff /\ ie = NoIe /\ transfers = NoTransfers
  /\ txCount = 0 /\ rxCount = 0 /\ uartRet = "none"

UartNext ==
  \/ \E mode \in {"polling", "ring"}, tx, rx, prio \in BOOLEAN : UartInit(mode, tx, rx, prio)
  \/ UartDeinit \/ SetBaudrate \/ WriteByteCall \/ ReadByteCall
  \/ \E line \in {"tx", "rx"} : StartTransfer(line) \/ EndTransfer(line)
  \/ \E line \in {"tx", "rx"}, enable \in BOOLEAN : LineEnable(line, enable)
  \/ ByteLeaves \/ ByteArrives \/ HandlerTakes

UartSpec == UartInitState /\ [][UartNext]_uartVars

-----------------------------------------------------------------------------
\* What is under way can end, and what is off stays off: a transfer has its
\* line and its interrupt on; an instance that is not initialized, also one
\* whose init failed half way, has neither.
UartSettled ==
  /\ transfers.tx => uartUp /\ con.on /\ con.tx /\ ie.tx /\ ie.prio
  /\ transfers.rx => uartUp /\ con.on /\ con.rx /\ ie.rx
  /\ ~uartUp => con = AllOff /\ ~ie.rx /\ ~ie.tx

\* "POLLING - RX is read directly from the hardware RX FIFO; no RX interrupt is
\* enabled."
PollingHasNoInterrupt == uartUp /\ rxMode = "polling" => ~ie.rx

=============================================================================
