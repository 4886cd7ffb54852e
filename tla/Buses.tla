-------------------------------- MODULE Buses --------------------------------
(* The drivers whose calls poll and wait, side by side: I2C, SPI, and the   *)
(* control and polled calls of a UART.  They share no state, so a behaviour *)
(* picks one of them and leaves the others in their first state.            *)
EXTENDS I2c, Spi, UartControl

VARIABLE driving  \* the driver of this behaviour

busVars == <<driving, i2cVars, spiVars, uartVars>>

BusInit == driving \in {"i2c", "spi", "uart"} /\ I2cInit /\ SpiInitState /\ UartInitState

BusNext ==
  /\ UNCHANGED driving
  /\ \/ driving = "i2c" /\ I2cNext /\ UNCHANGED <<spiVars, uartVars>>
     \/ driving = "spi" /\ SpiNext /\ UNCHANGED <<i2cVars, uartVars>>
     \/ driving = "uart" /\ UartNext /\ UNCHANGED <<i2cVars, spiVars>>

\* I2cFairness asks nothing of a driver that is still in its first state.
BusSpec == BusInit /\ [][BusNext]_busVars /\ I2cFairness

-----------------------------------------------------------------------------
(* Properties: what the drivers promise, each in its own terms.             *)

\* A call that reports success did what it reports: the I2C transaction is on
\* the bus as it was asked for, an SPI transfer returns its own bytes, and
\* after the SPI wait nothing is left to shift.
ReportsAreTrue == OkMeansOnWire /\ OwnBytes /\ DoneIsIdle

\* What goes out is not cut into by what follows: a START waits for the STOP
\* before it, and a slave answers with the byte it was asked for.
LineIsOrderly == StartsOnFreeBus /\ SlaveKeepsUp

\* Every driver agrees with its hardware: the I2C variables stay in their types,
\* the tick in its width, and no instance is run by both of its engines; a UART transfer
\* has its line and its interrupt on, what is off has neither, and nothing takes the bytes
\* that a polling receiver waits for (I2cTypeOK, OneRole, UartSettled, PollingHasNoInterrupt).
DriversAreSettled == I2cTypeOK /\ OneRole /\ UartSettled /\ PollingHasNoInterrupt

=============================================================================
