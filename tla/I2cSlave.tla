------------------------------ MODULE I2cSlave ------------------------------
(* The interrupt-driven I2C slave of hal_i2c against a master that writes,  *)
(* reads, repeats STARTs and stops as it likes.  The handler clears its     *)
(* flag, samples STAT1 and serves what it saw; the bus may go on between    *)
(* any two of these, once in a run of the handler (it is far shorter than a *)
(* byte on the bus).                                                        *)
EXTENDS I2cCommon

VARIABLES
  active,   \* g_active, and with it the event interrupt's enable
  reading,  \* g_reading
  flag,     \* the event interrupt flag
  stat1,    \* STAT1: RBF, address byte, R_W, NACK (ACKSTAT), P, I2COV
  held,     \* SCL is held until SCLREL
  trn,      \* TRN holds a byte not yet sent
  bus,      \* where the master is: free, write, read, or done (NACKed)
  irq,      \* the handler: idle, or the STAT1 it sampled
  crowded,  \* the bus moved during this run of the handler
  skipped,  \* a byte taken from on_tx_byte was never sent
  open      \* what the callbacks were told: addressed, and no stop since

slaveOnly == <<active, reading, flag, stat1, held, trn, bus, irq, crowded, skipped, open>>

NoHandler == {"idle"}
InHandler == irq # NoHandler

\* nora_i2c_slave_init: a live master is refused, a slave is configured
\* again with the module off, which ends what was going on.
SlaveInit ==
  /\ ~InHandler /\ role # "master"
  /\ role' = "slave" /\ on' = TRUE /\ active' = TRUE /\ reading' = FALSE
  /\ flag' = FALSE /\ stat1' = {} /\ held' = FALSE /\ trn' = FALSE /\ bus' = "free"
  /\ open' = FALSE /\ UNCHANGED <<irq, crowded, skipped>>

\* nora_i2c_slave_deinit: any role is released.
SlaveDeinit ==
  /\ ~InHandler
  /\ role' = "none" /\ on' = FALSE /\ active' = FALSE /\ reading' = FALSE
  /\ held' = FALSE /\ trn' = FALSE /\ bus' = "free" /\ stat1' = {} /\ flag' = FALSE
  /\ open' = FALSE /\ UNCHANGED <<irq, crowded, skipped>>

\* Mutant of ClearsFirst: the flag is cleared after the service.
ClearsLast == FALSE
\* nora_i2c_slave_event_irq clears the flag before it serves, not after.
ClearsFirst == TRUE

EventIrq ==
  /\ active /\ flag /\ ~InHandler
  /\ flag' = ~ClearsFirst /\ irq' = {"entered"} /\ crowded' = FALSE
  /\ UNCHANGED <<role, on, active, reading, stat1, held, trn, bus, skipped, open>>

Sample ==
  /\ irq = {"entered"} /\ irq' = stat1 \union {"sampled"}
  /\ UNCHANGED <<role, on, active, reading, flag, stat1, held, trn, bus, crowded, skipped, open>>

\* TRN takes a byte from on_tx_byte; one it still held is lost.
Load == trn' = TRUE /\ skipped' = (skipped \/ trn)
NoLoad == UNCHANGED <<trn, skipped>>

IsAddress == "ADDR" \in irq
IsRead == "R_W" \in irq

\* slave_service, by the STAT1 that was sampled.
Serve ==
  /\ "sampled" \in irq
  /\ \/ /\ "RBF" \in irq                                 \* reading RCV clears RBF
        /\ held' = FALSE                                 \* SCLREL
        /\ IF IsAddress /\ IsRead THEN Load ELSE NoLoad
        /\ reading' = ((IF IsAddress THEN IsRead ELSE reading) /\ "P" \notin irq)
     \/ /\ "RBF" \notin irq /\ reading /\ "NACK" \notin irq
        /\ Load /\ held' = FALSE /\ reading' = ("P" \notin irq)
     \/ /\ "RBF" \notin irq /\ reading /\ "NACK" \in irq
        /\ NoLoad /\ reading' = FALSE /\ UNCHANGED held
     \/ "RBF" \notin irq /\ ~reading /\ NoLoad /\ UNCHANGED <<held, reading>>
  /\ stat1' = stat1 \ ({"I2COV"} \union (IF "RBF" \in irq THEN {"RBF"} ELSE {}))
  /\ open' = ((open \/ {"RBF", "ADDR"} \subseteq irq) /\ "P" \notin irq)
  /\ irq' = NoHandler
  /\ flag' = IF ClearsFirst THEN flag ELSE FALSE
  /\ UNCHANGED <<role, on, active, bus, crowded>>

-----------------------------------------------------------------------------
(* The bus.                                                                 *)

BusMoves == active /\ (InHandler => ~crowded) /\ crowded' = InHandler
            /\ UNCHANGED <<role, on, active, reading, irq, skipped, open>>

\* A byte arrives; one that finds RCV full is lost and latches I2COV.
Receive(bits) ==
  stat1' = bits \union (IF "RBF" \in stat1 THEN (stat1 \intersect {"I2COV"}) \union {"RBF", "I2COV"}
                        ELSE (stat1 \intersect {"I2COV"}) \union {"RBF"})

\* START or repeated START with our address: SCL is held.  It takes ten bit
\* times from the event before, so it does not fall into that event's handler.
BusAddress ==
  /\ BusMoves /\ ~InHandler /\ ~held /\ bus # "read"
  /\ \E dir \in {"read", "write"} :
       bus' = dir /\ Receive({"ADDR"} \union (IF dir = "read" THEN {"R_W"} ELSE {}))
  /\ held' = TRUE /\ flag' = TRUE /\ trn' = FALSE

BusWrite ==
  /\ BusMoves /\ ~held /\ bus = "write"
  /\ Receive({}) /\ flag' = TRUE /\ UNCHANGED <<bus, held, trn>>

\* The master clocks the byte in TRN and answers; after an ACK SCL is held.
BusRead ==
  /\ BusMoves /\ ~held /\ bus = "read" /\ trn
  /\ trn' = FALSE /\ flag' = TRUE
  /\ \/ bus' = "read" /\ held' = TRUE /\ stat1' = stat1 \ {"NACK"}
     \/ bus' = "done" /\ held' = FALSE /\ stat1' = stat1 \union {"NACK"}

BusStop ==
  /\ BusMoves /\ ~held /\ bus \in {"write", "done"}
  /\ bus' = "free" /\ stat1' = stat1 \union {"P"} /\ flag' = TRUE /\ UNCHANGED <<held, trn>>

SlaveHandler == EventIrq \/ Sample \/ Serve
Bus == BusAddress \/ BusWrite \/ BusRead \/ BusStop

SlaveInitState ==
  /\ active = FALSE /\ reading = FALSE /\ flag = FALSE /\ stat1 = {} /\ held = FALSE /\ trn = FALSE
  /\ bus = "free" /\ irq = NoHandler /\ crowded = FALSE /\ skipped = FALSE /\ open = FALSE

-----------------------------------------------------------------------------
(* Properties.                                                              *)

Stat1Bits == {"RBF", "ADDR", "R_W", "NACK", "P", "I2COV"}

SlaveTypeOK ==
  /\ {active, reading, flag, held, trn, crowded, skipped, open} \subseteq BOOLEAN
  /\ stat1 \subseteq Stat1Bits /\ irq \subseteq Stat1Bits \union {"idle", "entered", "sampled"}
  /\ bus \in {"free", "write", "read", "done"}

\* Once the handler has nothing left to run for, nothing is left undone: SCL is
\* not held, no byte waits in RCV, no overflow is latched, a master that reads
\* has its byte, a stop was reported; and no byte of on_tx_byte was skipped.
SlaveKeepsUp ==
  /\ ~skipped
  /\ active /\ ~InHandler /\ ~flag =>
       /\ ~held /\ stat1 \intersect {"RBF", "I2COV"} = {}
       /\ bus = "read" => trn /\ reading
       /\ bus = "free" => ~reading
       /\ open = (bus # "free")

=============================================================================
