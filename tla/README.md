# A formal model of dspic33ak-hal-starter

The repository is the firmware of a dsPIC33AK board: a hardware abstraction
layer (UART, I2C, SPI, TDM audio, CAN FD, GPIO, DMA, timers, touch, clock,
flash) and, on top of it, a console that receives a new firmware image over
XMODEM into the inactive half of the flash and switches the board to it.

The modules here are translated from the C sources. `PROJECT.json` maps each
definition to the lines it stands for, lists the components, the runs, the
theorems, and the hazards the properties are for.

## Inventory

One core, no scheduler: a main loop that polls, and interrupt handlers that
preempt it. `main` polls the console; `*fua5` runs `xmodem_receive` on the UART
ring with `fw_sink` as its callback, which programs flash; `*fca5` runs
`fw_commit` and resets. The handlers share the UART ring, the transfer
descriptors, the GPIO slots, the tick, the CAN node and the audio blocks with the
main loop, and the bits of the interrupt and port registers with each other.

| Part | State | Operations | What is hard | Correct when |
|---|---|---|---|---|
| Firmware receive, `fw_update.c` | receive context, row buffer, gate | `fw_update_receive`, sink, row flush, finalize, read-back | power loss and flash faults anywhere, packages that lie, the gate outliving its receive | what is armed is a whole released image; nothing touches the running half |
| Commit, `fw_btseq.c` | a BTSEQ word per partition | `fw_commit`, roll-back, reset | several flash operations that must act as one | a reset always boots a whole image; the switch is atomic |
| Partition configuration, `fw_uca.c` | none (reads flash) | validate | | no swap to another pin configuration |
| Flash HAL, `hal_nvm` | the flash | erase page, program row or word, verify, read | operations that fail, lie, or are cut short | rows are programmed on erased cells only |
| XMODEM-CRC, `xmodem.c` | block number, error count | `xmodem_receive` | loss, damage, duplicates, timeouts, a sender that disappears | the sink sees the file, in order and once; it always returns |
| UART, `hal_uart` | ring, async descriptors, counters, line enables | handlers, read, flush, start, abort, status, init, polled calls | handler against thread at every store; a line switched off under a transfer | the ring is a queue, a transfer is whole and ends, nothing is stored past a buffer |
| Console, `console/fw_command.c` | line, discard and quiet flags | poll | polls against bursts, plain files, what a failed update leaves behind | no file byte is typed, the audio stands still while flash is written and comes back |
| GPIO events, `nora_gpio_event` | per-pin slots | attach, detach, mask, handler | changes between the sample and the clearing | no change outside a handler run is missed, edges alternate |
| Pins, `nora_gpio`, `nora_pps` | port registers, routes, the lock | configure, drive, pinmux out and in | read and write of a register that a handler also drives; half a pinmux | a pin is as its calls asked, without a glitch |
| I2C, `hal_i2c` | master transaction, pending bus, slave callbacks | blocking and split transfers, recovery, slave service | a pending bus claimed, abandoned, recovered; timeouts; flags of an earlier START | OK means the transaction was on the bus; the bus never stays blocked |
| SPI, `hal_spi` | configuration, buffers in hardware | transfers, wait, clear error | a byte that comes in after its timeout | a transfer returns its own bytes |
| TDM audio, `hal_spi_i2s_tdm` | instances, domains, one CLC, halves | configure, start and stop domains, DMA handlers, status | several legs as one, roll-back, late handlers | all of a domain runs or none; every half is delivered or counted |
| CAN FD, `hal_can` | node state, tx busy, callback | node operations, transmit, receive, handler | mode changes with timeouts, overflow while it is served | what starts ends, what is dropped is told |
| DMA, `hal_dma` | channel registers, flags | configure, enable, status, interrupt enables | an event of the run before; a byte of enables with other owners | a handler sees events of its run only |
| Timers, `hal_timer` | tick, load profile | init, interrupt, hooks, windows, snapshot | period that does not divide, wrap, nested handlers | a tick is a millisecond, every tick has an owner |
| Touch, `hal_touch` | scan lists, keys, learning | init, scan, process, acquisition, thresholds, events | results of old settings, drift, noise, a scan that stalls | a press is a touch; scans go on |
| Clock, `hal_clock`, `clock/` | PLL, generator, declared sources | solve, configure, switch, divide | waits that time out and finish later, the failure monitor | the CPU is within its limit and the reported clock is real |
| Switches, `board_components/led_sw.c` | debounce, latch | init, update, change callback | bounce over a wrapping tick | what is shown is settled, and in the end true |
| Touch console, `app_console_line.c`, `touch_console.c` | none | messages of module 'k' | | |
| Board, demos (`main.c`, `app/`) | demo state | main loop | | |
| Host tools (`tools/*.py`, `buildtools/`) | none | file conversion | | |

## Modules

| Module | Models | Composes |
|---|---|---|
| `Btseq` | the BTSEQ word, and what an erase or a program cut short makes of it | |
| `DualPartition` | `fw_update.c`, `fw_btseq.c`, `fw_uca.c` over two partitions with power loss and flash faults | `Btseq` |
| `ABUpdate` | the promise: an atomic A/B update | |
| `DualPartitionRefinement` | the mapping under which `DualPartition` implements `ABUpdate` | both |
| `Xmodem` | the receiver, the line and the sending program | |
| `BlockStream` | the promise: the sink gets the file, block by block | `Xmodem` implements it |
| `UartRx` | receive handler, ring, asynchronous receive, the thread's calls | |
| `ByteQueue` | the promise: a bounded queue | `UartRx` implements it |
| `UartTx` | asynchronous transmit: start, abort, handler, completion callback | |
| `UartControl` | init, deinit, line enables, baud rate, polled calls of one UART | |
| `Console` | the command console and the audio demo it pauses | |
| `GpioEvent` | the change-notification events of one port | |
| `PinMux` | pin configuration and remappable pins, against a handler on the same port | |
| `I2cCommon`, `I2cMaster`, `I2cSlave` | the two engines of one I2C instance | `I2c` composes them |
| `Spi` | the blocking SPI master | |
| `CanFd` | the node and its event layer against its handler | |
| `TdmDomains` | the legs, their sync domains and the CLC | |
| `TdmFrame` | the frame-sync settings of one leg | |
| `TdmStream` | the halves of one running leg | |
| `Dma` | the channels of the DMA controller | |
| `Clock` | PLLs, the CPU's generator, declared sources | |
| `Rates` | the tick, and the divisors, bit times and lengths derived from a clock | |
| `CpuLoad` | the load profiler | |
| `LedSw` | the two switches | |
| `Itc` | scan lists, core and converter of the touch controller | |
| `Touch` | the scans of list 0 and one key | |
| `Buses` | drivers that poll and wait | `I2c`, `Spi`, `UartControl` |
| `Streams` | drivers moved by handlers and DMA | `UartTx`, `CanFd`, `TdmDomains`, `TdmFrame`, `TdmStream`, `Dma` |
| `Board` | what the board stands on and is operated by | `Clock`, `Rates`, `PinMux`, `GpioEvent`, `CpuLoad`, `LedSw`, `Itc`, `Touch` |
| `DualPartitionProofs`, `XmodemProofs`, `UartRxProofs`, `ConsoleProofs`, `StreamsProofs`, `BusesProofs`, `TimeProofs`, `BoardProofs` | theorems | `BoardProofs` extends `TimeProofs` |
| `MCDualPartition`, `MCDualPartitionRows`, `MCXmodem`, `MCBoard`, `MCTouch` | the packages, geometries and settings TLC uses | |

The layers meet through their promises rather than in one state space:
`DualPartition` takes the payload of a package as a stream of blocks in order,
which is `BlockStream`, checked of `Xmodem`; `Xmodem` reads from a queue that
may lose bytes, which is `ByteQueue`, checked of `UartRx`; `Console` takes a
receive that ends (`Xmodem!Terminates`) and a commit that fails or resets
(`DualPartition`); every driver takes a tick that counts, which is `Rates`.

`Buses`, `Streams` and `Board` put drivers side by side that share no variable:
the initial state picks one, and only it moves. What composes inside them is
what does interact: the two I2C engines on one instance, the thread, the handler
and the hardware of each driver. Each of their invariants is a conjunction
of promises that the modules state and comment one by one; a mutant per promise
at risk shows that the conjunct has teeth.

### DualPartition

State: the two partitions' flash rows (a row is a tuple of cells, `Fill` when
erased), their BTSEQ words and configuration verdicts, which one is active,
`pc` for the step inside a receive or a commit, and the receive context of
`fw_update.c` (`expectedLen`, `received`, row buffer, ...) and `verified`, the
gate. One action per flash operation, for these are the points where power can
be lost or an operation can go wrong; each has its outcomes: done, reported
failed (with or without effect), and, in the fault runs, reported done without
effect or with a disturbed row. `PowerLoss` cuts an operation short (a torn
erase or program leaves any intermediate word) and boots what the device selects.

Abstractions: a cell is a value, and the CRC of a sequence of cells is the
sequence itself (an ideal CRC); an erase that reports success has erased; words
that were torn can still be read (a read that traps on an ECC error is not
modelled); BTSEQ words are over-approximated by their numeric content. A latch
`exposed` remembers that a roll-back failed or was cut short: that is the one
way, which the code itself reports as needing service, in which a board can be
left without an image to boot, and `BootIsIntact` names it. The receive context
is cleared when a receive returns, since the code never reads it again.

### Xmodem

The receiver is `xmodem_receive` with each wait as a choice between a byte and
the timeout; line and sender are external: two queues, faults that lose or
damage a block, an ACK or a NAK, and a program that repeats, stalls, aborts or
disappears. A stall inside a block counts as a fault, and the three CANs of
an abort are one token. Block numbers are modulo `Wrap`, which has to exceed
how far a sender can run ahead, as 256 does.

### UartRx, UartTx

The thread's calls are split at every store the handler can see; a handler is
atomic to the thread (it has the higher priority) but not to the hardware, which
moves FIFO bytes between any two of its steps. The receive flag is set when a
byte arrives, which is weaker than a flag held by a FIFO that is not empty, so
what holds here holds there. A completion callback may restart its own
direction, as the repository's callbacks do. Stores are taken in program order,
and the transmitter is taken as enabled with a non-zero interrupt priority.
`count` of a receive is the model's measure of bytes stored.

### Console

A poll is a step per byte, so bytes and ticks fall anywhere between. The text
of a command is one token, and the two update commands are a receive and a
commit that end somehow. A byte remembers its `burst`: bytes with less than
`Idle` between them belong together, as those of one file do.

### GpioEvent

One port. Registers the hardware also writes are changed by a read and a
write, and every slot field by its own step; the handler preempts the thread
between any two. `told` is what a user last heard, `masked` the pins whose last
change came where the code may miss it: inside a handler run or a call that
clears the port's flag. The code does miss changes there (the level is read
before the change bit is cleared), which is why `ChangesAreTold` is stated
for the others.

### UartControl

Each call is a step; what its stores interleave with is in `UartRx` and `UartTx`.
`Reinit` is FALSE in the run: initializing a live instance is left to the caller,
and with it TRUE a ring's interrupt enable can survive into polling mode.

### PinMux

A call is the list of its register accesses, each a load and a store with the
interrupts masked in between, as `nora_gpio_dspic33ak_reg.h` does; a handler drives
a light of its own on the same port wherever it is not masked. `asked` is what all calls
so far asked for. Which pad and function have which number is the device's table
and is left out.

### I2cMaster, I2cSlave, I2c

A call of the master is a sequence of register steps and waits; the
controller completes, stalls or refuses each request at its own pace and its
event bits stay until cleared, so that those of one START can be taken for the
next. The tick is kept as two ages modulo `TickMod`. The slave's handler clears,
samples and serves in separate steps, with the bus moving in between, once in a
run. On one instance the role keeps the engines apart; `CrossDeinit` FALSE is the
documented rule that a live master is not released as if it were a slave, and
without it the engines can both be live.

### Spi

Bytes are numbered in the order of writing, so a byte out of step is seen. Poll
counts may run out at any poll. A transfer that gave up on a byte under way is
remembered in `late`: the code then does hand that byte to the next transfer, and
`OwnBytes` names the case.

### CanFd

Each call is the list of its stores and waits, any of which may run into its
timeout or be preempted by the handler; the callback drains the FIFO and may
send again. Frames are counted. Only the queue of `Depth` objects and one FIFO
are modelled, as the driver configures.

### TdmDomains, TdmFrame, TdmStream

`TdmDomains` starts leg by leg, since each may fail to arm, and knows of the
clock logic which leg owns it. `TdmFrame` has no state: its invariant compares, for
every configuration the driver accepts, the frame sync that comes out of the pin with
the slots asked for. `TdmStream` is the receive buffer in quarters, the
handler's five steps, and the status call that reads two counters. Whether an event
that arrives between the handler's read and its clearing of the status stays latched is not known of
the hardware, so both happen.

### Dma

A configuration is a step per store, and the handler of a running channel is three.
An event may still land after a channel is switched off, until its status is
cleared a second time. `Neighbours` are the other peripherals whose enables lie in the
same byte; their handlers change them between any two steps.

### Clock, Rates

`Clock` is in kHz; a command whose wait runs out is half done, which `unsure`
remembers, and may finish later. The properties exempt only the source that is
unsure. `Rates` has a tick that runs, and the pure searches: each is checked against
a definition that tries every setting. The widths under which the arithmetic is
exact are `RatesAssumption`.

### CpuLoad, LedSw

The hooks run with interrupts masked, so each is a step; the timer wraps at
`Wrap`, and a gap between two hooks stays under half of its range, as the code
requires. `LedSw` assumes a main loop that comes round within `MaxGap`.

### Itc, Touch

`Itc` is the lists' shared core; a time is rounded up in 32 bits, and `TimesAreMet`
holds as far as the picoseconds fit them (a period up to 4294 us). `Touch` keeps a
key's record field by field, with the settings as a record `T`. Its other keys are one Boolean,
whether they are all quiet. `seen` is what the observer knows: a touch was
measured, an old result was used, what the events told. A key seeded with a
finger on it takes the finger for its baseline; `PressIsTouch` is about the
other direction.

## Runs

| Run | Instance | Shows |
|---|---|---|
| `dual_power` | two pages of two one-cell rows; good packages of two lengths and six wrong ones; BTSEQ down to zero; power loss | `ProgramsVirgin`, `SwapOnlyProvisioned`, `OnlyCommitStamps`; `UpdateIsAtomic`, the refinement of `ABUpdate` |
| `dual_fault` | two-cell rows, blocks of two and four cells, one faulty flash operation, power loss | `BootIsIntact`, `ActiveSelected`, `VerifiedImageIntact` |
| `dual_stamp` | two faulty operations | violation, below |
| `xmodem_line` | four blocks, one of 1K; block numbers modulo 3; one fault, one repetition, one stall or abort | `StreamsFile` (refinement of `BlockStream`), `OKMeansComplete`, `Terminates` |
| `xmodem_ok` | two blocks | violation, below |
| `uart_rx` | ring of three slots, FIFO of two, transfers of one and two bytes from thread and callback, reads, flushes, status calls | `TransferFits`, `CompleteMeansFull`, `CleanTransferIsWhole`, `ReaderIsSafe`, `SnapshotConsistent`, `ByteTaken`, `RingIsQueue` (refinement of `ByteQueue`) |
| `console` | lines of one, polls of two, ring of two, tick modulo 2, four bytes of every kind and command | `LineIsTyped`, `FlashIsUndisturbed`, `DemoComesBack`, `ConsoleComesBack` |
| `console_quiet` | as above | violation, below |
| `board` | one behaviour per subject: clock, tick, rates, pins, port, load, switch, lists, key | `PinsAreOrderly`, `ChangesAreTold`, `CallsAreWhole`, `EdgesAlternate`, `TimeIsTrue`, `KeysAreTrue`, `KeysAreScanned` |
| `buses` | I2C master and slave, SPI, UART control | `ReportsAreTrue`, `LineIsOrderly`, `DriversAreSettled`, `CallsReturn` |
| `streams` | UART transmit, CAN FD, TDM domains and stream, DMA | `DriversAreSettled`, `NothingIsLostUnseen`, `DomainsRunWhole`, `StreamIsAccounted`, `FailureIsUndone`, `TransmissionsEnd` |
| `touch_events` | one key | violation, below |

Why these bounds are enough. Two pages are a first page that an image crosses
and the final one that also holds the word; every row boundary, a partial last
row, an image that ends before, at and beyond the last legal row all occur. Two
generations of the number reach its exhaustion and an update in each direction.
With block numbers modulo 3 a duplicate, the expected block and a block neither of
these are all distinct, and four blocks wrap. A ring of a few slots wraps, is
full, and is empty within a few bytes. Two pins are the pin that is handled and
the one that changes meanwhile. A tick modulo 3 with timeouts of 0, 1 and 2 meets
every timeout on both sides of the wrap; one fault of the bus is one at each step. Three legs in two
domains are a domain with a slave, one without, and one that ran before. Six halves
are three turns of the buffer. One channel is enough for what a channel does to its
own handler, and the theorems of `StreamsProofs` are for any number. A queue of one
CAN object is full, and a FIFO of one overflows, with the first frame. The rates
include one for each result of each search. A key's settings are the smallest at
which each count still takes two steps or each limit is met.

All bounds are constants of the modules and named there (`MaxFaults`,
`MaxResends`, `MaxTransfers`, `MaxBytes`, `MaxEdges`, `MaxCalls`, `MaxFrames`,
`MaxStalls`, `MaxHalves`, `MaxConfigs`, `MaxTimeouts`, `MaxInterrupts`,
`MaxTicks`, `MaxRuns`, `MaxResets`, `MaxDisturbed`, `BlockSizes`, `MaxPad`). Where
CHECK_DEADLOCK is FALSE the system stops when such a bound is reached, or when a
transfer or a sender is done.

## Fairness

Only what runs by itself is fair. `Xmodem`: the receiver's steps and its
timeouts (each wait is bounded by the tick), and the rest of a block the sender
has begun, unless it stalls; no other step of the sender and nothing of the line. `UartRx`
and `UartTx`: the handler when its interrupt is pending, the shift register, and
the rest of a call the thread is in; the thread need never make a call. `Console`: the main loop,
the tick, the end of a receive. The strong fairness on a poll that can see
the end of a file says that the loop, which runs many times per millisecond,
does not for ever miss the moments in which the elapsed time reads as long
enough, before the 32-bit tick wraps past it.

`I2c`: the rest of a call, and the tick, without which no wait would end;
nothing of the bus. `CanFd`: the rest of a call, the handler and its callback, and a bus
that takes what is queued while the node is on it. `Touch`: a main loop that
starts the layer and polls, and a list that takes or ignores what it is asked
and finishes what it took; `MaxDisturbed` bounds how often it ignores. `LedSw`:
the main loop's update, the tick, and a contact that stops bouncing. In `Buses`, `Streams` and `Board` the fairness
is that of the module at work; it asks nothing of the others, whose actions
are not enabled or are guarded by the subject.

## Proofs

For every value of the constants, under the named assumptions of each module and
those a theorem names:

- `DualPartitionProofs`, of the boot number: it decodes to itself
  (`EncodeDecodes`); an erase or a stamp cut short gives an invalid word or the
  number it should (`TornEraseKeepsSeq`, `TornStampIsAtomic`). Of the update:
  `TypeCorrect`, `BootAlwaysIntact`, `ActiveStaysSelected`, `VerifiedStaysIntact`,
  for any geometry, any images and packages and any number of faults. None of the
  three safety invariants is inductive alone. The inductive one is `SafeInv`:
  types; `FlashSafe`, that the active partition is intact and has the number a
  reset selects, at every `pc`; `TransferOK`, that what the context says was
  received is what lies in the inactive rows and the row buffer; `GateOK`, that the
  gate and every step of a commit stand on an image read back in full. One lemma
  per action shows that it is preserved. `ProgramsOntoVirgin` adds what is known of
  the rows ahead of the one in hand (`VirginOK`, `RestVirgin`); `SwapsProvisioned`, that
  a commit past its check has found the configuration provisioned (`UcaChecked`);
  `CommitAloneStamps` follows from the torn words. `UpdateAtomic` is the refinement
  of `ABUpdate`: every step is the abstract switch, a staging, or a stutter. It assumes
  `MaxFaults = 0`, since a faulty roll-back does lose atomicity (`dual_stamp`); power may
  be lost anywhere.
- `XmodemProofs`. `NumbersKeepCount`: the blocks the sink took go up and carry the numbers
  1, 2, 3 modulo `Wrap`, for every file and line. The invariant is that the wire is sorted: a
  body in hand or on it is never older than the last one delivered nor than one before
  it (`OrderOK`). `SinkGetsTheFile`, the refinement of `BlockStream`, follows if the
  file has at most `Wrap` blocks (256 in the code) or the line is clean; see the limits
  below. `OKIsComplete`: without a fault, what the receiver has in hand and what is on the wire is one
  chain (`Flight`, `Chain`) of header, body, header, body that ends where the sender
  stands (`Tip`), so that an EOT is there only behind the last block.
- `UartRxProofs`: `TypeCorrect`, `ReadsAreSafe`, `TransfersFit`,
  `CompletionsAreFull`, `SnapshotsAgree` for any ring, FIFO and transfer lengths.
  The inductive invariant adds `CallOK`, `ClosedOK`, `SetUpOK` and `CountsOK`:
  what is known at each step of a call about the interrupt enable, the
  descriptor being set up and the counters, which is what the handler's freedom
  at that step depends on. `RingRefinesQueue` is the refinement of `ByteQueue`: a store of the
  handler is an arrival or a loss, a head moved is a read, a flush drops all.
  `CleanTransfersAreWhole` needs to know where each byte that arrived is (`BytesOK`): in
  the FIFO, the buffer, the ring, or lost.
- `ConsoleProofs`. `FilesAreNotTyped`: a byte remembers its burst, and while the line has
  been silent for less than `Idle` the burst of the last byte is not spoiled or a file is being
  discarded (`FreshOK`). What makes it hold across a wrap of the tick is `FileOK`: once
  all of a file is read, the elapsed time that the code sees is at most the silence there really was.
  `DemoIsStill` and `DemoIsBack`: the audio runs when it is started, stays stopped while
  an image waits, and if it does not come back the console has said so (`DemoOK`).
- `StreamsProofs`: the four invariants of `Streams` and `FailuresAreUndone`, from one inductive
  invariant per driver. *DMA*: an event of an earlier run may be in a status only
  until the second clearing of a configuration (`StatusIsOfThisRun`); no handler
  reads it there because the interrupt has been masked since before the channel
  was stopped (`MaskHolds`), and a handler already inside it cannot be preempted by the thread.
  *UART transmit*: what the line and the FIFO hold together is a row in which each byte
  follows the one before, or begins a transfer when the last is full or aborted
  (`Whole`), and ends where the count of the current one stands (`UpTo`). *CAN FD*: a call is
  what is left of a row of steps (`RowOK`), and a record that disagrees with the
  hardware has a step among them that will settle it (`NodeOK`, `ArmOK`). *TDM domains*: while a start
  is under way, what runs is what ran before, the domains it has finished, and a part of the one
  at hand with its masters last (`GoingOK`, `MastersLast`); after a failure what is left is what
  ran before and the domains finished (`FailedOK`), which the roll-back undoes. *TDM stream*: each
  half received is with the counts of the callback, lost, or noted in a status that
  the handler has read or will read (`Accounted`, `Announced`), and a handler that has not
  yet mapped is in time for the half it will hand over, or will count it (`InTime`).
  *Frame sync*: the property is about constants, so it is computed for every width.
- `BusesProofs`. SPI: `TransfersOwnBytes` and `WaitedIsIdle`; the inductive invariant
  says where the last byte is while its call waits (`SpiInStep`) and that nothing is under way
  otherwise. I2C: `ReportsHold`, `LineStaysOrderly`. A call of the master is a row of
  steps and has a row of signals due on the bus; what `MasterInv` keeps is that they match
  (`Matches`): the steps that are left put exactly the signals that are due, the
  signal of the step at work being asked for, made, or refused with an error that ends
  the call (`InStep`). That every call starts with such rows is a lemma about the joining of parts
  (`CallsArePart`). `SlaveInv` says for each phase of the bus what is
  in the status register, what the handler has sampled of it and who holds the clock. UART:
  `UartStaysSettled`, `PollingIsLeftAlone`, assuming that no live instance
  is initialized again: `ModeIsArmed` ties the backend to its interrupt enable. `DriversStaySettled`
  also assumes that a live master is not released as a slave, the rule `CrossDeinit` stands for.
- `BoardProofs`, with `TimeProofs` for the parts that are about time: one inductive invariant per
  part (`BoardInv`), of which a behaviour moves one. *Port*: `TypeCorrect`, `ChangesTold`,
  `CallsWhole`, `FlagsOwned` and `Alternates` for any pins and users, and of the port on the
  board `PortStaysTold`. The invariant follows a call
  through its steps: `QuietOK`, that its pin is switched off, then has no change
  bit, then no place in a run of the handler, so that `SlotOK`, a slot is whole
  outside two stores; `ToldOK`, that the slot remembers what its user was told;
  `SeenOK`, that every other change is pending, about to be dispatched, or told;
  `FlagOK`, that once a call dropped the flag only another pin raises it.
  *Lists*: `ListsStayServed` for any scan lists and configurations; what is
  missing from the property itself is that the driver's record of the core and
  the core's ON bit never part (`RecordIsTrue`). *Pins*: `PinsStayOrderly` for any pads and
  configurations. A call is a row of register operations; what is left of it, applied to the
  registers as they are, gives what was asked (`JobOK`), whatever the handler did to other
  bits between a read and its write; a row touches each register once, sets the direction
  first or last, and sets a pull only behind the clearing of the other (`RowOK`,
  `PullsOK`), from which follows that no pin glitches or is pulled both ways. *Keys*: `KeysTellTruth`
  for any results, thresholds and settings. Once a result was counted off, what runs and
  what waits is of the present settings (`ScansAreCurrent`); as long as no touch was
  measured a key is `Still`: its mean is 0 and its seeds and its baseline are either an
  untouched pad's reading or a failed conversion's, of which `Implausible` lets
  only the one through that is the baseline (`OnlyTheBaseline`); and the event that waits, or
  the last one read, tells the key's state (`KeyIsTold`). `TouchAssumption` says what that takes
  of a failed conversion: that it reads far from an untouched pad, and not so near 0
  that a quarter of it is 0, where the code sets no limit at all.

  `TimeStaysTrue` is the whole of `TimeIsTrue`. *Clock*, for any oscillators, targets and dividers:
  a PLL whose last configuration ended delivers exactly what its registers say and was asked for
  (`PllGood`), the one the CPU runs from or is to run from is up (`PllsAreUp`), and the driver's own
  check before each command keeps source and divider together within the limit (`WithinLimit`),
  also when a switch that timed out completes behind later calls; `SourceIsKnown` and
  `DividerIsKnown` say what such a timeout leaves unknown. The search of the PLL is shown sound
  (`SettingsGive`) and complete (`Solves`) by arithmetic, not by trying its settings. *Rates*: `TickInv` ties the milliseconds to the
  clocks counted, over any number of interrupts and wraps; that each search returns what it
  should is a lemma apiece (`Found`, `Nearest`, `PhaseSolved`, `LengthOf`). *Profiler*, for a counter of any range, any windows and any nesting
  of handlers: every handler has its frame, which holds what it interrupted (`Nested`); the open
  window's ticks and the rest of it make a period (`Whole`); and what was credited, with the
  interval still open, is what the owners and the legs had (`AllIsPaid`). The loop that catches
  up is a recursive function, of which a lemma says that each pass keeps all that
  (`CaughtUpKeeps`). *Lists' times*: what is programmed of a list that is up is what its configuration comes to
  (`CountsAreAsked`), and rounding up covers what was asked (`CountsMeet`).
  *Switches*: `ShownStaysSettled`, the safety part of `KeysAreScanned`, for any settle time: below it,
  how long every update has read a switch at its candidate is what the tick says (`SteadyIsElapsed`).

  What the assumptions ask of the constants there: no source is faster than a PLL takes
  (`ClockAssumption`); the quanta and rates of a CAN bit fit their words (`RatesAssumption`); a
  profile window is shorter than half the counter's range (`LoadAssumption`: the code compares times
  by the sign of their difference, and its windows are fractions of a second where half the
  range is seconds); the touch clock is not so fast that its unit is under 1 ps (`ItcAssumption`).

Every safety invariant and every action property that a passing run checks is a theorem,
under the hypotheses named above. Only model-checked: liveness (`Terminates`, `ByteTaken`, `TransfersEnd`,
`SendsComplete`, `CallsReturn`, `ScansGoOn`, `HeldIsShown`, `ConsoleComesBack`), which rests
on fairness and ENABLED and is out of the prover's reach.

## Where code and comments disagree

- `dual_stamp`: the header of `fw_commit` says every failure leaves the active
  partition untouched and still bootable. A stamp whose operation reports an
  error but took effect, followed by a roll-back erase that fails, returns with a
  reset selecting the other partition. The console does warn of this case.
- `xmodem_ok`: the receiver takes a header byte that reads as EOT at its word,
  so one damaged byte ends a transfer early with `XMODEM_OK`. The package's
  own length and CRC catch that afterwards (`VerifiedImageIntact`).
- `console_quiet`: a `*fua5` refused because the audio cannot be stopped turns
  periodic output on, also when it was off before, against the comment above it.
- `touch_events`: a press that is forgotten by a given-up baseline, a calibration or
  a reconfiguration has no RELEASED event, though the header promises one event per
  occurrence; `nora_touch_is_pressed` is right, a reader of events alone is not.

Limits of the code that the models name, and that are no disagreement with a text:
a change between the level read and the clearing of a change bit is not told
(`ChangesAreTold` excepts it); an SPI byte that comes in after its timeout is the
next transfer's (`OwnBytes`, `late`); an interrupt enabled by `isr_enable` drops the mark of a
byte that arrived since the receiver went on, which the next byte makes up for; a callback that
starts a UART transfer between the thread's busy check and its store makes both
starts succeed, and both are outside `UartTx` because the repository's thread starts only when
idle; the XMODEM purge ends only once the line is quiet; in the profiler, the
gap between two hooks has to stay under half of the timer's range. A block number has eight
bits: over a line that damages blocks and doubles replies, a sender that takes the surplus ACKs of
repeated blocks for those of blocks not yet sent runs ahead of the receiver, and if it ever were a
whole 256 blocks ahead a lost block would be replaced by the one 256 later. With numbers
modulo 3 and eight blocks TLC finds that behaviour, which is why `SinkGetsTheFile` is about
files of at most `Wrap` blocks: every package in blocks of 1K is one. For a longer file of
128-byte blocks there is `NumbersKeepCount`, and the package's CRC (`VerifiedImageIntact`).

## Plan

The modules, runs and proofs above are what was planned. The parts named under *Not modelled*
are where to go on.

## Not modelled

The register tables behind PPS, GPIO, I2C, CAN and UART instances (values
without protocol); the high-resolution timer's conversions; the DMA's software
request, priority and element count; the ring's counters of line errors; the address checks of
`hal_nvm`; a read that traps on an ECC error after power was lost inside an
operation (`fw_btseq.c:35`); the device identifier (constants in flash);
standard output, printing and progress LEDs; the parsing of touch console messages;
the demos in `app/` other than the pause of the audio demo; and the host tools,
whose packages, good and bad, are inputs of `DualPartition`. Of `Rates`, the
arithmetic is checked inside the widths `RatesAssumption` states: beyond them the
16-bit quanta of a CAN bit, a CAN rate that is a multiple of 2^24, and an SPI
rate of 2^31 or more would wrap, none of which a real configuration asks for.
Audio samples, CAN payloads and touch waveforms are data the properties do not
tell apart.
