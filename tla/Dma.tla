--------------------------------- MODULE Dma ---------------------------------
(* The channels of the DMA controller (hal_dma): the thread configures and  *)
(* enables them and masks their interrupts, their handlers take what they   *)
(* announce, and their interrupt enables share a byte with the enables of   *)
(* other peripherals, whose own handlers change them at any time.           *)
EXTENDS Naturals, FiniteSets

CONSTANTS Channels,    \* the channels
          Neighbours,  \* the other peripherals with an enable in the same byte of IECx
          NoChannel,   \* stands for none of them
          MaxConfigs   \* bound on the configurations of a channel

ASSUME DmaAssumption == Channels \cap Neighbours = {} /\ NoChannel \notin Channels /\ MaxConfigs \in Nat

Marks == {"HALF", "DONE"}
\* An event bears the configuration it belongs to.
MarksOf(runs) == [mark : Marks, run : runs]

VARIABLES
  ready,     \* the controller is on, with its address window
  chan,      \* the registers of each channel
  enabled,   \* the byte of interrupt enables
  owned,     \* what the neighbours last made of theirs
  call,      \* the thread's call: its channel, where it is, what it asks, the byte as it last saw it
  taking     \* the handler under way: its channel, where it is, its snapshot

dmaVars == <<ready, chan, enabled, owned, call, taking>>

Runs == 0 .. MaxConfigs
NoCall == [ch |-> NoChannel, at |-> "none", irq |-> FALSE, repeat |-> FALSE, byte |-> {}]
NotTaking == [ch |-> NoChannel, at |-> "off", snap |-> {}]

\* `flight` is the element the channel was moving as it was disabled, which may still finish.
DmaInitState ==
  /\ ready = FALSE
  /\ chan = [c \in Channels |-> [on |-> FALSE, repeat |-> FALSE, run |-> 0, stat |-> {}, flag |-> FALSE, flight |-> {}]]
  /\ enabled = {} /\ owned = {} /\ call = NoCall /\ taking = NotTaking

-----------------------------------------------------------------------------
(* The hardware.                                                            *)

\* The DMA reaches the middle or the end of its count; a single shot ends with it.
Reaches(c, e) ==
  /\ chan[c].on
  /\ chan' = [chan EXCEPT ![c].stat = @ \cup {[mark |-> e, run |-> chan[c].run]}, ![c].flag = TRUE,
                          ![c].on = e = "HALF" \/ chan[c].repeat]
  /\ UNCHANGED <<ready, enabled, owned, call, taking>>

\* The element that was under way as the channel was disabled finishes.
Lands(c) ==
  /\ \E e \in chan[c].flight :
       chan' = [chan EXCEPT ![c].stat = @ \cup {e}, ![c].flag = TRUE, ![c].flight = {}]
  /\ UNCHANGED <<ready, enabled, owned, call, taking>>

\* A handler of another peripheral enables or disables its interrupt.
NeighbourMoves(n) ==
  /\ \E wanted \in {owned \cup {n}, owned \ {n}} :
       owned' = wanted /\ enabled' = (enabled \ Neighbours) \cup wanted
  /\ UNCHANGED <<ready, chan, call, taking>>

-----------------------------------------------------------------------------
(* A channel's handler, which takes a snapshot: flag, status, status.       *)

IsrEnters(c) ==
  /\ taking.at = "off" /\ chan[c].flag /\ c \in enabled
  /\ taking' = [ch |-> c, at |-> "read", snap |-> {}]
  /\ chan' = [chan EXCEPT ![c].flag = FALSE]
  /\ UNCHANGED <<ready, enabled, owned, call>>

IsrReads ==
  /\ taking.at = "read"
  /\ taking' = [taking EXCEPT !.at = "wipe", !.snap = chan[taking.ch].stat]
  /\ UNCHANGED <<ready, chan, enabled, owned, call>>

IsrLeaves ==
  /\ taking.at = "wipe"
  /\ chan' = [chan EXCEPT ![taking.ch].stat = {}]
  /\ taking' = NotTaking
  /\ UNCHANGED <<ready, enabled, owned, call>>

-----------------------------------------------------------------------------
(* The thread: calls of one register are one step, a configuration is many. *)

Caller(at) == taking.at = "off" /\ call.at = at
Goes(at) == call' = [call EXCEPT !.at = at, !.byte = enabled]

\* Mutant of StoreEnable: the byte is read, changed and written back.
StoreByte(c, on) == enabled' = IF on THEN call.byte \cup {c} ELSE call.byte \ {c}
\* NORA_DMA_IRQ_IE_WRITE: a literal is written to the one bit.
StoreEnable(c, on) == enabled' = IF on THEN enabled \cup {c} ELSE enabled \ {c}

\* nora_dma_global_is_ready
IsReady == ready

GlobalInit ==
  /\ Caller("none") /\ ready' = TRUE
  /\ UNCHANGED <<chan, enabled, owned, call, taking>>

\* What may still finish is of the configuration the channel runs.
Halted(r) ==
  [r EXCEPT !.on = FALSE, !.flight = IF r.on THEN MarksOf({r.run}) ELSE @]

\* nora_dma_channel_enable
ChannelEnable(c, on) ==
  /\ Caller("none") /\ on => IsReady
  /\ chan' = [chan EXCEPT ![c] = IF on THEN [@ EXCEPT !.on = TRUE] ELSE Halted(@)]
  /\ UNCHANGED <<ready, enabled, owned, call, taking>>

\* nora_dma_irq_enable, and nora_dma_irq_disable_save and _restore, which a caller pairs.
IrqEnableBegins(c, on) ==
  /\ Caller("none")
  /\ call' = [NoCall EXCEPT !.ch = c, !.at = "write", !.irq = on, !.byte = enabled]
  /\ UNCHANGED <<ready, chan, enabled, owned, taking>>
IrqEnableEnds ==
  /\ Caller("write")
  /\ StoreEnable(call.ch, call.irq) /\ call' = NoCall
  /\ UNCHANGED <<ready, chan, owned, taking>>

\* nora_dma_clear_status, nora_dma_clear_irq_flag
ClearStatus(c) ==
  /\ Caller("none") /\ chan' = [chan EXCEPT ![c].stat = {}]
  /\ UNCHANGED <<ready, enabled, owned, call, taking>>
IrqClearFlag(c) ==
  /\ Caller("none") /\ chan' = [chan EXCEPT ![c].flag = FALSE]
  /\ UNCHANGED <<ready, enabled, owned, call, taking>>

\* nora_dma_channel_config: refused before any register is touched unless the controller is
\* ready and the request means something.
ConfigBegins(c, irq, repeat) ==
  /\ Caller("none") /\ IsReady /\ chan[c].run < MaxConfigs
  /\ call' = [ch |-> c, at |-> "mask", irq |-> irq, repeat |-> repeat, byte |-> enabled]
  /\ UNCHANGED <<ready, chan, enabled, owned, taking>>

\* Mutant of LineMasked: the interrupt stays as it is.
LineMaskedNot == UNCHANGED enabled
LineMasked == StoreEnable(call.ch, FALSE)
ConfigMasks ==
  /\ Caller("mask") /\ LineMasked /\ Goes("stop")
  /\ UNCHANGED <<ready, chan, owned, taking>>

ConfigStops ==
  /\ Caller("stop") /\ Goes("clear")
  /\ chan' = [chan EXCEPT ![call.ch] = Halted(@)]
  /\ UNCHANGED <<ready, enabled, owned, taking>>

ConfigClears ==
  /\ Caller("clear") /\ Goes("program")
  /\ chan' = [chan EXCEPT ![call.ch].stat = {}, ![call.ch].flag = FALSE]
  /\ UNCHANGED <<ready, enabled, owned, taking>>

ConfigPrograms ==
  /\ Caller("program") /\ Goes("clearAgain")
  /\ chan' = [chan EXCEPT ![call.ch].run = @ + 1, ![call.ch].repeat = call.repeat]
  /\ UNCHANGED <<ready, enabled, owned, taking>>

\* Mutant of Fresh: the status is taken to be clear already.
FreshAssumed(r) == [r EXCEPT !.flight = {}]
\* By now an element under way has finished.
Fresh(r) == [r EXCEPT !.stat = {}, !.flag = FALSE, !.flight = {}]
ConfigClearsAgain ==
  /\ Caller("clearAgain") /\ Goes("unmask")
  /\ chan' = [chan EXCEPT ![call.ch] = Fresh(@)]
  /\ UNCHANGED <<ready, enabled, owned, taking>>

ConfigEnds ==
  /\ Caller("unmask")
  /\ StoreEnable(call.ch, call.irq) /\ call' = NoCall
  /\ UNCHANGED <<ready, chan, owned, taking>>

CallerNext ==
  \/ GlobalInit \/ IrqEnableEnds
  \/ ConfigMasks \/ ConfigStops \/ ConfigClears \/ ConfigPrograms \/ ConfigClearsAgain \/ ConfigEnds
  \/ \E c \in Channels :
       \/ ClearStatus(c) \/ IrqClearFlag(c)
       \/ \E on \in BOOLEAN : ChannelEnable(c, on) \/ IrqEnableBegins(c, on)
       \/ \E irq, repeat \in BOOLEAN : ConfigBegins(c, irq, repeat)

DmaNext ==
  \/ CallerNext \/ IsrReads \/ IsrLeaves
  \/ \E n \in Neighbours : NeighbourMoves(n)
  \/ \E c \in Channels : IsrEnters(c) \/ Lands(c) \/ \E e \in Marks : Reaches(c, e)

DmaSpec == DmaInitState /\ [][DmaNext]_dmaVars
-----------------------------------------------------------------------------
Configuring == {"stop", "clear", "program", "clearAgain", "unmask"}

ChanRegs == [on : BOOLEAN, repeat : BOOLEAN, run : Runs, stat : SUBSET MarksOf(Runs), flag : BOOLEAN,
             flight : SUBSET MarksOf(Runs)]

DmaTypeOK ==
  /\ ready \in BOOLEAN
  /\ chan \in [Channels -> ChanRegs]
  /\ enabled \subseteq Channels \cup Neighbours /\ owned \subseteq Neighbours
  /\ call \in [ch : Channels \cup {NoChannel}, at : {"none", "write", "mask"} \cup Configuring, irq : BOOLEAN,
               repeat : BOOLEAN, byte : SUBSET (Channels \cup Neighbours)]
  /\ call.at # "none" => call.ch \in Channels
  /\ taking \in [ch : Channels \cup {NoChannel}, at : {"off", "read", "wipe"}, snap : SUBSET MarksOf(Runs)]
  /\ taking.at # "off" => taking.ch \in Channels

\* A handler takes no event of a configuration before the present one: the halves it
\* hands over are of the buffer the channel fills now.
SnapshotIsOfThisRun == \A e \in taking.snap : e.run = chan[taking.ch].run

\* No handler runs for a channel whose registers are being programmed.
ConfigIsQuiet == call.at \in Configuring => taking.ch # call.ch

\* Whatever the thread does to the enables of its channels, the other peripherals' in
\* the same byte are as their own drivers left them.
NeighboursKeepTheirs == enabled \cap Neighbours = owned
=============================================================================
