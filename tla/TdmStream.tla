----------------------------- MODULE TdmStream -----------------------------
(* One running leg of the TDM driver: the receive DMA fills a buffer of two *)
(* halves over and over, its interrupt handler hands each completed half to *)
(* the block callback, the transmit DMA reads its own buffer a little ahead, *)
(* and the thread starts, stops and reads the counters.                     *)
EXTENDS Naturals, FiniteSets

CONSTANT MaxHalves   \* bound on the halves received in one run of the stream

ASSUME StreamAssumption == MaxHalves \in Nat

Events == {"HALF", "DONE"}

VARIABLES
  on,        \* inst->running: the channels are enabled
  pos,       \* the quarter of the buffer the receive DMA is writing
  stat,      \* DMAxSTAT
  dmaIf,     \* the channel's interrupt flag
  dmaIe,     \* its enable
  handler,   \* where tdm_rx_block is, "off" when it does not run
  snap,      \* its status snapshot
  diag,      \* block_count, block_deadline_miss_count, rx_dma_other_irq_count
  halves,    \* what became of the halves: received, unseen by any status, skipped, unannounced
  reader     \* the thread in get_status: its step, the enable it saved, the count it read

streamVars == <<on, pos, stat, dmaIf, dmaIe, handler, snap, diag, halves, reader>>

NoCounts == [blocks |-> 0, misses |-> 0, others |-> 0]
NoHalves == [made |-> 0, unseen |-> 0, skipped |-> 0, hushed |-> 0]
NotReading == [step |-> "none", ie |-> FALSE, blocks |-> 0]

StreamInitState ==
  /\ on = FALSE /\ pos = 0 /\ stat = {} /\ dmaIf = FALSE /\ dmaIe = FALSE
  /\ handler = "off" /\ snap = {} /\ diag = NoCounts /\ halves = NoHalves /\ reader = NotReading

-----------------------------------------------------------------------------
(* The hardware.  An event whose bit is set already adds nothing to STAT.   *)

Crossed == CASE pos = 1 -> {"HALF"} [] pos = 3 -> {"DONE"} [] OTHER -> {}

Transfer ==
  /\ on
  /\ Crossed # {} => halves.made < MaxHalves
  /\ pos' = (pos + 1) % 4
  /\ stat' = stat \cup Crossed
  /\ dmaIf' = (dmaIf \/ Crossed # {})
  /\ halves' = [halves EXCEPT !.made = @ + Cardinality(Crossed), !.unseen = @ + Cardinality(Crossed \cap stat)]
  /\ UNCHANGED <<on, dmaIe, handler, snap, diag, reader>>

HalfOf(quarter) == IF quarter < 2 THEN "FIRST" ELSE "SECOND"

-----------------------------------------------------------------------------
(* tdm_rx_block, the handler of the receive channel.                        *)

Enters == handler = "off" /\ dmaIf /\ dmaIe

\* nora_dma_isr_snapshot: the flag first, then STAT read, then STAT cleared.
FlagCleared == dmaIf' = FALSE
HandlerEnters ==
  /\ Enters /\ FlagCleared
  /\ handler' = "read"
  /\ UNCHANGED <<on, pos, stat, dmaIe, snap, diag, halves, reader>>

HandlerReads ==
  /\ handler = "read" /\ snap' = stat /\ handler' = "wipe"
  /\ UNCHANGED <<on, pos, stat, dmaIf, dmaIe, diag, halves, reader>>

\* Whether an event between the read and the clear stays latched is not known.
Wiped ==
  /\ \/ stat' = {} /\ halves' = [halves EXCEPT !.unseen = @ + Cardinality(stat \ snap), !.hushed = 0]
     \/ stat' = stat \ snap /\ halves' = [halves EXCEPT !.hushed = 0]
  /\ UNCHANGED dmaIf
HandlerWipes ==
  /\ handler = "wipe" /\ Wiped /\ handler' = "map"
  /\ UNCHANGED <<on, pos, dmaIe, snap, diag, reader>>

\* nora_spi_i2s_tdm_diag_check_deadline: both halves wait, so one of them is overwritten.
Late == snap = Events

\* nora_dma_half_from_status: DONE wins.
Source == CASE "DONE" \in snap -> "SECOND" [] snap = {"HALF"} -> "FIRST" [] OTHER -> "NONE"

\* The transmit channel reads up to half a buffer ahead; the other half is filled,
\* unless its address is outside the buffer as it reloads.
Destinations == {IF HalfOf(p) = "FIRST" THEN "SECOND" ELSE "FIRST" : p \in {pos, (pos + 1) % 4}} \cup {"NONE"}

HandlerMaps ==
  /\ handler = "map"
  /\ \E dst \in Destinations :
       LET skip == Source # "NONE" /\ dst = "NONE"
           block == Source # "NONE" /\ dst # "NONE"
       IN  /\ diag' = [blocks |-> diag.blocks + (IF block THEN 1 ELSE 0),
                       misses |-> diag.misses + (IF Late THEN 1 ELSE 0),
                       others |-> diag.others + (IF Source = "NONE" THEN 1 ELSE 0)]
           /\ halves' = [halves EXCEPT !.skipped = @ + (IF skip THEN 1 ELSE 0)]
           /\ handler' = IF block THEN "call" ELSE "off"
  /\ UNCHANGED <<on, pos, stat, dmaIf, dmaIe, snap, reader>>

\* The block callback, and the return.
HandlerReturns ==
  /\ handler = "call" /\ handler' = "off"
  /\ UNCHANGED <<on, pos, stat, dmaIf, dmaIe, snap, diag, halves, reader>>

-----------------------------------------------------------------------------
(* The thread, which runs while the handler does not and is not to be entered. *)

Thread(step) == handler = "off" /\ ~Enters /\ reader.step = step

\* The configuration of the channels and their enabling, from the first word.
ChannelsConfigured == pos' = 0 /\ stat' = {} /\ dmaIf' = FALSE /\ dmaIe' = TRUE
ChannelsStopped == dmaIe' = FALSE
FlagsCleared == stat' = {} /\ dmaIf' = FALSE

\* arm and go: nothing left of the run before.
StartStream ==
  /\ Thread("none") /\ ~on
  /\ on' = TRUE /\ ChannelsConfigured
  /\ diag' = NoCounts /\ halves' = NoHalves
  /\ UNCHANGED <<handler, snap, reader>>

StopStream ==
  /\ Thread("none") /\ on
  /\ on' = FALSE /\ ChannelsStopped /\ FlagsCleared
  /\ halves' = [halves EXCEPT !.unseen = @ + Cardinality(stat), !.hushed = 0]
  /\ UNCHANGED <<pos, handler, snap, diag, reader>>

\* nora_spi_i2s_tdm_inst_set_block_irq_enabled: the flag is cleared first, the
\* status, which has collected the halves of the silence, is not.
SetBlockIrq(enabled) ==
  /\ Thread("none") /\ on
  /\ dmaIe' = enabled /\ dmaIf' = (dmaIf /\ ~enabled)
  /\ halves' = [halves EXCEPT !.hushed = IF enabled THEN Cardinality(stat) ELSE @]
  /\ UNCHANGED <<on, pos, stat, handler, snap, diag, reader>>

\* Mutant of Masked: the enable is left alone.
MaskedNot == UNCHANGED dmaIe
Masked == dmaIe' = FALSE

\* nora_spi_i2s_tdm_inst_get_status (and get_load, set_block_callback): mask, read, restore.
ReadBegins ==
  /\ Thread("none") /\ Masked
  /\ reader' = [NotReading EXCEPT !.step = "first", !.ie = dmaIe]
  /\ UNCHANGED <<on, pos, stat, dmaIf, handler, snap, diag, halves>>
ReadFirst ==
  /\ Thread("first")
  /\ reader' = [reader EXCEPT !.step = "second", !.blocks = diag.blocks]
  /\ UNCHANGED <<on, pos, stat, dmaIf, dmaIe, handler, snap, diag, halves>>
ReadEnds ==
  /\ Thread("second")
  /\ dmaIe' = (dmaIe \/ reader.ie) /\ reader' = NotReading
  /\ UNCHANGED <<on, pos, stat, dmaIf, handler, snap, diag, halves>>

StreamNext ==
  \/ Transfer \/ HandlerEnters \/ HandlerReads \/ HandlerWipes \/ HandlerMaps \/ HandlerReturns
  \/ StartStream \/ StopStream \/ (\E enabled \in BOOLEAN : SetBlockIrq(enabled)) \/ ReadBegins \/ ReadFirst \/ ReadEnds

StreamSpec == StreamInitState /\ [][StreamNext]_streamVars
-----------------------------------------------------------------------------
StreamTypeOK ==
  /\ {on, dmaIf, dmaIe} \subseteq BOOLEAN /\ pos \in 0..3 /\ stat \subseteq Events /\ snap \subseteq Events
  /\ handler \in {"off", "read", "wipe", "map", "call"}
  /\ diag \in [blocks : Nat, misses : Nat, others : Nat]
  /\ halves \in [made : 0..MaxHalves, unseen : Nat, skipped : Nat, hushed : 0..2]
  /\ reader.step \in {"none", "first", "second"}

\* Once no interrupt is pending, every half received was given to the callback,
\* counted as a missed deadline, skipped for want of a transmit half, or never seen
\* by a status: none waits for an interrupt that does not come, but those of a
\* silence, which the next interrupt finds in the status.
HalvesAreAccounted ==
  handler = "off" /\ ~dmaIf =>
    halves.made = diag.blocks + diag.misses + halves.skipped + halves.unseen + halves.hushed

\* A half taken by the handler in time is not the one being overwritten, as long
\* as every event was seen; when both wait, the miss is counted.
FreshUnlessCounted ==
  handler = "wipe" /\ snap = stat /\ halves.unseen = 0 /\ Source # "NONE" /\ ~Late => Source # HalfOf(pos)

\* The counters a status call reports are of one moment.
ReadingIsWhole == reader.step = "second" => reader.blocks = diag.blocks

=============================================================================
