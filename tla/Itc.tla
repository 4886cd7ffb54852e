-------------------------------- MODULE Itc --------------------------------
(* The touch controller's driver (hal_touch/nora_itc_dspic33ak): scan lists *)
(* that share one core and one converter, which are started with the first  *)
(* list and stopped with the last.  Touch takes its scans from list 0.      *)
EXTENDS Naturals, FiniteSets

CONSTANTS Lists,      \* the scan lists
          ListConfigs, \* the configurations asked for: clock, charge, balance, period, trigger, records
          RecordMax,  \* NORA_ITC_RECORD_MAX
          TadBase,    \* 4000000000: over the clock in kHz it is the unit of time in ps
          PerNs,      \* 1000
          WordSize,   \* 2^32
          CountMax    \* ITC_TIMER_MAX and ITC_TMRPR_MAX

ASSUME ItcAssumption ==
  /\ {TadBase, PerNs, WordSize, CountMax, RecordMax} \subseteq Nat \ {0}
  /\ ListConfigs # {}  \* clocks below 1 MHz are refused, and none makes the unit less than 1 ps
  /\ ListConfigs \subseteq [clock : 1 .. TadBase, charge : Nat, balance : Nat, period : Nat,
                            trigger : {"timer", "software"}, records : Nat]

VARIABLES
  core,     \* the core and the converter: ON bits, and itc_hardware_started
  lists,    \* itc_state
  hw        \* each list: trigger enabled, busy, results waiting, the counts programmed

itcVars == <<core, lists, hw>>

-----------------------------------------------------------------------------
Tad(c) == TadBase \div c.clock

\* itc_ns_to_counts: rounded up, in 32 bits; what counts is a refusal or a number.
InWord(n) == n % WordSize
Counts(c, ns) == InWord(InWord(ns * PerNs) + Tad(c) - 1) \div Tad(c)
Accepts(c, ns) == Counts(c, ns) \in 1 .. CountMax
CountsOf(c) ==
  [charge |-> Counts(c, c.charge), balance |-> Counts(c, c.balance),
   period |-> IF c.trigger = "timer" THEN Counts(c, InWord(c.period * PerNs)) ELSE 0]

ConfigOK(c) == c.records \in 1 .. RecordMax
TimingOK(c) ==
  /\ Accepts(c, c.charge) /\ Accepts(c, c.balance)
  /\ c.trigger = "timer" => Accepts(c, InWord(c.period * PerNs))

\* itc_adc5_start and itc_core_start: either may not become ready in time.
AdcStarts == [core EXCEPT !.adc = TRUE]
CoreStarts(c, ready) == IF c.started THEN c ELSE [c EXCEPT !.on = ready, !.started = ready]

InitDone(l, c) ==
  /\ lists' = [lists EXCEPT ![l] = [up |-> TRUE, running |-> FALSE, config |-> c]]
  /\ hw' = [hw EXCEPT ![l] = [@ EXCEPT !.enabled = TRUE, !.counts = CountsOf(c)]]

\* nora_itc_init: what fails leaves the list as it was.
ItcInit(l, c, adcReady, coreReady) ==
  IF ~ConfigOK(c) \/ ~TimingOK(c) THEN UNCHANGED itcVars
  ELSE IF ~adcReady THEN core' = AdcStarts /\ UNCHANGED <<lists, hw>>
  ELSE /\ core' = CoreStarts(AdcStarts, coreReady)
       /\ IF core'.started THEN InitDone(l, c) ELSE UNCHANGED <<lists, hw>>

\* Mutant of LastOne: the core is stopped with any list.
LastOneAlways(l) == TRUE

LastOne(l) == \A other \in Lists \ {l} : ~lists[other].up

ItcDeinit(l) ==
  /\ lists' = [lists EXCEPT ![l].up = FALSE, ![l].running = FALSE]
  /\ hw' = [hw EXCEPT ![l].enabled = FALSE]
  /\ core' = IF LastOne(l) THEN [core EXCEPT !.on = FALSE, !.started = FALSE] ELSE core

\* nora_itc_scan_start: only on a list of the software trigger that is not busy.
ScanStart(l) ==
  /\ lists[l].up /\ lists[l].config.trigger = "software" /\ ~hw[l].busy
  /\ lists' = [lists EXCEPT ![l].running = TRUE]
  /\ \E taken \in BOOLEAN : hw' = [hw EXCEPT ![l].enabled = TRUE, ![l].busy = taken]
  /\ UNCHANGED core

ScanComplete(l) == lists[l].up /\ ~hw[l].busy /\ hw[l].done

\* nora_itc_read_all: reading a result takes its mark away.
ReadAll(l) ==
  /\ lists[l].up /\ lists' = [lists EXCEPT ![l].running = FALSE]
  /\ hw' = [hw EXCEPT ![l].done = FALSE] /\ UNCHANGED core

-----------------------------------------------------------------------------
(* The hardware: a timer starts an enabled list, a scan ends; none without the core. *)
TimerStarts(l) ==
  /\ core.on /\ hw[l].enabled /\ ~hw[l].busy /\ hw[l].counts.period # 0
  /\ hw' = [hw EXCEPT ![l].busy = TRUE] /\ UNCHANGED <<core, lists>>
ScanEnds(l) ==
  /\ hw[l].busy /\ hw' = [hw EXCEPT ![l].busy = FALSE, ![l].done = core.on]
  /\ UNCHANGED <<core, lists>>

ItcInitState ==
  /\ core = [adc |-> FALSE, on |-> FALSE, started |-> FALSE]
  /\ lists = [l \in Lists |-> [up |-> FALSE, running |-> FALSE, config |-> CHOOSE c \in ListConfigs : TRUE]]
  /\ hw = [l \in Lists |-> [enabled |-> FALSE, busy |-> FALSE, done |-> FALSE,
                            counts |-> [charge |-> 0, balance |-> 0, period |-> 0]]]

ItcNext ==
  \E l \in Lists :
    \/ \E c \in ListConfigs, adcReady, coreReady \in BOOLEAN : ItcInit(l, c, adcReady, coreReady)
    \/ ItcDeinit(l) \/ ScanStart(l) \/ ReadAll(l) \/ TimerStarts(l) \/ ScanEnds(l)

ItcSpec == ItcInitState /\ [][ItcNext]_itcVars

-----------------------------------------------------------------------------
\* A list that is up has the core and the converter it needs and a trigger, also
\* after another list was stopped or failed to start; the core runs for no one else.
ListsAreServed ==
  /\ \A l \in Lists : lists[l].up => core.adc /\ core.on /\ core.started /\ hw[l].enabled
  /\ core.on <=> \E l \in Lists : lists[l].up

\* The counts programmed last at least as long as was asked for, as far as the time
\* in picoseconds is a 32-bit number.
TimesAreMet ==
  \A l \in Lists : lists[l].up =>
    LET c == lists[l].config
        Met(count, ns) == ns * PerNs + Tad(c) <= WordSize => count * Tad(c) >= ns * PerNs
    IN  Met(hw[l].counts.charge, c.charge) /\ Met(hw[l].counts.balance, c.balance)
=============================================================================
