------------------------------- MODULE LedSw -------------------------------
(* The user switches (board_components/led_sw): one whose pin each update   *)
(* reads, one whose level the callback of the port's change event latches.  *)
(* Both are debounced against the millisecond tick, which wraps.            *)
EXTENDS Naturals

CONSTANTS TickWrap, \* the tick counts modulo this
          Debounce, \* LED_SW_DEBOUNCE_MS
          MaxGap    \* the longest time the main loop leaves between two updates

ASSUME LedSwAssumption ==
  TickWrap \in Nat /\ Debounce \in Nat \ {0} /\ MaxGap \in Nat \ {0} /\ Debounce + MaxGap <= TickWrap

Switches == {"polled", "latched"}

VARIABLES
  ms,       \* the tick
  contact,  \* whether a switch is pressed
  boot,     \* led_sw_init: "config", "attach", "done"
  latch,    \* s_sw3_pressed
  due,      \* the latched switch has changed and the callback has not run
  deb,      \* led_sw_debounce: candidate, when it appeared, confirmed
  lit,      \* the LED that shows a switch
  steady,   \* how long every update has read a switch at its present candidate, up to Debounce
  gap,      \* since the last update
  blind     \* the last change of the latched switch was before anyone listened

ledVars == <<ms, contact, boot, latch, due, deb, lit, steady, gap, blind>>

-----------------------------------------------------------------------------
ContactMoves ==
  \E s \in Switches :
    /\ contact' = [contact EXCEPT ![s] = ~@]
    /\ IF s = "latched" THEN due' = (boot = "done") /\ blind' = (boot = "attach") ELSE UNCHANGED <<due, blind>>
    /\ UNCHANGED <<ms, boot, latch, deb, lit, steady, gap>>

TickAdvances ==
  /\ boot = "done" => gap < MaxGap
  /\ ms' = (ms + 1) % TickWrap
  /\ gap' = IF boot = "done" THEN gap + 1 ELSE 0
  /\ steady' = [s \in Switches |-> IF steady[s] < Debounce THEN steady[s] + 1 ELSE Debounce]
  /\ UNCHANGED <<contact, boot, latch, due, deb, lit, blind>>

\* led_sw_init reads the level first and attaches the callback then.
InitReads ==
  /\ boot = "config" /\ boot' = "attach" /\ latch' = contact["latched"]
  /\ UNCHANGED <<ms, contact, due, deb, lit, steady, gap, blind>>
InitAttaches ==
  /\ boot = "attach" /\ boot' = "done"
  /\ UNCHANGED <<ms, contact, latch, due, deb, lit, steady, gap, blind>>

\* led_sw_sw3_event_callback, with the edge to the level the pin has now.
SwitchCallback ==
  /\ due /\ due' = FALSE /\ latch' = contact["latched"]
  /\ UNCHANGED <<ms, contact, boot, deb, lit, steady, gap, blind>>

\* Mutant of Debounced: the settle time begins anew with every update.
DebouncedRestarts(d, raw) ==
  [d EXCEPT !.cand = raw, !.at = ms,
            !.conf = IF raw = d.cand /\ (ms - d.at) % TickWrap >= Debounce THEN raw ELSE @]

Debounced(d, raw) ==
  IF raw # d.cand THEN [d EXCEPT !.cand = raw, !.at = ms]
  ELSE [d EXCEPT !.conf = IF (ms - d.at) % TickWrap >= Debounce THEN raw ELSE @]

Update ==
  LET raw == [s \in Switches |-> IF s = "polled" THEN contact[s] ELSE latch]
  IN  /\ boot = "done"
      /\ deb' = [s \in Switches |-> Debounced(deb[s], raw[s])]
      /\ lit' = [s \in Switches |-> deb'[s].conf]
      /\ steady' = [s \in Switches |-> IF raw[s] = deb[s].cand THEN steady[s] ELSE 0]
      /\ gap' = 0
      /\ UNCHANGED <<ms, contact, boot, latch, due, blind>>

LedInitState ==
  /\ ms = 0 /\ contact \in [Switches -> BOOLEAN] /\ boot = "config" /\ latch = FALSE /\ due = FALSE
  /\ deb = [s \in Switches |-> [cand |-> FALSE, at |-> 0, conf |-> FALSE]]
  /\ lit = [s \in Switches |-> FALSE] /\ steady = [s \in Switches |-> 0] /\ gap = 0 /\ blind = FALSE

LedNext == ContactMoves \/ TickAdvances \/ InitReads \/ InitAttaches \/ SwitchCallback \/ Update

\* The boot goes on and an interrupt that is due is taken.
SwitchSettles == InitReads \/ InitAttaches \/ SwitchCallback

\* The main loop updates and the timer counts.
LedFairness == WF_ledVars(Update) /\ WF_ledVars(TickAdvances) /\ WF_ledVars(SwitchSettles)

-----------------------------------------------------------------------------
\* What a LED shows of a switch changes only to a level that every update has read
\* for the whole settle time, whatever bounces and wherever the tick wraps.
ShownIsSettled ==
  [][\A s \in Switches : lit'[s] # lit[s] => steady'[s] = Debounce /\ lit'[s] = deb[s].cand]_ledVars

\* No switch stays shown wrongly: one that is held, or left, is shown so in the end;
\* the latched one unless it moved between the reading of its level and the attaching
\* of its callback.
HeldIsShown == \A s \in Switches : []<>(lit[s] = contact[s] \/ (s = "latched" /\ blind))
=============================================================================
