-------------------------------- MODULE Board --------------------------------
(* What the board stands on and what it is operated by, side by side: the   *)
(* clock tree and the rates derived from it, the pins, the change events of *)
(* a port, the load profiler, the switches, the touch controller and a      *)
(* touch key.  They share no state, so a behaviour picks one of them and    *)
(* leaves the others in their first state.                                  *)
EXTENDS Clock, Rates, PinMux, GpioEvent, CpuLoad, LedSw, Itc, Touch

VARIABLE subject  \* the part that this behaviour is about

boardVars == <<subject, clockVars, rateVars, pinVars, vars, loadVars, ledVars, itcVars, touchVars>>

BoardInit ==
  /\ subject \in {"clock", "tick", "rates", "pins", "port", "load", "switch", "lists", "key"}
  /\ ClockInitState /\ RateInitState /\ PinInitState /\ Init /\ LoadInitState
  /\ LedInitState /\ ItcInitState /\ TouchInitState
  /\ subject # "port" => level = {} /\ pin = CHOOSE p \in Pins : TRUE
  /\ subject # "switch" => contact = [s \in Switches |-> FALSE]

BoardNext ==
  /\ UNCHANGED subject
  /\ \/ subject = "clock" /\ ClockNext
        /\ UNCHANGED <<rateVars, pinVars, vars, loadVars, ledVars, itcVars, touchVars>>
     \/ /\ \/ subject = "tick" /\ TickNext
           \/ subject = "rates" /\ AskNext
        /\ UNCHANGED <<clockVars, pinVars, vars, loadVars, ledVars, itcVars, touchVars>>
     \/ subject = "pins" /\ PinNext
        /\ UNCHANGED <<clockVars, rateVars, vars, loadVars, ledVars, itcVars, touchVars>>
     \/ subject = "port" /\ Next
        /\ UNCHANGED <<clockVars, rateVars, pinVars, loadVars, ledVars, itcVars, touchVars>>
     \/ subject = "load" /\ LoadNext
        /\ UNCHANGED <<clockVars, rateVars, pinVars, vars, ledVars, itcVars, touchVars>>
     \/ subject = "switch" /\ LedNext
        /\ UNCHANGED <<clockVars, rateVars, pinVars, vars, loadVars, itcVars, touchVars>>
     \/ subject = "lists" /\ ItcNext
        /\ UNCHANGED <<clockVars, rateVars, pinVars, vars, loadVars, ledVars, touchVars>>
     \/ subject = "key" /\ TouchNext
        /\ UNCHANGED <<clockVars, rateVars, pinVars, vars, loadVars, ledVars, itcVars>>

\* The fairness of Touch and of LedSw, each in its own behaviours.
BoardSpec ==
  /\ BoardInit /\ [][BoardNext]_boardVars
  /\ WF_touchVars(subject = "key" /\ KeyLoop) /\ WF_touchVars(subject = "key" /\ ListMoves)
  /\ WF_ledVars(subject = "switch" /\ Update) /\ WF_ledVars(subject = "switch" /\ TickAdvances)
  /\ WF_ledVars(subject = "switch" /\ SwitchSettles)

-----------------------------------------------------------------------------
(* Properties: ChangesAreTold, CallsAreWhole and EdgesAlternate of          *)
(* GpioEvent, and what the other parts promise.                             *)

\* Pins are configured as every call asked, without a glitch and without undoing what
\* was done to another pin of the port; a pinmux call has routed the pin, or nothing;
\* and a pin that can interrupt has someone to tell.
PinsAreOrderly == TypeOK /\ FlagHasOwner /\ PinsAreAsAsked /\ NoGlitch /\ MuxIsWhole

\* What the program takes for the time is the time: the CPU clock is real, within its
\* limit and as reported whatever it is switched through and whatever times out, a PLL
\* gives exactly what was asked for, the tick counts the milliseconds of its clock, every
\* divisor and bit time is the best there is for what was asked, the profiler credits every owner with
\* the ticks it had, and a scan list's times are not cut short.
TimeIsTrue ==
  /\ ClockTypeOK /\ CpuClockIsSafe /\ FoscIsReal /\ PllIsExact
  /\ TickIsExact /\ RefusalsAreTrue /\ DivisorIsNearest /\ SpiIsNotSlower /\ BitTimesAreExact /\ FrameIsWhole
  /\ WindowsAreWhole /\ TimeIsCredited /\ ProfilerIsHealthy
  /\ TimesAreMet

\* What a key tells is true: its list has the core it needs, its thresholds keep their
\* order, no sample of old settings reaches it once settled, it is pressed only by a
\* touch, and its events follow its state.
KeysAreTrue == ListsAreServed /\ TouchTypeOK /\ SamplesAreCurrent /\ PressIsTouch /\ EventsTellTheKey

\* The scans of the touch keys go on, whatever scan stalls or is refused; a switch
\* that is held is shown, and nothing is shown of one that bounces.
KeysAreScanned ==
  /\ ShownIsSettled
  /\ subject = "key" => ScansGoOn
  /\ subject = "switch" => HeldIsShown

=============================================================================
