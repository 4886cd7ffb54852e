------------------------------- MODULE Touch -------------------------------
(* Touch detection (hal_touch): the scans of ITC list 0 and what one key    *)
(* makes of their results.  A scan is asked for, runs and leaves a result;  *)
(* the result may survive a reconfiguration.  The other keys are told apart *)
(* only by whether they are all quiet.  All calls come from the main loop.  *)
EXTENDS Integers, Sequences

CONSTANTS
  Raws,      \* results a scan of the key may give
  Idle,      \* the one of an untouched pad
  Garbage,   \* the one of a failed conversion
  Others,    \* whether the other keys may all be quiet, a set of Booleans
  Pairs,     \* threshold pairs that are set
  T,         \* the settings: the configuration's fields and the NORA_TOUCH_ constants,
             \* a shift as what it divides by
  MaxDisturbed   \* bound on starts ignored, slow scans, and changes of the settings

Least(a, b) == IF a < b THEN a ELSE b
Most(a, b) == IF a > b THEN a ELSE b
Magnitude(n) == IF n < 0 THEN -n ELSE n
SeedSamples == 3

\* A failed conversion reads far from an untouched pad, by the measure of Implausible, and
\* so far from 0 that the measure has a limit.
ASSUME TouchAssumption ==
  /\ Raws \cup {Idle, Garbage} \subseteq Int /\ Others \subseteq BOOLEAN
  /\ Pairs \subseteq [press : Nat \ {0}, release : Nat]
  /\ T \in [{"press", "release", "coldPress", "debounce", "coldDebounce", "releaseDebounce", "baselineDiv",
              "stallPolls", "settleScans", "seedAgreeDiv", "implausibleDiv", "rejectRunMax", "magScans",
              "learnPresses", "learnSamplesMax", "candMin", "candMult", "learnRun", "learnNum", "learnDen",
              "floorMin", "floorMult", "floorMax", "idleDiv", "quietRun"} -> Nat]
  /\ 0 \notin {T.baselineDiv, T.seedAgreeDiv, T.implausibleDiv, T.idleDiv, T.settleScans, T.magScans,
               T.learnSamplesMax, T.candMin, T.learnDen, T.floorMin}
  /\ T.release < T.press
  /\ \A a, b \in {Idle, Garbage} : a # b =>
       Magnitude(a) \div T.implausibleDiv \in 1 .. Magnitude(b - a) - 1

VARIABLES
  touchUp,    \* s_initialized
  inFlight,   \* s_scan_in_flight
  stall,      \* s_stall_polls
  scan,       \* the list: "idle", "asked", "busy"
  done,       \* ACCDONE: a result waits
  current,    \* whether the scan, and the result, are of the present settings
  pair,       \* s_cfg's thresholds
  key,        \* the key's record
  allQuiet,   \* s_all_quiet
  event,      \* the event not read yet
  seen,       \* touched: a touch was measured; stale: an old result was used;
              \* heard: the key as its events tell it; forced: cleared without an event
  disturbed   \* starts ignored, slow scans, and changes of the settings

touchVars == <<touchUp, inFlight, stall, scan, done, current, pair, key, allQuiet, event, seen, disturbed>>
engine == <<touchUp, inFlight, stall, scan, done, current>>

Cleared(k) == [k EXCEPT !.pressed = FALSE, !.debounce = 0]
\* What a calibration forgets; pinned thresholds stay.
Unlearnt(k, p) ==
  LET u == [k EXCEPT !.peak = 0, !.run = 0, !.quiet = 0, !.learning = FALSE, !.samples = <<>>, !.cold = TRUE]
  IN  IF k.pinned THEN u ELSE [u EXCEPT !.press = p.press, !.release = p.release]

NewKey(p) ==
  [base |-> 0, valid |-> FALSE, pressed |-> FALSE, press |-> p.press, release |-> p.release,
   debounce |-> 0, win |-> [i \in 1..T.magScans |-> 0], sum |-> 0, mag |-> 0, settle |-> T.settleScans, seed |-> <<>>,
   rejects |-> 0, idleRef |-> 0, peak |-> 0, run |-> 0, quiet |-> 0, learning |-> FALSE,
   samples |-> <<>>, cold |-> TRUE, pinned |-> FALSE]

-----------------------------------------------------------------------------
(* nora_touch_update_key.                                                   *)

\* Three samples that agree; their median is the baseline.
Seeded(k, raw) ==
  LET s  == Append(k.seed, raw)
      lo == Least(Least(s[1], s[2]), s[3])
      hi == Most(Most(s[1], s[2]), s[3])
  IN  CASE Len(s) < SeedSamples -> [k EXCEPT !.seed = s]
        [] Len(s) = SeedSamples /\ hi - lo > Magnitude(lo) \div T.seedAgreeDiv -> [k EXCEPT !.seed = <<>>]
        [] OTHER -> [k EXCEPT !.base = s[1] + s[2] + s[3] - lo - hi, !.valid = TRUE, !.seed = <<>>]

\* Mutant of Implausible: every sample is believed.
ImplausibleNever(k, raw) == FALSE

Implausible(k, raw) ==
  LET limit == Magnitude(k.base) \div T.implausibleDiv
  IN  limit > 0 /\ Magnitude(raw - k.base) > limit

\* After a run of implausible samples it is the baseline that is given up.
Rejected(k) ==
  IF k.rejects + 1 < T.rejectRunMax THEN [k EXCEPT !.rejects = @ + 1]
  ELSE [Cleared(k) EXCEPT !.valid = FALSE, !.seed = <<>>, !.rejects = 0]

\* The mean magnitude of the last scans, kept as a running sum.
Averaged(k, raw) ==
  LET m   == Magnitude(raw - k.base)
      sum == k.sum - Head(k.win) + m
  IN  [k EXCEPT !.rejects = 0, !.win = Append(Tail(@), m), !.sum = sum, !.mag = sum \div T.magScans]

ReleaseOf(press, k) == press \div 2

\* Of four samples or more the weakest one is left out.
WeakestAt(s, at) == CHOOSE i \in at : \A j \in at : s[i] <= s[j]
Weak(s) ==
  LET first == WeakestAt(s, DOMAIN s)
  IN  s[IF Len(s) >= 4 THEN WeakestAt(s, DOMAIN s \ {first}) ELSE first]

\* nora_touch_learn_apply: the ceiling is the configured threshold, the floor comes after it.
Learnt(k) ==
  LET floor == Most(Least(k.idleRef * T.floorMult, T.floorMax), T.floorMin)
      press == Most(Least((Weak(k.samples) * T.learnNum) \div T.learnDen, pair.press), floor)
  IN  [k EXCEPT !.press = press, !.release = ReleaseOf(press, k)]

\* nora_touch_learn_sample
Sampled(k) ==
  IF T.learnPresses = 0 \/ k.pinned THEN k
  ELSE LET kept == IF Len(k.samples) >= T.learnSamplesMax THEN Tail(k.samples) ELSE k.samples
           s == [k EXCEPT !.samples = Append(kept, k.peak)]
       IN  IF Len(s.samples) >= T.learnPresses THEN Learnt(s) ELSE s

\* An excursion over the candidate is a sample once it ends; a long quiet moves idleRef.
Learning(k) ==
  IF k.mag >= Most(k.idleRef * T.candMult, T.candMin)
  THEN [k EXCEPT !.peak = Most(@, k.mag), !.run = Least(@ + 1, T.learnRun),
                 !.learning = @ \/ k.run + 1 >= T.learnRun, !.quiet = 0]
  ELSE LET s == IF k.learning THEN Sampled(k) ELSE k
           quiet == Least(k.quiet + 1, T.quietRun)
       IN  [s EXCEPT !.learning = FALSE, !.run = 0, !.peak = 0, !.quiet = quiet,
                     !.idleRef = IF quiet >= T.quietRun /\ allQuiet THEN @ + (k.mag - @) \div T.idleDiv ELSE @]

\* The cold gate: stricter until the first press.
IsCold(k) == T.coldPress > 0 /\ ~k.pinned /\ k.cold
PressAt(k) == IF IsCold(k) THEN Most(T.coldPress, k.press) ELSE k.press
DebounceAt(k) == IF IsCold(k) THEN Most(T.coldDebounce, T.debounce) ELSE T.debounce

Detected(k, raw) ==
  LET over  == IF k.pressed THEN k.mag < k.release ELSE k.mag >= PressAt(k)
      enough == IF k.pressed THEN T.releaseDebounce ELSE DebounceAt(k)
      drift == IF k.pressed THEN k ELSE [k EXCEPT !.base = @ + (raw - @) \div T.baselineDiv]
  IN  CASE ~over -> [drift EXCEPT !.debounce = 0]
        [] over /\ k.debounce + 1 < enough -> [drift EXCEPT !.debounce = @ + 1]
        [] OTHER -> [drift EXCEPT !.debounce = 0, !.pressed = ~k.pressed, !.cold = @ /\ k.pressed]

UpdateKey(k, raw) ==
  CASE k.settle > 0 -> [k EXCEPT !.settle = @ - 1]
    [] k.settle = 0 /\ ~k.valid -> Seeded(k, raw)
    [] k.settle = 0 /\ k.valid /\ Implausible(k, raw) -> Rejected(k)
    [] OTHER -> Detected(Learning(Averaged(k, raw)), raw)

\* Mutant of EventOf: a release is not told.
EventOfPress(k, new) == IF new.pressed /\ ~k.pressed THEN "PRESSED" ELSE event

\* A press or a release that detection made, rather than a baseline given up, is an event.
EventOf(k, new) ==
  CASE new.pressed /\ ~k.pressed -> "PRESSED"
    [] k.pressed /\ ~new.pressed /\ new.valid -> "RELEASED"
    [] OTHER -> event

-----------------------------------------------------------------------------
(* The engine.                                                              *)

\* nora_touch_arm_scan over nora_itc_scan_start, which refuses a busy list.
ArmScan ==
  IF scan = "busy" THEN inFlight' = FALSE /\ UNCHANGED <<scan, stall, current>>
  ELSE inFlight' = TRUE /\ stall' = 0 /\ scan' = "asked" /\ current' = [scan |-> TRUE, result |-> current.result]

\* Counts a start that is ignored, a scan slower than the polls that are counted,
\* or a change of the settings.
Lose(one) == IF one THEN disturbed < MaxDisturbed /\ disturbed' = disturbed + 1 ELSE UNCHANGED disturbed

\* Mutant of GivesUp: a scan is waited for as long as it takes.
GivesUpNever == FALSE

\* The polls that are waited for a result.
GivesUp == stall + 1 >= T.stallPolls

\* nora_itc_scan_complete
Complete == scan # "busy" /\ done

Process ==
  /\ touchUp
  /\ IF ~inFlight
     THEN /\ ArmScan
          /\ UNCHANGED <<done, key, allQuiet, event, seen, disturbed>>
     ELSE IF ~Complete
     THEN /\ IF GivesUp THEN stall' = 0 /\ inFlight' = FALSE /\ Lose(scan # "idle")
             ELSE stall' = Least(stall + 1, T.stallPolls) /\ UNCHANGED <<inFlight, disturbed>>
          /\ UNCHANGED <<scan, done, current, key, allQuiet, event, seen>>
     ELSE /\ done' = FALSE /\ ArmScan /\ UNCHANGED disturbed
          /\ \E raw \in Raws, others \in Others :
               LET new == UpdateKey(key, raw)
                   forced == key.pressed /\ ~new.pressed /\ ~new.valid
               IN  /\ key' = new /\ event' = EventOf(key, new)
                   /\ allQuiet' = (others /\ (new.valid => new.quiet >= T.quietRun))
                   /\ seen' = [seen EXCEPT !.touched = @ \/ raw \notin {Idle, Garbage},
                                 !.stale = @ \/ (key.settle = 0 /\ ~current.result),
                                 !.forced = (@ /\ event' = event) \/ forced]
  /\ UNCHANGED <<touchUp, pair>>

\* The list: it takes a start, or ignores it, and finishes.
ListStarts ==
  /\ scan = "asked" /\ scan' = "busy"
  /\ UNCHANGED <<touchUp, inFlight, stall, done, current, pair, key, allQuiet, event, seen, disturbed>>
ListIgnores ==
  /\ scan = "asked" /\ scan' = "idle" /\ Lose(TRUE)
  /\ UNCHANGED <<touchUp, inFlight, stall, done, current, pair, key, allQuiet, event, seen>>
ListFinishes ==
  /\ scan = "busy" /\ scan' = "idle" /\ done' = TRUE /\ current' = [current EXCEPT !.result = current.scan]
  /\ UNCHANGED <<touchUp, inFlight, stall, pair, key, allQuiet, event, seen, disturbed>>

\* nora_touch_apply_list: the list is stopped and rewritten, a result that waits is
\* thrown away; a scan that runs may stop with it or go on.
ApplyList(new) ==
  /\ done' = FALSE
  /\ scan' \in {scan, "idle"}
  /\ current' = IF new THEN [scan |-> FALSE, result |-> FALSE] ELSE current

-----------------------------------------------------------------------------
(* The other calls.                                                         *)

ForceQuiet == seen' = [seen EXCEPT !.forced = @ \/ key.pressed \/ event # "none"]

TouchInit ==
  /\ ~touchUp /\ touchUp' = TRUE
  /\ done' = FALSE /\ ArmScan /\ key' = NewKey(pair) /\ allQuiet' = FALSE /\ event' = "none"
  /\ UNCHANGED <<pair, seen, disturbed>>

\* Mutant of Reconfigured: the settle scans are not asked for again.
ReconfiguredUnsettled(k) ==
  [Unlearnt(Cleared(k), pair) EXCEPT !.valid = FALSE, !.seed = <<>>, !.rejects = 0, !.idleRef = 0]

Reconfigured(k) ==
  [Unlearnt(Cleared(k), pair) EXCEPT !.valid = FALSE, !.settle = T.settleScans, !.seed = <<>>,
                                     !.rejects = 0, !.idleRef = 0]

\* nora_touch_set_acquisition: refused, the old list is applied again and the keys are left alone.
SetAcquisition(ok) ==
  /\ touchUp /\ Lose(TRUE)
  /\ ApplyList(ok) /\ inFlight' = FALSE
  /\ IF ok THEN key' = Reconfigured(key) /\ allQuiet' = FALSE /\ event' = "none" /\ ForceQuiet
     ELSE UNCHANGED <<key, allQuiet, event, seen>>
  /\ UNCHANGED <<touchUp, stall, pair>>

Calibrate ==
  /\ touchUp /\ T.learnPresses # 0 /\ Lose(TRUE)
  /\ key' = Unlearnt(Cleared(key), pair) /\ event' = "none" /\ ForceQuiet
  /\ UNCHANGED <<engine, pair, allQuiet>>

\* nora_touch_set_thresholds and nora_touch_set_key_thresholds
SetThresholds(p, all) ==
  /\ p.release < p.press /\ Lose(TRUE)
  /\ pair' = IF all THEN p ELSE pair
  /\ key' = [key EXCEPT !.press = p.press, !.release = p.release, !.pinned = TRUE]
  /\ UNCHANGED <<engine, allQuiet, event, seen>>

GetEvent ==
  /\ touchUp /\ event # "none" /\ event' = "none"
  /\ seen' = [seen EXCEPT !.heard = (event = "PRESSED")]
  /\ UNCHANGED <<engine, pair, key, allQuiet, disturbed>>

TouchInitState ==
  /\ touchUp = FALSE /\ inFlight = FALSE /\ stall = 0 /\ scan = "idle" /\ done = FALSE
  /\ current = [scan |-> FALSE, result |-> FALSE]
  /\ pair = [press |-> T.press, release |-> T.release] /\ key = NewKey(pair)
  /\ allQuiet = FALSE /\ event = "none"
  /\ seen = [touched |-> FALSE, stale |-> FALSE, heard |-> FALSE, forced |-> FALSE]
  /\ disturbed = 0

TouchNext ==
  \/ Process \/ ListStarts \/ ListIgnores \/ ListFinishes \/ TouchInit
  \/ \E ok \in BOOLEAN : SetAcquisition(ok)
  \/ Calibrate \/ GetEvent
  \/ \E p \in Pairs, all \in BOOLEAN : SetThresholds(p, all)

\* The main loop: the start, then one poll after the other; and the list.
KeyLoop   == TouchInit \/ Process
ListMoves == ListStarts \/ ListIgnores \/ ListFinishes

TouchFairness == WF_touchVars(KeyLoop) /\ WF_touchVars(ListMoves)

TouchSpec == TouchInitState /\ [][TouchNext]_touchVars /\ TouchFairness

-----------------------------------------------------------------------------
\* The types; a key lets go below the level at which it is pressed, learnt or set.
TouchTypeOK ==
  /\ {touchUp, inFlight, done, allQuiet} \subseteq BOOLEAN
  /\ scan \in {"idle", "asked", "busy"} /\ stall \in 0..T.stallPolls
  /\ event \in {"none", "PRESSED", "RELEASED"}
  /\ key.release < key.press /\ key.press <= PressAt(key)
  /\ key.settle \in 0..T.settleScans /\ Len(key.samples) <= T.learnSamplesMax

\* What a key is judged by was measured wholly under the present settings, though
\* a result of the settings before may outlive the reconfiguration.
SamplesAreCurrent == ~seen.stale

\* A key is pressed only if a touch was measured: neither failed conversions, nor a
\* baseline seeded from them, nor their end, press it.
PressIsTouch == key.pressed => seen.touched

\* Once its events are read, what they told is how the key is, unless the key was
\* cleared without one (a baseline given up, a calibration, a reconfiguration).
EventsTellTheKey == event = "none" /\ ~seen.forced => seen.heard = key.pressed

\* nora_touch.h: one event per key per occurrence.
EveryReleaseIsTold == event = "none" => seen.heard = key.pressed

\* A start that is ignored, or a stale result, does not stop the scanning.
ScansGoOn == []<><<done /\ ~done'>>_touchVars

=============================================================================
