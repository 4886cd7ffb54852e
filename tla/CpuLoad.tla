------------------------------ MODULE CpuLoad ------------------------------
(* The load profiler (hal_timer/nora_cpu_load_prof): which owner had the    *)
(* CPU for how long in each window of fixed length.  Handlers nest by       *)
(* priority; the hook at the beginning and the one at the end of each run   *)
(* with interrupts masked, so each is one step.  The thread configures,     *)
(* resets and reads; it takes the time before it masks.                     *)
EXTENDS Integers, Sequences
Seqs == INSTANCE SequencesExt

CONSTANTS Wrap,       \* the timer counts modulo this
          Periods,    \* the window lengths configured
          MaxDepth,   \* NORA_CPU_LOAD_PROF_MAX_DEPTH
          MaxCatchup, \* NORA_CPU_LOAD_PROF_MAX_CATCHUP
          Vectors,    \* the instrumented handlers: owner and priority
          MaxTicks,   \* bound on the ticks of a behaviour
          MaxRuns,    \* bound on the handlers started
          MaxResets   \* bound on the calls of the thread

LegOwners  == {"LEG_A", "LEG_B"}
LoadOwners == LegOwners \cup {"NONE", "OTHER"}

ASSUME LoadAssumption ==
  /\ Vectors \subseteq [owner : LoadOwners \ {"NONE"}, prio : 1 .. MaxDepth]
  /\ {Wrap, MaxCatchup, MaxDepth} \subseteq Nat \ {0} /\ Wrap >= 4
  /\ Periods \subseteq Nat  \* a window is milliseconds, half the counter's range seconds
  /\ \A p \in Periods : p < Wrap \div 2

VARIABLES
  now,     \* the timer's count
  nest,    \* the handlers under way, the innermost last
  prof,    \* g_nora_cpu_load_prof
  late,    \* the thread's call that has taken the time and not yet masked
  spent,   \* the ticks each owner really had, and OTHER had above a leg, since the last clear
  used     \* ticks, handlers and calls so far

loadVars == <<now, nest, prof, late, spent, used>>

Zeros == [o \in LoadOwners |-> 0]
NoLoss == [l \in LegOwners |-> 0]
NotLate == [call |-> "none", at |-> 0, period |-> 0]

Ticks(from, to) == (to - from) % Wrap
\* (int32_t)(to - from) >= 0
Reached(from, to) == Ticks(from, to) < Wrap \div 2

Plus(f, o, n) == [f EXCEPT ![o] = @ + n]
PlusAll(f, g) == [o \in DOMAIN f |-> f[o] + g[o]]
SumOf(f)      == f["LEG_A"] + f["LEG_B"] + f["NONE"] + f["OTHER"]

-----------------------------------------------------------------------------
(* The accounting, on the profiler's record.                                *)

\* nora_cpu_load_prof_charge_seg
ChargeSeg(p, upto) ==
  IF ~Reached(p.seg, upto) THEN [p EXCEPT !.negative = @ + 1]
  ELSE [p EXCEPT !.self = Plus(@, p.owner, Ticks(p.seg, upto)),
                 !.stolen = IF p.owner = "OTHER" /\ p.leg # "NONE" THEN Plus(@, p.leg, Ticks(p.seg, upto)) ELSE @]

\* nora_cpu_load_prof_close_window
CloseWindow(p) ==
  [p EXCEPT !.last = p.self, !.acc = PlusAll(@, p.self), !.self = Zeros,
            !.accStolen = PlusAll(@, p.stolen), !.stolen = NoLoss, !.windows = @ + 1]

\* The part up to the end goes to the window that ends, the rest to the next one.
Advance(p) == LET c == CloseWindow(ChargeSeg(p, p.end))
              IN  [c EXCEPT !.seg = p.end, !.end = (p.end + p.period) % Wrap]

\* More windows have passed than are caught up with: they are given up and counted.
Rebase(p, t) ==
  [p EXCEPT !.self = Zeros, !.stolen = NoLoss, !.end = (t + p.period) % Wrap, !.seg = t, !.rebase = @ + 1]

\* nora_cpu_load_prof_charge, after i passes of its loop.
Pass(p, t) == IF Reached(p.end, t) THEN Advance(p) ELSE p
CaughtUp(p, t) ==
  LET passed[i \in 0 .. MaxCatchup - 1] == IF i = 0 THEN p ELSE Pass(passed[i - 1], t)
  IN  passed[MaxCatchup - 1]

Charge(p, t) ==
  IF ~p.ready \/ p.period = 0 THEN p
  ELSE LET caught == CaughtUp(p, t)
       IN  IF Reached(caught.end, t) THEN Rebase(Advance(caught), t)
           ELSE [ChargeSeg(caught, t) EXCEPT !.seg = t]

\* nora_cpu_load_prof_enter and _exit
EnterHook(p, o) ==
  LET c == Charge(p, now)
      s == IF Len(c.stack) < MaxDepth THEN [c EXCEPT !.stack = Append(@, [owner |-> c.owner, leg |-> c.leg])]
           ELSE [c EXCEPT !.tooDeep = @ + 1]
  IN  [s EXCEPT !.owner = o, !.leg = IF o \in LegOwners THEN o ELSE @]

\* Mutant of ExitHook: the leg stays the one of the handler that ends.
ExitHookKeepsLeg(p) ==
  LET c == Charge(p, now)
  IN  [c EXCEPT !.stack = Seqs!Front(@), !.owner = Seqs!Last(c.stack).owner]

ExitHook(p) ==
  IF p.stack = <<>> THEN [p EXCEPT !.unbalanced = @ + 1]
  ELSE LET c == Charge(p, now)
       IN  [c EXCEPT !.stack = Seqs!Front(@), !.owner = Seqs!Last(c.stack).owner, !.leg = Seqs!Last(c.stack).leg]

ClearStats(p) ==
  [p EXCEPT !.self = Zeros, !.stolen = NoLoss, !.last = Zeros, !.acc = Zeros, !.accStolen = NoLoss, !.windows = 0,
            !.unbalanced = 0, !.negative = 0, !.rebase = 0, !.tooDeep = 0]

\* nora_cpu_load_prof_configure_at; a length of 0 is refused.
ConfigureAt(p, t, period) ==
  IF period = 0 THEN p
  ELSE [ClearStats(p) EXCEPT !.period = period, !.end = (t + period) % Wrap, !.seg = t, !.ready = TRUE]

\* nora_cpu_load_prof_reset_at: the length is kept.
ResetAt(p, t) ==
  IF p.period = 0 THEN p
  ELSE [ClearStats(p) EXCEPT !.end = (t + p.period) % Wrap, !.seg = t, !.ready = TRUE]

\* nora_cpu_load_prof_get with clear_peak
GetAndClear(p) == [p EXCEPT !.acc = Zeros, !.accStolen = NoLoss, !.windows = 0]

-----------------------------------------------------------------------------
(* Handlers, the thread, and time.                                          *)

Innermost == IF nest = <<>> THEN [owner |-> "NONE", prio |-> 0] ELSE Seqs!Last(nest)
\* The leg that runs or waits as the innermost of the first n handlers of s.
LegOf(s, n) == LET legs == {i \in 1 .. n : s[i].owner \in LegOwners}
               IN  IF legs = {} THEN "NONE" ELSE s[CHOOSE i \in legs : \A j \in legs : j <= i].owner
LegBelow == LegOf(nest, Len(nest))

VectorStarts(v) ==
  /\ v.prio > Innermost.prio /\ used.runs < MaxRuns
  /\ nest' = Append(nest, v) /\ prof' = EnterHook(prof, v.owner)
  /\ used' = [used EXCEPT !.runs = @ + 1]
  /\ UNCHANGED <<now, late, spent>>
VectorEnds ==
  /\ nest # <<>> /\ nest' = Seqs!Front(nest) /\ prof' = ExitHook(prof)
  /\ UNCHANGED <<now, late, spent, used>>

ThreadRuns == nest = <<>>
TakeTime(call, period) ==
  /\ ThreadRuns /\ late.call = "none" /\ used.calls < MaxResets
  /\ late' = [call |-> call, at |-> now, period |-> period]
  /\ used' = [used EXCEPT !.calls = @ + 1]
  /\ UNCHANGED <<now, nest, prof, spent>>

\* What a handler used between the time taken and the mask goes to the thread.
Rebased(p) == /\ prof' = p
              /\ spent' = IF p = prof THEN spent ELSE [own |-> Plus(Zeros, "NONE", Ticks(late.at, now)), taken |-> NoLoss]
ConfigureOrReset ==
  /\ ThreadRuns /\ late.call # "none" /\ late' = NotLate
  /\ Rebased(IF late.call = "configure" THEN ConfigureAt(prof, late.at, late.period) ELSE ResetAt(prof, late.at))
  /\ UNCHANGED <<now, nest, used>>

LoadGet ==
  /\ ThreadRuns /\ late.call = "none" /\ prof.ready /\ used.calls < MaxResets
  /\ prof' = GetAndClear(prof)
  /\ spent' = [own |-> [o \in LoadOwners |-> spent.own[o] - prof.acc[o]],
               taken |-> [l \in LegOwners |-> spent.taken[l] - prof.accStolen[l]]]
  /\ used' = [used EXCEPT !.calls = @ + 1]
  /\ UNCHANGED <<now, nest, late>>

\* The counter runs on; no gap between two hooks is as long as half its range.
TimerCounts ==
  /\ used.ticks < MaxTicks
  /\ prof.ready => Ticks(prof.seg, now) + 1 < Wrap \div 2
  /\ late.call # "none" => Ticks(late.at, now) + 1 < Wrap \div 2
  /\ now' = (now + 1) % Wrap
  /\ spent' = [own |-> Plus(spent.own, Innermost.owner, 1),
               taken |-> IF Innermost.owner = "OTHER" /\ LegBelow # "NONE" THEN Plus(spent.taken, LegBelow, 1) ELSE spent.taken]
  /\ used' = [used EXCEPT !.ticks = @ + 1]
  /\ UNCHANGED <<nest, prof, late>>

LoadInitState ==
  /\ now = Wrap - 2 /\ nest = <<>> /\ late = NotLate
  /\ prof = [ready |-> FALSE, period |-> 0, end |-> 0, seg |-> 0, self |-> Zeros, stolen |-> NoLoss, last |-> Zeros,
             acc |-> Zeros, accStolen |-> NoLoss, windows |-> 0, owner |-> "NONE", leg |-> "NONE", stack |-> <<>>,
             unbalanced |-> 0, negative |-> 0, rebase |-> 0, tooDeep |-> 0]
  /\ spent = [own |-> Zeros, taken |-> NoLoss] /\ used = [ticks |-> 0, runs |-> 0, calls |-> 0]

LoadNext ==
  \/ \E v \in Vectors : VectorStarts(v)
  \/ VectorEnds \/ ConfigureOrReset \/ LoadGet \/ TimerCounts
  \/ \E p \in Periods : TakeTime("configure", p)
  \/ TakeTime("reset", 0)

-----------------------------------------------------------------------------
\* The owners' times of a closed window add up to its length, those of the open
\* one to what has passed of it, whatever interval crossed its boundaries.
WindowsAreWhole ==
  prof.ready => /\ prof.windows > 0 => SumOf(prof.last) = prof.period
                /\ SumOf(prof.self) + Ticks(prof.seg, prof.end) = prof.period

\* Unless windows were given up, every owner is credited with exactly the ticks it
\* had the CPU, and every leg with those taken from it, across nested handlers.
TimeIsCredited ==
  prof.ready /\ prof.rebase = 0 =>
    LET open == Ticks(prof.seg, now)
        mine(o) == IF o = prof.owner THEN open ELSE 0
        lost(l) == IF prof.owner = "OTHER" /\ l = prof.leg THEN open ELSE 0
    IN  /\ \A o \in LoadOwners : prof.acc[o] + prof.self[o] + mine(o) = spent.own[o]
        /\ \A l \in LegOwners : prof.accStolen[l] + prof.stolen[l] + lost(l) = spent.taken[l]

\* The health counters the header calls permanently zero are.
ProfilerIsHealthy == prof.unbalanced = 0 /\ prof.negative = 0 /\ prof.tooDeep = 0
=============================================================================
