------------------------------- MODULE Clock -------------------------------
(***************************************************************************)
(* The clock driver (hal_clock): two PLLs and the generator the CPU runs   *)
(* from.  (What the other generators are set to enters no decision of the  *)
(* driver.)  Every call runs on the one thread; a call is one step, whose  *)
(* waits for the hardware end or time out, and one that is refused changes *)
(* at most what was declared.  Between calls a timed-out switch may still  *)
(* take effect, and the clock failure monitor may move the CPU to a backup *)
(* oscillator.  Frequencies are in kHz.                                    *)
(***************************************************************************)
EXTENDS Integers

CONSTANTS Oscillators,  \* the oscillators and input pins in use, FRC among them
          TrueKhz,      \* what each of them really delivers
          Targets,      \* the outputs asked of a PLL
          Dividers,     \* the system dividers asked for
          MaxTimeouts   \* bound on the commands the hardware does not finish in time

Plls      == {"PLL1", "PLL2"}
Sources   == Oscillators \cup Plls
PllInputs == Oscillators \ {"LPRC"}
SystemSources == Sources \ {"REFI1"}
Declarable    == Oscillators \ {"FRC"}

PLLI_MIN   == 5000
PLLI_MAX   == 64000
VCO_MIN    == 500000
VCO_MAX    == 1600000
SYSTEM_MAX == 200000
OUTPUT_MAX == 800000
STARTER_CLOCK_SYS == 200000
NORA_CLOCK_FRC    == 8000

ASSUME ClockAssumption ==
    /\ {"FRC", "BFRC"} \subseteq Oscillators /\ Oscillators \cap Plls = {}
    /\ TrueKhz \in [Oscillators -> 1 .. PLLI_MAX] /\ TrueKhz["FRC"] = NORA_CLOCK_FRC
    /\ Targets \subseteq Nat \ {0} /\ Dividers \subseteq Nat /\ MaxTimeouts \in Nat

VARIABLES clk,        \* the generator of the CPU: source, a switch under way, divider fields
          divides,    \* what the generator really divides by
          pll,        \* each PLL: its registers, whether it is locked, what it delivers
          declared,   \* the sources whose frequency the driver was told
          unsure,     \* what the last command for it timed out on: "src", "div" or a PLL
          timeouts

clockVars == <<clk, divides, pll, declared, unsure, timeouts>>

---------------------------------------------------------------------------
\* The divider fields: INTDIV counts in steps of two, FRACDIV 256 is the odd one.
IntDiv(d)  == IF d = 1 THEN 0 ELSE d \div 2
FracDiv(d) == IF d > 1 /\ d % 2 = 1 THEN 256 ELSE 0
DividerOf(int, frac) ==
    CASE int = 0 /\ frac = 0 -> 1
      [] int # 0 /\ frac = 0 -> 2 * int
      [] int # 0 /\ frac = 256 -> 2 * int + 1
      [] OTHER -> 0

\* What it makes of the source, in kHz: the hardware counts 2 * (INTDIV + FRACDIV / 512).
Divided(khz, int, frac) == IF int = 0 THEN khz ELSE (khz * 256) \div (512 * int + frac)

\* Mutant of Exact: a remainder is rounded away.
RoundedDown(input, target, d) == TRUE
Exact(input, target, d) == (target * d.pre * d.post1 * d.post2) % input = 0

\* The settings of a PLL within the limits of its stages that give the target exactly.
Settings(input, target) ==
    {d \in {[fb |-> (target * pre * p1 * p2) \div input, pre |-> pre, post1 |-> p1, post2 |-> p2] :
              pre \in {n \in 1 .. 15 : input \in PLLI_MIN * n .. PLLI_MAX * n},
              p1 \in 1 .. 7, p2 \in 1 .. 7} :
        /\ d.post2 <= d.post1
        /\ target <= OUTPUT_MAX
        /\ Exact(input, target, d)
        /\ d.fb \in 16 .. 400
        /\ input * d.fb \in VCO_MIN * d.pre .. VCO_MAX * d.pre}

\* The first of them in the order of the search.
SolvePll(input, target) ==
    LET Rank(d) == 100 * d.pre + 10 * d.post2 + d.post1
        found   == Settings(input, target)
    IN  IF found = {} THEN {} ELSE {CHOOSE d \in found : \A e \in found : Rank(d) <= Rank(e)}

\* Evaluated once for the instance.
Solution == [input \in {TrueKhz[s] : s \in PllInputs} |-> [target \in Targets |-> SolvePll(input, target)]]

Output(input, d) ==
    IF (input * d.fb) % (d.pre * d.post1 * d.post2) = 0
       THEN (input * d.fb) \div (d.pre * d.post1 * d.post2) ELSE 0

---------------------------------------------------------------------------
\* What the driver knows of a source; 0 is "not known".
OscillatorKhz(known, s) == IF s = "FRC" \/ s \in known THEN TrueKhz[s] ELSE 0
PllKhz(known, p) ==
    IF pll[p].div = {} THEN 0
    ELSE LET out == Output(OscillatorKhz(known, pll[p].source), CHOOSE d \in pll[p].div : TRUE)
         IN  IF out > OUTPUT_MAX THEN 0 ELSE out
SourceKhz(known, s) == IF s \in Plls THEN PllKhz(known, s) ELSE OscillatorKhz(known, s)

\* Mutant of Fosc: the divider is left out.
FoscOfSource == SourceKhz(declared, clk.source)
Fosc == LET d == DividerOf(clk.int, clk.frac)
            k == SourceKhz(declared, clk.source)
        IN  IF d = 0 THEN 0 ELSE k \div d

\* The frequency really at the CPU; 0 when its source has stopped.
Running(s) == IF s \in Plls THEN pll[s].khz ELSE TrueKhz[s]
CpuKhz == Divided(Running(clk.source), divides.int, divides.frac)

\* A caller states a frequency (0: "use what you know").  For a source only the
\* board knows it is a declaration, for the others it must be what is known.
Told(s, khz)      == IF khz # 0 /\ s \in Declarable THEN declared \cup {s} ELSE declared
Conflicts(s, khz) == s \notin Declarable /\ khz \notin {0, SourceKhz(declared, s)}

---------------------------------------------------------------------------
ClockInitState ==
    /\ clk = [source |-> "FRC", to |-> "FRC", int |-> 0, frac |-> 0]
    /\ divides = [int |-> 0, frac |-> 0]
    /\ pll = [p \in Plls |-> [source |-> "FRC", div |-> {}, ready |-> FALSE, khz |-> 0]]
    /\ declared = {} /\ unsure = {} /\ timeouts = 0

Refuse == UNCHANGED <<clk, divides, pll, unsure, timeouts>>

\* A command for x ends, or times out.
Ends(x)   == unsure' = unsure \ {x} /\ UNCHANGED timeouts
Stalls(x) == /\ timeouts < MaxTimeouts /\ timeouts' = timeouts + 1
             /\ unsure' = unsure \cup {x}

\* The stages of bringing a PLL up, in the order the driver waits for them.
Stages == <<"DIVSWEN", "PLLSWEN", "FOUTSWEN", "OSWEN", "RDY", "done">>

\* The registers of a PLL as far as the sequence came; what a half-programmed
\* PLL delivers, and whether it still reports a lock, is the silicon's secret.
\* PLL2's sequence has no DIVSWEN wait.
Programmed(p, s, d, i) ==
    LET target == Output(TrueKhz[s], d)
    IN  [source : {IF i >= 4 THEN s ELSE pll[p].source}, div : {{d}},
         ready : IF i = 6 THEN {TRUE} ELSE IF i = 5 THEN {FALSE} ELSE BOOLEAN,
         khz : IF i = 6 THEN {target} ELSE {0, pll[p].khz, target}]

\* Mutant of Drives: the PLL of the CPU is reconfigured too.
DrivesNot(p) == FALSE
Drives(p) == clk.source = p

PllConfigure(p, s, khz) ==
    \/ (s \notin PllInputs \/ Drives(p)) /\ Refuse /\ UNCHANGED declared
    \/ /\ s \in PllInputs /\ ~Drives(p)
       /\ declared' = Told(s, khz)
       /\ IF Conflicts(s, khz) \/ OscillatorKhz(declared', s) = 0 THEN Refuse
          ELSE \E target \in Targets :
             IF Solution[TrueKhz[s]][target] = {} THEN Refuse
             ELSE \E i \in 1 .. 6, d \in Solution[TrueKhz[s]][target] :
                    /\ Stages[i] = "DIVSWEN" => p = "PLL1"
                    /\ \E new \in Programmed(p, s, d, i) : pll' = [pll EXCEPT ![p] = new]
                    /\ IF i = 6 THEN Ends(p) ELSE Stalls(p)
                    /\ UNCHANGED <<clk, divides>>

\* The two halves of re-clocking the CPU, on the live generator.
CommitSource(s) ==
    \/ clk' = [clk EXCEPT !.source = s, !.to = s] /\ Ends("src")
    \/ clk' = [clk EXCEPT !.to = s] /\ Stalls("src")
CommitDivider(d) ==
    /\ clk' = [clk EXCEPT !.int = IntDiv(d), !.frac = FracDiv(d)]
    /\ \/ divides' = [int |-> IntDiv(d), frac |-> FracDiv(d)] /\ Ends("div")
       \/ divides' \in {divides, [int |-> IntDiv(d), frac |-> FracDiv(d)]} /\ Stalls("div")

SwitchSource(s, khz) ==
    \/ s \notin SystemSources /\ Refuse /\ UNCHANGED declared
    \/ /\ s \in SystemSources
       /\ declared' = Told(s, khz)
       /\ LET d == DividerOf(clk.int, clk.frac)
              k == SourceKhz(declared', s)
          IN  IF \/ Conflicts(s, khz)
                 \/ clk.source = s
                 \/ s \in Plls /\ ~pll[s].ready
                 \/ k # 0 /\ (d = 0 \/ k \div d > SYSTEM_MAX)
              THEN Refuse
              ELSE CommitSource(s) /\ UNCHANGED <<divides, pll>>

SystemDividerSet(d) ==
    /\ d # 0 /\ DividerOf(IntDiv(d), FracDiv(d)) = d
    /\ SourceKhz(declared, clk.source) \div d <= SYSTEM_MAX
    /\ CommitDivider(d) /\ UNCHANGED <<pll, declared>>

\* The start of the application, out of reset: PLL1 from FRC at 200 MHz, then
\* the CPU's generator from it, through the face that checks nothing.
StarterClockInit ==
    /\ clk.source = "FRC" /\ declared = {} /\ timeouts = 0
    /\ \A p \in Plls : pll[p].div = {}
    /\ \E d \in SolvePll(TrueKhz["FRC"], STARTER_CLOCK_SYS), i \in 1 .. 6 :
         /\ \E new \in Programmed("PLL1", "FRC", d, i) : pll' = [pll EXCEPT !["PLL1"] = new]
         /\ IF i = 6
            THEN CommitSource("PLL1") /\ UNCHANGED divides
            ELSE Stalls("PLL1") /\ UNCHANGED <<clk, divides>>
    /\ UNCHANGED declared

\* What the hardware does between calls.
LateSwitch ==
    /\ clk.to # clk.source /\ clk' = [clk EXCEPT !.source = clk.to]
    /\ UNCHANGED <<divides, pll, declared, unsure, timeouts>>
ClockFails ==
    /\ clk.source # "BFRC" /\ clk' = [clk EXCEPT !.source = "BFRC", !.to = "BFRC"]
    /\ UNCHANGED <<divides, pll, declared, unsure, timeouts>>

ClockNext ==
    \/ \E p \in Plls, s \in Sources :
         \E khz \in {0, 1} \cup IF s \in Oscillators THEN {TrueKhz[s]} ELSE {} :
            (khz = 1 => s \notin Declarable) /\ PllConfigure(p, s, khz)
    \/ \E s \in Sources :
         \E khz \in {0, 1} \cup IF s \in Oscillators THEN {TrueKhz[s]} ELSE {} :
            (khz = 1 => s \notin Declarable) /\ SwitchSource(s, khz)
    \/ \E d \in Dividers : SystemDividerSet(d)
    \/ StarterClockInit
    \/ LateSwitch
    \/ ClockFails

ClockSpec == ClockInitState /\ [][ClockNext]_clockVars

---------------------------------------------------------------------------
\* The search misses no setting: the reference tries every value of every divider.
PllIsComplete ==
    \A input \in {TrueKhz[s] : s \in PllInputs}, target \in {t \in Targets : t <= OUTPUT_MAX} :
        Solution[input][target] = {} =>
            \A pre \in 1 .. 15, p1 \in 1 .. 7, p2 \in 1 .. 7, fb \in 16 .. 400 :
                \/ input * fb # target * pre * p1 * p2
                \/ input \notin PLLI_MIN * pre .. PLLI_MAX * pre
                \/ input * fb \notin VCO_MIN * pre .. VCO_MAX * pre

ClockTypeOK ==
    /\ clk.source \in Sources /\ clk.to \in Sources
    /\ declared \subseteq Declarable
    /\ \A p \in Plls : pll[p].source \in PllInputs /\ pll[p].khz \in 0 .. OUTPUT_MAX

\* The last commands for the source and the divider of the CPU, and for its PLL, all ended.
Settled == unsure \cap {"src", "div", clk.source} = {}

\* The CPU always has a clock and never one above the limit, whatever is
\* configured, declared, switched and divided in whatever order -- as long as
\* no command for it is left half done.
CpuClockIsSafe == Settled => Running(clk.source) > 0 /\ CpuKhz <= SYSTEM_MAX

\* The frequency the driver reports, which every baud rate and timer is derived
\* from, is the real one or "not known".
FoscIsReal == Settled => Fosc \in {0, CpuKhz}

\* A PLL brought up without a timeout delivers what was asked for, and a target
\* is refused only when no setting of the four dividers gives it.
PllIsExact ==
    /\ \A p \in Plls \ unsure : pll[p].div = {} \/ (pll[p].ready /\ pll[p].khz \in Targets \cup {STARTER_CLOCK_SYS})
    /\ PllIsComplete

=============================================================================
