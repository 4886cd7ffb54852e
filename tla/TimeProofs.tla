----------------------------- MODULE TimeProofs -----------------------------
(* What the program takes for the time is the time, for any clocks, rates   *)
(* and windows: the clock tree, the rates derived from it, and the profiler *)
(* that tells whose the CPU's time was.                                     *)
EXTENDS Clock, Rates, CpuLoad, TLAPS
WellFounded == INSTANCE WellFoundedInduction

-----------------------------------------------------------------------------
(* The clock.  What the driver knows of a source is what the source gives,  *)
(* and what it lets the CPU run from it has checked against that.           *)

\* A PLL whose last configuration ended delivers what its registers say.
PllGood(p) ==
  \/ pll[p].div = {} /\ ~pll[p].ready
  \/ /\ pll[p].ready /\ pll[p].khz \in Targets \cup {STARTER_CLOCK_SYS} /\ pll[p].khz <= OUTPUT_MAX
     /\ pll[p].source = "FRC" \/ pll[p].source \in declared
     /\ \E d : pll[p].div = {d} /\ Output(TrueKhz[pll[p].source], d) = pll[p].khz

Divider == DividerOf(clk.int, clk.frac)

ClockTyped ==
  /\ clk \in [source : SystemSources, to : SystemSources, int : Nat, frac : {0, 256}]
  /\ divides \in [int : Nat, frac : {0, 256}]
  /\ DOMAIN pll = Plls
  /\ \A p \in Plls : /\ pll[p].source \in PllInputs /\ pll[p].ready \in BOOLEAN
                     /\ pll[p].khz \in 0 .. OUTPUT_MAX
  /\ declared \subseteq Declarable

\* A PLL that the CPU runs from, or is to run from, is up.
PllsAreUp == \A p \in Plls \ unsure : PllGood(p) /\ (p \in {clk.source, clk.to} => pll[p].ready)

SourceIsKnown  == "src" \notin unsure => clk.to = clk.source
DividerIsKnown == "div" \notin unsure => divides.int = clk.int /\ divides.frac = clk.frac
WithinLimit    == Settled => Running(clk.source) \div Divider <= SYSTEM_MAX

ClockInv == ClockTyped /\ Divider # 0 /\ PllsAreUp /\ SourceIsKnown /\ DividerIsKnown /\ WithinLimit

-----------------------------------------------------------------------------
(* Numbers.                                                                 *)

LEMMA Limits ==
  /\ {PLLI_MAX, SYSTEM_MAX, OUTPUT_MAX} \subseteq Nat
  /\ PLLI_MAX <= SYSTEM_MAX
  /\ STARTER_CLOCK_SYS \in Nat \ {0} /\ STARTER_CLOCK_SYS <= SYSTEM_MAX /\ SYSTEM_MAX <= OUTPUT_MAX
BY DEF PLLI_MAX, SYSTEM_MAX, OUTPUT_MAX, STARTER_CLOCK_SYS

LEMMA Scales ==
  ASSUME NEW x \in Nat, NEW d \in Nat \ {0}
  PROVE  /\ (x * 256) \div (256 * d) = x \div d
         /\ x \div d \in Nat /\ x \div d <= x
<1> DEFINE q == x \div d
           r == x % d
<1>1. q \in Nat /\ r \in 0 .. d - 1 /\ x = d * q + r
  OBVIOUS
<1> HIDE DEF q, r
<1>2. q <= x
  <2>1. q <= d * q
    BY <1>1
  <2> QED
    BY <1>1, <2>1
<1>3. x * 256 = (256 * d) * q + 256 * r /\ 256 * r \in 0 .. 256 * d - 1
  BY <1>1
<1>4. (x * 256) \div (256 * d) = q
  BY <1>1, <1>3
<1> QED
  BY <1>1, <1>2, <1>4 DEF q

LEMMA DividerTyped ==
  ASSUME NEW int \in Nat, NEW frac \in {0, 256}, DividerOf(int, frac) # 0
  PROVE  /\ DividerOf(int, frac) \in Nat \ {0}
         /\ \A khz \in Nat : Divided(khz, int, frac) = khz \div DividerOf(int, frac)
<1>1. CASE int = 0
  BY <1>1 DEF DividerOf, Divided
<1>2. CASE int # 0
  <2> DEFINE d == DividerOf(int, frac)
  <2>1. d \in Nat \ {0} /\ 512 * int + frac = 256 * d
    BY <1>2 DEF DividerOf
  <2> HIDE DEF d
  <2>2. ASSUME NEW khz \in Nat PROVE Divided(khz, int, frac) = khz \div d
    <3>1. Divided(khz, int, frac) = (khz * 256) \div (256 * d)
      BY <1>2, <2>1 DEF Divided
    <3> QED
      BY <2>1, <3>1, Scales
  <2> QED
    BY <2>1, <2>2 DEF d
<1> QED
  BY <1>1, <1>2

\* A product that is exact is given back by its divisor.
LEMMA ExactQuotient ==
  ASSUME NEW a \in Nat, NEW b \in Nat \ {0}, NEW q \in Nat, a = b * q
  PROVE  a \div b = q /\ a % b = 0
OBVIOUS

-----------------------------------------------------------------------------
(* The settings of a PLL.                                                   *)

LEMMA PllSettingsTyped ==
  ASSUME NEW input \in Nat \ {0}, NEW target \in Nat \ {0}, NEW d \in Settings(input, target)
  PROVE  /\ d.pre \in 1 .. 15 /\ d.post1 \in 1 .. 7 /\ d.post2 \in 1 .. 7 /\ d.fb \in Nat
         /\ target <= OUTPUT_MAX /\ input * d.fb = target * d.pre * d.post1 * d.post2
<1>1. PICK pre \in {n \in 1 .. 15 : input \in PLLI_MIN * n .. PLLI_MAX * n}, p1 \in 1 .. 7, p2 \in 1 .. 7 :
        d = [fb |-> (target * pre * p1 * p2) \div input, pre |-> pre, post1 |-> p1, post2 |-> p2]
  BY DEF Settings
<1>2. Exact(input, target, d) /\ target <= OUTPUT_MAX
  BY DEF Settings
<1>3. d.pre = pre /\ d.post1 = p1 /\ d.post2 = p2 /\ d.fb = (target * pre * p1 * p2) \div input
  BY <1>1
<1> DEFINE n == target * pre * p1 * p2
<1>4. n \in Nat
  BY <1>1
<1>5. n % input = 0
  BY <1>2, <1>3 DEF Exact
<1> HIDE DEF n
<1>6. input * (n \div input) = n /\ n \div input \in Nat
  BY <1>4, <1>5
<1> QED
  BY <1>1, <1>2, <1>3, <1>6 DEF n

LEMMA SettingsGive ==
  ASSUME NEW input \in Nat \ {0}, NEW target \in Nat \ {0}, NEW d \in Settings(input, target)
  PROVE  Output(input, d) = target /\ target <= OUTPUT_MAX
<1> DEFINE b == d.pre * d.post1 * d.post2
           a == input * d.fb
<1>1. /\ d.pre \in 1 .. 15 /\ d.post1 \in 1 .. 7 /\ d.post2 \in 1 .. 7 /\ d.fb \in Nat
      /\ target <= OUTPUT_MAX /\ input * d.fb = target * d.pre * d.post1 * d.post2
  BY PllSettingsTyped
<1>2. b \in Nat \ {0}
  BY <1>1
<1>3. a \in Nat /\ a = b * target
  <2>1. ASSUME NEW x \in Nat, NEW y \in Nat, NEW z \in Nat PROVE target * x * y * z = (x * y * z) * target
    BY <2>1
  <2> QED
    BY <1>1, <2>1
<1>4. Output(input, d) = IF a % b = 0 THEN a \div b ELSE 0
  BY DEF Output
<1> HIDE DEF a, b
<1>5. a \div b = target /\ a % b = 0
  BY <1>2, <1>3, ExactQuotient
<1> QED
  BY <1>1, <1>4, <1>5

LEMMA Solves ==
  ASSUME NEW input \in Nat \ {0}, NEW target \in Nat \ {0}
  PROVE  /\ SolvePll(input, target) \subseteq Settings(input, target)
         /\ SolvePll(input, target) = {} <=> Settings(input, target) = {}
<1> DEFINE found == Settings(input, target)
           Rank(d) == 100 * d.pre + 10 * d.post2 + d.post1
           first == CHOOSE d \in found : \A e \in found : Rank(d) <= Rank(e)
<1>1. SolvePll(input, target) = IF found = {} THEN {} ELSE {first}
  BY DEF SolvePll
<1>2. ASSUME found # {} PROVE \E d \in found : \A e \in found : Rank(d) <= Rank(e)
  <2> DEFINE V == {Rank(d) : d \in found}
             R == WellFounded!OpToRel(<, Nat)
  <2>1. ASSUME NEW d \in found PROVE Rank(d) \in Nat
    <3>1. d.pre \in Nat /\ d.post1 \in Nat /\ d.post2 \in Nat
      BY PllSettingsTyped
    <3> QED
      BY <3>1
  <2>2. V \subseteq Nat /\ V # {}
    BY <1>2, <2>1
  <2>3. WellFounded!IsWellFoundedOn(R, Nat)
    BY WellFounded!NatLessThanWellFounded
  <2>4. \A x, y \in Nat : y < x => <<y, x>> \in R
    BY DEF WellFounded!OpToRel
  <2> HIDE DEF R
  <2>5. \E v \in V : \A w \in V : ~(<<w, v>> \in R)
    <3> HIDE DEF V
    <3> QED
      BY <2>2, <2>3, WellFounded!WFMin
  <2>6. PICK d \in found : \A w \in V : ~(<<w, Rank(d)>> \in R)
    BY <2>5
  <2>7. ASSUME NEW e \in found PROVE Rank(d) <= Rank(e)
    <3> DEFINE x == Rank(d)
               y == Rank(e)
    <3>1. x \in Nat /\ y \in Nat /\ y \in V
      BY <2>1
    <3>2. ~(<<y, x>> \in R)
      BY <2>6, <3>1
    <3> HIDE DEF x, y
    <3>3. ~(y < x)
      BY <2>4, <3>1, <3>2
    <3>4. x <= y
      BY <3>1, <3>3
    <3> QED
      BY <3>4 DEF x, y
  <2> QED
    BY <2>7
<1>3. found # {} => first \in found
  <2> HIDE DEF found, Rank
  <2> QED
    BY <1>2
<1> HIDE DEF first
<1> QED
  BY <1>1, <1>3

\* What the search is not told of: the two post dividers the other way round.
LEMMA CompleteTick ==
  ASSUME NEW input \in Nat \ {0}, NEW target \in Nat \ {0}, target <= OUTPUT_MAX, Settings(input, target) = {},
         NEW pre \in 1 .. 15, NEW p1 \in 1 .. 7, NEW p2 \in 1 .. 7, NEW fb \in 16 .. 400
  PROVE  \/ input * fb # target * pre * p1 * p2
         \/ input \notin PLLI_MIN * pre .. PLLI_MAX * pre
         \/ input * fb \notin VCO_MIN * pre .. VCO_MAX * pre
<1> SUFFICES ASSUME input * fb = target * pre * p1 * p2, input \in PLLI_MIN * pre .. PLLI_MAX * pre,
                    input * fb \in VCO_MIN * pre .. VCO_MAX * pre
             PROVE  FALSE
  OBVIOUS
<1>1. ASSUME NEW q1 \in 1 .. 7, NEW q2 \in 1 .. 7, q2 <= q1, input * fb = target * pre * q1 * q2
      PROVE  FALSE
  <2> DEFINE n == target * pre * q1 * q2
             d == [fb |-> n \div input, pre |-> pre, post1 |-> q1, post2 |-> q2]
  <2>1. n \in Nat /\ n = input * fb
    BY <1>1
  <2>2. n \div input = fb /\ n % input = 0
    <3>1. input \in Nat \ {0} /\ fb \in Nat
      OBVIOUS
    <3> HIDE DEF n
    <3> QED
      BY <2>1, <3>1, ExactQuotient
  <2>3. d.fb = fb /\ d.pre = pre /\ d.post1 = q1 /\ d.post2 = q2
    BY <2>2
  <2>4. Exact(input, target, d)
    BY <2>2, <2>3 DEF Exact
  <2>5. d \in Settings(input, target)
    <3> DEFINE Setting(p, a, b) == [fb |-> (target * p * a * b) \div input, pre |-> p, post1 |-> a, post2 |-> b]
               Pres == {k \in 1 .. 15 : input \in PLLI_MIN * k .. PLLI_MAX * k}
    <3>2. pre \in Pres /\ d = Setting(pre, q1, q2)
      OBVIOUS
    <3>1. d \in {Setting(p, a, b) : p \in Pres, a \in 1 .. 7, b \in 1 .. 7}
      <4> HIDE DEF d, Setting, Pres
      <4> QED
        BY <1>1, <3>2
    <3> HIDE DEF d
    <3> QED
      BY <1>1, <2>3, <2>4, <3>1 DEF Settings
  <2> QED
    BY <2>5
<1>2. CASE p2 <= p1
  BY <1>1, <1>2
<1>3. CASE ~(p2 <= p1)
  <2>1. input * fb = target * pre * p2 * p1
    <3>1. ASSUME NEW x \in Nat, NEW y \in Nat, NEW z \in Nat PROVE x * y * z = x * z * y
      BY <3>1
    <3>2. target * pre \in Nat /\ p1 \in Nat /\ p2 \in Nat
      BY Limits
    <3> QED
      BY <3>1, <3>2
  <2> QED
    BY <1>1, <1>3, <2>1
<1> QED
  BY <1>2, <1>3

LEMMA LookedUp ==
  ASSUME NEW s \in PllInputs, NEW target \in Targets
  PROVE  Solution[TrueKhz[s]][target] = SolvePll(TrueKhz[s], target)
<1>1. TrueKhz[s] \in {TrueKhz[x] : x \in PllInputs}
  OBVIOUS
<1> QED
  BY <1>1 DEF Solution

-----------------------------------------------------------------------------
(* What is known of a source, and what it gives.                            *)

LEMMA OscillatorsGive ==
  ASSUME NEW s \in Oscillators, NEW known
  PROVE  /\ TrueKhz[s] \in 1 .. PLLI_MAX /\ s \notin Plls
         /\ OscillatorKhz(known, s) \in {0, TrueKhz[s]}
         /\ OscillatorKhz(known, s) # 0 <=> s = "FRC" \/ s \in known
BY ClockAssumption DEF OscillatorKhz

LEMMA PllsGive ==
  ASSUME ClockTyped, NEW p \in Plls, PllGood(p), pll[p].ready, NEW known, declared \subseteq known
  PROVE  PllKhz(known, p) = pll[p].khz /\ pll[p].khz \in 1 .. OUTPUT_MAX
<1>1. /\ pll[p].khz \in Targets \cup {STARTER_CLOCK_SYS} /\ pll[p].khz <= OUTPUT_MAX
      /\ pll[p].source = "FRC" \/ pll[p].source \in declared
  BY DEF PllGood
<1>2. PICK d : pll[p].div = {d} /\ Output(TrueKhz[pll[p].source], d) = pll[p].khz
  BY DEF PllGood
<1>3. (CHOOSE x \in pll[p].div : TRUE) = d /\ pll[p].div # {}
  BY <1>2
<1>4. OscillatorKhz(known, pll[p].source) = TrueKhz[pll[p].source]
  BY <1>1 DEF OscillatorKhz
<1>5. pll[p].khz \in 1 .. OUTPUT_MAX
  <2>1. pll[p].khz \in Nat \ {0}
    BY <1>1, ClockAssumption, Limits
  <2> QED
    BY <1>1, <2>1, Limits
<1> QED
  BY <1>2, <1>3, <1>4, <1>5, Limits DEF PllKhz

LEMMA SourcesGive ==
  ASSUME ClockInv, NEW s \in SystemSources, s \in Plls => s \notin unsure /\ pll[s].ready,
         NEW known, declared \subseteq known
  PROVE  /\ Running(s) \in 1 .. OUTPUT_MAX /\ SourceKhz(known, s) \in {0, Running(s)}
         /\ s \in Plls => SourceKhz(known, s) = Running(s)
         /\ s \notin Plls => Running(s) <= PLLI_MAX
<1>1. CASE s \in Plls
  <2>1. PllKhz(known, s) = pll[s].khz /\ pll[s].khz \in 1 .. OUTPUT_MAX
    BY <1>1, PllsGive DEF ClockInv, PllsAreUp
  <2> QED
    BY <1>1, <2>1 DEF Running, SourceKhz
<1>2. CASE s \notin Plls
  <2>1. s \in Oscillators
    BY <1>2 DEF SystemSources, Sources
  <2>2. TrueKhz[s] \in 1 .. PLLI_MAX /\ OscillatorKhz(known, s) \in {0, TrueKhz[s]}
    BY <2>1, OscillatorsGive
  <2> QED
    BY <1>2, <2>2, Limits DEF Running, SourceKhz
<1> QED
  BY <1>1, <1>2

-----------------------------------------------------------------------------
(* The promise.                                                             *)

LEMMA ClockPromise == ClockInv => ClockTypeOK /\ CpuClockIsSafe /\ FoscIsReal /\ PllIsExact
<1> SUFFICES ASSUME ClockInv PROVE ClockTypeOK /\ CpuClockIsSafe /\ FoscIsReal /\ PllIsExact
  OBVIOUS
<1>1. ClockTypeOK
  BY DEF ClockInv, ClockTyped, ClockTypeOK, SystemSources
<1>2. ASSUME Settled PROVE Running(clk.source) > 0 /\ CpuKhz <= SYSTEM_MAX /\ Fosc \in {0, CpuKhz}
  <2> DEFINE s == clk.source
             n == Divider
             k == SourceKhz(declared, s)
  <2>1. s \in SystemSources /\ clk.int \in Nat /\ clk.frac \in {0, 256}
    BY DEF ClockInv, ClockTyped
  <2>2. s \notin unsure /\ divides.int = clk.int /\ divides.frac = clk.frac
    BY <1>2 DEF Settled, ClockInv, DividerIsKnown
  <2>3. s \in Plls => pll[s].ready
    BY <2>2 DEF ClockInv, PllsAreUp
  <2>4. Running(s) \in 1 .. OUTPUT_MAX /\ k \in {0, Running(s)}
    BY <2>1, <2>2, <2>3, SourcesGive
  <2>5. n \in Nat \ {0} /\ CpuKhz = Running(s) \div n
    <3>1. n # 0 /\ Running(s) \in Nat
      BY <2>4, Limits DEF ClockInv
    <3>2. n \in Nat \ {0} /\ \A khz \in Nat : Divided(khz, clk.int, clk.frac) = khz \div n
      BY <2>1, <3>1, DividerTyped DEF Divider
    <3>3. CpuKhz = Divided(Running(s), clk.int, clk.frac)
      BY <2>2 DEF CpuKhz
    <3> QED
      BY <3>1, <3>2, <3>3
  <2>6. Running(s) \div n <= SYSTEM_MAX
    BY <1>2 DEF ClockInv, WithinLimit
  <2>7. Fosc = k \div n
    BY <2>5 DEF Fosc, Divider
  <2>8. 0 \div n = 0
    BY <2>5
  <2> HIDE DEF s, n, k
  <2>9. Running(s) > 0 /\ CpuKhz <= SYSTEM_MAX /\ Fosc \in {0, CpuKhz}
    BY <2>4, <2>5, <2>6, <2>7, <2>8, Limits
  <2> QED
    BY <2>9 DEF s
<1>3. CpuClockIsSafe /\ FoscIsReal
  BY <1>2 DEF CpuClockIsSafe, FoscIsReal
<1>4. PllIsComplete
  <2>1. ASSUME NEW s \in PllInputs, NEW target \in Targets, target <= OUTPUT_MAX, Solution[TrueKhz[s]][target] = {}
        PROVE  Settings(TrueKhz[s], target) = {} /\ TrueKhz[s] \in Nat \ {0} /\ target \in Nat \ {0}
    <3>1. TrueKhz[s] \in Nat \ {0} /\ target \in Nat \ {0}
      BY ClockAssumption DEF PllInputs
    <3> QED
      BY <2>1, <3>1, LookedUp, Solves
  <2>2. ASSUME NEW s \in PllInputs, NEW target \in Targets, target <= OUTPUT_MAX, Solution[TrueKhz[s]][target] = {}
        PROVE  \A pre \in 1 .. 15, p1 \in 1 .. 7, p2 \in 1 .. 7, fb \in 16 .. 400 :
                 \/ TrueKhz[s] * fb # target * pre * p1 * p2
                 \/ TrueKhz[s] \notin PLLI_MIN * pre .. PLLI_MAX * pre
                 \/ TrueKhz[s] * fb \notin VCO_MIN * pre .. VCO_MAX * pre
    BY <2>1, <2>2, CompleteTick
  <2> DEFINE Missed(input, target) ==
               Solution[input][target] = {} =>
                 \A pre \in 1 .. 15, p1 \in 1 .. 7, p2 \in 1 .. 7, fb \in 16 .. 400 :
                   \/ input * fb # target * pre * p1 * p2
                   \/ input \notin PLLI_MIN * pre .. PLLI_MAX * pre
                   \/ input * fb \notin VCO_MIN * pre .. VCO_MAX * pre
  <2>3. \A s \in PllInputs, target \in Targets : target <= OUTPUT_MAX => Missed(TrueKhz[s], target)
    BY <2>2
  <2>4. PllIsComplete = \A input \in {TrueKhz[s] : s \in PllInputs}, target \in {t \in Targets : t <= OUTPUT_MAX} :
                          Missed(input, target)
    BY Zenon DEF PllIsComplete
  <2> HIDE DEF Missed
  <2> QED
    BY <2>3, <2>4
<1>5. \A p \in Plls \ unsure : pll[p].div = {} \/ (pll[p].ready /\ pll[p].khz \in Targets \cup {STARTER_CLOCK_SYS})
  BY DEF ClockInv, PllsAreUp, PllGood
<1> QED
  BY <1>1, <1>3, <1>4, <1>5 DEF PllIsExact

-----------------------------------------------------------------------------
(* The steps.                                                               *)

LEMMA ClockInitInv == ClockInitState => ClockInv
<1> SUFFICES ASSUME ClockInitState PROVE ClockInv
  OBVIOUS
<1>1. "FRC" \in SystemSources /\ "FRC" \in PllInputs /\ "FRC" \notin Plls
  BY ClockAssumption DEF SystemSources, Sources, PllInputs, Plls
<1>2. ClockTyped
  <2>1. \A p \in Plls : pll[p] = [source |-> "FRC", div |-> {}, ready |-> FALSE, khz |-> 0]
    BY DEF ClockInitState
  <2>2. 0 \in 0 .. OUTPUT_MAX
    BY Limits
  <2>3. \A p \in Plls : /\ pll[p].source \in PllInputs /\ pll[p].ready \in BOOLEAN
                       /\ pll[p].khz \in 0 .. OUTPUT_MAX
    <3> SUFFICES ASSUME NEW p \in Plls
                 PROVE  /\ pll[p].source \in PllInputs /\ pll[p].ready \in BOOLEAN
                        /\ pll[p].khz \in 0 .. OUTPUT_MAX
      OBVIOUS
    <3>1. pll[p].source = "FRC" /\ pll[p].khz = 0 /\ pll[p].ready = FALSE
      BY <2>1
    <3>2. pll[p].ready \in BOOLEAN
      BY <3>1
    <3> QED
      BY <1>1, <2>2, <3>1, <3>2
  <2>4. clk \in [source : SystemSources, to : SystemSources, int : Nat, frac : {0, 256}]
    BY <1>1 DEF ClockInitState
  <2>5. divides \in [int : Nat, frac : {0, 256}] /\ DOMAIN pll = Plls /\ declared \subseteq Declarable
    BY DEF ClockInitState
  <2> QED
    BY <2>3, <2>4, <2>5 DEF ClockTyped
<1>3. Divider = 1
  BY DEF ClockInitState, Divider, DividerOf
<1>4. PllsAreUp
  BY <1>1 DEF ClockInitState, PllsAreUp, PllGood
<1>5. WithinLimit
  <2>1. TrueKhz["FRC"] \in Nat /\ TrueKhz["FRC"] <= PLLI_MAX /\ clk.source = "FRC"
    BY ClockAssumption, Limits DEF ClockInitState
  <2>2. TrueKhz["FRC"] \div 1 <= TrueKhz["FRC"] /\ TrueKhz["FRC"] \div 1 \in Nat
    BY <2>1, Scales
  <2>3. TrueKhz["FRC"] \div 1 <= SYSTEM_MAX
    <3> DEFINE k == TrueKhz["FRC"]
               q == k \div 1
    <3> HIDE DEF k, q
    <3>1. q <= SYSTEM_MAX
      BY <2>1, <2>2, Limits DEF k, q
    <3> QED
      BY <3>1 DEF k, q
  <2>4. Running(clk.source) = TrueKhz["FRC"]
    BY <1>1, <2>1 DEF Running
  <2> QED
    BY <1>3, <2>3, <2>4 DEF WithinLimit
<1> QED
  BY <1>2, <1>3, <1>4, <1>5 DEF ClockInitState, ClockInv, SourceIsKnown, DividerIsKnown

\* A PLL keeps what it has while no more is said of the sources than was.
LEMMA StaysGood ==
  ASSUME NEW p \in Plls, pll'[p] = pll[p], declared \subseteq declared', PllGood(p)
  PROVE  PllGood(p)'
BY DEF PllGood

\* A PLL is brought up, as far as it goes.
LEMMA Brought ==
  ASSUME ClockTyped, NEW p \in Plls, NEW s \in PllInputs, NEW target \in Nat \ {0},
         target \in Targets \cup {STARTER_CLOCK_SYS}, NEW d \in Settings(TrueKhz[s], target),
         NEW i \in 1 .. 6, NEW new \in Programmed(p, s, d, i), pll' = [pll EXCEPT ![p] = new],
         declared \subseteq declared', declared' \subseteq Declarable, s = "FRC" \/ s \in declared'
  PROVE  /\ DOMAIN pll' = Plls
         /\ \A q \in Plls : /\ pll'[q].source \in PllInputs /\ pll'[q].ready \in BOOLEAN
                            /\ pll'[q].khz \in 0 .. OUTPUT_MAX
         /\ \A q \in Plls \ {p} : pll'[q] = pll[q]
         /\ i = 6 => PllGood(p)' /\ pll'[p].ready
<1>1. Output(TrueKhz[s], d) = target /\ target \in 0 .. OUTPUT_MAX
  <2>1. TrueKhz[s] \in Nat \ {0}
    BY ClockAssumption DEF PllInputs
  <2> QED
    BY <2>1, SettingsGive
<1>2. /\ new.source \in {s, pll[p].source} /\ new.ready \in BOOLEAN /\ new.div = {d}
      /\ new.khz \in {0, pll[p].khz, target}
      /\ i = 6 => new.source = s /\ new.ready /\ new.khz = target
  <2> DEFINE out == Output(TrueKhz[s], d)
  <2>1. /\ new.source = (IF i >= 4 THEN s ELSE pll[p].source) /\ new.div = {d}
        /\ new.ready \in (IF i = 6 THEN {TRUE} ELSE IF i = 5 THEN {FALSE} ELSE BOOLEAN)
        /\ new.khz \in (IF i = 6 THEN {out} ELSE {0, pll[p].khz, out})
    BY DEF Programmed
  <2>2. new.ready \in BOOLEAN /\ (i = 6 => new.ready)
    BY <2>1
  <2> QED
    BY <1>1, <2>1, <2>2
<1>3. DOMAIN pll' = Plls /\ pll'[p] = new /\ \A q \in Plls \ {p} : pll'[q] = pll[q]
  BY DEF ClockTyped
<1>4. ASSUME NEW q \in Plls
      PROVE  pll'[q].source \in PllInputs /\ pll'[q].ready \in BOOLEAN /\ pll'[q].khz \in 0 .. OUTPUT_MAX
  <2>1. CASE q = p
    <3>1. new.source \in PllInputs
      BY <1>2 DEF ClockTyped
    <3>2. new.khz \in 0 .. OUTPUT_MAX
      BY <1>1, <1>2, Limits DEF ClockTyped
    <3> QED
      BY <1>2, <1>3, <2>1, <3>1, <3>2
  <2>2. CASE q # p
    BY <1>3, <2>2 DEF ClockTyped
  <2> QED
    BY <2>1, <2>2
<1>5. ASSUME i = 6 PROVE PllGood(p)' /\ pll'[p].ready
  <2>1. /\ pll'[p].ready /\ pll'[p].khz = target /\ pll'[p].source = s /\ pll'[p].div = {d}
    BY <1>2, <1>3, <1>5
  <2>2. target <= OUTPUT_MAX /\ Output(TrueKhz[pll'[p].source], d) = pll'[p].khz
    BY <1>1, <2>1, Limits
  <2> QED
    BY <2>1, <2>2 DEF PllGood
<1> QED
  BY <1>3, <1>4, <1>5

\* More is said of the sources, and nothing else changes.
LEMMA DeclaredKeeps ==
  ASSUME ClockInv, Refuse, declared \subseteq declared', declared' \subseteq Declarable
  PROVE  ClockInv'
<1>1. ClockTyped' /\ Divider' # 0
  BY DEF ClockInv, ClockTyped, Refuse, Divider
<1>2. PllsAreUp'
  <2>1. \A p \in Plls : PllGood(p) => PllGood(p)'
    BY StaysGood DEF Refuse
  <2> QED
    BY <2>1 DEF ClockInv, PllsAreUp, Refuse
<1>3. (SourceIsKnown /\ DividerIsKnown /\ WithinLimit)'
  BY DEF ClockInv, SourceIsKnown, DividerIsKnown, WithinLimit, Refuse, Settled, Running, Divider
<1> QED
  BY <1>1, <1>2, <1>3 DEF ClockInv

LEMMA ToldMore ==
  ASSUME ClockTyped, NEW s, NEW khz
  PROVE  declared \subseteq Told(s, khz) /\ Told(s, khz) \subseteq Declarable
BY DEF ClockTyped, Told

\* A PLL that the CPU does not run from is programmed.
LEMMA ReprogrammedKeeps ==
  ASSUME ClockInv, NEW p \in Plls, p # clk.source, NEW s \in PllInputs, NEW target \in Nat \ {0},
         target \in Targets \cup {STARTER_CLOCK_SYS}, NEW d \in Settings(TrueKhz[s], target),
         NEW i \in 1 .. 6, NEW new \in Programmed(p, s, d, i), pll' = [pll EXCEPT ![p] = new],
         declared \subseteq declared', declared' \subseteq Declarable, s = "FRC" \/ s \in declared',
         IF i = 6 THEN Ends(p) ELSE Stalls(p), UNCHANGED <<clk, divides>>
  PROVE  ClockInv'
<1>1. /\ DOMAIN pll' = Plls
      /\ \A q \in Plls : /\ pll'[q].source \in PllInputs /\ pll'[q].ready \in BOOLEAN
                         /\ pll'[q].khz \in 0 .. OUTPUT_MAX
      /\ \A q \in Plls \ {p} : pll'[q] = pll[q]
      /\ i = 6 => PllGood(p)' /\ pll'[p].ready
  BY Brought DEF ClockInv
<1>2. ClockTyped' /\ Divider' # 0
  BY <1>1 DEF ClockInv, ClockTyped, Divider
<1>3. unsure \ {p} \subseteq unsure' /\ (i # 6 => p \in unsure')
  BY DEF Ends, Stalls
<1>4. PllsAreUp'
  <2> SUFFICES ASSUME NEW q \in Plls \ unsure' PROVE PllGood(q)' /\ (q \in {clk.source, clk.to} => pll'[q].ready)
    BY DEF PllsAreUp
  <2>1. CASE q = p
    BY <1>1, <1>3, <2>1
  <2>2. CASE q # p
    <3>1. PllGood(q) /\ (q \in {clk.source, clk.to} => pll[q].ready) /\ pll'[q] = pll[q]
      BY <1>1, <1>3, <2>2 DEF ClockInv, PllsAreUp
    <3> QED
      BY <3>1, StaysGood
  <2> QED
    BY <2>1, <2>2
<1>5. p \notin {"src", "div", clk.source}
  BY DEF Plls
<1>6. (SourceIsKnown /\ DividerIsKnown)'
  BY <1>3, <1>5 DEF ClockInv, SourceIsKnown, DividerIsKnown
<1>7. WithinLimit'
  <2>1. Settled' => Settled
    BY <1>3, <1>5 DEF Settled
  <2>2. Running(clk.source)' = Running(clk.source)
    BY <1>1, <1>5 DEF Running
  <2> QED
    BY <2>1, <2>2 DEF ClockInv, WithinLimit, Divider
<1> QED
  BY <1>2, <1>4, <1>6, <1>7 DEF ClockInv

LEMMA ConfigureKeeps ==
  ASSUME ClockInv, NEW p \in Plls, NEW s \in Sources, NEW khz, PllConfigure(p, s, khz)
  PROVE  ClockInv'
<1>1. CASE Refuse /\ declared' = declared
  BY <1>1, DeclaredKeeps DEF ClockInv, ClockTyped
<1>2. CASE Refuse /\ declared' = Told(s, khz)
  BY <1>2, DeclaredKeeps, ToldMore DEF ClockInv
<1>3. ASSUME s \in PllInputs, ~Drives(p), declared' = Told(s, khz), OscillatorKhz(declared', s) # 0,
             NEW target \in Targets, Solution[TrueKhz[s]][target] # {},
             NEW i \in 1 .. 6, NEW d \in Solution[TrueKhz[s]][target], NEW new \in Programmed(p, s, d, i),
             pll' = [pll EXCEPT ![p] = new], IF i = 6 THEN Ends(p) ELSE Stalls(p), UNCHANGED <<clk, divides>>
      PROVE  ClockInv'
  <2>1. target \in Nat \ {0} /\ TrueKhz[s] \in Nat \ {0}
    BY <1>3, ClockAssumption DEF PllInputs
  <2>2. d \in Settings(TrueKhz[s], target)
    BY <1>3, <2>1, LookedUp, Solves
  <2>3. declared \subseteq declared' /\ declared' \subseteq Declarable
    BY <1>3, ToldMore DEF ClockInv
  <2>4. (s = "FRC" \/ s \in declared') /\ p # clk.source
    BY <1>3 DEF OscillatorKhz, Drives
  <2> QED
    BY <1>3, <2>1, <2>2, <2>3, <2>4, ReprogrammedKeeps
<1>4. \/ Refuse /\ declared' = declared
      \/ Refuse /\ declared' = Told(s, khz)
      \/ /\ s \in PllInputs /\ ~Drives(p) /\ declared' = Told(s, khz) /\ OscillatorKhz(declared', s) # 0
         /\ \E target \in Targets : /\ Solution[TrueKhz[s]][target] # {}
              /\ \E i \in 1 .. 6, d \in Solution[TrueKhz[s]][target] :
                   /\ \E new \in Programmed(p, s, d, i) : pll' = [pll EXCEPT ![p] = new]
                   /\ IF i = 6 THEN Ends(p) ELSE Stalls(p)
                   /\ UNCHANGED <<clk, divides>>
  BY DEF PllConfigure
<1> QED
  BY <1>1, <1>2, <1>3, <1>4

\* The CPU's generator is pointed at a source.
LEMMA CommittedKeeps ==
  ASSUME ClockInv, NEW s \in SystemSources, CommitSource(s), divides' = divides,
         DOMAIN pll' = Plls,
         \A q \in Plls : /\ pll'[q].source \in PllInputs /\ pll'[q].ready \in BOOLEAN
                        /\ pll'[q].khz \in 0 .. OUTPUT_MAX,
         declared' \subseteq Declarable,
         \A q \in Plls \ unsure' : PllGood(q)' /\ (q \in {clk.source, clk.to, s} => pll'[q].ready),
         s \notin unsure' => (IF s \in Plls THEN pll'[s].khz ELSE TrueKhz[s]) \div Divider <= SYSTEM_MAX
  PROVE  ClockInv'
<1>1. /\ clk' \in [source : SystemSources, to : SystemSources, int : Nat, frac : {0, 256}]
      /\ clk'.int = clk.int /\ clk'.frac = clk.frac
      /\ clk'.to = s /\ clk'.source \in {clk.source, s}
  <2>1. clk \in [source : SystemSources, to : SystemSources, int : Nat, frac : {0, 256}]
    BY DEF ClockInv, ClockTyped
  <2>2. CASE clk' = [clk EXCEPT !.source = s, !.to = s]
    BY <2>1, <2>2
  <2>3. CASE clk' = [clk EXCEPT !.to = s]
    BY <2>1, <2>3
  <2> QED
    BY <2>2, <2>3 DEF CommitSource
<1>2. ClockTyped' /\ Divider' # 0
  BY <1>1 DEF ClockInv, ClockTyped, Divider
<1>3. PllsAreUp'
  BY <1>1 DEF PllsAreUp
<1>4. CASE clk' = [clk EXCEPT !.source = s, !.to = s] /\ Ends("src")
  <2>1. clk'.source = s /\ unsure' = unsure \ {"src"}
    BY <1>4 DEF ClockInv, ClockTyped, Ends
  <2>2. (SourceIsKnown /\ DividerIsKnown)'
    BY <1>1, <2>1 DEF ClockInv, SourceIsKnown, DividerIsKnown
  <2>3. WithinLimit'
    BY <1>1, <2>1 DEF WithinLimit, Settled, Running, Divider
  <2> QED
    BY <1>2, <1>3, <2>2, <2>3 DEF ClockInv
<1>5. CASE clk' = [clk EXCEPT !.to = s] /\ Stalls("src")
  <2>1. "src" \in unsure' /\ unsure \subseteq unsure'
    BY <1>5 DEF Stalls
  <2>2. (SourceIsKnown /\ DividerIsKnown)'
    BY <1>1, <2>1 DEF ClockInv, SourceIsKnown, DividerIsKnown
  <2>3. WithinLimit'
    BY <2>1 DEF WithinLimit, Settled
  <2> QED
    BY <1>2, <1>3, <2>2, <2>3 DEF ClockInv
<1> QED
  BY <1>4, <1>5 DEF CommitSource

LEMMA DividerIs == ClockInv => Divider \in Nat \ {0}
<1> SUFFICES ASSUME ClockInv PROVE Divider \in Nat \ {0}
  OBVIOUS
<1>1. clk.int \in Nat /\ clk.frac \in {0, 256} /\ DividerOf(clk.int, clk.frac) # 0
  BY DEF ClockInv, ClockTyped, Divider
<1> QED
  BY <1>1, DividerTyped DEF Divider

LEMMA SwitchKeeps ==
  ASSUME ClockInv, NEW s \in Sources, NEW khz, SwitchSource(s, khz)
  PROVE  ClockInv'
<1>1. CASE Refuse /\ declared' = declared
  BY <1>1, DeclaredKeeps DEF ClockInv, ClockTyped
<1>2. CASE Refuse /\ declared' = Told(s, khz)
  BY <1>2, DeclaredKeeps, ToldMore DEF ClockInv
<1> DEFINE n == Divider
           k == SourceKhz(Told(s, khz), s)
<1>3. ASSUME s \in SystemSources, declared' = Told(s, khz), s \in Plls => pll[s].ready,
             k = 0 \/ ~(k \div n > SYSTEM_MAX), CommitSource(s), UNCHANGED <<divides, pll>>
      PROVE  ClockInv'
  <2>1. declared \subseteq declared' /\ declared' \subseteq Declarable
    BY <1>3, ToldMore DEF ClockInv
  <2>2. unsure \subseteq unsure' \cup {"src"}
    BY <1>3 DEF CommitSource, Ends, Stalls
  <2>3. \A q \in Plls \ unsure' : PllGood(q)' /\ (q \in {clk.source, clk.to, s} => pll'[q].ready)
    <3> SUFFICES ASSUME NEW q \in Plls \ unsure'
                 PROVE  PllGood(q)' /\ (q \in {clk.source, clk.to, s} => pll'[q].ready)
      OBVIOUS
    <3>1. q \notin unsure
      BY <2>2 DEF Plls
    <3>2. PllGood(q) /\ (q \in {clk.source, clk.to} => pll[q].ready)
      BY <3>1 DEF ClockInv, PllsAreUp
    <3> QED
      BY <1>3, <2>1, <3>2, StaysGood
  <2>4. s \notin unsure' => (IF s \in Plls THEN pll'[s].khz ELSE TrueKhz[s]) \div Divider <= SYSTEM_MAX
    <3> SUFFICES ASSUME s \notin unsure' PROVE Running(s) \div n <= SYSTEM_MAX
      BY <1>3 DEF Running
    <3>1. s \in Plls => s \notin unsure
      BY <2>2 DEF Plls
    <3>2. /\ Running(s) \in 1 .. OUTPUT_MAX /\ (s \in Plls => k = Running(s))
          /\ (s \notin Plls => Running(s) <= PLLI_MAX)
      BY <1>3, <2>1, <3>1, SourcesGive
    <3>3. n \in Nat \ {0} /\ Running(s) \in Nat
      BY <3>2, DividerIs, Limits
    <3>4. Running(s) \div n \in Nat /\ Running(s) \div n <= Running(s)
      BY <3>3, Scales
    <3> HIDE DEF n, k
    <3>5. CASE s \in Plls
      <4>1. k = Running(s) /\ k # 0
        BY <3>2, <3>5, Limits
      <4> QED
        BY <1>3, <3>4, <4>1, Limits
    <3>6. CASE s \notin Plls
      BY <3>2, <3>3, <3>4, <3>6, Limits
    <3> QED
      BY <3>5, <3>6
  <2> QED
    BY <1>3, <2>1, <2>3, <2>4, CommittedKeeps DEF ClockInv, ClockTyped
<1>4. \/ Refuse /\ declared' = declared
      \/ Refuse /\ declared' = Told(s, khz)
      \/ /\ s \in SystemSources /\ declared' = Told(s, khz) /\ (s \in Plls => pll[s].ready)
         /\ k = 0 \/ ~(k \div n > SYSTEM_MAX)
         /\ CommitSource(s) /\ UNCHANGED <<divides, pll>>
  BY DEF SwitchSource, Refuse, Divider
<1> QED
  BY <1>1, <1>2, <1>3, <1>4

LEMMA FieldsOfDivider ==
  ASSUME NEW d \in Nat
  PROVE  IntDiv(d) \in Nat /\ FracDiv(d) \in {0, 256}
BY DEF IntDiv, FracDiv

LEMMA DividerSetKeeps ==
  ASSUME ClockInv, NEW d \in Nat, SystemDividerSet(d)
  PROVE  ClockInv'
<1> DEFINE s == clk.source
           k == SourceKhz(declared, s)
           fields == [int |-> IntDiv(d), frac |-> FracDiv(d)]
<1>1. IntDiv(d) \in Nat /\ FracDiv(d) \in {0, 256} /\ s \in SystemSources
  BY FieldsOfDivider DEF ClockInv, ClockTyped
<1>2. /\ clk' \in [source : SystemSources, to : SystemSources, int : Nat, frac : {0, 256}]
      /\ clk'.source = s /\ clk'.to = clk.to /\ clk'.int = fields.int /\ clk'.frac = fields.frac
      /\ UNCHANGED <<pll, declared>>
  BY <1>1 DEF ClockInv, ClockTyped, SystemDividerSet, CommitDivider
<1>3. Divider' = d /\ d # 0
  BY <1>2 DEF Divider, SystemDividerSet
<1>4. divides' \in {divides, fields} /\ unsure \ {"div"} \subseteq unsure' /\ unsure' \subseteq unsure \cup {"div"}
      /\ ("div" \notin unsure' => divides' = fields)
  BY DEF SystemDividerSet, CommitDivider, Ends, Stalls
<1>5. ClockTyped'
  <2>1. divides' \in [int : Nat, frac : {0, 256}]
    BY <1>1, <1>4 DEF ClockInv, ClockTyped
  <2> QED
    BY <1>2, <2>1 DEF ClockInv, ClockTyped
<1>6. PllsAreUp'
  <2> SUFFICES ASSUME NEW q \in Plls \ unsure' PROVE PllGood(q)' /\ (q \in {clk.source, clk.to} => pll[q].ready)
    BY <1>2 DEF PllsAreUp
  <2>1. q \notin unsure
    BY <1>4 DEF Plls
  <2> QED
    BY <1>2, <2>1, StaysGood DEF ClockInv, PllsAreUp
<1>7. (SourceIsKnown /\ DividerIsKnown)'
  BY <1>2, <1>4 DEF ClockInv, SourceIsKnown, DividerIsKnown
<1>8. WithinLimit'
  <2> SUFFICES ASSUME Settled' PROVE Running(s) \div d <= SYSTEM_MAX
    BY <1>2, <1>3 DEF WithinLimit, Running
  <2>1. s \in Plls => s \notin unsure
    BY <1>2, <1>4 DEF Settled, Plls
  <2>2. s \in Plls => pll[s].ready
    BY <2>1 DEF ClockInv, PllsAreUp
  <2>3. /\ Running(s) \in 1 .. OUTPUT_MAX /\ (s \in Plls => k = Running(s))
        /\ (s \notin Plls => Running(s) <= PLLI_MAX)
    BY <1>1, <2>1, <2>2, SourcesGive
  <2>4. Running(s) \div d \in Nat /\ Running(s) \div d <= Running(s)
    <3>1. Running(s) \in Nat
      BY <2>3, Limits
    <3> QED
      BY <1>3, <3>1, Scales
  <2>5. k \div d <= SYSTEM_MAX
    BY DEF SystemDividerSet
  <2> HIDE DEF k, s
  <2>6. CASE s \in Plls
    BY <2>3, <2>5, <2>6
  <2>7. CASE s \notin Plls
    BY <2>3, <2>4, <2>7, Limits
  <2> QED
    BY <2>6, <2>7
<1> QED
  BY <1>3, <1>5, <1>6, <1>7, <1>8 DEF ClockInv

LEMMA StarterKeeps == ASSUME ClockInv, StarterClockInit PROVE ClockInv'
<1>1. PICK d \in SolvePll(TrueKhz["FRC"], STARTER_CLOCK_SYS), i \in 1 .. 6 :
        /\ \E new \in Programmed("PLL1", "FRC", d, i) : pll' = [pll EXCEPT !["PLL1"] = new]
        /\ IF i = 6
           THEN CommitSource("PLL1") /\ UNCHANGED divides
           ELSE Stalls("PLL1") /\ UNCHANGED <<clk, divides>>
  BY DEF StarterClockInit
<1>2. PICK new \in Programmed("PLL1", "FRC", d, i) : pll' = [pll EXCEPT !["PLL1"] = new]
  BY <1>1
<1>3. "FRC" \in PllInputs /\ "PLL1" \in Plls /\ "PLL1" \in SystemSources /\ clk.source = "FRC" /\ declared' = declared
      /\ TrueKhz["FRC"] \in Nat \ {0}
  BY ClockAssumption DEF PllInputs, Plls, SystemSources, Sources, StarterClockInit
<1>4. d \in Settings(TrueKhz["FRC"], STARTER_CLOCK_SYS)
  BY <1>3, Solves, Limits
<1>5. declared \subseteq declared' /\ declared' \subseteq Declarable
  BY <1>3 DEF ClockInv, ClockTyped
<1>6. CASE i # 6
  <2>1. IF i = 6 THEN Ends("PLL1") ELSE Stalls("PLL1")
    BY <1>1, <1>6
  <2>2. UNCHANGED <<clk, divides>> /\ "PLL1" # clk.source
    BY <1>1, <1>3, <1>6
  <2>3. STARTER_CLOCK_SYS \in Nat \ {0} /\ STARTER_CLOCK_SYS \in Targets \cup {STARTER_CLOCK_SYS}
    BY Limits
  <2> QED
    BY <1>2, <1>3, <1>4, <1>5, <2>1, <2>2, <2>3, ReprogrammedKeeps
<1>7. CASE i = 6
  <2>1. /\ DOMAIN pll' = Plls
        /\ \A q \in Plls : /\ pll'[q].source \in PllInputs /\ pll'[q].ready \in BOOLEAN
                           /\ pll'[q].khz \in 0 .. OUTPUT_MAX
        /\ \A q \in Plls \ {"PLL1"} : pll'[q] = pll[q]
        /\ PllGood("PLL1")' /\ pll'["PLL1"].ready
    <3>1. STARTER_CLOCK_SYS \in Nat \ {0} /\ STARTER_CLOCK_SYS \in Targets \cup {STARTER_CLOCK_SYS}
      BY Limits
    <3> QED
      BY <1>2, <1>3, <1>4, <1>5, <1>7, <3>1, Brought DEF ClockInv
  <2>2. pll'["PLL1"].khz = STARTER_CLOCK_SYS
    <3>1. Output(TrueKhz["FRC"], d) = STARTER_CLOCK_SYS
      BY <1>3, <1>4, SettingsGive, Limits
    <3>2. new.khz = STARTER_CLOCK_SYS
      BY <1>7, <3>1 DEF Programmed
    <3> QED
      BY <1>2, <1>3, <3>2 DEF ClockInv, ClockTyped
  <2>3. CommitSource("PLL1") /\ divides' = divides
    BY <1>1, <1>7
  <2>4. unsure \subseteq unsure' \cup {"src"}
    BY <2>3 DEF CommitSource, Ends, Stalls
  <2>5. \A q \in Plls \ unsure' : PllGood(q)' /\ (q \in {clk.source, clk.to, "PLL1"} => pll'[q].ready)
    <3> SUFFICES ASSUME NEW q \in Plls \ unsure', q # "PLL1"
                 PROVE  PllGood(q)' /\ (q \in {clk.source, clk.to, "PLL1"} => pll'[q].ready)
      BY <2>1
    <3>1. q \notin unsure
      BY <2>4 DEF Plls
    <3>2. PllGood(q) /\ (q \in {clk.source, clk.to} => pll[q].ready)
      BY <3>1 DEF ClockInv, PllsAreUp
    <3> QED
      BY <1>5, <2>1, <3>2, StaysGood
  <2>6. STARTER_CLOCK_SYS \div Divider <= SYSTEM_MAX
    BY DividerIs, Scales, Limits
  <2> QED
    BY <1>3, <1>5, <2>1, <2>2, <2>3, <2>5, <2>6, CommittedKeeps
<1> QED
  BY <1>6, <1>7

\* A switch that timed out takes effect.
LEMMA LateKeeps == ASSUME ClockInv, LateSwitch PROVE ClockInv'
<1>1. /\ clk' \in [source : SystemSources, to : SystemSources, int : Nat, frac : {0, 256}]
      /\ clk'.source = clk.to /\ clk'.to = clk.to /\ clk'.int = clk.int /\ clk'.frac = clk.frac
      /\ UNCHANGED <<divides, pll, declared, unsure>>
  BY DEF ClockInv, ClockTyped, LateSwitch
<1>2. "src" \in unsure
  BY DEF LateSwitch, ClockInv, SourceIsKnown
<1>3. ClockTyped' /\ Divider' # 0
  BY <1>1 DEF ClockInv, ClockTyped, Divider
<1>4. PllsAreUp'
  BY <1>1, StaysGood DEF ClockInv, PllsAreUp
<1> QED
  BY <1>1, <1>2, <1>3, <1>4 DEF ClockInv, SourceIsKnown, DividerIsKnown, WithinLimit, Settled

\* The failure monitor moves the CPU to the backup oscillator.
LEMMA FailureKeeps == ASSUME ClockInv, ClockFails PROVE ClockInv'
<1>1. "BFRC" \in SystemSources /\ "BFRC" \notin Plls /\ TrueKhz["BFRC"] \in 1 .. PLLI_MAX
  BY ClockAssumption DEF SystemSources, Sources, Plls
<1>2. /\ clk' \in [source : SystemSources, to : SystemSources, int : Nat, frac : {0, 256}]
      /\ clk'.source = "BFRC" /\ clk'.to = "BFRC" /\ clk'.int = clk.int /\ clk'.frac = clk.frac
      /\ UNCHANGED <<divides, pll, declared, unsure>>
  BY <1>1 DEF ClockInv, ClockTyped, ClockFails
<1>3. ClockTyped' /\ Divider' = Divider
  BY <1>2 DEF ClockInv, ClockTyped, Divider
<1>4. PllsAreUp'
  BY <1>1, <1>2, StaysGood DEF ClockInv, PllsAreUp
<1>5. Running(clk.source)' = TrueKhz["BFRC"]
  BY <1>1, <1>2 DEF Running
<1>6. TrueKhz["BFRC"] \div Divider <= SYSTEM_MAX
  <2> DEFINE k == TrueKhz["BFRC"]
             n == Divider
  <2>1. k \in Nat /\ k <= PLLI_MAX /\ n \in Nat \ {0}
    BY <1>1, DividerIs
  <2>2. k \div n \in Nat /\ k \div n <= k
    BY <2>1, Scales
  <2> HIDE DEF k, n
  <2>3. k \div n <= SYSTEM_MAX
    BY <2>1, <2>2, Limits
  <2> QED
    BY <2>3 DEF k, n
<1> QED
  BY <1>2, <1>3, <1>4, <1>5, <1>6 DEF ClockInv, SourceIsKnown, DividerIsKnown, WithinLimit

LEMMA ClockStepInv == ClockInv /\ [ClockNext]_clockVars => ClockInv'
<1> SUFFICES ASSUME ClockInv, [ClockNext]_clockVars PROVE ClockInv'
  OBVIOUS
<1>1. CASE UNCHANGED clockVars
  BY <1>1 DEF clockVars, ClockInv, ClockTyped, PllsAreUp, PllGood, SourceIsKnown, DividerIsKnown, WithinLimit,
              Settled, Running, Divider
<1>2. ASSUME NEW p \in Plls, NEW s \in Sources, NEW khz, PllConfigure(p, s, khz) PROVE ClockInv'
  BY <1>2, ConfigureKeeps
<1>3. ASSUME NEW s \in Sources, NEW khz, SwitchSource(s, khz) PROVE ClockInv'
  BY <1>3, SwitchKeeps
<1>4. ASSUME NEW d \in Dividers, SystemDividerSet(d) PROVE ClockInv'
  BY <1>4, ClockAssumption, DividerSetKeeps
<1> QED
  BY <1>1, <1>2, <1>3, <1>4, StarterKeeps, LateKeeps, FailureKeeps DEF ClockNext

-----------------------------------------------------------------------------
(* The rates.  The tick's counts make up its clock exactly.                 *)

TickInv ==
  /\ tick \in [on : BOOLEAN, clk : Nat, counts : Nat, pre : Nat, ms : Nat, cycles : Nat, fired : Nat]
  /\ tick.on => /\ tick.counts * tick.pre * TickHz = tick.clk
                /\ \E n \in 0 .. tick.fired : tick.ms = n % MsWrap /\ tick.cycles = n * (tick.counts * tick.pre)

RateInv ==
  /\ TickInv /\ RefusalsAreTrue /\ DivisorIsNearest /\ SpiIsNotSlower /\ BitTimesAreExact /\ FrameIsWhole

-----------------------------------------------------------------------------
(* Least and greatest.                                                      *)

LEMMA LeastOf ==
  ASSUME NEW S \in SUBSET Nat, S # {}
  PROVE  Sets!Min(S) \in S /\ \A n \in S : Sets!Min(S) <= n
<1> DEFINE R == WellFounded!OpToRel(<, Nat)
<1>1. WellFounded!IsWellFoundedOn(R, Nat)
  BY WellFounded!NatLessThanWellFounded
<1>2. \A x, y \in Nat : y < x => <<y, x>> \in R
  BY DEF WellFounded!OpToRel
<1> HIDE DEF R
<1>5. S \subseteq Nat /\ S # {}
  OBVIOUS
<1>3. PICK v \in S : \A w \in S : ~(<<w, v>> \in R)
  BY <1>1, <1>5, WellFounded!WFMin
<1>4. ASSUME NEW w \in S PROVE v <= w
  <2>1. v \in Nat /\ w \in Nat
    BY <1>5
  <2>2. ~(w < v)
    BY <1>2, <1>3, <2>1
  <2> QED
    BY <2>1, <2>2
<1> QED
  BY <1>4 DEF Sets!Min

LEMMA LesserOf ==
  ASSUME NEW a \in Int, NEW b \in Int
  PROVE  Sets!Min({a, b}) = IF a <= b THEN a ELSE b
<1> DEFINE m == IF a <= b THEN a ELSE b
<1>1. m \in {a, b} /\ \A y \in {a, b} : m <= y
  OBVIOUS
<1>2. Sets!Min({a, b}) \in {a, b} /\ \A y \in {a, b} : Sets!Min({a, b}) <= y
  BY <1>1 DEF Sets!Min
<1> QED
  BY <1>1, <1>2

LEMMA GreaterOf ==
  ASSUME NEW a \in Int, NEW b \in Int
  PROVE  Sets!Max({a, b}) = IF a >= b THEN a ELSE b
<1> DEFINE m == IF a >= b THEN a ELSE b
<1>1. m \in {a, b} /\ \A y \in {a, b} : m >= y
  OBVIOUS
<1>2. Sets!Max({a, b}) \in {a, b} /\ \A y \in {a, b} : Sets!Max({a, b}) >= y
  BY <1>1 DEF Sets!Max
<1> QED
  BY <1>1, <1>2

-----------------------------------------------------------------------------
(* The tick.                                                                *)

LEMMA Quotient ==
  ASSUME NEW x \in Nat, NEW d \in Nat \ {0}
  PROVE  /\ x \div d \in Nat /\ x % d \in 0 .. d - 1 /\ x = d * (x \div d) + (x % d)
         /\ x \div d <= x
<1> DEFINE q == x \div d
           r == x % d
<1>1. q \in Nat /\ r \in 0 .. d - 1 /\ x = d * q + r
  OBVIOUS
<1> HIDE DEF q, r
<1>2. q <= d * q
  BY <1>1
<1>3. q <= x
  BY <1>1, <1>2
<1> QED
  BY <1>1, <1>3 DEF q, r

LEMMA QuotientIs ==
  ASSUME NEW x \in Nat, NEW d \in Nat \ {0}, NEW q \in Nat, d * q <= x, x < d * q + d
  PROVE  x \div d = q /\ x % d = x - d * q
<1> DEFINE r == x - d * q
<1>1. r \in 0 .. d - 1 /\ x = d * q + r
  OBVIOUS
<1> HIDE DEF r
<1>2. x \div d = q
  BY <1>1
<1>3. x % d = r
  BY <1>1
<1> QED
  BY <1>2, <1>3 DEF r

LEMMA Tacts == ASSUME TickInv PROVE TickIsExact
<1> SUFFICES ASSUME tick.on
             PROVE  \E wraps \in 0 .. tick.fired : (tick.ms + wraps * MsWrap) * tick.clk = tick.cycles * TickHz
  BY DEF TickIsExact
<1>1. PICK n \in 0 .. tick.fired : tick.ms = n % MsWrap /\ tick.cycles = n * (tick.counts * tick.pre)
  BY DEF TickInv
<1> DEFINE w == n \div MsWrap
<1>2. tick.fired \in Nat /\ tick.ms \in Nat /\ MsWrap \in Nat \ {0} /\ TickHz \in Nat \ {0}
      /\ tick.counts \in Nat /\ tick.pre \in Nat /\ tick.clk \in Nat
  BY RatesAssumption DEF TickInv
<1>3. n \in Nat /\ w \in Nat /\ n = MsWrap * w + tick.ms /\ w <= n
  <2>1. n \in Nat
    BY <1>2
  <2>2. w \in Nat /\ n = MsWrap * w + (n % MsWrap) /\ w <= n
    BY <1>2, <2>1, Quotient
  <2> QED
    BY <1>1, <2>1, <2>2
<1> HIDE DEF w
<1>4. tick.ms + w * MsWrap = n
  BY <1>2, <1>3
<1>5. tick.clk = (tick.counts * tick.pre) * TickHz
  BY DEF TickInv
<1> DEFINE c == tick.counts * tick.pre
<1>6. c \in Nat
  BY <1>2
<1>7. n * (c * TickHz) = (n * c) * TickHz
  <2> HIDE DEF c
  <2> QED
    BY <1>2, <1>3, <1>6
<1>8. (tick.ms + w * MsWrap) * tick.clk = tick.cycles * TickHz
  BY <1>1, <1>4, <1>5, <1>7
<1>9. w \in 0 .. tick.fired
  BY <1>2, <1>3
<1> QED
  BY <1>8, <1>9

\* What is known of the prescalers.
LEMMA StepsOf ==
  ASSUME NEW i \in DOMAIN Prescalers
  PROVE  Prescalers[i] \in Nat \ {0} /\ Prescalers[i] * TickHz \in Nat \ {0} /\ i \in Nat
<1>1. Prescalers \in Seq(Nat \ {0}) /\ TickHz \in Nat \ {0}
  BY RatesAssumption
<1>2. Prescalers[i] \in Nat \ {0} /\ i \in Nat
  BY <1>1
<1> QED
  BY <1>1, <1>2

\* A prescaler makes the period exactly when it divides the clock.
LEMMA DividesIsMakes ==
  ASSUME NEW i \in DOMAIN Prescalers, NEW c \in Nat
  PROVE  /\ Divides(c, Prescalers[i]) <=> Makes(Prescalers[i], c)
         /\ Divides(c, Prescalers[i]) => (c \div (Prescalers[i] * TickHz)) * Prescalers[i] * TickHz = c
<1> DEFINE m == Prescalers[i] * TickHz
           q == c \div m
<1>1. m \in Nat \ {0} /\ Prescalers[i] \in Nat /\ TickHz \in Nat
  BY StepsOf, RatesAssumption
<1>2. q \in Nat /\ c % m \in 0 .. m - 1 /\ c = m * q + (c % m) /\ q <= c
  <2> HIDE DEF m
  <2> QED
    BY <1>1, Quotient
<1>3. \A n \in Nat : n * Prescalers[i] * TickHz = m * n
  <2>1. ASSUME NEW n \in Nat, NEW a \in Nat, NEW b \in Nat PROVE n * a * b = (a * b) * n
    OBVIOUS
  <2> QED
    BY <1>1, <2>1
<1>4. Divides(c, Prescalers[i]) <=> c % m = 0 /\ c > 0
  BY DEF Divides
<1> HIDE DEF m, q
<1>5. ASSUME c % m = 0, c > 0 PROVE q \in 1 .. c /\ m * q = c
  BY <1>1, <1>2, <1>5
<1>6. ASSUME NEW n \in 1 .. c, m * n = c PROVE c % m = 0 /\ c > 0
  <2>1. n \in Nat /\ m * n <= c /\ c < m * n + m /\ c > 0
    BY <1>1, <1>6
  <2>2. c % m = c - m * n
    BY <1>1, <2>1, QuotientIs
  <2> QED
    BY <1>6, <2>1, <2>2
<1>7. Makes(Prescalers[i], c) <=> \E n \in 1 .. c : m * n = c
  <2>1. \A n \in 1 .. c : n * Prescalers[i] * TickHz = m * n
    BY <1>3
  <2> QED
    BY <2>1 DEF Makes
<1>8. (c \div (Prescalers[i] * TickHz)) * Prescalers[i] * TickHz = m * q
  BY <1>2, <1>3 DEF m, q
<1> QED
  BY <1>4, <1>5, <1>6, <1>7, <1>8

\* The count fits the period register exactly when the clock is within the reach of the prescaler.
LEMMA FitsIsReach ==
  ASSUME NEW i \in DOMAIN Prescalers, NEW c \in Nat, Divides(c, Prescalers[i])
  PROVE  c \div (Prescalers[i] * TickHz) - 1 <= PeriodMax <=> c <= (PeriodMax + 1) * Prescalers[i] * TickHz
<1> DEFINE m == Prescalers[i] * TickHz
           q == c \div m
<1>1. m \in Nat \ {0} /\ Prescalers[i] \in Nat /\ TickHz \in Nat /\ PeriodMax \in Nat
  BY StepsOf, RatesAssumption
<1>2. (PeriodMax + 1) * Prescalers[i] * TickHz = m * (PeriodMax + 1)
  <2>1. ASSUME NEW n \in Nat, NEW a \in Nat, NEW b \in Nat PROVE n * a * b = (a * b) * n
    OBVIOUS
  <2> QED
    BY <1>1, <2>1
<1>3. q \in Nat /\ c % m \in 0 .. m - 1 /\ c = m * q + (c % m)
  <2> HIDE DEF m
  <2> QED
    BY <1>1, Quotient
<1>4. c % m = 0
  BY DEF Divides
<1>5. c = m * q
  <2> HIDE DEF m, q
  <2> QED
    BY <1>1, <1>3, <1>4
<1>6. q <= PeriodMax + 1 <=> m * q <= m * (PeriodMax + 1)
  <2> HIDE DEF m, q
  <2>1. ASSUME q <= PeriodMax + 1 PROVE m * q <= m * (PeriodMax + 1)
    BY <1>1, <1>3, <2>1
  <2>2. ASSUME q >= PeriodMax + 2 PROVE m * q >= m * (PeriodMax + 2) /\ m * (PeriodMax + 2) > m * (PeriodMax + 1)
    BY <1>1, <1>3, <2>2
  <2> QED
    BY <1>1, <1>3, <2>1, <2>2
<1>7. q - 1 <= PeriodMax <=> q <= PeriodMax + 1
  <2> HIDE DEF q
  <2> QED
    BY <1>1, <1>3
<1> QED
  BY <1>2, <1>5, <1>6, <1>7

\* What a request for the tick finds.
LEMMA Found ==
  ASSUME NEW c \in Nat
  PROVE  LET making == {pre \in {Prescalers[i] : i \in DOMAIN Prescalers} : Makes(pre, c)}
             fitting == {pre \in making : c <= (PeriodMax + 1) * pre * TickHz}
         IN  (making = {} <=> ExactSteps(c) = {}) /\ (fitting = {} <=> FittingSteps(c) = {})
<1> DEFINE making == {pre \in {Prescalers[i] : i \in DOMAIN Prescalers} : Makes(pre, c)}
           fitting == {pre \in making : c <= (PeriodMax + 1) * pre * TickHz}
<1>1. making = {} <=> \A i \in DOMAIN Prescalers : ~Makes(Prescalers[i], c)
  OBVIOUS
<1>2. fitting = {} <=> \A i \in DOMAIN Prescalers :
                         ~(Makes(Prescalers[i], c) /\ c <= (PeriodMax + 1) * Prescalers[i] * TickHz)
  OBVIOUS
<1>3. ExactSteps(c) = {} <=> \A i \in DOMAIN Prescalers : ~Divides(c, Prescalers[i])
  BY DEF ExactSteps
<1>4. FittingSteps(c) = {} <=> \A i \in DOMAIN Prescalers :
          ~(Divides(c, Prescalers[i]) /\ c \div (Prescalers[i] * TickHz) - 1 <= PeriodMax)
  BY DEF FittingSteps, ExactSteps
<1>5. \A i \in DOMAIN Prescalers : Divides(c, Prescalers[i]) <=> Makes(Prescalers[i], c)
  BY DividesIsMakes
<1>6. \A i \in DOMAIN Prescalers : Divides(c, Prescalers[i]) =>
        (c \div (Prescalers[i] * TickHz) - 1 <= PeriodMax <=> c <= (PeriodMax + 1) * Prescalers[i] * TickHz)
  BY FitsIsReach
<1>7. making = {} <=> ExactSteps(c) = {}
  BY <1>1, <1>3, <1>5
<1>8. fitting = {} <=> FittingSteps(c) = {}
  BY <1>2, <1>4, <1>5, <1>6
<1> QED
  BY <1>7, <1>8

LEMMA TickInitKeeps ==
  ASSUME RateInv, NEW c \in Nat, NEW from, TickInit(c, from)
  PROVE  TickInv' /\ RefusalsAreTrue' /\ query'.of = "tick"
<1> DEFINE answer == IF c = 0 THEN "INVALID_ARG"
                      ELSE IF PeriodResult(c) # "OK" THEN PeriodResult(c)
                      ELSE IF Supported(from) THEN "OK" ELSE "NOT_SUPPORTED"
           i == Sets!Min(FittingSteps(c))
           pre == Prescalers[i]
           counts == c \div (pre * TickHz)
<1>1. PeriodResult(c) = IF FittingSteps(c) # {} THEN "OK" ELSE IF ExactSteps(c) # {} THEN "OUT_OF_RANGE"
                        ELSE "INEXACT_PERIOD"
  BY DEF PeriodResult
<1>2. query' = [of |-> "tick", clk |-> c] /\ result' = answer
  BY DEF TickInit
<1>3. answer = "OK" => FittingSteps(c) # {} /\ c # 0
  BY <1>1
<1>4. TickInv'
  <2>1. CASE answer # "OK"
    <3>1. tick' = tick
      BY <2>1 DEF TickInit
    <3> QED
      BY <3>1 DEF RateInv, TickInv
  <2>2. CASE answer = "OK"
    <3>1. tick' = [tick EXCEPT !.on = TRUE, !.clk = c, !.pre = pre, !.ms = 0, !.cycles = 0, !.counts = counts]
      BY <2>2 DEF TickInit
    <3>2. i \in DOMAIN Prescalers /\ Divides(c, pre)
      <4>1. FittingSteps(c) \in SUBSET Nat
        BY StepsOf DEF FittingSteps, ExactSteps
      <4>2. i \in FittingSteps(c)
        BY <1>3, <2>2, <4>1, LeastOf
      <4> QED
        BY <4>2 DEF FittingSteps, ExactSteps
    <3>3. pre \in Nat \ {0} /\ pre * TickHz \in Nat \ {0} /\ counts * pre * TickHz = c
      BY <3>2, StepsOf, DividesIsMakes
    <3>4. counts \in Nat
      BY <3>3, Quotient
    <3>5. 0 % MsWrap = 0 /\ 0 \in 0 .. tick.fired /\ 0 = 0 * (counts * pre)
      <4>1. MsWrap \in Nat \ {0} /\ tick.fired \in Nat
        BY RatesAssumption DEF RateInv, TickInv
      <4> HIDE DEF pre, counts
      <4> QED
        BY <3>3, <3>4, <4>1
    <3> HIDE DEF pre, counts, answer
    <3>6. tick' \in [on : BOOLEAN, clk : Nat, counts : Nat, pre : Nat, ms : Nat, cycles : Nat, fired : Nat]
      BY <3>1, <3>3, <3>4 DEF RateInv, TickInv
    <3>7. /\ tick'.counts = counts /\ tick'.pre = pre /\ tick'.clk = c /\ tick'.ms = 0 /\ tick'.cycles = 0
          /\ tick'.fired = tick.fired
      BY <3>1 DEF RateInv, TickInv
    <3> QED
      BY <3>3, <3>5, <3>6, <3>7 DEF TickInv
  <2> QED
    BY <2>1, <2>2
<1>5. RefusalsAreTrue'
  <2> DEFINE making == {x \in {Prescalers[n] : n \in DOMAIN Prescalers} : Makes(x, c)}
             fitting == {x \in making : c <= (PeriodMax + 1) * x * TickHz}
  <2>1. (making = {} <=> ExactSteps(c) = {}) /\ (fitting = {} <=> FittingSteps(c) = {})
    BY Found
  <2>2. FittingSteps(c) \subseteq ExactSteps(c)
    BY DEF FittingSteps
  <2> HIDE DEF making, fitting
  <2>3. /\ answer = "INEXACT_PERIOD" => making = {}
        /\ answer = "OUT_OF_RANGE" => making # {} /\ fitting = {}
        /\ answer = "INVALID_ARG" => c = 0
        /\ answer = "OK" => fitting # {}
    BY <1>1, <2>1, <2>2
  <2>4. query'.clk = c
    BY <1>2
  <2> HIDE DEF answer
  <2> QED
    BY <1>2, <2>3, <2>4 DEF RefusalsAreTrue, making, fitting
<1> QED
  BY <1>2, <1>4, <1>5

LEMMA TickDeinitKeeps ==
  ASSUME RateInv, TickDeinit
  PROVE  TickInv' /\ RefusalsAreTrue'
<1>1. tick.fired \in Nat
  BY DEF RateInv, TickInv
<1>2. tick' = [TickOff EXCEPT !.fired = tick.fired]
  BY DEF TickDeinit
<1>3. tick' \in [on : BOOLEAN, clk : Nat, counts : Nat, pre : Nat, ms : Nat, cycles : Nat, fired : Nat]
      /\ tick'.on = FALSE
  BY <1>1, <1>2 DEF TickOff
<1>4. query' = query /\ result' \in {"OK", "NOT_INITIALIZED"}
  BY DEF TickDeinit
<1> QED
  BY <1>3, <1>4 DEF TickInv, RateInv, RefusalsAreTrue

LEMMA TickFiresKeeps ==
  ASSUME RateInv, TickFires
  PROVE  TickInv' /\ RefusalsAreTrue'
<1> DEFINE c == tick.counts * tick.pre
<1>1. /\ tick.on /\ tick.fired \in Nat /\ tick.ms \in Nat /\ tick.cycles \in Nat /\ tick.counts \in Nat
      /\ tick.pre \in Nat /\ MsWrap \in Nat \ {0}
  BY RatesAssumption DEF RateInv, TickInv, TickFires
<1>2. PICK n \in 0 .. tick.fired : tick.ms = n % MsWrap /\ tick.cycles = n * c
  BY <1>1 DEF RateInv, TickInv
<1>3. c \in Nat /\ n \in Nat
  BY <1>1
<1>4. tick' = [tick EXCEPT !.ms = (tick.ms + 1) % MsWrap, !.cycles = tick.cycles + c, !.fired = tick.fired + 1]
      /\ query' = query /\ result' = result
  BY DEF TickFires
<1>5. ((n % MsWrap) + 1) % MsWrap = (n + 1) % MsWrap
  <2> DEFINE q == n \div MsWrap
             r == n % MsWrap
  <2>1. q \in Nat /\ r \in 0 .. MsWrap - 1 /\ n = MsWrap * q + r
    BY <1>1, <1>3, Quotient
  <2> HIDE DEF q, r
  <2>2. CASE r + 1 < MsWrap
    <3>1. (n + 1) % MsWrap = (n + 1) - MsWrap * q
      <4>1. n + 1 \in Nat /\ MsWrap * q <= n + 1 /\ n + 1 < MsWrap * q + MsWrap
        BY <1>1, <1>3, <2>1, <2>2
      <4> QED
        BY <1>1, <2>1, <4>1, QuotientIs
    <3>2. (r + 1) % MsWrap = r + 1
      BY <1>1, <2>1, <2>2
    <3> QED
      BY <1>1, <2>1, <3>1, <3>2 DEF r
  <2>3. CASE r + 1 = MsWrap
    <3>1. (r + 1) % MsWrap = 0
      BY <1>1, <2>1, <2>3
    <3>2. n + 1 = MsWrap * (q + 1) /\ q + 1 \in Nat
      BY <1>1, <2>1, <2>3
    <3>3. (n + 1) % MsWrap = (n + 1) - MsWrap * (q + 1)
      BY <1>1, <1>3, <3>2, QuotientIs
    <3> QED
      BY <1>1, <2>1, <3>1, <3>2, <3>3 DEF r
  <2> QED
    BY <1>1, <2>1, <2>2, <2>3
<1>6. n + 1 \in 0 .. tick.fired + 1 /\ tick.cycles + c = (n + 1) * c
  <2> HIDE DEF c
  <2> QED
    BY <1>1, <1>2, <1>3
<1>7. /\ tick'.ms = (n + 1) % MsWrap /\ tick'.cycles = (n + 1) * c /\ tick'.fired = tick.fired + 1
      /\ tick'.counts = tick.counts /\ tick'.pre = tick.pre /\ tick'.clk = tick.clk /\ tick'.on = tick.on
  <2> HIDE DEF c
  <2> QED
    BY <1>2, <1>4, <1>5, <1>6 DEF RateInv, TickInv
<1>8. tick' \in [on : BOOLEAN, clk : Nat, counts : Nat, pre : Nat, ms : Nat, cycles : Nat, fired : Nat]
  <2>1. (tick.ms + 1) % MsWrap \in Nat /\ tick.cycles + c \in Nat /\ tick.fired + 1 \in Nat
    <3> HIDE DEF c
    <3> QED
      BY <1>1, <1>3
  <2> HIDE DEF c
  <2> QED
    BY <1>4, <2>1 DEF RateInv, TickInv
<1>9. TickInv'
  <2>1. tick'.counts * tick'.pre * TickHz = tick'.clk
    BY <1>1, <1>7 DEF RateInv, TickInv
  <2>2. tick'.cycles = (n + 1) * (tick'.counts * tick'.pre)
    BY <1>7
  <2> QED
    BY <1>6, <1>7, <1>8, <2>1, <2>2 DEF TickInv
<1> QED
  BY <1>4, <1>7, <1>9 DEF RateInv, RefusalsAreTrue

-----------------------------------------------------------------------------
(* The divisors.                                                            *)

\* Rounding to the nearest: h is half the rate, cut.
LEMMA Nearest ==
  ASSUME NEW a \in Nat, NEW r \in Nat \ {0}, NEW h \in Nat, 2 * h <= r, r <= 2 * h + 1,
         NEW d \in Nat \ {0}, r * d <= a + h, a + h < r * d + r
  PROVE  \A e \in {d - 1, d + 1} : Distance(a, r, d) <= Distance(a, r, e)
<1> DEFINE m == r * d
<1>1. m \in Nat /\ r * (d - 1) = m - r /\ r * (d + 1) = m + r
  OBVIOUS
<1> HIDE DEF m
<1>2. m <= a + h /\ a + h < m + r
  BY DEF m
<1>3. Distance(a, r, d) = IF a >= m THEN a - m ELSE m - a
  BY DEF Distance, m
<1>4. Distance(a, r, d - 1) = IF a >= m - r THEN a - (m - r) ELSE (m - r) - a
  BY <1>1 DEF Distance
<1>5. Distance(a, r, d + 1) = IF a >= m + r THEN a - (m + r) ELSE (m + r) - a
  BY <1>1 DEF Distance
<1>6. Distance(a, r, d) <= Distance(a, r, d - 1)
  BY <1>1, <1>2, <1>3, <1>4
<1>7. Distance(a, r, d) <= Distance(a, r, d + 1)
  BY <1>1, <1>2, <1>3, <1>5
<1> QED
  BY <1>6, <1>7

\* Too fast a rate for any divisor above 1.
LEMMA NoneAboveOne ==
  ASSUME NEW a \in Nat, NEW r \in Nat \ {0}, NEW h \in Nat, 2 * h <= r, r <= 2 * h + 1, a + h < 2 * r
  PROVE  Distance(a, r, 1) <= Distance(a, r, 2)
BY DEF Distance

LEMMA UartKeeps ==
  ASSUME NEW d \in Divisions, UartDivides(d)
  PROVE  DivisorIsNearest' /\ query'.of = "uart"
<1> DEFINE a == d.clk
           r == d.rate
           h == r \div 2
           q == Divisor(a, r)
           div == IF a = 0 \/ r = 0 \/ q <= 1 THEN 0 ELSE q
<1>1. a \in Nat /\ r \in Nat
  BY RatesAssumption
<1>2. query' = [of |-> "uart", clk |-> a, rate |-> r] /\ given' = [div |-> div]
  BY DEF UartDivides
<1>3. ASSUME a > 0, r > 0
      PROVE  IF div = 0 THEN Distance(a, r, 1) <= Distance(a, r, 2)
             ELSE div > 1 /\ \A e \in {div - 1, div + 1} : Distance(a, r, div) <= Distance(a, r, e)
  <2>1. h \in Nat /\ 2 * h <= r /\ r <= 2 * h + 1
    BY <1>1
  <2>2. q = (a + h) \div r
    BY DEF Divisor
  <2> HIDE DEF a, r, h, q
  <2>3. a + h \in Nat /\ r \in Nat \ {0}
    BY <1>1, <1>3, <2>1
  <2>4. q \in Nat /\ r * q <= a + h /\ a + h < r * q + r
    <3>1. q \in Nat /\ (a + h) % r \in 0 .. r - 1 /\ a + h = r * q + ((a + h) % r)
      BY <2>2, <2>3, Quotient
    <3> DEFINE m == r * q
               x == (a + h) % r
    <3>2. m \in Int /\ x \in 0 .. r - 1 /\ a + h = m + x
      BY <2>3, <3>1
    <3> HIDE DEF m, x
    <3>3. m <= a + h /\ a + h < m + r
      BY <2>3, <3>2
    <3> QED
      BY <3>1, <3>3 DEF m
  <2>5. CASE q <= 1
    <3>1. div = 0
      BY <2>5
    <3>2. a + h < 2 * r
      <4>1. q = 0 \/ q = 1
        BY <2>4, <2>5
      <4> QED
        BY <2>3, <2>4, <4>1
    <3> QED
      BY <1>1, <2>1, <2>3, <3>1, <3>2, NoneAboveOne
  <2>6. CASE q > 1
    <3>1. div = q /\ q \in Nat \ {0}
      BY <1>1, <1>3, <2>4, <2>6
    <3>2. \A e \in {q - 1, q + 1} : Distance(a, r, q) <= Distance(a, r, e)
      BY <1>1, <2>1, <2>3, <2>4, <3>1, Nearest
    <3> HIDE DEF div
    <3> QED
      BY <2>4, <2>6, <3>1, <3>2
  <2> QED
    BY <2>4, <2>5, <2>6
<1> HIDE DEF a, r, div
<1>4. query'.of = "uart" /\ query'.clk = a /\ query'.rate = r /\ given'.div = div
  BY <1>2
<1> QED
  BY <1>3, <1>4 DEF DivisorIsNearest

LEMMA I2cKeeps ==
  ASSUME NEW d \in Divisions, I2cDivides(d)
  PROVE  DivisorIsNearest' /\ query'.of = "i2c"
<1> DEFINE a == d.clk
           h == d.rate
           r == 2 * h
           q == (a + h) \div r
           div == I2cDivisor(a, h)
<1>1. a \in Nat /\ h \in Nat
  BY RatesAssumption
<1>2. query' = [of |-> "i2c", clk |-> a, rate |-> h] /\ given' = [div |-> div]
  BY DEF I2cDivides
<1>3. ASSUME h > 0
      PROVE  \A e \in {div - 1, div + 1} \ {0} : Distance(a, r, div) <= Distance(a, r, e)
  <2>0. div = Sets!Max({1, q})
    BY <1>1, <1>3 DEF I2cDivisor
  <2> HIDE DEF a, h
  <2>1. r \in Nat \ {0} /\ 2 * h <= r /\ r <= 2 * h + 1 /\ a + h \in Nat
    BY <1>1, <1>3
  <2>4. q \in Nat /\ r * q <= a + h /\ a + h < r * q + r
    <3> HIDE DEF r
    <3>1. q \in Nat /\ (a + h) % r \in 0 .. r - 1 /\ a + h = r * q + ((a + h) % r)
      BY <2>1, Quotient
    <3> DEFINE m == r * q
               x == (a + h) % r
    <3>2. m \in Int /\ x \in 0 .. r - 1 /\ a + h = m + x
      BY <2>1, <3>1
    <3> HIDE DEF m, x
    <3>3. m <= a + h /\ a + h < m + r
      BY <2>1, <3>2
    <3> QED
      BY <3>1, <3>3 DEF m
  <2> HIDE DEF q, div, r
  <2>5. div = IF 1 >= q THEN 1 ELSE q
    BY <2>0, <2>4, GreaterOf
  <2>6. CASE q = 0
    <3>1. div = 1 /\ a + h < 2 * r
      BY <2>1, <2>4, <2>5, <2>6
    <3>2. Distance(a, r, 1) <= Distance(a, r, 2)
      BY <1>1, <2>1, <3>1, NoneAboveOne
    <3> QED
      BY <3>1, <3>2
  <2>7. CASE q # 0
    <3>1. div = q /\ q \in Nat \ {0}
      BY <2>4, <2>5, <2>7
    <3> QED
      BY <1>1, <2>1, <2>4, <3>1, Nearest
  <2> QED
    BY <2>6, <2>7
<1> HIDE DEF a, h, div
<1>4. query'.of = "i2c" /\ query'.clk = a /\ query'.rate = h /\ given'.div = div
  BY <1>2
<1> QED
  BY <1>3, <1>4 DEF DivisorIsNearest

LEMMA SpiKeeps ==
  ASSUME NEW d \in Divisions, SpiDivides(d)
  PROVE  SpiIsNotSlower' /\ query'.of = "spi"
<1> DEFINE a == d.clk
           r == 2 * d.rate
           q == a \div r
           div == IF d.clk = 0 \/ d.rate = 0 THEN 0 ELSE SpiDivisor(d.clk, d.rate)
<1>1. a \in Nat /\ d.rate \in Nat /\ BrgMax \in Nat
  BY RatesAssumption
<1>2. query' = [of |-> "spi", clk |-> a, rate |-> d.rate] /\ given' = [div |-> div]
  BY DEF SpiDivides
<1>3. ASSUME div # 0
      PROVE  /\ div = BrgMax + 1 \/ a < r * (div + 1)
             /\ div = 1 \/ a >= r * div
  <2>1. div = Sets!Max({1, Sets!Min({q, BrgMax + 1})}) /\ d.rate # 0
    BY <1>3 DEF SpiDivisor
  <2>2. r \in Nat \ {0}
    BY <1>1, <2>1
  <2> HIDE DEF a, r
  <2>3. q \in Nat /\ r * q <= a /\ a < r * q + r
    <3>1. q \in Nat /\ a % r \in 0 .. r - 1 /\ a = r * q + (a % r)
      BY <1>1, <2>2, Quotient
    <3> DEFINE m == r * q
               x == a % r
    <3>2. m \in Int /\ x \in 0 .. r - 1 /\ a = m + x
      BY <2>2, <3>1
    <3> HIDE DEF m, x
    <3>3. m <= a /\ a < m + r
      BY <2>2, <3>2
    <3> QED
      BY <3>1, <3>3 DEF m
  <2> HIDE DEF q, div
  <2>4. Sets!Min({q, BrgMax + 1}) = IF q <= BrgMax + 1 THEN q ELSE BrgMax + 1
    BY <1>1, <2>3, LesserOf
  <2> DEFINE n == IF q <= BrgMax + 1 THEN q ELSE BrgMax + 1
  <2>5. div = IF 1 >= n THEN 1 ELSE n
    <3>1. n \in Int
      BY <1>1, <2>3
    <3>2. div = Sets!Max({1, n})
      BY <2>1, <2>4
    <3> HIDE DEF n
    <3> QED
      BY <3>1, <3>2, GreaterOf
  <2>6. CASE q >= BrgMax + 1
    <3>1. div = BrgMax + 1 /\ div \in Nat
      BY <1>1, <2>3, <2>5, <2>6
    <3>2. r * div <= r * q
      BY <1>1, <2>2, <2>3, <2>6, <3>1
    <3> QED
      BY <1>1, <2>2, <2>3, <3>1, <3>2
  <2>7. CASE q < BrgMax + 1 /\ q = 0
    <3>1. div = 1
      BY <1>1, <2>3, <2>5, <2>7
    <3>2. a < r
      BY <1>1, <2>2, <2>3, <2>7
    <3> QED
      BY <1>1, <2>2, <3>1, <3>2 DEF a
  <2>8. CASE q < BrgMax + 1 /\ q # 0
    <3>1. div = q
      BY <1>1, <2>3, <2>5, <2>8
    <3>2. r * (q + 1) = r * q + r
      BY <2>2, <2>3
    <3> QED
      BY <2>3, <3>1, <3>2
  <2> QED
    BY <1>1, <2>3, <2>6, <2>7, <2>8
<1> HIDE DEF a, div
<1>4. query'.of = "spi" /\ query'.clk = a /\ query'.rate = d.rate /\ given'.div = div
  BY <1>2
<1>5. r * (div + 1) = 2 * d.rate * (div + 1) /\ r * div = 2 * d.rate * div
  OBVIOUS
<1> QED
  BY <1>3, <1>4, <1>5 DEF SpiIsNotSlower

-----------------------------------------------------------------------------
(* CAN FD.                                                                  *)

\* The two sets of limits.
LimitsOfPhase == {NominalLimits, DataLimits}

LEMMA PhaseLimits ==
  ASSUME NEW lim \in LimitsOfPhase
  PROVE  /\ lim.tseg1 \subseteq Nat /\ lim.tseg2 \subseteq Nat \ {0} /\ lim.sjw \in Nat \ {0}
BY DEF LimitsOfPhase, NominalLimits, DataLimits

\* The bit of `total` quanta, split at the quantum nearest the sample point.
LEMMA PhaseIs ==
  ASSUME NEW total \in Nat, NEW brp, NEW pct \in 1 .. 99, NEW lim \in LimitsOfPhase,
         PhaseOf(total, brp, pct, lim).tseg1 \in lim.tseg1, PhaseOf(total, brp, pct, lim).tseg2 \in lim.tseg2
  PROVE  LET p == PhaseOf(total, brp, pct, lim)
         IN  /\ p.brp = brp /\ 1 + p.tseg1 + p.tseg2 = total
             /\ p.sjw \in 1 .. lim.sjw /\ p.sjw <= p.tseg2
             /\ 100 * (1 + p.tseg1) - pct * (1 + p.tseg1 + p.tseg2) \in -49 .. 50
<1> DEFINE x == total * pct + 50
           q == x \div 100
           t1 == q - 1
           t2 == total - 1 - t1
           p == PhaseOf(total, brp, pct, lim)
<1>1. p = [brp |-> brp, tseg1 |-> t1, tseg2 |-> t2, sjw |-> Sets!Min({t2, lim.sjw})]
  BY DEF PhaseOf
<1>2. total * pct \in Nat
  OBVIOUS
<1>3. x \in Nat /\ q \in Nat /\ 100 * q <= x /\ x < 100 * q + 100
  BY <1>2
<1>4. p.brp = brp /\ p.tseg1 = t1 /\ p.tseg2 = t2 /\ p.sjw = Sets!Min({t2, lim.sjw})
  BY <1>1
<1> HIDE DEF p
<1>5. t1 \in lim.tseg1 /\ t2 \in lim.tseg2
  BY <1>4 DEF p
<1>6. t1 \in Nat /\ t2 \in Nat \ {0} /\ lim.sjw \in Nat \ {0}
  BY <1>5, PhaseLimits
<1>7. 1 + t1 + t2 = total
  BY <1>3
<1>8. Sets!Min({t2, lim.sjw}) = IF t2 <= lim.sjw THEN t2 ELSE lim.sjw
  <2> HIDE DEF t2
  <2> QED
    BY <1>6, LesserOf
<1>9. p.sjw \in 1 .. lim.sjw /\ p.sjw <= t2
  <2> HIDE DEF t2
  <2> QED
    BY <1>4, <1>6, <1>8
<1>10. 100 * (1 + t1) - pct * total \in -49 .. 50
  <2> DEFINE y == total * pct
  <2>1. y = pct * total /\ y \in Nat /\ x = y + 50 /\ 1 + t1 = q
    BY <1>2, <1>3
  <2> HIDE DEF y, x, q, t1
  <2>2. 100 * q - y \in -49 .. 50
    BY <1>3, <2>1
  <2> QED
    BY <2>1, <2>2
<1> HIDE DEF t1, t2
<1> QED
  BY <1>4, <1>7, <1>9, <1>10 DEF p

\* No other split is within the tolerance.
LEMMA SplitIsThat ==
  ASSUME NEW total \in Nat, NEW brp, NEW pct \in 1 .. 99, NEW lim, NEW t1 \in Nat, NEW t2 \in Nat,
         total = 1 + t1 + t2, 100 * (1 + t1) - pct * total \in -49 .. 50
  PROVE  PhaseOf(total, brp, pct, lim).tseg1 = t1 /\ PhaseOf(total, brp, pct, lim).tseg2 = t2
<1> DEFINE x == total * pct + 50
           q == x \div 100
<1>1. total * pct \in Nat /\ total * pct = pct * total
  OBVIOUS
<1>2. x \in Nat /\ 100 * (1 + t1) <= x /\ x < 100 * (1 + t1) + 100
  BY <1>1
<1>3. q = 1 + t1
  <2> HIDE DEF x
  <2> QED
    BY <1>2
<1> HIDE DEF q
<1>4. q - 1 = t1 /\ total - 1 - (q - 1) = t2
  BY <1>3
<1> QED
  BY <1>4 DEF PhaseOf, q

\* The smallest prescaler that solves the bit is taken, and none is missed.
LEMMA PhaseSolved ==
  ASSUME NEW base \in Nat \ {0}, NEW bps \in Nat, NEW pct \in 1 .. 99, NEW lim \in LimitsOfPhase
  PROVE  LET p == SolvePhase(base, bps, pct, lim)
         IN  /\ p # NoPhase => PhaseFits(p, base, bps, pct, lim)
             /\ p = NoPhase => bps = 0 \/ ~Solvable(base, bps, pct, lim)
<1> DEFINE p == SolvePhase(base, bps, pct, lim)
           BrpSolves(brp) == /\ base % (bps * brp) = 0 /\ base \div (bps * brp) >= 4
                          /\ LET s == PhaseOf(base \div (bps * brp), brp, pct, lim)
                             IN  s.tseg1 \in lim.tseg1 /\ s.tseg2 \in lim.tseg2
           solving == IF bps = 0 THEN {} ELSE {brp \in 1 .. 256 : BrpSolves(brp)}
           b == Sets!Min(solving)
<1>1. p = IF solving = {} THEN NoPhase ELSE PhaseOf(base \div (bps * b), b, pct, lim)
  BY DEF SolvePhase
<1>2. \A brp \in solving : brp \in 1 .. 256 /\ bps \in Nat \ {0} /\ BrpSolves(brp)
  OBVIOUS
<1>3. CASE solving # {}
  <2>1. solving \in SUBSET Nat
    BY <1>2
  <2>2. b \in solving
    <3> HIDE DEF solving
    <3> QED
      BY <1>3, <2>1, LeastOf
  <2>3. b \in 1 .. 256 /\ bps \in Nat \ {0} /\ BrpSolves(b)
    <3> HIDE DEF solving, BrpSolves, b
    <3> QED
      BY <1>2, <2>2
  <2> DEFINE m == bps * b
             total == base \div m
             s == PhaseOf(total, b, pct, lim)
  <2>4. p = s /\ base % m = 0 /\ s.tseg1 \in lim.tseg1 /\ s.tseg2 \in lim.tseg2
    BY <1>1, <1>3, <2>3
  <2> HIDE DEF solving, BrpSolves, b, p, s
  <2>5. m \in Nat \ {0}
    BY <2>3
  <2>6. total \in Nat /\ base = m * total
    <3> HIDE DEF m
    <3>1. total \in Nat /\ base % m \in 0 .. m - 1 /\ base = m * total + (base % m)
      BY <2>5, Quotient
    <3> HIDE DEF total
    <3> QED
      BY <2>4, <2>5, <3>1
  <2> HIDE DEF total
  <2>7. /\ s.brp = b /\ 1 + s.tseg1 + s.tseg2 = total
        /\ s.sjw \in 1 .. lim.sjw /\ s.sjw <= s.tseg2
        /\ 100 * (1 + s.tseg1) - pct * (1 + s.tseg1 + s.tseg2) \in -49 .. 50
    <3>1. total \in Nat
      BY <2>6
    <3>2. PhaseOf(total, b, pct, lim).tseg1 \in lim.tseg1 /\ PhaseOf(total, b, pct, lim).tseg2 \in lim.tseg2
      BY <2>4 DEF s
    <3> QED
      BY <3>1, <3>2, PhaseIs DEF s
  <2>8. base = bps * s.brp * (1 + s.tseg1 + s.tseg2)
    BY <2>6, <2>7
  <2>9. PhaseFits(p, base, bps, pct, lim)
    BY <2>3, <2>4, <2>7, <2>8 DEF PhaseFits
  <2>10. p # NoPhase
    <3>1. NoPhase.brp = 0
      BY DEF NoPhase
    <3>2. p.brp = b /\ b # 0
      BY <2>3, <2>4, <2>7
    <3> QED
      BY <3>1, <3>2
  <2> QED
    BY <2>9, <2>10 DEF p
<1>4. CASE solving = {}
  <2>1. p = NoPhase
    BY <1>1, <1>4
  <2>2. ASSUME bps # 0, Solvable(base, bps, pct, lim) PROVE FALSE
    <3> DEFINE Setting(brp, t2) == [brp |-> brp, tseg1 |-> (base \div (bps * brp)) - 1 - t2, tseg2 |-> t2, sjw |-> 1]
    <3>1. PICK brp \in 1 .. 256, t2 \in lim.tseg2 :
            base \div (bps * brp) >= 4 /\ PhaseFits(Setting(brp, t2), base, bps, pct, lim)
      BY <2>2 DEF Solvable
    <3> DEFINE m == bps * brp
               total == base \div m
               t1 == total - 1 - t2
               s == Setting(brp, t2)
    <3>2. s.brp = brp /\ s.tseg1 = t1 /\ s.tseg2 = t2
      OBVIOUS
    <3> HIDE DEF Setting, s
    <3>3. /\ base = bps * s.brp * (1 + s.tseg1 + s.tseg2) /\ s.tseg1 \in lim.tseg1
          /\ 100 * (1 + s.tseg1) - pct * (1 + s.tseg1 + s.tseg2) \in -49 .. 50
      BY <3>1 DEF PhaseFits, s
    <3>4. base = m * (1 + t1 + t2) /\ t1 \in lim.tseg1 /\ 100 * (1 + t1) - pct * (1 + t1 + t2) \in -49 .. 50
      BY <3>2, <3>3
    <3>5. m \in Nat \ {0} /\ total >= 4
      BY <2>2, <3>1
    <3> HIDE DEF m
    <3>6. total \in Nat
      BY <3>5, Quotient
    <3> HIDE DEF total
    <3>7. t1 \in Nat /\ t2 \in Nat
      BY <3>4, PhaseLimits
    <3>8. total = 1 + t1 + t2
      BY <3>6, <3>7
    <3>9. base % m = 0
      <4>1. m * total <= base /\ base < m * total + m /\ base - m * total = 0
        BY <3>4, <3>5, <3>6, <3>8
      <4> QED
        BY <3>5, <3>6, <4>1, QuotientIs
    <3> HIDE DEF t1
    <3>10. PhaseOf(total, brp, pct, lim).tseg1 = t1 /\ PhaseOf(total, brp, pct, lim).tseg2 = t2
      <4>1. 100 * (1 + t1) - pct * total \in -49 .. 50
        BY <3>4, <3>8
      <4> HIDE DEF p, BrpSolves, solving, b
      <4>2. total \in Nat /\ t1 \in Nat /\ t2 \in Nat /\ total = 1 + t1 + t2
        BY <3>6, <3>7, <3>8
      <4> QED
        BY <4>1, <4>2, SplitIsThat
    <3>11. BrpSolves(brp)
      BY <3>4, <3>5, <3>9, <3>10 DEF m, total
    <3> HIDE DEF BrpSolves
    <3> QED
      BY <1>4, <2>2, <3>11
  <2> QED
    BY <2>1, <2>2
<1> QED
  BY <1>3, <1>4

LEMMA CanKeeps ==
  ASSUME NEW b \in BitRates, CanTimes(b)
  PROVE  BitTimesAreExact' /\ query'.of = "can"
<1> DEFINE slow == SolvePhase(b.clk, b.nominal, b.pct, NominalLimits)
           fast    == SolvePhase(b.clk, b.data, b.pct, DataLimits)
           refused == b.pct \notin 1 .. 99 \/ slow = NoPhase \/ fast = NoPhase
           offset  == Sets!Min({fast.brp * fast.tseg1, 127})
<1>1. b.clk \in Nat \ {0} /\ b.nominal \in Nat /\ b.data \in Nat /\ b.pct \in Nat
  BY RatesAssumption
<1>2. query' = [of |-> "can", clk |-> b.clk, nominal |-> b.nominal, data |-> b.data, pct |-> b.pct]
  BY DEF CanTimes
<1>3. given' = IF refused THEN [nominal |-> NoPhase, data |-> NoPhase, offset |-> 0]
               ELSE [nominal |-> slow, data |-> fast, offset |-> offset]
  BY DEF CanTimes
<1>4. NominalLimits \in LimitsOfPhase /\ DataLimits \in LimitsOfPhase
  BY DEF LimitsOfPhase
<1>5. ASSUME b.pct \in 1 .. 99
      PROVE  /\ slow # NoPhase => PhaseFits(slow, b.clk, b.nominal, b.pct, NominalLimits)
             /\ slow = NoPhase => b.nominal = 0 \/ ~Solvable(b.clk, b.nominal, b.pct, NominalLimits)
             /\ fast # NoPhase => PhaseFits(fast, b.clk, b.data, b.pct, DataLimits)
             /\ fast = NoPhase => b.data = 0 \/ ~Solvable(b.clk, b.data, b.pct, DataLimits)
  BY <1>1, <1>4, <1>5, PhaseSolved
<1> HIDE DEF slow, fast
<1>6. ASSUME PhaseFits(fast, b.clk, b.data, b.pct, DataLimits) PROVE offset <= 127
  <2>1. fast.brp \in Nat /\ fast.tseg1 \in Nat
    BY <1>4, <1>6, PhaseLimits DEF PhaseFits
  <2>2. fast.brp * fast.tseg1 \in Int
    BY <2>1
  <2> DEFINE x == fast.brp * fast.tseg1
  <2> HIDE DEF x
  <2>3. Sets!Min({x, 127}) = IF x <= 127 THEN x ELSE 127
    BY <2>2, LesserOf DEF x
  <2>4. Sets!Min({x, 127}) <= 127
    BY <2>2, <2>3 DEF x
  <2> QED
    BY <2>4 DEF x
<1> HIDE DEF offset
<1>7. /\ query'.of = "can" /\ query'.clk = b.clk /\ query'.nominal = b.nominal /\ query'.data = b.data
      /\ query'.pct = b.pct
  BY <1>2
<1>8. CASE refused
  <2>1. given'.nominal = NoPhase /\ given'.data = NoPhase
    BY <1>3, <1>8
  <2> QED
    BY <1>5, <1>7, <1>8, <2>1 DEF BitTimesAreExact
<1>9. CASE ~refused
  <2>1. given'.nominal = slow /\ given'.data = fast /\ given'.offset = offset
    BY <1>3, <1>9
  <2> QED
    BY <1>5, <1>6, <1>7, <1>9, <2>1 DEF BitTimesAreExact
<1> QED
  BY <1>8, <1>9

-----------------------------------------------------------------------------
(* The lengths of a frame.                                                  *)

LEMMA LengthOf ==
  ASSUME NEW dlc \in 0 .. 15
  PROVE  DlcToLen(dlc) = CASE dlc <= 8 -> dlc [] dlc = 9 -> 12 [] dlc = 10 -> 16 [] dlc = 11 -> 20
                           [] dlc = 12 -> 24 [] dlc = 13 -> 32 [] dlc = 14 -> 48 [] OTHER -> 64
<1>1. dlc % 16 = dlc
  OBVIOUS
<1>2. DlcToLen(dlc) = FdLengths[dlc + 1]
  BY <1>1 DEF DlcToLen
<1> QED
  BY <1>2 DEF FdLengths

LEMMA FrameKeeps ==
  ASSUME NEW len \in Lengths64, NEW fd \in BOOLEAN, FrameGoes(len, fd)
  PROVE  FrameIsWhole' /\ query'.of = "frame"
<1>1. len \in 0 .. 64
  BY RatesAssumption
<1>2. LenToDlc(len) \in 0 .. 15
  BY <1>1 DEF LenToDlc
<1>3. SentLength(len) >= len
  BY <1>1, <1>2, LengthOf DEF SentLength, LenToDlc
<1>4. ASSUME NEW dlc \in 0 .. 15, DlcToLen(dlc) >= len PROVE SentLength(len) <= DlcToLen(dlc)
  BY <1>1, <1>2, <1>4, LengthOf DEF SentLength, LenToDlc
<1>5. /\ query' = [of |-> "frame", len |-> len, fd |-> fd]
      /\ given' = [len |-> IF ~fd /\ len > 8 THEN -1 ELSE SentLength(len)]
  BY DEF FrameGoes
<1>6. query'.of = "frame" /\ query'.len = len /\ given'.len \in {-1, SentLength(len)}
  BY <1>5
<1> QED
  BY <1>3, <1>4, <1>6 DEF FrameIsWhole

-----------------------------------------------------------------------------
(* The steps.                                                               *)

LEMMA RateInitInv == RateInitState => RateInv
BY DEF RateInitState, RateInv, TickInv, TickOff, RefusalsAreTrue, DivisorIsNearest, SpiIsNotSlower,
       BitTimesAreExact, FrameIsWhole

LEMMA RateStepInv == RateInv /\ [TickNext \/ AskNext]_rateVars => RateInv'
<1> SUFFICES ASSUME RateInv, [TickNext \/ AskNext]_rateVars PROVE RateInv'
  OBVIOUS
<1>1. /\ query'.of \notin {"uart", "i2c"} => DivisorIsNearest'
      /\ query'.of # "spi" => SpiIsNotSlower'
      /\ query'.of # "can" => BitTimesAreExact'
      /\ query'.of # "frame" => FrameIsWhole'
      /\ query'.of # "tick" => RefusalsAreTrue'
  BY DEF RefusalsAreTrue, DivisorIsNearest, SpiIsNotSlower, BitTimesAreExact, FrameIsWhole
<1>2. ASSUME UNCHANGED <<query, given>>
      PROVE  (DivisorIsNearest /\ SpiIsNotSlower /\ BitTimesAreExact /\ FrameIsWhole)'
  BY <1>2 DEF RateInv, DivisorIsNearest, SpiIsNotSlower, BitTimesAreExact, FrameIsWhole
<1>3. tick' = tick => TickInv'
  BY DEF RateInv, TickInv
<1>4. CASE UNCHANGED rateVars
  <2>1. UNCHANGED <<tick, result, query, given>>
    BY <1>4 DEF rateVars
  <2>2. RefusalsAreTrue'
    BY <2>1 DEF RateInv, RefusalsAreTrue
  <2> QED
    BY <1>2, <1>3, <2>1, <2>2 DEF RateInv
<1>5. ASSUME NEW c \in TickClocks, NEW from, TickInit(c, from) PROVE RateInv'
  <2>1. c \in Nat
    BY RatesAssumption
  <2>2. TickInv' /\ RefusalsAreTrue' /\ query'.of = "tick"
    BY <1>5, <2>1, TickInitKeeps
  <2> QED
    BY <1>1, <2>2 DEF RateInv
<1>6. CASE TickDeinit
  BY <1>2, <1>6, TickDeinitKeeps DEF TickDeinit, RateInv
<1>7. CASE TickFires
  BY <1>2, <1>7, TickFiresKeeps DEF TickFires, RateInv
<1>8. ASSUME NEW d \in Divisions, UartDivides(d) PROVE RateInv'
  <2>1. DivisorIsNearest' /\ query'.of = "uart" /\ tick' = tick
    BY <1>8, UartKeeps DEF UartDivides
  <2> QED
    BY <1>1, <1>3, <2>1 DEF RateInv
<1>9. ASSUME NEW d \in Divisions, SpiDivides(d) PROVE RateInv'
  <2>1. SpiIsNotSlower' /\ query'.of = "spi" /\ tick' = tick
    BY <1>9, SpiKeeps DEF SpiDivides
  <2> QED
    BY <1>1, <1>3, <2>1 DEF RateInv
<1>10. ASSUME NEW d \in Divisions, I2cDivides(d) PROVE RateInv'
  <2>1. DivisorIsNearest' /\ query'.of = "i2c" /\ tick' = tick
    BY <1>10, I2cKeeps DEF I2cDivides
  <2> QED
    BY <1>1, <1>3, <2>1 DEF RateInv
<1>11. ASSUME NEW b \in BitRates, CanTimes(b) PROVE RateInv'
  <2>1. BitTimesAreExact' /\ query'.of = "can" /\ tick' = tick
    BY <1>11, CanKeeps DEF CanTimes
  <2> QED
    BY <1>1, <1>3, <2>1 DEF RateInv
<1>12. ASSUME NEW len \in Lengths64, NEW fd \in BOOLEAN, FrameGoes(len, fd) PROVE RateInv'
  <2>1. FrameIsWhole' /\ query'.of = "frame" /\ tick' = tick
    BY <1>12, FrameKeeps DEF FrameGoes
  <2> QED
    BY <1>1, <1>3, <2>1 DEF RateInv
<1>13. TickNext => RateInv'
  BY <1>5, <1>6, <1>7 DEF TickNext
<1>14. AskNext => RateInv'
  BY <1>8, <1>9, <1>10, <1>11, <1>12 DEF AskNext
<1> QED
  BY <1>4, <1>13, <1>14

LEMMA RatePromise ==
  RateInv => TickIsExact /\ RefusalsAreTrue /\ DivisorIsNearest /\ SpiIsNotSlower /\ BitTimesAreExact /\ FrameIsWhole
BY Tacts DEF RateInv

-----------------------------------------------------------------------------
(* The load profiler.  Its hooks see every change of owner at its time, and *)
(* no gap between two of them is as long as half the counter's range.       *)

Times == 0 .. Wrap - 1
Half  == Wrap \div 2
Legs  == LegOwners \cup {"NONE"}
Frames == [owner : LoadOwners, leg : Legs]
Profs ==
  [ready : BOOLEAN, period : Nat, end : Times, seg : Times, self : [LoadOwners -> Nat], stolen : [LegOwners -> Nat],
   last : [LoadOwners -> Nat], acc : [LoadOwners -> Nat], accStolen : [LegOwners -> Nat], windows : Nat,
   owner : LoadOwners, leg : Legs, stack : Seq(Frames),
   unbalanced : Nat, negative : Nat, rebase : Nat, tooDeep : Nat]

LEMMA WrapIs == Wrap \in Nat /\ Wrap >= 4 /\ Half \in Nat /\ Half > 0 /\ 2 * Half <= Wrap /\ Wrap < 2 * Half + 2
BY LoadAssumption DEF Half

LEMMA TicksAre ==
  ASSUME NEW a \in Times, NEW b \in Times
  PROVE  Ticks(a, b) = IF b >= a THEN b - a ELSE b - a + Wrap
BY WrapIs DEF Times, Ticks

LEMMA TicksTyped ==
  ASSUME NEW a \in Times, NEW b \in Times
  PROVE  Ticks(a, b) \in Nat
<1>1. Ticks(a, b) = IF b >= a THEN b - a ELSE b - a + Wrap
  BY TicksAre
<1> QED
  BY <1>1, WrapIs DEF Times

LEMMA TimesAdd ==
  ASSUME NEW a \in Times, NEW n \in Nat, n < Wrap
  PROVE  (a + n) % Wrap = IF a + n < Wrap THEN a + n ELSE a + n - Wrap
BY WrapIs DEF Times

LEMMA ReachedIs ==
  ASSUME NEW a, NEW b
  PROVE  Reached(a, b) <=> Ticks(a, b) < Half
BY DEF Reached, Half

\* What comes between two times that are less than half the range apart.
LEMMA EndPassed ==
  ASSUME NEW a \in Times, NEW e \in Times, NEW t \in Times,
         Reached(a, t), Reached(e, t), Ticks(a, e) < Half
  PROVE  Ticks(a, e) + Ticks(e, t) = Ticks(a, t)
<1>1. /\ Ticks(a, e) = IF e >= a THEN e - a ELSE e - a + Wrap
      /\ Ticks(e, t) = IF t >= e THEN t - e ELSE t - e + Wrap
      /\ Ticks(a, t) = IF t >= a THEN t - a ELSE t - a + Wrap
  BY TicksAre
<1>2. Ticks(a, t) < Half /\ Ticks(e, t) < Half
  BY ReachedIs
<1> QED
  BY <1>1, <1>2, WrapIs DEF Times

LEMMA EndAhead ==
  ASSUME NEW a \in Times, NEW e \in Times, NEW t \in Times,
         Reached(a, t), ~Reached(e, t), Ticks(a, e) < Half
  PROVE  Ticks(a, t) + Ticks(t, e) = Ticks(a, e)
<1>1. /\ Ticks(a, e) = IF e >= a THEN e - a ELSE e - a + Wrap
      /\ Ticks(e, t) = IF t >= e THEN t - e ELSE t - e + Wrap
      /\ Ticks(t, e) = IF e >= t THEN e - t ELSE e - t + Wrap
      /\ Ticks(a, t) = IF t >= a THEN t - a ELSE t - a + Wrap
  BY TicksAre
<1>2. Ticks(a, t) < Half /\ ~(Ticks(e, t) < Half)
  BY ReachedIs
<1> QED
  BY <1>1, <1>2, WrapIs DEF Times

LEMMA AtOnce ==
  ASSUME NEW t \in Times
  PROVE  Ticks(t, t) = 0 /\ Reached(t, t)
BY TicksAre, WrapIs DEF Reached, Half, Times

\* A window that begins at t ends its whole length later.
LEMMA WindowBegins ==
  ASSUME NEW t \in Times, NEW n \in Nat, n < Half
  PROVE  (t + n) % Wrap \in Times /\ Ticks(t, (t + n) % Wrap) = n
<1>1. n < Wrap
  BY WrapIs
<1>2. (t + n) % Wrap \in Times
  BY <1>1, TimesAdd, WrapIs DEF Times
<1> DEFINE e == (t + n) % Wrap
<1>3. e = IF t + n < Wrap THEN t + n ELSE t + n - Wrap
  BY <1>1, TimesAdd
<1>4. Ticks(t, e) = IF e >= t THEN e - t ELSE e - t + Wrap
  BY <1>2, TicksAre
<1> HIDE DEF e
<1>5. Ticks(t, e) = n
  BY <1>1, <1>3, <1>4, WrapIs DEF Times
<1> QED
  BY <1>2, <1>5 DEF e

-----------------------------------------------------------------------------
(* The record of the profiler, seen at a time t.                            *)

Whole(p)  == /\ p.windows > 0 => SumOf(p.last) = p.period
             /\ SumOf(p.self) + Ticks(p.seg, p.end) = p.period
Sound(p, t) ==
  /\ p \in Profs /\ p.period > 0 /\ p.period < Half
  /\ Reached(p.seg, t) /\ Whole(p) /\ p.negative = 0

\* What the owners and the legs have been credited with, the open interval included.
Credit(p, t) == [o \in LoadOwners |-> p.acc[o] + p.self[o] + (IF o = p.owner THEN Ticks(p.seg, t) ELSE 0)]
Loss(p, t) ==
  [l \in LegOwners |-> p.accStolen[l] + p.stolen[l] + (IF p.owner = "OTHER" /\ l = p.leg THEN Ticks(p.seg, t) ELSE 0)]

\* What the charging of time leaves alone.
Standing(p) == <<p.ready, p.period, p.owner, p.leg, p.stack, p.unbalanced, p.rebase, p.tooDeep>>

SelfWith(p, n)   == Plus(p.self, p.owner, n)
StolenWith(p, n) == IF p.owner = "OTHER" /\ p.leg # "NONE" THEN Plus(p.stolen, p.leg, n) ELSE p.stolen

LEMMA SpansWith ==
  ASSUME NEW p \in Profs, NEW n \in Nat
  PROVE  /\ SelfWith(p, n) \in [LoadOwners -> Nat] /\ SumOf(SelfWith(p, n)) = SumOf(p.self) + n
         /\ \A o \in LoadOwners : SelfWith(p, n)[o] = p.self[o] + (IF o = p.owner THEN n ELSE 0)
         /\ StolenWith(p, n) \in [LegOwners -> Nat]
         /\ \A l \in LegOwners : StolenWith(p, n)[l] = p.stolen[l] + (IF p.owner = "OTHER" /\ l = p.leg THEN n ELSE 0)
<1>1. p.self \in [LoadOwners -> Nat] /\ p.stolen \in [LegOwners -> Nat] /\ p.owner \in LoadOwners /\ p.leg \in Legs
  BY DEF Profs
<1>2. /\ SelfWith(p, n) \in [LoadOwners -> Nat]
      /\ \A o \in LoadOwners : SelfWith(p, n)[o] = p.self[o] + (IF o = p.owner THEN n ELSE 0)
  BY <1>1 DEF SelfWith, Plus
<1>3. LoadOwners = {"LEG_A", "LEG_B", "NONE", "OTHER"}
  BY DEF LoadOwners, LegOwners
<1>4. SumOf(SelfWith(p, n)) = SumOf(p.self) + n
  BY <1>1, <1>2, <1>3 DEF SumOf
<1>5. /\ StolenWith(p, n) \in [LegOwners -> Nat]
      /\ \A l \in LegOwners : StolenWith(p, n)[l] = p.stolen[l] + (IF p.owner = "OTHER" /\ l = p.leg THEN n ELSE 0)
  BY <1>1 DEF StolenWith, Plus, Legs, LegOwners
<1> QED
  BY <1>2, <1>4, <1>5

LEMMA SegCharged ==
  ASSUME NEW p \in Profs, NEW t \in Times, Reached(p.seg, t)
  PROVE  /\ Ticks(p.seg, t) \in Nat
         /\ ChargeSeg(p, t) = [p EXCEPT !.self = SelfWith(p, Ticks(p.seg, t)), !.stolen = StolenWith(p, Ticks(p.seg, t))]
<1>1. p.seg \in Times
  BY DEF Profs
<1>2. Ticks(p.seg, t) \in Nat
  BY <1>1, TicksTyped
<1> QED
  BY <1>2 DEF ChargeSeg, SelfWith, StolenWith, Profs

LEMMA SoundIs ==
  ASSUME NEW p, NEW t \in Times, Sound(p, t)
  PROVE  /\ p \in Profs /\ p.seg \in Times /\ p.end \in Times /\ p.period \in Nat
         /\ Ticks(p.seg, p.end) \in Nat /\ Ticks(p.seg, p.end) < Half
<1>1. p.seg \in Times /\ p.end \in Times /\ p.period \in Nat /\ p.self \in [LoadOwners -> Nat]
  BY DEF Sound, Profs
<1>2. Ticks(p.seg, p.end) \in Nat
  BY <1>1, TicksTyped
<1>3. SumOf(p.self) \in Nat
  BY <1>1 DEF SumOf, LoadOwners, LegOwners
<1>4. Ticks(p.seg, p.end) < Half
  BY <1>1, <1>2, <1>3, WrapIs DEF Sound, Whole
<1> QED
  BY <1>1, <1>2, <1>4 DEF Sound

\* A window that is closed is whole, and nobody loses or wins a tick by it.
LEMMA AdvanceKeeps ==
  ASSUME NEW p, NEW t \in Times, Sound(p, t), Reached(p.end, t)
  PROVE  LET q == Advance(p)
         IN  Sound(q, t) /\ Credit(q, t) = Credit(p, t) /\ Loss(q, t) = Loss(p, t) /\ Standing(q) = Standing(p)
<1> DEFINE n == Ticks(p.seg, p.end)
           S == SelfWith(p, n)
           L == StolenWith(p, n)
           e == (p.end + p.period) % Wrap
           q == Advance(p)
<1>1. p \in Profs /\ p.seg \in Times /\ p.end \in Times /\ n \in Nat /\ n < Half /\ p.period \in Nat
  BY SoundIs
<1>2. Reached(p.seg, p.end)
  BY <1>1, ReachedIs
<1>3. ChargeSeg(p, p.end) = [p EXCEPT !.self = S, !.stolen = L]
  BY <1>1, <1>2, SegCharged
<1>4. e \in Times /\ Ticks(p.end, e) = p.period
  BY <1>1, WindowBegins DEF Sound
<1>5. /\ S \in [LoadOwners -> Nat] /\ SumOf(S) = SumOf(p.self) + n
      /\ \A o \in LoadOwners : S[o] = p.self[o] + (IF o = p.owner THEN n ELSE 0)
      /\ L \in [LegOwners -> Nat]
      /\ \A l \in LegOwners : L[l] = p.stolen[l] + (IF p.owner = "OTHER" /\ l = p.leg THEN n ELSE 0)
  BY <1>1, SpansWith
<1>6. n + Ticks(p.end, t) = Ticks(p.seg, t) /\ Ticks(p.end, t) \in Nat /\ Ticks(p.seg, t) \in Nat
  <2>1. Ticks(p.end, t) \in Nat /\ Ticks(p.seg, t) \in Nat
    BY <1>1, TicksTyped
  <2>2. n + Ticks(p.end, t) = Ticks(p.seg, t)
    BY <1>1, EndPassed DEF Sound
  <2> QED
    BY <2>1, <2>2
<1> HIDE DEF n, S, L, e
<1> DEFINE A == PlusAll(p.acc, S)
           B == PlusAll(p.accStolen, L)
<1>7. /\ A \in [LoadOwners -> Nat] /\ \A o \in LoadOwners : A[o] = p.acc[o] + S[o]
      /\ B \in [LegOwners -> Nat] /\ \A l \in LegOwners : B[l] = p.accStolen[l] + L[l]
  <2>1. p.acc \in [LoadOwners -> Nat] /\ p.accStolen \in [LegOwners -> Nat]
    BY <1>1 DEF Profs
  <2> QED
    BY <1>5, <2>1 DEF PlusAll
<1>8. q = [p EXCEPT !.self = Zeros, !.stolen = NoLoss, !.last = S, !.acc = A, !.accStolen = B,
                    !.windows = p.windows + 1, !.seg = p.end, !.end = e]
  BY <1>1, <1>3, ZenonT(30) DEF Advance, CloseWindow, Profs, e
<1> HIDE DEF q, A, B
<1>9. Zeros \in [LoadOwners -> Nat] /\ NoLoss \in [LegOwners -> Nat] /\ SumOf(Zeros) = 0
  BY DEF Zeros, NoLoss, SumOf, LoadOwners, LegOwners
<1>10. q \in Profs
  <2>1. p.windows + 1 \in Nat
    BY <1>1 DEF Profs
  <2> QED
    BY <1>1, <1>4, <1>5, <1>7, <1>8, <1>9, <2>1 DEF Profs
<1>11. /\ q.self = Zeros /\ q.stolen = NoLoss /\ q.last = S /\ q.acc = A /\ q.accStolen = B
       /\ q.seg = p.end /\ q.end = e /\ q.period = p.period /\ q.negative = p.negative
       /\ q.owner = p.owner /\ q.leg = p.leg /\ q.ready = p.ready /\ q.stack = p.stack
       /\ q.unbalanced = p.unbalanced /\ q.rebase = p.rebase /\ q.tooDeep = p.tooDeep
  BY <1>1, <1>8 DEF Profs
<1>12. Whole(q)
  BY <1>4, <1>5, <1>9, <1>11, <1>1 DEF Whole, Sound, n
<1>13. Sound(q, t)
  BY <1>10, <1>11, <1>12 DEF Sound
<1>14. \A o \in LoadOwners : q.acc[o] + q.self[o] + (IF o = q.owner THEN Ticks(q.seg, t) ELSE 0)
                           = p.acc[o] + p.self[o] + (IF o = p.owner THEN Ticks(p.seg, t) ELSE 0)
  <2> SUFFICES ASSUME NEW o \in LoadOwners
               PROVE  q.acc[o] + q.self[o] + (IF o = q.owner THEN Ticks(q.seg, t) ELSE 0)
                    = p.acc[o] + p.self[o] + (IF o = p.owner THEN Ticks(p.seg, t) ELSE 0)
    OBVIOUS
  <2>1. p.acc[o] \in Nat /\ p.self[o] \in Nat
    BY <1>1 DEF Profs
  <2>2. q.acc[o] = p.acc[o] + (p.self[o] + (IF o = p.owner THEN n ELSE 0)) /\ q.self[o] = 0
    BY <1>5, <1>7, <1>11 DEF Zeros
  <2> QED
    BY <2>1, <2>2, <1>1, <1>6, <1>11
<1>15. Credit(q, t) = Credit(p, t)
  BY <1>14 DEF Credit
<1>16. \A l \in LegOwners :
         q.accStolen[l] + q.stolen[l] + (IF q.owner = "OTHER" /\ l = q.leg THEN Ticks(q.seg, t) ELSE 0)
       = p.accStolen[l] + p.stolen[l] + (IF p.owner = "OTHER" /\ l = p.leg THEN Ticks(p.seg, t) ELSE 0)
  <2> SUFFICES ASSUME NEW l \in LegOwners
               PROVE  q.accStolen[l] + q.stolen[l] + (IF q.owner = "OTHER" /\ l = q.leg THEN Ticks(q.seg, t) ELSE 0)
                    = p.accStolen[l] + p.stolen[l] + (IF p.owner = "OTHER" /\ l = p.leg THEN Ticks(p.seg, t) ELSE 0)
    OBVIOUS
  <2>1. p.accStolen[l] \in Nat /\ p.stolen[l] \in Nat
    BY <1>1 DEF Profs
  <2>2. /\ q.accStolen[l] = p.accStolen[l] + (p.stolen[l] + (IF p.owner = "OTHER" /\ l = p.leg THEN n ELSE 0))
        /\ q.stolen[l] = 0
    BY <1>5, <1>7, <1>11 DEF NoLoss
  <2> QED
    BY <2>1, <2>2, <1>1, <1>6, <1>11
<1>17. Loss(q, t) = Loss(p, t)
  BY <1>16 DEF Loss
<1>18. Standing(q) = Standing(p)
  BY <1>11 DEF Standing
<1> QED
  BY <1>13, <1>15, <1>17, <1>18 DEF q

LEMMA PassKeeps ==
  ASSUME NEW p, NEW t \in Times, Sound(p, t)
  PROVE  LET q == Pass(p, t)
         IN  Sound(q, t) /\ Credit(q, t) = Credit(p, t) /\ Loss(q, t) = Loss(p, t) /\ Standing(q) = Standing(p)
BY AdvanceKeeps DEF Pass

-----------------------------------------------------------------------------
(* The loop: a function that is defined by its passes exists, and what each *)
(* pass keeps is kept.                                                      *)

LeastIn(S, m) == m \in S /\ \A n \in S : m <= n

LEMMA LeastInIs ==
  ASSUME NEW S \in SUBSET Nat, S # {}
  PROVE  \E m \in Nat : LeastIn(S, m)
<1> DEFINE R == WellFounded!OpToRel(<, Nat)
<1>1. WellFounded!IsWellFoundedOn(R, Nat)
  BY WellFounded!NatLessThanWellFounded
<1>2. \A x, y \in Nat : y < x => <<y, x>> \in R
  BY DEF WellFounded!OpToRel
<1> HIDE DEF R
<1>3. S \subseteq Nat /\ S # {}
  OBVIOUS
<1>4. PICK v \in S : \A w \in S : ~(<<w, v>> \in R)
  BY <1>1, <1>3, WellFounded!WFMin
<1>5. ASSUME NEW w \in S PROVE v <= w
  <2>1. v \in Nat /\ w \in Nat
    BY <1>3
  <2>2. ~(w < v)
    BY <1>2, <1>4, <2>1
  <2> QED
    BY <2>1, <2>2
<1> QED
  BY <1>3, <1>5 DEF LeastIn

Passes(g, n, p, t) == g = [i \in 0 .. n |-> IF i = 0 THEN p ELSE Pass(g[i - 1], t)]

LEMMA PassesExist ==
  ASSUME NEW p, NEW t, NEW n \in Nat
  PROVE  \E g : Passes(g, n, p, t)
<1> DEFINE bad == {m \in Nat : ~\E g : Passes(g, m, p, t)}
<1>1. SUFFICES ASSUME bad # {} PROVE FALSE
  OBVIOUS
<1>2. PICK m \in Nat : LeastIn(bad, m)
  <2>1. bad \in SUBSET Nat
    OBVIOUS
  <2> HIDE DEF bad
  <2> QED
    BY <1>1, <2>1, LeastInIs
<1>3. m \in bad /\ \A k \in bad : m <= k
  BY <1>2 DEF LeastIn
<1>4. CASE m = 0
  <2> DEFINE g == [i \in 0 .. 0 |-> p]
  <2>1. Passes(g, 0, p, t)
    BY DEF Passes
  <2> QED
    BY <1>3, <1>4, <2>1
<1>5. CASE m # 0
  <2>1. m - 1 \in Nat /\ m - 1 \notin bad
    BY <1>3, <1>5
  <2>2. PICK g : Passes(g, m - 1, p, t)
    BY <2>1
  <2> DEFINE h == [i \in 0 .. m |-> IF i = 0 THEN p ELSE Pass(g[i - 1], t)]
  <2>3. ASSUME NEW i \in 0 .. m - 1 PROVE h[i] = g[i]
    <3>1. i \in 0 .. m
      BY <2>3
    <3>2. h[i] = IF i = 0 THEN p ELSE Pass(g[i - 1], t)
      BY <3>1
    <3>3. g[i] = IF i = 0 THEN p ELSE Pass(g[i - 1], t)
      BY <2>2, <2>3 DEF Passes
    <3> QED
      BY <3>2, <3>3
  <2>4. ASSUME NEW i \in 0 .. m PROVE h[i] = IF i = 0 THEN p ELSE Pass(h[i - 1], t)
    <3>1. CASE i = 0
      BY <3>1
    <3>2. CASE i # 0
      <4>1. i - 1 \in 0 .. m - 1
        BY <3>2
      <4>2. h[i - 1] = g[i - 1]
        BY <2>3, <4>1
      <4>3. h[i] = Pass(g[i - 1], t)
        BY <3>2
      <4> HIDE DEF h
      <4> QED
        BY <3>2, <4>2, <4>3
    <3> QED
      BY <3>1, <3>2
  <2>5. h = [i \in 0 .. m |-> h[i]]
    OBVIOUS
  <2> HIDE DEF h
  <2>6. Passes(h, m, p, t)
    BY <2>4, <2>5 DEF Passes
  <2> QED
    BY <1>3, <2>6
<1> QED
  BY <1>4, <1>5

LEMMA CaughtUpKeeps ==
  ASSUME NEW p, NEW t \in Times, Sound(p, t)
  PROVE  LET q == CaughtUp(p, t)
         IN  Sound(q, t) /\ Credit(q, t) = Credit(p, t) /\ Loss(q, t) = Loss(p, t) /\ Standing(q) = Standing(p)
<1> DEFINE K == MaxCatchup - 1
           Kept(q) == Sound(q, t) /\ Credit(q, t) = Credit(p, t) /\ Loss(q, t) = Loss(p, t) /\ Standing(q) = Standing(p)
<1>1. K \in Nat
  BY LoadAssumption
<1>2. \E f : f = [i \in 0 .. K |-> IF i = 0 THEN p ELSE Pass(f[i - 1], t)]
  <2>1. ASSUME NEW n \in Nat PROVE \E f : f = [i \in 0 .. n |-> IF i = 0 THEN p ELSE Pass(f[i - 1], t)]
    <3>1. \E f : Passes(f, n, p, t)
      BY PassesExist
    <3> QED
      BY <3>1 DEF Passes
  <2> HIDE DEF K
  <2> QED
    BY <1>1, <2>1
<1>3. \E f : /\ f = [i \in 0 .. K |-> IF i = 0 THEN p ELSE Pass(f[i - 1], t)]
             /\ CaughtUp(p, t) = f[K]
  BY <1>2 DEF CaughtUp
<1>4. PICK g : /\ g = [i \in 0 .. K |-> IF i = 0 THEN p ELSE Pass(g[i - 1], t)]
               /\ CaughtUp(p, t) = g[K]
  BY <1>3
<1> DEFINE bad == {i \in Nat : i <= K /\ ~Kept(g[i])}
<1>5. \A q : Kept(q) => Kept(Pass(q, t))
  BY PassKeeps
<1>6. Kept(p)
  OBVIOUS
<1> HIDE DEF Kept, K
<1>7. bad = {}
  <2> SUFFICES ASSUME bad # {} PROVE FALSE
    OBVIOUS
  <2>1. PICK m \in Nat : LeastIn(bad, m)
    <3>1. bad \in SUBSET Nat
      OBVIOUS
    <3> HIDE DEF bad
    <3> QED
      BY <3>1, LeastInIs
  <2>2. m \in bad /\ \A k \in bad : m <= k
    BY <2>1 DEF LeastIn
  <2>3. m \in 0 .. K /\ ~Kept(g[m])
    BY <1>1, <2>2
  <2>4. g[m] = IF m = 0 THEN p ELSE Pass(g[m - 1], t)
    BY <1>4, <2>3
  <2>5. m # 0
    BY <1>6, <2>3, <2>4
  <2>6. m - 1 \in Nat /\ m - 1 <= K /\ m - 1 \notin bad
    BY <1>1, <2>2, <2>3, <2>5
  <2>7. Kept(g[m - 1])
    BY <2>6
  <2> QED
    BY <1>5, <2>3, <2>4, <2>5, <2>7
<1>8. Kept(g[K])
  BY <1>1, <1>7
<1> QED
  BY <1>4, <1>8 DEF Kept

\* What a charge leaves alone: all that Standing names but the windows given up.
Owned(p) == <<p.ready, p.period, p.owner, p.leg, p.stack, p.unbalanced, p.tooDeep>>

LEMMA StandingIsOwned ==
  ASSUME NEW p, NEW q, Standing(q) = Standing(p)
  PROVE  Owned(q) = Owned(p) /\ q.rebase = p.rebase
BY DEF Standing, Owned

\* The last part of a charge, up to t in a window that t does not end.
LEMMA TailKeeps ==
  ASSUME NEW p, NEW t \in Times, Sound(p, t), ~Reached(p.end, t)
  PROVE  LET q == [ChargeSeg(p, t) EXCEPT !.seg = t]
         IN  /\ Sound(q, t) /\ q.seg = t /\ Credit(q, t) = Credit(p, t) /\ Loss(q, t) = Loss(p, t)
             /\ Standing(q) = Standing(p)
<1> DEFINE n == Ticks(p.seg, t)
           S == SelfWith(p, n)
           L == StolenWith(p, n)
           q == [ChargeSeg(p, t) EXCEPT !.seg = t]
<1>1. /\ p \in Profs /\ p.seg \in Times /\ p.end \in Times /\ p.period \in Nat
      /\ Ticks(p.seg, p.end) \in Nat /\ Ticks(p.seg, p.end) < Half
  BY SoundIs
<1>2. n \in Nat /\ ChargeSeg(p, t) = [p EXCEPT !.self = S, !.stolen = L]
  BY <1>1, SegCharged DEF Sound
<1>3. n + Ticks(t, p.end) = Ticks(p.seg, p.end) /\ Ticks(t, p.end) \in Nat
  <2>1. n + Ticks(t, p.end) = Ticks(p.seg, p.end)
    BY <1>1, EndAhead DEF Sound
  <2> QED
    BY <1>1, <2>1, TicksTyped
<1>4. /\ S \in [LoadOwners -> Nat] /\ SumOf(S) = SumOf(p.self) + n
      /\ \A o \in LoadOwners : S[o] = p.self[o] + (IF o = p.owner THEN n ELSE 0)
      /\ L \in [LegOwners -> Nat]
      /\ \A l \in LegOwners : L[l] = p.stolen[l] + (IF p.owner = "OTHER" /\ l = p.leg THEN n ELSE 0)
  BY <1>1, <1>2, SpansWith
<1>5. SumOf(p.self) \in Nat
  <2>1. p.self \in [LoadOwners -> Nat]
    BY <1>1 DEF Profs
  <2> QED
    BY <2>1 DEF SumOf, LoadOwners, LegOwners
<1> HIDE DEF n, S, L
<1>6. q = [p EXCEPT !.self = S, !.stolen = L, !.seg = t]
  BY <1>1, <1>2 DEF Profs
<1> HIDE DEF q
<1>7. q \in Profs
  BY <1>1, <1>4, <1>6 DEF Profs
<1>8. /\ q.self = S /\ q.stolen = L /\ q.seg = t /\ q.last = p.last /\ q.acc = p.acc /\ q.accStolen = p.accStolen
      /\ q.end = p.end /\ q.period = p.period /\ q.negative = p.negative /\ q.windows = p.windows
      /\ q.owner = p.owner /\ q.leg = p.leg /\ q.ready = p.ready /\ q.stack = p.stack
      /\ q.unbalanced = p.unbalanced /\ q.rebase = p.rebase /\ q.tooDeep = p.tooDeep
  BY <1>1, <1>6 DEF Profs
<1>9. Whole(q)
  BY <1>1, <1>2, <1>3, <1>4, <1>5, <1>8 DEF Whole, Sound
<1>10. Sound(q, t)
  BY <1>7, <1>8, <1>9, AtOnce DEF Sound
<1>11. Ticks(q.seg, t) = 0 /\ Ticks(p.seg, t) = n
  BY <1>8, AtOnce DEF n
<1>12. Credit(q, t) = Credit(p, t)
  <2>1. ASSUME NEW o \in LoadOwners
        PROVE  q.acc[o] + q.self[o] + (IF o = q.owner THEN Ticks(q.seg, t) ELSE 0)
             = p.acc[o] + p.self[o] + (IF o = p.owner THEN Ticks(p.seg, t) ELSE 0)
    <3>1. p.acc[o] \in Nat /\ p.self[o] \in Nat
      BY <1>1 DEF Profs
    <3>2. q.acc[o] = p.acc[o] /\ q.self[o] = p.self[o] + (IF o = p.owner THEN n ELSE 0)
      BY <1>4, <1>8
    <3> QED
      BY <1>2, <1>8, <1>11, <3>1, <3>2
  <2> QED
    BY <2>1 DEF Credit
<1>13. Loss(q, t) = Loss(p, t)
  <2>1. ASSUME NEW l \in LegOwners
        PROVE  q.accStolen[l] + q.stolen[l] + (IF q.owner = "OTHER" /\ l = q.leg THEN Ticks(q.seg, t) ELSE 0)
             = p.accStolen[l] + p.stolen[l] + (IF p.owner = "OTHER" /\ l = p.leg THEN Ticks(p.seg, t) ELSE 0)
    <3>1. p.accStolen[l] \in Nat /\ p.stolen[l] \in Nat
      BY <1>1 DEF Profs
    <3>2. q.accStolen[l] = p.accStolen[l] /\ q.stolen[l] = p.stolen[l] + (IF p.owner = "OTHER" /\ l = p.leg THEN n ELSE 0)
      BY <1>4, <1>8
    <3> QED
      BY <1>2, <1>8, <1>11, <3>1, <3>2
  <2> QED
    BY <2>1 DEF Loss
<1>14. Standing(q) = Standing(p)
  BY <1>8 DEF Standing
<1> QED
  BY <1>8, <1>10, <1>12, <1>13, <1>14 DEF q

\* Windows that are given up are counted, and the next one is whole again.
LEMMA RebaseKeeps ==
  ASSUME NEW p, NEW t \in Times, Sound(p, t)
  PROVE  LET q == Rebase(p, t)
         IN  Sound(q, t) /\ q.seg = t /\ q.rebase # 0 /\ Owned(q) = Owned(p)
<1> DEFINE e == (t + p.period) % Wrap
           q == Rebase(p, t)
<1>1. p \in Profs /\ p.period \in Nat
  BY SoundIs
<1>2. e \in Times /\ Ticks(t, e) = p.period
  BY <1>1, WindowBegins DEF Sound
<1>3. q = [p EXCEPT !.self = Zeros, !.stolen = NoLoss, !.end = e, !.seg = t, !.rebase = p.rebase + 1]
  BY DEF Rebase
<1> HIDE DEF e, q
<1>4. Zeros \in [LoadOwners -> Nat] /\ NoLoss \in [LegOwners -> Nat] /\ SumOf(Zeros) = 0
  BY DEF Zeros, NoLoss, SumOf, LoadOwners, LegOwners
<1>5. p.rebase + 1 \in Nat /\ p.rebase + 1 # 0
  BY <1>1 DEF Profs
<1>6. q \in Profs
  BY <1>1, <1>2, <1>3, <1>4, <1>5 DEF Profs
<1>7. /\ q.self = Zeros /\ q.seg = t /\ q.end = e /\ q.last = p.last /\ q.rebase = p.rebase + 1
      /\ q.period = p.period /\ q.negative = p.negative /\ q.windows = p.windows
      /\ q.owner = p.owner /\ q.leg = p.leg /\ q.ready = p.ready /\ q.stack = p.stack
      /\ q.unbalanced = p.unbalanced /\ q.tooDeep = p.tooDeep
  BY <1>1, <1>3 DEF Profs
<1>8. Whole(q)
  BY <1>1, <1>2, <1>4, <1>7 DEF Whole, Sound
<1>9. Sound(q, t)
  BY <1>6, <1>7, <1>8, AtOnce DEF Sound
<1> QED
  BY <1>5, <1>7, <1>9 DEF Owned, q

LEMMA ChargeKeeps ==
  ASSUME NEW p, NEW t \in Times, Sound(p, t), p.ready
  PROVE  LET q == Charge(p, t)
         IN  /\ Sound(q, t) /\ q.seg = t /\ Owned(q) = Owned(p)
             /\ q.rebase = 0 => p.rebase = 0 /\ Credit(q, t) = Credit(p, t) /\ Loss(q, t) = Loss(p, t)
<1> DEFINE c == CaughtUp(p, t)
<1>1. Sound(c, t) /\ Credit(c, t) = Credit(p, t) /\ Loss(c, t) = Loss(p, t) /\ Standing(c) = Standing(p)
  BY CaughtUpKeeps
<1>2. p.period # 0
  BY SoundIs DEF Sound
<1>3. Charge(p, t) = IF Reached(c.end, t) THEN Rebase(Advance(c), t) ELSE [ChargeSeg(c, t) EXCEPT !.seg = t]
  BY <1>2 DEF Charge
<1>4. Owned(c) = Owned(p) /\ c.rebase = p.rebase
  BY <1>1, StandingIsOwned
<1> HIDE DEF c
<1>5. CASE Reached(c.end, t)
  <2>1. Sound(Advance(c), t) /\ Standing(Advance(c)) = Standing(c)
    BY <1>1, <1>5, AdvanceKeeps
  <2>2. Owned(Advance(c)) = Owned(c)
    BY <2>1, StandingIsOwned
  <2>3. LET q == Rebase(Advance(c), t) IN Sound(q, t) /\ q.seg = t /\ q.rebase # 0 /\ Owned(q) = Owned(Advance(c))
    BY <2>1, RebaseKeeps
  <2> QED
    BY <1>3, <1>4, <1>5, <2>2, <2>3
<1>6. CASE ~Reached(c.end, t)
  <2> DEFINE q == [ChargeSeg(c, t) EXCEPT !.seg = t]
  <2>1. Sound(q, t) /\ q.seg = t /\ Credit(q, t) = Credit(c, t) /\ Loss(q, t) = Loss(c, t) /\ Standing(q) = Standing(c)
    BY <1>1, <1>6, TailKeeps
  <2>2. Charge(p, t) = q
    BY <1>3, <1>6
  <2> HIDE DEF q
  <2>3. Owned(q) = Owned(c) /\ q.rebase = c.rebase
    BY <2>1, StandingIsOwned
  <2> QED
    BY <1>1, <1>4, <2>1, <2>2, <2>3
<1> QED
  BY <1>5, <1>6

-----------------------------------------------------------------------------
(* The handlers, and the frames the hooks keep of them.                     *)

LEMMA GreatestIs ==
  ASSUME NEW n \in Nat, NEW S \in SUBSET (1 .. n), S # {}
  PROVE  \E m \in S : \A j \in S : j <= m
<1> DEFINE D == {n - i : i \in S}
<1>1. D \in SUBSET Nat /\ D # {}
  <2>1. \A i \in S : i \in 1 .. n
    OBVIOUS
  <2>2. \A i \in S : n - i \in Nat
    BY <2>1
  <2>3. PICK i \in S : TRUE
    OBVIOUS
  <2>4. n - i \in D
    OBVIOUS
  <2> QED
    BY <2>2, <2>4
<1>2. PICK d \in Nat : LeastIn(D, d)
  <2> HIDE DEF D
  <2> QED
    BY <1>1, LeastInIs
<1>3. d \in D /\ \A e \in D : d <= e
  BY <1>2 DEF LeastIn
<1>4. PICK m \in S : d = n - m
  BY <1>3
<1>5. ASSUME NEW j \in S PROVE j <= m
  <2>1. n - j \in D
    OBVIOUS
  <2>2. d <= n - j
    BY <1>3, <2>1
  <2> QED
    BY <1>4, <2>2
<1> QED
  BY <1>5

LEMMA LegOfSame ==
  ASSUME NEW s, NEW r, NEW n \in Nat, \A i \in 1 .. n : s[i].owner = r[i].owner
  PROVE  LegOf(s, n) = LegOf(r, n)
<1> DEFINE legs == {i \in 1 .. n : s[i].owner \in LegOwners}
           m == CHOOSE i \in legs : \A j \in legs : j <= i
<1>1. legs = {i \in 1 .. n : r[i].owner \in LegOwners}
  OBVIOUS
<1>2. legs \in SUBSET (1 .. n)
  OBVIOUS
<1> DEFINE Leg(q, S) == IF S = {} THEN "NONE" ELSE q[CHOOSE i \in S : \A j \in S : j <= i].owner
<1>3. LegOf(s, n) = Leg(s, legs) /\ LegOf(r, n) = Leg(r, {i \in 1 .. n : r[i].owner \in LegOwners})
  BY DEF LegOf
<1>4. LegOf(s, n) = Leg(s, legs) /\ LegOf(r, n) = Leg(r, legs)
  <2> HIDE DEF Leg, legs
  <2> QED
    BY <1>1, <1>3
<1>5. LegOf(s, n) = (IF legs = {} THEN "NONE" ELSE s[m].owner) /\ LegOf(r, n) = (IF legs = {} THEN "NONE" ELSE r[m].owner)
  <2> HIDE DEF legs
  <2> QED
    BY <1>4
<1>6. CASE legs # {}
  <2>1. m \in legs
    <3>1. \E i \in legs : \A j \in legs : j <= i
      <4> HIDE DEF legs
      <4> QED
        BY <1>2, <1>6, GreatestIs
    <3> HIDE DEF legs
    <3> QED
      BY <3>1
  <2> HIDE DEF m
  <2> QED
    BY <1>2, <1>5, <2>1
<1> QED
  BY <1>5, <1>6

LEMMA LegOfNext ==
  ASSUME NEW s, NEW n \in Nat
  PROVE  LegOf(s, n + 1) = IF s[n + 1].owner \in LegOwners THEN s[n + 1].owner ELSE LegOf(s, n)
<1> DEFINE legs == {i \in 1 .. n + 1 : s[i].owner \in LegOwners}
<1>1. CASE s[n + 1].owner \in LegOwners
  <2>1. n + 1 \in legs /\ \A j \in legs : j <= n + 1
    BY <1>1
  <2>2. \A i \in legs : i \in Nat
    OBVIOUS
  <2>3. LegOf(s, n + 1) = IF legs = {} THEN "NONE" ELSE s[CHOOSE i \in legs : \A j \in legs : j <= i].owner
    BY DEF LegOf
  <2> HIDE DEF legs
  <2>4. (CHOOSE i \in legs : \A j \in legs : j <= i) = n + 1
    BY <2>1, <2>2
  <2> QED
    BY <1>1, <2>1, <2>3, <2>4
<1>2. CASE s[n + 1].owner \notin LegOwners
  <2> DEFINE before == {i \in 1 .. n : s[i].owner \in LegOwners}
             Leg(S) == IF S = {} THEN "NONE" ELSE s[CHOOSE i \in S : \A j \in S : j <= i].owner
  <2>1. legs = before
    BY <1>2
  <2>2. LegOf(s, n + 1) = Leg(legs) /\ LegOf(s, n) = Leg(before)
    BY DEF LegOf
  <2> HIDE DEF legs, before, Leg
  <2> QED
    BY <1>2, <2>1, <2>2
<1> QED
  BY <1>1, <1>2

LEMMA NoLegYet ==
  ASSUME NEW s
  PROVE  LegOf(s, 0) = "NONE"
BY DEF LegOf

OwnerOf(s, n) == IF n = 0 THEN "NONE" ELSE s[n].owner

\* Every handler has its frame, which holds what it interrupted.
Nested ==
  /\ Len(prof.stack) = Len(nest)
  /\ \A i \in 1 .. Len(nest) : /\ nest[i].prio >= i
                               /\ prof.stack[i] = [owner |-> OwnerOf(nest, i - 1), leg |-> LegOf(nest, i - 1)]
  /\ prof.owner = OwnerOf(nest, Len(nest)) /\ prof.leg = LegOf(nest, Len(nest))

LoadTyped ==
  /\ now \in Times /\ nest \in Seq(Vectors) /\ prof \in Profs
  /\ late \in [call : {"none", "configure", "reset"}, at : Times, period : Nat] /\ late.period < Half
  /\ spent \in [own : [LoadOwners -> Int], taken : [LegOwners -> Int]]

LateIsRecent == late.call # "none" => Reached(late.at, now)
GridIsSound  == prof.ready => Sound(prof, now)
AllIsPaid    == prof.ready /\ prof.rebase = 0 => Credit(prof, now) = spent.own /\ Loss(prof, now) = spent.taken
NoFault      == prof.period < Half /\ ProfilerIsHealthy

LoadInv == LoadTyped /\ Nested /\ LateIsRecent /\ GridIsSound /\ AllIsPaid /\ NoFault

LEMMA LoadPromise == LoadInv => WindowsAreWhole /\ TimeIsCredited /\ ProfilerIsHealthy
<1> SUFFICES ASSUME LoadInv PROVE WindowsAreWhole /\ TimeIsCredited /\ ProfilerIsHealthy
  OBVIOUS
<1>1. WindowsAreWhole
  BY DEF LoadInv, GridIsSound, Sound, Whole, WindowsAreWhole
<1>2. TimeIsCredited
  <2> SUFFICES ASSUME prof.ready, prof.rebase = 0 PROVE TimeIsCredited
    BY DEF TimeIsCredited
  <2>1. Credit(prof, now) = spent.own /\ Loss(prof, now) = spent.taken
    BY DEF LoadInv, AllIsPaid
  <2>2. \A o \in LoadOwners : prof.acc[o] + prof.self[o] + (IF o = prof.owner THEN Ticks(prof.seg, now) ELSE 0) = spent.own[o]
    BY <2>1 DEF Credit
  <2>3. \A l \in LegOwners : prof.accStolen[l] + prof.stolen[l]
           + (IF prof.owner = "OTHER" /\ l = prof.leg THEN Ticks(prof.seg, now) ELSE 0) = spent.taken[l]
    BY <2>1 DEF Loss
  <2> QED
    BY <2>2, <2>3 DEF TimeIsCredited
<1> QED
  BY <1>1, <1>2 DEF LoadInv, NoFault

LEMMA LoadInitInv == LoadInitState => LoadInv
<1> SUFFICES ASSUME LoadInitState PROVE LoadInv
  OBVIOUS
<1>1. Zeros \in [LoadOwners -> Nat] /\ NoLoss \in [LegOwners -> Nat] /\ Zeros \in [LoadOwners -> Int] /\ NoLoss \in [LegOwners -> Int]
  BY DEF Zeros, NoLoss
<1>2. now \in Times /\ 0 \in Times /\ 0 < Half
  BY WrapIs DEF LoadInitState, Times
<1>3. "NONE" \in LoadOwners /\ "NONE" \in Legs /\ <<>> \in Seq(Frames) /\ <<>> \in Seq(Vectors)
  BY DEF LoadOwners, Legs
<1>4. prof \in Profs
  BY <1>1, <1>2, <1>3 DEF LoadInitState, Profs
<1>5. LoadTyped
  BY <1>1, <1>2, <1>3, <1>4 DEF LoadInitState, LoadTyped, NotLate
<1>6. prof.ready = FALSE /\ prof.period = 0 /\ ProfilerIsHealthy /\ late.call = "none"
  BY DEF LoadInitState, ProfilerIsHealthy, NotLate
<1>7. Nested
  <2>1. nest = <<>> /\ prof.stack = <<>> /\ prof.owner = "NONE" /\ prof.leg = "NONE"
    BY DEF LoadInitState
  <2>2. Len(nest) = 0 /\ Len(prof.stack) = 0
    BY <2>1
  <2> QED
    BY <2>1, <2>2, NoLegYet DEF Nested, OwnerOf
<1> QED
  BY <1>2, <1>5, <1>6, <1>7 DEF LoadInv, LateIsRecent, GridIsSound, AllIsPaid, NoFault

\* The profiler as a hook finds it, all time charged up to now.
LEMMA Charged ==
  ASSUME LoadInv
  PROVE  LET c == Charge(prof, now)
         IN  /\ c \in Profs /\ Owned(c) = Owned(prof) /\ c.negative = 0
             /\ c.ready => Sound(c, now) /\ c.seg = now
             /\ c.ready /\ c.rebase = 0 => Credit(c, now) = spent.own /\ Loss(c, now) = spent.taken
<1>1. now \in Times /\ prof \in Profs /\ prof.negative = 0
  BY DEF LoadInv, LoadTyped, NoFault, ProfilerIsHealthy
<1>2. CASE ~prof.ready
  <2>1. Charge(prof, now) = prof
    BY <1>2 DEF Charge
  <2> QED
    BY <1>1, <1>2, <2>1
<1>3. CASE prof.ready
  <2> DEFINE c == Charge(prof, now)
  <2>1. Sound(prof, now)
    BY <1>3 DEF LoadInv, GridIsSound
  <2>2. /\ Sound(c, now) /\ c.seg = now /\ Owned(c) = Owned(prof)
        /\ c.rebase = 0 => prof.rebase = 0 /\ Credit(c, now) = Credit(prof, now) /\ Loss(c, now) = Loss(prof, now)
    BY <1>1, <1>3, <2>1, ChargeKeeps
  <2> HIDE DEF c
  <2>3. c.rebase = 0 => Credit(c, now) = spent.own /\ Loss(c, now) = spent.taken
    BY <1>3, <2>2 DEF LoadInv, AllIsPaid
  <2>4. c \in Profs /\ c.negative = 0
    BY <2>2 DEF Sound
  <2> QED
    BY <2>2, <2>3, <2>4 DEF c
<1> QED
  BY <1>2, <1>3

Switched(p, o, l, s) == [p EXCEPT !.stack = s, !.owner = o, !.leg = l]

\* Right after a charge the owner can change, and nothing is charged to the wrong one.
LEMMA OwnerSwitchKeeps ==
  ASSUME NEW c \in Profs, NEW t \in Times, NEW o \in LoadOwners, NEW l \in Legs, NEW s \in Seq(Frames),
         NEW d, d = Switched(c, o, l, s)
  PROVE  /\ d \in Profs /\ d.owner = o /\ d.leg = l /\ d.stack = s
         /\ d.ready = c.ready /\ d.rebase = c.rebase /\ d.period = c.period /\ d.negative = c.negative
         /\ d.unbalanced = c.unbalanced /\ d.tooDeep = c.tooDeep
         /\ Sound(c, t) /\ c.seg = t => Sound(d, t) /\ Credit(d, t) = Credit(c, t) /\ Loss(d, t) = Loss(c, t)
<1>1. d \in Profs
  BY DEF Profs, Switched
<1>2. /\ d.owner = o /\ d.leg = l /\ d.stack = s
      /\ d.ready = c.ready /\ d.rebase = c.rebase /\ d.period = c.period /\ d.negative = c.negative
      /\ d.unbalanced = c.unbalanced /\ d.tooDeep = c.tooDeep
      /\ d.self = c.self /\ d.stolen = c.stolen /\ d.last = c.last /\ d.acc = c.acc /\ d.accStolen = c.accStolen
      /\ d.windows = c.windows /\ d.seg = c.seg /\ d.end = c.end
  BY DEF Profs, Switched
<1>3. ASSUME Sound(c, t), c.seg = t PROVE Sound(d, t) /\ Credit(d, t) = Credit(c, t) /\ Loss(d, t) = Loss(c, t)
  <2>1. Sound(d, t)
    BY <1>1, <1>2, <1>3 DEF Sound, Whole
  <2>2. Ticks(d.seg, t) = 0 /\ Ticks(c.seg, t) = 0
    BY <1>2, <1>3, AtOnce
  <2>3. Credit(d, t) = Credit(c, t)
    BY <1>2, <2>2 DEF Credit
  <2>4. Loss(d, t) = Loss(c, t)
    BY <1>2, <2>2 DEF Loss
  <2> QED
    BY <2>1, <2>3, <2>4
<1> QED
  BY <1>1, <1>2, <1>3

LEMMA OwnedIs ==
  ASSUME NEW p, NEW q, Owned(q) = Owned(p)
  PROVE  /\ q.ready = p.ready /\ q.period = p.period /\ q.owner = p.owner /\ q.leg = p.leg /\ q.stack = p.stack
         /\ q.unbalanced = p.unbalanced /\ q.tooDeep = p.tooDeep
BY DEF Owned

\* A hook that switches to o and l and keeps the frames s.
LEMMA HookKeeps ==
  ASSUME LoadInv, NEW o \in LoadOwners, NEW l \in Legs, NEW s \in Seq(Frames), UNCHANGED <<now, late, spent>>,
         prof' = Switched(Charge(prof, now), o, l, s),
         nest' \in Seq(Vectors), Nested'
  PROVE  LoadInv'
<1> DEFINE c == Charge(prof, now)
<1>1. now \in Times /\ prof.period < Half /\ prof.unbalanced = 0 /\ prof.tooDeep = 0
  BY DEF LoadInv, LoadTyped, NoFault, ProfilerIsHealthy
<1>2. /\ c \in Profs /\ Owned(c) = Owned(prof) /\ c.negative = 0
      /\ c.ready => Sound(c, now) /\ c.seg = now
      /\ c.ready /\ c.rebase = 0 => Credit(c, now) = spent.own /\ Loss(c, now) = spent.taken
  BY Charged
<1> HIDE DEF c
<1>3. prof' = Switched(c, o, l, s)
  BY DEF c
<1>4. /\ prof' \in Profs /\ prof'.ready = c.ready /\ prof'.rebase = c.rebase /\ prof'.period = c.period
      /\ prof'.negative = c.negative /\ prof'.unbalanced = c.unbalanced /\ prof'.tooDeep = c.tooDeep
      /\ Sound(c, now) /\ c.seg = now =>
           Sound(prof', now) /\ Credit(prof', now) = Credit(c, now) /\ Loss(prof', now) = Loss(c, now)
  BY <1>1, <1>2, <1>3, OwnerSwitchKeeps
<1>5. c.period = prof.period /\ c.unbalanced = prof.unbalanced /\ c.tooDeep = prof.tooDeep
  BY <1>2, OwnedIs
<1>6. LoadTyped' /\ LateIsRecent'
  BY <1>4 DEF LoadInv, LoadTyped, LateIsRecent
<1>7. GridIsSound' /\ AllIsPaid'
  BY <1>2, <1>4 DEF GridIsSound, AllIsPaid
<1>8. NoFault'
  BY <1>1, <1>2, <1>4, <1>5 DEF NoFault, ProfilerIsHealthy
<1> QED
  BY <1>6, <1>7, <1>8 DEF LoadInv

LEMMA StartsKeeps ==
  ASSUME LoadInv, NEW v \in Vectors, VectorStarts(v)
  PROVE  LoadInv'
<1> DEFINE n == Len(nest)
           f == [owner |-> prof.owner, leg |-> prof.leg]
           s == Append(prof.stack, f)
           l == IF v.owner \in LegOwners THEN v.owner ELSE prof.leg
           c == Charge(prof, now)
<1>1. /\ nest \in Seq(Vectors) /\ n \in Nat /\ prof.stack \in Seq(Frames) /\ Len(prof.stack) = n
      /\ prof.owner \in LoadOwners /\ prof.leg \in Legs /\ prof \in Profs
  BY DEF LoadInv, LoadTyped, Nested, Profs
<1>2. v.owner \in LoadOwners /\ v.prio \in Nat /\ v.prio <= MaxDepth /\ MaxDepth \in Nat
  BY LoadAssumption
<1>3. v.prio >= n + 1
  <2>1. CASE nest = <<>>
    BY <1>1, <1>2, <2>1 DEF VectorStarts, Innermost
  <2>2. CASE nest # <<>>
    <3>1. n \in 1 .. n
      BY <1>1, <2>2
    <3>2. nest[n].prio >= n /\ nest[n].prio \in Nat
      <4>1. nest[n] \in Vectors
        BY <1>1, <3>1
      <4>2. nest[n].prio \in Nat
        BY <4>1, LoadAssumption
      <4> QED
        BY <3>1, <4>2 DEF LoadInv, Nested
    <3>3. v.prio > nest[n].prio
      BY <2>2 DEF VectorStarts, Innermost, Seqs!Last
    <3> QED
      BY <1>1, <1>2, <3>2, <3>3
  <2> QED
    BY <2>1, <2>2
<1>4. c \in Profs /\ c.stack = prof.stack /\ c.owner = prof.owner /\ c.leg = prof.leg
  BY Charged, OwnedIs
<1> HIDE DEF c
<1>5. prof' = Switched(c, v.owner, l, s)
  <2>1. Len(c.stack) < MaxDepth
    BY <1>1, <1>2, <1>3, <1>4
  <2>2. prof' = [[c EXCEPT !.stack = s] EXCEPT !.owner = v.owner, !.leg = IF v.owner \in LegOwners THEN v.owner ELSE @]
    BY <1>4, <2>1 DEF VectorStarts, EnterHook, c
  <2> QED
    BY <1>4, <2>2 DEF Profs, Switched
<1>6. s \in Seq(Frames) /\ l \in Legs
  BY <1>1 DEF Frames, Legs
<1>7. nest' = Append(nest, v) /\ UNCHANGED <<now, late, spent>>
  BY DEF VectorStarts
<1>8. nest' \in Seq(Vectors) /\ Len(nest') = n + 1 /\ nest'[n + 1] = v /\ \A i \in 1 .. n : nest'[i] = nest[i]
  BY <1>1, <1>7
<1>9. Len(s) = n + 1 /\ s[n + 1] = f /\ \A i \in 1 .. n : s[i] = prof.stack[i]
  BY <1>1, <1>6 DEF Frames
<1>10. prof'.stack = s /\ prof'.owner = v.owner /\ prof'.leg = l
  BY <1>4, <1>5 DEF Profs, Switched
<1>11. prof.owner = OwnerOf(nest, n) /\ prof.leg = LegOf(nest, n)
  BY DEF LoadInv, Nested
<1>12. \A i \in 0 .. n : OwnerOf(nest', i) = OwnerOf(nest, i) /\ LegOf(nest', i) = LegOf(nest, i)
  <2> SUFFICES ASSUME NEW i \in 0 .. n PROVE OwnerOf(nest', i) = OwnerOf(nest, i) /\ LegOf(nest', i) = LegOf(nest, i)
    OBVIOUS
  <2>1. i \in Nat /\ \A j \in 1 .. i : j \in 1 .. n
    BY <1>1
  <2>2. \A j \in 1 .. i : nest'[j].owner = nest[j].owner
    BY <1>8, <2>1
  <2>3. OwnerOf(nest', i) = OwnerOf(nest, i)
    BY <1>8, <2>1 DEF OwnerOf
  <2> QED
    BY <2>1, <2>2, <2>3, LegOfSame
<1>13. Nested'
  <2>1. ASSUME NEW i \in 1 .. n + 1
        PROVE  nest'[i].prio >= i /\ s[i] = [owner |-> OwnerOf(nest', i - 1), leg |-> LegOf(nest', i - 1)]
    <3>1. CASE i = n + 1
      <4>1. n \in 0 .. n /\ i - 1 = n
        BY <1>1, <3>1
      <4> HIDE DEF n, s
      <4> QED
        BY <1>3, <1>8, <1>9, <1>11, <1>12, <3>1, <4>1
    <3>2. CASE i # n + 1
      <4>1. i \in 1 .. n /\ i - 1 \in 0 .. n
        BY <1>1, <2>1, <3>2
      <4>2. nest[i].prio >= i /\ prof.stack[i] = [owner |-> OwnerOf(nest, i - 1), leg |-> LegOf(nest, i - 1)]
        BY <4>1 DEF LoadInv, Nested
      <4> HIDE DEF n, s
      <4> QED
        BY <1>8, <1>9, <1>12, <4>1, <4>2
    <3> QED
      BY <3>1, <3>2
  <2>2. OwnerOf(nest', n + 1) = v.owner
    BY <1>1, <1>8 DEF OwnerOf
  <2>3. LegOf(nest', n + 1) = l
    <3>1. LegOf(nest', n + 1) = IF nest'[n + 1].owner \in LegOwners THEN nest'[n + 1].owner ELSE LegOf(nest', n)
      BY <1>1, LegOfNext
    <3>2. n \in 0 .. n
      BY <1>1
    <3> QED
      BY <1>8, <1>11, <1>12, <3>1, <3>2
  <2> HIDE DEF n, s, l
  <2> QED
    BY <1>8, <1>9, <1>10, <2>1, <2>2, <2>3 DEF Nested
<1> HIDE DEF s, l
<1> QED
  BY <1>2, <1>5, <1>6, <1>7, <1>8, <1>13, HookKeeps DEF c

LEMMA FrontIs ==
  ASSUME NEW S, NEW s \in Seq(S), NEW n \in Nat, Len(s) = n, n # 0
  PROVE  LET r == SubSeq(s, 1, n - 1)
         IN  r \in Seq(S) /\ Len(r) = n - 1 /\ s[n] \in S /\ \A i \in 1 .. n - 1 : r[i] = s[i]
<1>1. s[n] \in S
  OBVIOUS
<1>2. Len(SubSeq(s, 1, n - 1)) = n - 1
  OBVIOUS
<1>3. \A i \in 1 .. n - 1 : SubSeq(s, 1, n - 1)[i] = s[i]
  OBVIOUS
<1>4. SubSeq(s, 1, n - 1) \in Seq(S)
  OBVIOUS
<1> QED
  BY <1>1, <1>2, <1>3, <1>4

LEMMA EndsKeeps ==
  ASSUME LoadInv, VectorEnds
  PROVE  LoadInv'
<1> DEFINE n == Len(nest)
           f == prof.stack[n]
           s == SubSeq(prof.stack, 1, n - 1)
           c == Charge(prof, now)
<1>1. /\ nest \in Seq(Vectors) /\ n \in Nat /\ prof.stack \in Seq(Frames) /\ Len(prof.stack) = n /\ prof \in Profs
  BY DEF LoadInv, LoadTyped, Nested, Profs
<1>2. nest # <<>> /\ n # 0 /\ n \in 1 .. n /\ prof.stack # <<>>
  BY <1>1 DEF VectorEnds
<1>3. f \in Frames /\ f.owner \in LoadOwners /\ f.leg \in Legs
  <2>1. f \in Frames
    BY <1>1, <1>2, FrontIs
  <2> QED
    BY <2>1 DEF Frames
<1>4. c \in Profs /\ c.stack = prof.stack /\ c.owner = prof.owner /\ c.leg = prof.leg
  BY Charged, OwnedIs
<1> HIDE DEF c
<1>5. Seqs!Front(prof.stack) = s /\ Seqs!Last(prof.stack) = f
  BY <1>1 DEF Seqs!Front, Seqs!Last
<1>6. prof' = Switched(c, f.owner, f.leg, s)
  <2>1. prof' = [c EXCEPT !.stack = Seqs!Front(@), !.owner = Seqs!Last(c.stack).owner, !.leg = Seqs!Last(c.stack).leg]
    BY <1>2 DEF VectorEnds, ExitHook, c
  <2> HIDE DEF s, f
  <2> QED
    BY <1>4, <1>5, <2>1 DEF Profs, Switched
<1>7. s \in Seq(Frames) /\ Len(s) = n - 1 /\ \A i \in 1 .. n - 1 : s[i] = prof.stack[i]
  BY <1>1, <1>2, FrontIs
<1>8. UNCHANGED <<now, late, spent>> /\ nest' = SubSeq(nest, 1, n - 1)
  BY DEF VectorEnds, Seqs!Front
<1>9. nest' \in Seq(Vectors) /\ Len(nest') = n - 1 /\ \A i \in 1 .. n - 1 : nest'[i] = nest[i]
  BY <1>1, <1>2, <1>8, FrontIs
<1>10. f = [owner |-> OwnerOf(nest, n - 1), leg |-> LegOf(nest, n - 1)]
  BY <1>2 DEF LoadInv, Nested
<1>11. prof'.stack = s /\ prof'.owner = f.owner /\ prof'.leg = f.leg
  BY <1>4, <1>6 DEF Profs, Switched
<1>12. \A i \in 0 .. n - 1 : OwnerOf(nest', i) = OwnerOf(nest, i) /\ LegOf(nest', i) = LegOf(nest, i)
  <2> SUFFICES ASSUME NEW i \in 0 .. n - 1 PROVE OwnerOf(nest', i) = OwnerOf(nest, i) /\ LegOf(nest', i) = LegOf(nest, i)
    OBVIOUS
  <2>1. i \in Nat /\ \A j \in 1 .. i : j \in 1 .. n - 1
    BY <1>1
  <2>2. \A j \in 1 .. i : nest'[j].owner = nest[j].owner
    BY <1>9, <2>1
  <2>3. OwnerOf(nest', i) = OwnerOf(nest, i)
    BY <1>9, <2>1 DEF OwnerOf
  <2> QED
    BY <2>1, <2>2, <2>3, LegOfSame
<1>13. Nested'
  <2>1. ASSUME NEW i \in 1 .. n - 1
        PROVE  nest'[i].prio >= i /\ s[i] = [owner |-> OwnerOf(nest', i - 1), leg |-> LegOf(nest', i - 1)]
    <3>1. i \in 1 .. n /\ i - 1 \in 0 .. n - 1
      BY <1>1, <2>1
    <3>2. nest[i].prio >= i /\ prof.stack[i] = [owner |-> OwnerOf(nest, i - 1), leg |-> LegOf(nest, i - 1)]
      BY <3>1 DEF LoadInv, Nested
    <3> HIDE DEF n, s
    <3> QED
      BY <1>7, <1>9, <1>12, <3>1, <3>2
  <2>2. n - 1 \in 0 .. n - 1
    BY <1>1, <1>2
  <2> HIDE DEF n, s, f
  <2> QED
    BY <1>7, <1>9, <1>10, <1>11, <1>12, <2>1, <2>2 DEF Nested
<1> HIDE DEF s, f
<1> QED
  BY <1>3, <1>6, <1>7, <1>8, <1>9, <1>13, HookKeeps DEF c

-----------------------------------------------------------------------------
(* The thread's calls, and time.                                            *)

\* The profiler configured for windows of n, from the time t that the thread took.
Fresh(p, t, n) == [ClearStats(p) EXCEPT !.period = n, !.end = (t + n) % Wrap, !.seg = t, !.ready = TRUE]

LEMMA FreshKeeps ==
  ASSUME NEW p \in Profs, NEW t \in Times, NEW u \in Times, NEW n \in Nat, n # 0, n < Half, Reached(t, u), p.owner = "NONE",
         NEW q, q = Fresh(p, t, n)
  PROVE  /\ Sound(q, u) /\ q.stack = p.stack /\ q.owner = p.owner /\ q.leg = p.leg
         /\ q.period = n /\ q.unbalanced = 0 /\ q.negative = 0 /\ q.tooDeep = 0
         /\ Credit(q, u) = Plus(Zeros, "NONE", Ticks(t, u)) /\ Loss(q, u) = NoLoss
<1> DEFINE e == (t + n) % Wrap
<1>1. e \in Times /\ Ticks(t, e) = n
  BY WindowBegins
<1>2. q = [p EXCEPT !.self = Zeros, !.stolen = NoLoss, !.last = Zeros, !.acc = Zeros, !.accStolen = NoLoss, !.windows = 0,
                    !.unbalanced = 0, !.negative = 0, !.rebase = 0, !.tooDeep = 0,
                    !.period = n, !.end = e, !.seg = t, !.ready = TRUE]
  BY DEF Fresh, ClearStats, Profs
<1> HIDE DEF e
<1>3. Zeros \in [LoadOwners -> Nat] /\ NoLoss \in [LegOwners -> Nat] /\ SumOf(Zeros) = 0
  BY DEF Zeros, NoLoss, SumOf, LoadOwners, LegOwners
<1>4. q \in Profs
  <2> DEFINE c == ClearStats(p)
  <2>1. c \in Profs
    BY <1>3, ZenonT(30) DEF ClearStats, Profs
  <2>2. q = [c EXCEPT !.period = n, !.end = e, !.seg = t, !.ready = TRUE]
    BY DEF Fresh, e
  <2> HIDE DEF c
  <2> QED
    BY <1>1, <2>1, <2>2, ZenonT(30) DEF Profs
<1>5. /\ q.self = Zeros /\ q.stolen = NoLoss /\ q.acc = Zeros /\ q.accStolen = NoLoss /\ q.windows = 0
      /\ q.unbalanced = 0 /\ q.negative = 0 /\ q.tooDeep = 0 /\ q.period = n /\ q.end = e /\ q.seg = t
      /\ q.stack = p.stack /\ q.owner = p.owner /\ q.leg = p.leg
  BY <1>2 DEF Profs
<1>6. Sound(q, u)
  BY <1>1, <1>3, <1>4, <1>5 DEF Sound, Whole
<1>7. Ticks(t, u) \in Nat
  BY TicksTyped
<1>8. Credit(q, u) = Plus(Zeros, "NONE", Ticks(t, u))
  <2>1. Credit(q, u) = [o \in LoadOwners |-> 0 + 0 + (IF o = "NONE" THEN Ticks(t, u) ELSE 0)]
    BY <1>5 DEF Credit, Zeros
  <2>2. "NONE" \in LoadOwners
    BY DEF LoadOwners
  <2>3. Plus(Zeros, "NONE", Ticks(t, u)) = [o \in LoadOwners |-> IF o = "NONE" THEN Ticks(t, u) ELSE 0]
    BY <1>7, <2>2 DEF Plus, Zeros
  <2> QED
    BY <1>7, <2>1, <2>3
<1>9. Loss(q, u) = NoLoss
  BY <1>5 DEF Loss, NoLoss
<1> QED
  BY <1>5, <1>6, <1>8, <1>9

LEMMA TakeTimeKeeps ==
  ASSUME LoadInv, NEW call \in {"configure", "reset"}, NEW n \in Nat, n < Half, TakeTime(call, n)
  PROVE  LoadInv'
<1>1. now \in Times
  BY DEF LoadInv, LoadTyped
<1>2. late' = [call |-> call, at |-> now, period |-> n] /\ UNCHANGED <<now, nest, prof, spent>>
  BY DEF TakeTime
<1>3. LoadTyped'
  BY <1>1, <1>2 DEF LoadInv, LoadTyped
<1>4. LateIsRecent'
  BY <1>1, <1>2, AtOnce DEF LateIsRecent
<1> QED
  BY <1>2, <1>3, <1>4 DEF LoadInv, Nested, GridIsSound, AllIsPaid, NoFault, ProfilerIsHealthy

LEMMA RebasedKeeps ==
  ASSUME LoadInv, ConfigureOrReset
  PROVE  LoadInv'
<1> DEFINE p == IF late.call = "configure" THEN ConfigureAt(prof, late.at, late.period) ELSE ResetAt(prof, late.at)
           n == IF late.call = "configure" THEN late.period ELSE prof.period
<1>1. /\ now \in Times /\ prof \in Profs /\ late.at \in Times /\ late.period \in Nat /\ late.period < Half
      /\ prof.period \in Nat /\ prof.period < Half
  BY DEF LoadInv, LoadTyped, NoFault, Profs
<1>2. /\ nest = <<>> /\ late.call # "none" /\ late' = NotLate /\ UNCHANGED <<now, nest>> /\ prof' = p
      /\ spent' = IF p = prof THEN spent ELSE [own |-> Plus(Zeros, "NONE", Ticks(late.at, now)), taken |-> NoLoss]
  BY DEF ConfigureOrReset, ThreadRuns, Rebased
<1>3. prof.owner = "NONE" /\ Reached(late.at, now)
  BY <1>2 DEF LoadInv, Nested, OwnerOf, LateIsRecent
<1>4. n \in Nat /\ n < Half
  BY <1>1
<1>5. p = IF n = 0 THEN prof ELSE Fresh(prof, late.at, n)
  <2>1. CASE late.call = "configure"
    BY <2>1 DEF ConfigureAt, Fresh
  <2>2. CASE late.call # "configure"
    BY <1>1, <2>2, ZenonT(30) DEF ResetAt, Fresh, ClearStats, Profs
  <2> QED
    BY <2>1, <2>2
<1> HIDE DEF p, n
<1>6. late' \in [call : {"none", "configure", "reset"}, at : Times, period : Nat] /\ late'.period < Half /\ late'.call = "none"
  <2>1. 0 \in Times /\ 0 < Half
    BY WrapIs DEF Times
  <2> QED
    BY <1>2, <2>1 DEF NotLate
<1>7. CASE p = prof
  <2>1. prof' = prof /\ spent' = spent
    BY <1>2, <1>7
  <2>2. LoadTyped'
    BY <1>2, <1>6, <2>1 DEF LoadInv, LoadTyped
  <2> QED
    BY <1>2, <1>6, <2>1, <2>2 DEF LoadInv, Nested, LateIsRecent, GridIsSound, AllIsPaid, NoFault, ProfilerIsHealthy
<1>8. CASE p # prof
  <2>1. n # 0 /\ prof' = Fresh(prof, late.at, n)
    BY <1>2, <1>5, <1>8
  <2>2. /\ Sound(prof', now) /\ prof'.stack = prof.stack /\ prof'.owner = prof.owner /\ prof'.leg = prof.leg
        /\ prof'.period = n /\ prof'.unbalanced = 0 /\ prof'.negative = 0 /\ prof'.tooDeep = 0
        /\ Credit(prof', now) = Plus(Zeros, "NONE", Ticks(late.at, now)) /\ Loss(prof', now) = NoLoss
    BY <1>1, <1>3, <1>4, <2>1, FreshKeeps
  <2>3. spent'.own = Plus(Zeros, "NONE", Ticks(late.at, now)) /\ spent'.taken = NoLoss
        /\ spent' \in [own : [LoadOwners -> Int], taken : [LegOwners -> Int]]
    <3>1. Plus(Zeros, "NONE", Ticks(late.at, now)) \in [LoadOwners -> Int]
      <4>1. Ticks(late.at, now) \in Nat /\ "NONE" \in LoadOwners
        BY <1>1, TicksTyped DEF LoadOwners
      <4>2. Zeros \in [LoadOwners -> Int] /\ Zeros["NONE"] + Ticks(late.at, now) \in Int
        BY <4>1 DEF Zeros
      <4> QED
        BY <4>2 DEF Plus
    <3>2. NoLoss \in [LegOwners -> Int]
      BY DEF NoLoss
    <3> QED
      BY <1>2, <1>8, <3>1, <3>2
  <2>4. LoadTyped'
    BY <1>2, <1>6, <2>2, <2>3 DEF LoadInv, LoadTyped, Sound
  <2> QED
    BY <1>2, <1>4, <1>6, <2>2, <2>3, <2>4
       DEF LoadInv, Nested, LateIsRecent, GridIsSound, AllIsPaid, NoFault, ProfilerIsHealthy
<1> QED
  BY <1>7, <1>8

LEMMA GetKeeps ==
  ASSUME LoadInv, LoadGet
  PROVE  LoadInv'
<1>1. /\ prof.ready /\ prof' = [prof EXCEPT !.acc = Zeros, !.accStolen = NoLoss, !.windows = 0]
      /\ spent' = [own |-> [o \in LoadOwners |-> spent.own[o] - prof.acc[o]],
                   taken |-> [l \in LegOwners |-> spent.taken[l] - prof.accStolen[l]]]
      /\ UNCHANGED <<now, nest, late>>
  BY DEF LoadGet, GetAndClear
<1>2. prof \in Profs /\ now \in Times /\ Sound(prof, now) /\ spent \in [own : [LoadOwners -> Int], taken : [LegOwners -> Int]]
  BY <1>1 DEF LoadInv, LoadTyped, GridIsSound
<1>3. Zeros \in [LoadOwners -> Nat] /\ NoLoss \in [LegOwners -> Nat]
  BY DEF Zeros, NoLoss
<1>4. prof' \in Profs
  BY <1>1, <1>2, <1>3 DEF Profs
<1>5. /\ prof'.acc = Zeros /\ prof'.accStolen = NoLoss /\ prof'.windows = 0
      /\ prof'.self = prof.self /\ prof'.stolen = prof.stolen /\ prof'.seg = prof.seg /\ prof'.end = prof.end
      /\ prof'.period = prof.period /\ prof'.owner = prof.owner /\ prof'.leg = prof.leg /\ prof'.stack = prof.stack
      /\ prof'.ready = prof.ready /\ prof'.rebase = prof.rebase
      /\ prof'.negative = prof.negative /\ prof'.unbalanced = prof.unbalanced /\ prof'.tooDeep = prof.tooDeep
  BY <1>1, <1>2 DEF Profs
<1>6. /\ \A o \in LoadOwners : prof.acc[o] \in Nat /\ prof.self[o] \in Nat
      /\ \A l \in LegOwners : prof.accStolen[l] \in Nat /\ prof.stolen[l] \in Nat
      /\ Ticks(prof.seg, now) \in Nat
  <2>1. Ticks(prof.seg, now) \in Nat
    BY <1>2, SoundIs, TicksTyped
  <2> QED
    BY <1>2, <2>1 DEF Profs
<1>7. spent' \in [own : [LoadOwners -> Int], taken : [LegOwners -> Int]]
  BY <1>1, <1>2, <1>6
<1>8. Sound(prof', now')
  BY <1>1, <1>2, <1>4, <1>5 DEF Sound, Whole
<1>9. ASSUME prof.rebase = 0 PROVE Credit(prof', now') = spent'.own /\ Loss(prof', now') = spent'.taken
  <2>1. Credit(prof, now) = spent.own /\ Loss(prof, now) = spent.taken
    BY <1>1, <1>9 DEF LoadInv, AllIsPaid
  <2>2. ASSUME NEW o \in LoadOwners
        PROVE  prof'.acc[o] + prof'.self[o] + (IF o = prof'.owner THEN Ticks(prof'.seg, now') ELSE 0)
             = spent.own[o] - prof.acc[o]
    <3>1. spent.own[o] = prof.acc[o] + prof.self[o] + (IF o = prof.owner THEN Ticks(prof.seg, now) ELSE 0)
      BY <2>1 DEF Credit
    <3>2. prof'.acc[o] = 0 /\ prof'.self[o] = prof.self[o] /\ prof'.owner = prof.owner /\ prof'.seg = prof.seg /\ now' = now
      BY <1>1, <1>5 DEF Zeros
    <3> QED
      BY <1>6, <3>1, <3>2
  <2>3. ASSUME NEW l \in LegOwners
        PROVE  prof'.accStolen[l] + prof'.stolen[l]
                 + (IF prof'.owner = "OTHER" /\ l = prof'.leg THEN Ticks(prof'.seg, now') ELSE 0)
             = spent.taken[l] - prof.accStolen[l]
    <3>1. spent.taken[l] = prof.accStolen[l] + prof.stolen[l]
                             + (IF prof.owner = "OTHER" /\ l = prof.leg THEN Ticks(prof.seg, now) ELSE 0)
      BY <2>1 DEF Loss
    <3>2. /\ prof'.accStolen[l] = 0 /\ prof'.stolen[l] = prof.stolen[l]
          /\ prof'.owner = prof.owner /\ prof'.leg = prof.leg /\ prof'.seg = prof.seg /\ now' = now
      BY <1>1, <1>5 DEF NoLoss
    <3> QED
      BY <1>6, <3>1, <3>2
  <2>4. Credit(prof', now') = spent'.own
    BY <1>1, <2>2 DEF Credit
  <2>5. Loss(prof', now') = spent'.taken
    BY <1>1, <2>3 DEF Loss
  <2> QED
    BY <2>4, <2>5
<1>10. LoadTyped'
  BY <1>1, <1>4, <1>7 DEF LoadInv, LoadTyped
<1> QED
  BY <1>1, <1>5, <1>8, <1>9, <1>10
     DEF LoadInv, Nested, LateIsRecent, GridIsSound, AllIsPaid, NoFault, ProfilerIsHealthy

LEMMA CountsKeeps ==
  ASSUME LoadInv, TimerCounts
  PROVE  LoadInv'
<1> DEFINE o == Innermost.owner
           n == Len(nest)
           steals == o = "OTHER" /\ LegBelow # "NONE"
<1>1. /\ now \in Times /\ prof \in Profs /\ nest \in Seq(Vectors) /\ n \in Nat /\ late.at \in Times
      /\ spent \in [own : [LoadOwners -> Int], taken : [LegOwners -> Int]] /\ prof.owner \in LoadOwners /\ prof.leg \in Legs
  <2>1. LoadTyped
    BY DEF LoadInv
  <2>2. now \in Times /\ prof \in Profs /\ nest \in Seq(Vectors) /\ n \in Nat
    BY <2>1 DEF LoadTyped
  <2>3. late.at \in Times /\ spent \in [own : [LoadOwners -> Int], taken : [LegOwners -> Int]]
    BY <2>1 DEF LoadTyped
  <2>4. prof.owner \in LoadOwners /\ prof.leg \in Legs
    BY <2>2 DEF Profs
  <2> QED
    BY <2>2, <2>3, <2>4
<1>2. now' = (now + 1) % Wrap /\ UNCHANGED <<nest, prof, late>>
  BY DEF TimerCounts
<1>3. spent' = [own |-> Plus(spent.own, o, 1), taken |-> IF steals THEN Plus(spent.taken, LegBelow, 1) ELSE spent.taken]
  BY DEF TimerCounts
<1>4. o = prof.owner /\ LegBelow = prof.leg
  <2>1. CASE nest = <<>>
    BY <2>1 DEF LoadInv, Nested, OwnerOf, Innermost, LegBelow
  <2>2. CASE nest # <<>>
    <3>1. n # 0 /\ Innermost = nest[n]
      BY <1>1, <2>2 DEF Innermost, Seqs!Last
    <3> QED
      BY <3>1 DEF LoadInv, Nested, OwnerOf, LegBelow
  <2> QED
    BY <2>1, <2>2
<1> HIDE DEF o, n
<1>5. now' \in Times
  BY <1>1, <1>2, TimesAdd, WrapIs DEF Times
<1>6. ASSUME NEW a \in Times, Ticks(a, now) + 1 < Half
      PROVE  Ticks(a, now') = Ticks(a, now) + 1 /\ Reached(a, now')
  <2>1. /\ Ticks(a, now) = IF now >= a THEN now - a ELSE now - a + Wrap
        /\ Ticks(a, now') = IF now' >= a THEN now' - a ELSE now' - a + Wrap
    BY <1>1, <1>5, TicksAre
  <2>2. now' = IF now + 1 < Wrap THEN now + 1 ELSE now + 1 - Wrap
    BY <1>1, <1>2, TimesAdd, WrapIs
  <2>3. Ticks(a, now') = Ticks(a, now) + 1
    BY <1>1, <1>6, <2>1, <2>2, WrapIs DEF Times
  <2> QED
    BY <1>6, <2>3, ReachedIs
<1>7. spent' \in [own : [LoadOwners -> Int], taken : [LegOwners -> Int]]
  <2>1. Plus(spent.own, o, 1) \in [LoadOwners -> Int]
    BY <1>1, <1>4 DEF Plus
  <2>2. steals => Plus(spent.taken, LegBelow, 1) \in [LegOwners -> Int]
    BY <1>1, <1>4 DEF Plus, Legs
  <2> QED
    BY <1>1, <1>3, <2>1, <2>2
<1>8. LoadTyped'
  BY <1>2, <1>5, <1>7 DEF LoadInv, LoadTyped
<1>9. LateIsRecent'
  <2>1. ASSUME late.call # "none" PROVE Reached(late.at, now')
    <3>1. Ticks(late.at, now) + 1 < Half
      BY <2>1 DEF TimerCounts, Half
    <3> QED
      BY <1>1, <1>6, <3>1
  <2> QED
    BY <1>2, <2>1 DEF LateIsRecent
<1>10. GridIsSound' /\ AllIsPaid'
  <2>1. CASE ~prof.ready
    BY <1>2, <2>1 DEF GridIsSound, AllIsPaid
  <2>2. CASE prof.ready
    <3>1. Sound(prof, now) /\ prof.seg \in Times /\ Ticks(prof.seg, now) \in Nat
      <4>1. Sound(prof, now)
        BY <2>2 DEF LoadInv, GridIsSound
      <4> QED
        BY <1>1, <4>1, SoundIs, TicksTyped
    <3>2. Ticks(prof.seg, now) + 1 < Half
      BY <2>2 DEF TimerCounts, Half
    <3>3. Ticks(prof.seg, now') = Ticks(prof.seg, now) + 1 /\ Reached(prof.seg, now')
      BY <1>6, <3>1, <3>2
    <3>4. Sound(prof, now')
      BY <3>1, <3>3 DEF Sound
    <3>5. ASSUME prof.rebase = 0 PROVE Credit(prof, now') = spent'.own /\ Loss(prof, now') = spent'.taken
      <4>1. Credit(prof, now) = spent.own /\ Loss(prof, now) = spent.taken
        BY <2>2, <3>5 DEF LoadInv, AllIsPaid
      <4>2. ASSUME NEW x \in LoadOwners
            PROVE  prof.acc[x] + prof.self[x] + (IF x = prof.owner THEN Ticks(prof.seg, now') ELSE 0)
                 = spent.own[x] + (IF x = prof.owner THEN 1 ELSE 0)
        <5>1. spent.own[x] = prof.acc[x] + prof.self[x] + (IF x = prof.owner THEN Ticks(prof.seg, now) ELSE 0)
          BY <4>1 DEF Credit
        <5>2. prof.acc[x] \in Nat /\ prof.self[x] \in Nat
          BY <1>1 DEF Profs
        <5> QED
          BY <3>1, <3>3, <5>1, <5>2
      <4>3. ASSUME NEW l \in LegOwners
            PROVE  prof.accStolen[l] + prof.stolen[l] + (IF prof.owner = "OTHER" /\ l = prof.leg THEN Ticks(prof.seg, now') ELSE 0)
                 = spent.taken[l] + (IF prof.owner = "OTHER" /\ l = prof.leg THEN 1 ELSE 0)
        <5>1. spent.taken[l] = prof.accStolen[l] + prof.stolen[l]
                                 + (IF prof.owner = "OTHER" /\ l = prof.leg THEN Ticks(prof.seg, now) ELSE 0)
          BY <4>1 DEF Loss
        <5>2. prof.accStolen[l] \in Nat /\ prof.stolen[l] \in Nat
          BY <1>1 DEF Profs
        <5> QED
          BY <3>1, <3>3, <5>1, <5>2
      <4>4. Credit(prof, now') = spent'.own
        <5>1. spent'.own = Plus(spent.own, prof.owner, 1)
          BY <1>3, <1>4
        <5>2. spent'.own = [x \in LoadOwners |-> spent.own[x] + (IF x = prof.owner THEN 1 ELSE 0)]
          BY <1>1, <5>1 DEF Plus
        <5> QED
          BY <4>2, <5>2 DEF Credit
      <4>5. Loss(prof, now') = spent'.taken
        <5>1. spent'.taken = IF prof.owner = "OTHER" /\ prof.leg # "NONE" THEN Plus(spent.taken, prof.leg, 1) ELSE spent.taken
          BY <1>3, <1>4
        <5>2. spent'.taken = [l \in LegOwners |-> spent.taken[l] + (IF prof.owner = "OTHER" /\ l = prof.leg THEN 1 ELSE 0)]
          BY <1>1, <5>1, SMTT(30) DEF Plus, Legs, LegOwners
        <5> QED
          BY <4>3, <5>2 DEF Loss
      <4> QED
        BY <4>4, <4>5
    <3> QED
      BY <1>2, <3>4, <3>5 DEF GridIsSound, AllIsPaid
  <2> QED
    BY <2>1, <2>2
<1> QED
  BY <1>2, <1>8, <1>9, <1>10 DEF LoadInv, Nested, NoFault, ProfilerIsHealthy

LEMMA LoadStepInv == LoadInv /\ [LoadNext]_loadVars => LoadInv'
<1> SUFFICES ASSUME LoadInv, [LoadNext]_loadVars PROVE LoadInv'
  OBVIOUS
<1>1. CASE UNCHANGED loadVars
  BY <1>1 DEF loadVars, LoadInv, LoadTyped, Nested, LateIsRecent, GridIsSound, AllIsPaid, NoFault, ProfilerIsHealthy
<1>2. CASE \E v \in Vectors : VectorStarts(v)
  BY <1>2, StartsKeeps
<1>3. CASE VectorEnds \/ ConfigureOrReset \/ LoadGet \/ TimerCounts
  BY <1>3, EndsKeeps, RebasedKeeps, GetKeeps, CountsKeeps
<1>4. CASE \E p \in Periods : TakeTime("configure", p)
  <2>1. \A p \in Periods : p \in Nat /\ p < Half
    BY LoadAssumption DEF Half
  <2> QED
    BY <1>4, <2>1, TakeTimeKeeps
<1>5. CASE TakeTime("reset", 0)
  BY <1>5, WrapIs, TakeTimeKeeps
<1> QED
  BY <1>1, <1>2, <1>3, <1>4, <1>5 DEF LoadNext

=============================================================================
