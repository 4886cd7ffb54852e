-------------------------------- MODULE Rates --------------------------------
(* The rates the drivers derive from their clocks: the period of the 1 ms   *)
(* tick (hal_timer), the divisors of UART, SPI and I2C, and the CAN FD bit  *)
(* times; and the lengths a CAN FD frame can have.  The tick also runs.     *)
EXTENDS Integers, Sequences
Sets == INSTANCE FiniteSetsExt

CONSTANTS TickHz,        \* DSPIC33AK_TICK_TIMER_HZ
          TickClocks,    \* the clocks the tick is asked to divide
          Prescalers,    \* prescaler_options, in their order
          PeriodMax,     \* the largest value of PR1
          MsWrap,        \* tick_ms counts modulo this
          MaxInterrupts, \* bound on the interrupts of the tick
          Divisions,     \* the clocks and rates asked of the UART, the SPI and the I2C master
          BrgMax,        \* DSPIC33AK_SPI_BRG_MAX
          BitRates,      \* the clocks, bit rates and sample points asked of CAN FD
          Lengths64      \* the payload lengths asked of CAN FD

ASSUME RatesAssumption ==
  /\ {TickHz, PeriodMax, MsWrap} \subseteq Nat \ {0} /\ TickClocks \subseteq Nat
  /\ Prescalers \in Seq(Nat \ {0}) /\ MaxInterrupts \in Nat /\ BrgMax \in Nat
  /\ Divisions \subseteq [clk : Nat, rate : Nat] /\ Lengths64 \subseteq 0 .. 64
  /\ BitRates \subseteq [clk : Nat \ {0}, nominal : Nat, data : Nat, pct : Nat]
  \* The quanta of a bit fit 16 bits, and rate and prescaler multiply within a word.
  /\ \A b \in BitRates, bps \in {"nominal", "data"} : b[bps] = 0 \/ b.clk \div b[bps] < 65536
  /\ \A b \in BitRates : b.nominal < 8388608 /\ b.data < 8388608

VARIABLES
  tick,     \* Timer1, and with it the clocks it has counted since it was started
  result,   \* what the last tick call returned
  query,    \* the last request, and what was set for it
  given

rateVars == <<tick, result, query, given>>

TickOff == [on |-> FALSE, clk |-> 0, counts |-> 0, pre |-> 1, ms |-> 0, cycles |-> 0, fired |-> 0]

RateInitState == tick = TickOff /\ result = "none" /\ query = [of |-> "none"] /\ given = [div |-> 0]

-----------------------------------------------------------------------------
(* The tick.                                                                *)

\* Mutant of Divides: a remainder is rounded away.
DividesRoughly(clk, pre) == clk >= pre * TickHz
Divides(clk, pre) == clk % (pre * TickHz) = 0 /\ clk > 0

\* calc_period_reg: the first prescaler that divides exactly and whose count fits.
ExactSteps(clk)   == {i \in DOMAIN Prescalers : Divides(clk, Prescalers[i])}
FittingSteps(clk) == {i \in ExactSteps(clk) : clk \div (Prescalers[i] * TickHz) - 1 <= PeriodMax}
PeriodResult(clk) == CASE FittingSteps(clk) # {} -> "OK"
                       [] FittingSteps(clk) = {} /\ ExactSteps(clk) # {} -> "OUT_OF_RANGE"
                       [] OTHER -> "INEXACT_PERIOD"

\* apply_clock_source: Timer1 counts the peripheral clock only.
Supported(source) == source = "INTERNAL"

\* nora_tick_timer_init: refused before Timer1 is touched.
TickInit(clk, source) ==
  LET verdict == IF clk = 0 THEN "INVALID_ARG"
                 ELSE IF PeriodResult(clk) # "OK" THEN PeriodResult(clk)
                 ELSE IF Supported(source) THEN "OK" ELSE "NOT_SUPPORTED"
  IN  /\ result' = verdict
      /\ tick' = IF verdict # "OK" THEN tick
                 ELSE LET pre == Prescalers[Sets!Min(FittingSteps(clk))]
                      IN  [tick EXCEPT !.on = TRUE, !.clk = clk, !.pre = pre, !.ms = 0, !.cycles = 0,
                                       !.counts = clk \div (pre * TickHz)]
      /\ query' = [of |-> "tick", clk |-> clk] /\ UNCHANGED given

TickDeinit ==
  /\ result' = IF tick.on THEN "OK" ELSE "NOT_INITIALIZED"
  /\ tick' = [TickOff EXCEPT !.fired = tick.fired]
  /\ UNCHANGED <<query, given>>

\* The timer has counted its period, and its handler runs.
TickFires ==
  /\ tick.on /\ tick.fired < MaxInterrupts
  /\ tick' = [tick EXCEPT !.ms = (@ + 1) % MsWrap, !.cycles = @ + tick.counts * tick.pre, !.fired = @ + 1]
  /\ UNCHANGED <<result, query, given>>

-----------------------------------------------------------------------------
(* Divisors.  A refusal is 0.                                               *)

\* Mutant of Divisor: the quotient is cut, not rounded.
DivisorCut(clk, baud) == clk \div baud
\* uart_calc_brg, whose result is one less: a divisor of 0 or 1 is refused.
Divisor(clk, baud) == (clk + baud \div 2) \div baud

UartDivides(d) ==
  /\ query' = [of |-> "uart", clk |-> d.clk, rate |-> d.rate]
  /\ given' = [div |-> IF d.clk = 0 \/ d.rate = 0 \/ Divisor(d.clk, d.rate) <= 1 THEN 0 ELSE Divisor(d.clk, d.rate)]
  /\ UNCHANGED <<tick, result>>

\* nora_spi_init: the quotient cut, at least 1, and at most what the register holds.
SpiDivisor(clk, rate) == Sets!Max({1, Sets!Min({clk \div (2 * rate), BrgMax + 1})})

SpiDivides(d) ==
  /\ query' = [of |-> "spi", clk |-> d.clk, rate |-> d.rate]
  /\ given' = [div |-> IF d.clk = 0 \/ d.rate = 0 THEN 0 ELSE SpiDivisor(d.clk, d.rate)]
  /\ UNCHANGED <<tick, result>>

\* nora_i2c_calc_brg, which is one less, never negative.
I2cDivisor(clk, rate) == IF rate = 0 THEN 1 ELSE Sets!Max({1, (clk + rate) \div (2 * rate)})

I2cDivides(d) ==
  /\ query' = [of |-> "i2c", clk |-> d.clk, rate |-> d.rate]
  /\ given' = [div |-> I2cDivisor(d.clk, d.rate)]
  /\ UNCHANGED <<tick, result>>

-----------------------------------------------------------------------------
(* CAN FD.                                                                  *)

NominalLimits == [tseg1 |-> 2 .. 256, tseg2 |-> 1 .. 128, sjw |-> 128]
DataLimits    == [tseg1 |-> 1 .. 32, tseg2 |-> 1 .. 16, sjw |-> 16]
NoPhase == [brp |-> 0, tseg1 |-> 0, tseg2 |-> 0, sjw |-> 0]

\* Mutant of PhaseOf: the sample point is cut to a whole quantum, not rounded.
PhaseOfCut(total, brp, pct, lim) ==
  LET t1 == (total * pct) \div 100 - 1
      t2 == total - 1 - t1
  IN  [brp |-> brp, tseg1 |-> t1, tseg2 |-> t2, sjw |-> Sets!Min({t2, lim.sjw})]
\* A bit of `total` quanta, split at the sample point.
PhaseOf(total, brp, pct, lim) ==
  LET t1 == (total * pct + 50) \div 100 - 1
      t2 == total - 1 - t1
  IN  [brp |-> brp, tseg1 |-> t1, tseg2 |-> t2, sjw |-> Sets!Min({t2, lim.sjw})]

\* solve_phase: the smallest prescaler whose bit divides exactly and splits within limits.
SolvePhase(clk, bps, pct, lim) ==
  LET Solves(brp) == /\ clk % (bps * brp) = 0 /\ clk \div (bps * brp) >= 4
                     /\ LET p == PhaseOf(clk \div (bps * brp), brp, pct, lim)
                        IN  p.tseg1 \in lim.tseg1 /\ p.tseg2 \in lim.tseg2
      solving == IF bps = 0 THEN {} ELSE {brp \in 1 .. 256 : Solves(brp)}
  IN  IF solving = {} THEN NoPhase
      ELSE PhaseOf(clk \div (bps * Sets!Min(solving)), Sets!Min(solving), pct, lim)

\* nora_canfd_calc_bit_timing: both phases or neither, and the delay of the second sample.
CanTimes(b) ==
  LET nominal == SolvePhase(b.clk, b.nominal, b.pct, NominalLimits)
      data    == SolvePhase(b.clk, b.data, b.pct, DataLimits)
      refused == b.pct \notin 1 .. 99 \/ nominal = NoPhase \/ data = NoPhase
  IN  /\ query' = [of |-> "can", clk |-> b.clk, nominal |-> b.nominal, data |-> b.data, pct |-> b.pct]
      /\ given' = IF refused THEN [nominal |-> NoPhase, data |-> NoPhase, offset |-> 0]
                  ELSE [nominal |-> nominal, data |-> data, offset |-> Sets!Min({data.brp * data.tseg1, 127})]
      /\ UNCHANGED <<tick, result>>

FdLengths == <<0, 1, 2, 3, 4, 5, 6, 7, 8, 12, 16, 20, 24, 32, 48, 64>>
\* nora_canfd_dlc_to_len, nora_canfd_len_to_dlc
DlcToLen(dlc) == FdLengths[(dlc % 16) + 1]
\* Mutant of LenToDlc: the largest code that the length fills.
LenToDlcBelow(len) == Sets!Max({dlc \in 0 .. 15 : DlcToLen(dlc) <= len})
LenToDlc(len) == CASE len <= 8 -> len [] len \in 9 .. 12 -> 9 [] len \in 13 .. 16 -> 10 [] len \in 17 .. 20 -> 11
                   [] len \in 21 .. 24 -> 12 [] len \in 25 .. 32 -> 13 [] len \in 33 .. 48 -> 14 [] OTHER -> 15

\* nora_canfd_transmit at one node, nora_canfd_receive at another: the words of the
\* object are written from the payload, padded with zeros, and read by the length.
SentLength(len) == DlcToLen(LenToDlc(len))
FrameGoes(len, fd) ==
  /\ query' = [of |-> "frame", len |-> len, fd |-> fd]
  /\ given' = [len |-> IF ~fd /\ len > 8 THEN -1 ELSE SentLength(len)]
  /\ UNCHANGED <<tick, result>>

TickNext ==
  \/ \E clk \in TickClocks, source \in {"INTERNAL", "FRC"} : TickInit(clk, source)
  \/ TickDeinit \/ TickFires

\* The calculations keep no state, so a behaviour makes one.
AskNext ==
  /\ query.of = "none"
  /\ \/ \E d \in Divisions : UartDivides(d) \/ SpiDivides(d) \/ I2cDivides(d)
     \/ \E b \in BitRates : CanTimes(b)
     \/ \E len \in Lengths64, fd \in BOOLEAN : FrameGoes(len, fd)

RateSpec == RateInitState /\ [][TickNext \/ AskNext]_rateVars
-----------------------------------------------------------------------------
\* A running tick counts milliseconds of its clock, whatever was refused since.
TickIsExact ==
  tick.on => \E wraps \in 0 .. tick.fired : (tick.ms + wraps * MsWrap) * tick.clk = tick.cycles * TickHz

\* A refused tick is told which wall was hit: some prescaler would make the period but for
\* the size of the count, or none at all.
Makes(pre, clk) == \E n \in 1 .. clk : n * pre * TickHz = clk
RefusalsAreTrue ==
  query.of = "tick" =>
    LET making == {pre \in {Prescalers[i] : i \in DOMAIN Prescalers} : Makes(pre, query.clk)}
        fitting == {pre \in making : query.clk <= (PeriodMax + 1) * pre * TickHz}
    IN  /\ result = "INEXACT_PERIOD" => making = {}
        /\ result = "OUT_OF_RANGE" => making # {} /\ fitting = {}
        /\ result = "INVALID_ARG" => query.clk = 0
        /\ tick.on /\ result = "OK" => fitting # {}

\* Of all divisors, the UART's and the I2C master's are the nearest to the rate asked for,
\* and the UART's is refused only when that is none above 1.
Distance(clk, rate, div) == IF clk >= rate * div THEN clk - rate * div ELSE rate * div - clk
DivisorIsNearest ==
  /\ query.of = "i2c" /\ query.rate > 0 =>
       \A div \in {given.div - 1, given.div + 1} \ {0} :
         Distance(query.clk, 2 * query.rate, given.div) <= Distance(query.clk, 2 * query.rate, div)
  /\ query.of = "uart" /\ query.clk > 0 /\ query.rate > 0 =>
    IF given.div = 0 THEN Distance(query.clk, query.rate, 1) <= Distance(query.clk, query.rate, 2)
    ELSE given.div > 1 /\ \A div \in {given.div - 1, given.div + 1} :
           Distance(query.clk, query.rate, given.div) <= Distance(query.clk, query.rate, div)

\* The SPI runs at the rate asked for or above, unless its divisor is at its end; and no
\* larger divisor would still do so.
SpiIsNotSlower ==
  query.of = "spi" /\ given.div # 0 =>
    /\ given.div = BrgMax + 1 \/ query.clk < 2 * query.rate * (given.div + 1)
    /\ given.div = 1 \/ query.clk >= 2 * query.rate * given.div

\* A bit is exactly as long as asked for, within the limits, sampled at the nearest
\* quantum; and it is refused only when no setting within the limits is such.
PhaseFits(p, clk, bps, pct, lim) ==
  /\ clk = bps * p.brp * (1 + p.tseg1 + p.tseg2)
  /\ p.brp \in 1 .. 256 /\ p.tseg1 \in lim.tseg1 /\ p.tseg2 \in lim.tseg2
  /\ p.sjw \in 1 .. lim.sjw /\ p.sjw <= p.tseg2
  /\ 100 * (1 + p.tseg1) - pct * (1 + p.tseg1 + p.tseg2) \in -49 .. 50
Solvable(clk, bps, pct, lim) ==
  \E brp \in 1 .. 256, t2 \in lim.tseg2 :
    LET quanta == clk \div (bps * brp)
    IN  quanta >= 4 /\ PhaseFits([brp |-> brp, tseg1 |-> quanta - 1 - t2, tseg2 |-> t2, sjw |-> 1], clk, bps, pct, lim)
BitTimesAreExact ==
  query.of = "can" /\ query.pct \in 1 .. 99 =>
    \/ /\ PhaseFits(given.nominal, query.clk, query.nominal, query.pct, NominalLimits)
       /\ PhaseFits(given.data, query.clk, query.data, query.pct, DataLimits)
       /\ given.offset <= 127
    \/ /\ given.nominal = NoPhase /\ given.data = NoPhase
       /\ \/ query.nominal = 0 \/ ~Solvable(query.clk, query.nominal, query.pct, NominalLimits)
          \/ query.data = 0 \/ ~Solvable(query.clk, query.data, query.pct, DataLimits)

\* A frame arrives whole, at the smallest length that a frame can have.
FrameIsWhole ==
  query.of = "frame" /\ given.len >= 0 =>
    given.len >= query.len /\ \A dlc \in 0 .. 15 : DlcToLen(dlc) >= query.len => given.len <= DlcToLen(dlc)
=============================================================================
