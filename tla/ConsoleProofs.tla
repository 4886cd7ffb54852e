---------------------------- MODULE ConsoleProofs ----------------------------
(***************************************************************************)
(* Proofs about Console for every line length, poll size, idle time, width  *)
(* of the tick and ring: what a plain file leaves behind on the command     *)
(* line, and what the demo does around an update.                           *)
(***************************************************************************)
EXTENDS Console, SequenceTheorems, TLAPS

(* The bursts of bytes: a number is given out when the first one arrives.   *)
BurstOK ==
    /\ burst <= arrived
    /\ spoiled \subseteq 0 .. burst
    /\ \A i \in 1 .. Len(ring) : ring[i].burst \in 0 .. burst
    /\ ring # <<>> \/ raw => RingSize > 0

(* A discarded file: nothing of a line is kept meanwhile, and once all of   *)
(* it was read the line has been silent for as long as the tick shows.      *)
FileOK ==
    /\ raw => pc \in {"main", "poll", "clear"} /\ line = <<>>
    /\ pc = "clear" => raw
    /\ raw /\ ring = <<>> => silent = Idle \/ Elapsed <= silent
    /\ received \/ count = 0

(* What is still to come, or to be read, is not of a spoiled burst.         *)
Fresh == silent < Idle => burst \notin spoiled

FreshOK ==
    /\ ~raw \/ pc = "clear" => Fresh
    /\ ~raw => \A i \in 1 .. Len(ring) : ring[i].burst \notin spoiled
    /\ \A i \in 1 .. Len(line) : line[i].burst \notin spoiled

(* The demo runs when it is started; an update finds it stopped, and leaves *)
(* it so while an image waits.                                              *)
DemoOK ==
    /\ streaming = started
    /\ paused => ~started
    /\ pc \in {"receive", "commit"} \/ verified => ~started
    /\ pc = "commit" => ~verified
    /\ paused /\ ~verified /\ pc \notin {"receive", "commit"} => warned

IInv == TypeOK /\ BurstOK /\ FileOK /\ FreshOK /\ DemoOK
-----------------------------------------------------------------------------
LEMMA Facts ==
    /\ Capacity \in Nat \ {0} /\ MaxPerPoll \in Nat \ {0} /\ Idle \in Nat \ {0}
    /\ Wrap \in Nat /\ Wrap > Idle /\ RingSize \in Nat /\ MaxBytes \in Nat
BY ConsoleAssumption

(* The difference of two readings of the tick. *)
LEMMA ElapsedIs ==
    ASSUME NEW a \in 0 .. Wrap - 1, NEW b \in 0 .. Wrap - 1
    PROVE  (a + Wrap - b) % Wrap = IF b <= a THEN a - b ELSE a + Wrap - b
<1>1. Wrap \in Nat \ {0}
  BY Facts
<1>2. CASE b <= a
  <2> DEFINE d == a - b
  <2>1. d \in Nat /\ d < Wrap /\ a + Wrap - b = Wrap + d
    BY <1>1, <1>2
  <2> HIDE DEF d
  <2>2. (Wrap + d) % Wrap = d
    BY <1>1, <2>1, Z3
  <2> QED
    BY <1>2, <2>1, <2>2 DEF d
<1>3. CASE ~(b <= a)
  <2> DEFINE d == a + Wrap - b
  <2>1. d \in Nat /\ d < Wrap
    BY <1>1, <1>3
  <2> HIDE DEF d
  <2>2. d % Wrap = d
    BY <1>1, <2>1, Z3
  <2> QED
    BY <1>3, <2>2 DEF d
<1> QED
  BY <1>2, <1>3

LEMMA ElapsedTick ==
    ASSUME NEW a \in 0 .. Wrap - 1, NEW b \in 0 .. Wrap - 1
    PROVE  /\ (a + 1) % Wrap \in 0 .. Wrap - 1
           /\ (a + Wrap - b) % Wrap \in Nat
           /\ (((a + 1) % Wrap) + Wrap - b) % Wrap <= ((a + Wrap - b) % Wrap) + 1
<1>1. Wrap \in Nat \ {0}
  BY Facts
<1> DEFINE c == (a + 1) % Wrap
<1>2. c = IF a + 1 = Wrap THEN 0 ELSE a + 1
  <2>1. CASE a + 1 = Wrap
    <3>1. Wrap % Wrap = 0
      BY <1>1, Z3
    <3> QED
      BY <2>1, <3>1
  <2>2. CASE a + 1 # Wrap
    <3> DEFINE d == a + 1
    <3>1. d \in Nat /\ d < Wrap
      BY <1>1, <2>2
    <3> HIDE DEF d
    <3>2. d % Wrap = d
      BY <1>1, <3>1, Z3
    <3> QED
      BY <2>2, <3>2 DEF d
  <2> QED
    BY <2>1, <2>2
<1>3. c \in 0 .. Wrap - 1
  BY <1>1, <1>2
<1> HIDE DEF c
<1>4. /\ (c + Wrap - b) % Wrap = IF b <= c THEN c - b ELSE c + Wrap - b
      /\ (a + Wrap - b) % Wrap = IF b <= a THEN a - b ELSE a + Wrap - b
  BY <1>3, ElapsedIs
<1>5. (c + Wrap - b) % Wrap <= ((a + Wrap - b) % Wrap) + 1 /\ (a + Wrap - b) % Wrap \in Nat
  BY <1>1, <1>2, <1>3, <1>4
<1> QED
  BY <1>3, <1>5 DEF c

(* A byte read. *)
LEMMA ReadFacts ==
    ASSUME NEW S, NEW s \in Seq(S), s # <<>>
    PROVE  /\ Head(s) = s[1] /\ Head(s) \in S /\ 1 \in 1 .. Len(s)
           /\ Tail(s) \in Seq(S)
           /\ \A i \in 1 .. Len(Tail(s)) : i + 1 \in 1 .. Len(s) /\ Tail(s)[i] = s[i + 1]
OBVIOUS

LEMMA ReadStep ==
    ASSUME IInv, Reads
    PROVE  /\ Head(ring) \in Byte /\ ring' \in Seq(Byte)
           /\ Head(ring).burst \in 0 .. burst /\ Head(ring).burst \in Bursts
           /\ \A i \in 1 .. Len(ring') : ring'[i].burst \in 0 .. burst
           /\ ~raw => /\ Head(ring).burst \notin spoiled
                      /\ \A i \in 1 .. Len(ring') : ring'[i].burst \notin spoiled
           /\ RingSize > 0 /\ pc = "poll" /\ count' \in 0 .. MaxPerPoll /\ received' = TRUE
           /\ UNCHANGED <<now, silent, burst, arrived>>
<1>1. ring \in Seq(Byte) /\ ring # <<>> /\ ring' = Tail(ring) /\ pc = "poll"
      /\ count \in 0 .. MaxPerPoll /\ count < MaxPerPoll /\ count' = count + 1
      /\ received' = TRUE /\ UNCHANGED <<now, silent, burst, arrived>>
  BY DEF Reads, IInv, TypeOK
<1>2. /\ Head(ring) = ring[1] /\ Head(ring) \in Byte /\ 1 \in 1 .. Len(ring)
      /\ Tail(ring) \in Seq(Byte)
      /\ \A i \in 1 .. Len(Tail(ring)) : i + 1 \in 1 .. Len(ring) /\ Tail(ring)[i] = ring[i + 1]
  BY <1>1, ReadFacts
<1>3. \A i \in 1 .. Len(ring) : ring[i].burst \in 0 .. burst
  BY DEF IInv, BurstOK
<1>4. ~raw => \A i \in 1 .. Len(ring) : ring[i].burst \notin spoiled
  BY DEF IInv, FreshOK
<1>5. Head(ring).burst \in Bursts
  BY <1>2 DEF Byte
<1>6. RingSize > 0
  BY <1>1 DEF IInv, BurstOK
<1>7. count' \in 0 .. MaxPerPoll
  BY <1>1, Facts
<1> QED
  BY <1>1, <1>2, <1>3, <1>4, <1>5, <1>6, <1>7

LEMMA Init_IInv == Init => IInv
<1> SUFFICES ASSUME Init PROVE IInv
  OBVIOUS
<1>1. /\ ring = <<>> /\ now = 0 /\ silent = Idle /\ burst = 0 /\ arrived = 0 /\ pc = "main"
      /\ count = 0 /\ line = <<>> /\ rawLast = 0 /\ spoiled = {}
      /\ received = FALSE /\ lastCr = FALSE /\ quiet = FALSE /\ raw = FALSE
      /\ verified = FALSE /\ paused = FALSE /\ warned = FALSE
      /\ started \in BOOLEAN /\ streaming = started
  BY DEF Init
<1> HIDE DEF Init
<1>2. ring \in Seq(Byte) /\ line \in Seq(Byte) /\ Len(line) = 0 /\ Len(ring) = 0
  BY <1>1, EmptySeq
<1>3. /\ now \in 0 .. Wrap - 1 /\ silent \in 0 .. Idle /\ burst \in Bursts
      /\ arrived \in 0 .. MaxBytes /\ count \in 0 .. MaxPerPoll /\ Len(line) <= Capacity
      /\ rawLast \in 0 .. Wrap - 1 /\ spoiled \subseteq Bursts
  BY <1>1, <1>2, Facts DEF Bursts
<1>4. TypeOK
  BY <1>1, <1>2, <1>3 DEF TypeOK
<1>5. BurstOK /\ FreshOK
  BY <1>1, <1>2 DEF BurstOK, FreshOK, Fresh
<1>6. FileOK /\ DemoOK
  BY <1>1 DEF FileOK, DemoOK
<1> QED
  BY <1>4, <1>5, <1>6 DEF IInv

(* An end of line, whatever the command: the line may stay until it is done. *)
LEMMA EndOfLineStep ==
    ASSUME IInv, NEW command, EndOfLine(command),
           line' = line \/ line' = <<>>,
           pc' \in {"poll", "receive", "commit"},
           UNCHANGED file, quiet' \in BOOLEAN, verified' \in BOOLEAN,
           {started', paused', streaming', warned'} \subseteq BOOLEAN
    PROVE  TypeOK' /\ BurstOK' /\ FileOK' /\ FreshOK'
<1>1. Reads /\ ~raw /\ lastCr' \in BOOLEAN
  BY DEF EndOfLine
<1>2. TypeOK'
  <2>1. line' \in Seq(Byte) /\ Len(line') <= Capacity
    <3>1. line \in Seq(Byte) /\ Len(line) <= Capacity
      BY DEF IInv, TypeOK
    <3>2. <<>> \in Seq(Byte) /\ Len(<<>>) <= Capacity
      BY EmptySeq, Facts
    <3> QED
      BY <3>1, <3>2
  <2>2. /\ started' \in BOOLEAN /\ paused' \in BOOLEAN /\ streaming' \in BOOLEAN
        /\ warned' \in BOOLEAN
    OBVIOUS
  <2>3. /\ UNCHANGED <<now, silent, burst, arrived, raw, rawLast, spoiled>>
        /\ ring' \in Seq(Byte) /\ count' \in 0 .. MaxPerPoll /\ received' \in BOOLEAN
    <3>1. UNCHANGED <<raw, rawLast, spoiled>>
      BY DEF file
    <3>2. /\ UNCHANGED <<now, silent, burst, arrived>> /\ ring' \in Seq(Byte)
          /\ count' \in 0 .. MaxPerPoll /\ received' = TRUE
      BY <1>1, ReadStep
    <3> QED
      BY <3>1, <3>2
  <2> QED
    BY <1>1, <2>1, <2>2, <2>3 DEF IInv, TypeOK
<1>3. BurstOK'
  BY <1>1, ReadStep DEF IInv, BurstOK, file
<1>4. FileOK'
  BY <1>1, ReadStep DEF FileOK, file
<1>5. FreshOK'
  <2>1. \A i \in 1 .. Len(line') : line'[i].burst \notin spoiled
    BY DEF IInv, FreshOK
  <2> QED
    BY <1>1, <2>1, ReadStep DEF IInv, FreshOK, Fresh, file
<1> QED
  BY <1>2, <1>3, <1>4, <1>5

(* The demo's steps keep what the update relies on. *)
LEMMA PauseStep ==
    ASSUME IInv, NEW stops \in BOOLEAN, Pause(stops)
    PROVE  /\ {started', paused', streaming', warned'} \subseteq BOOLEAN
           /\ streaming' = started' /\ ~started'
BY DEF Pause, demo, IInv, TypeOK, DemoOK

LEMMA RestartStep ==
    ASSUME IInv, Restart
    PROVE  /\ {started', paused', streaming', warned'} \subseteq BOOLEAN
           /\ streaming' = started' /\ (paused' => ~started' /\ warned')
BY DEF Restart, demo, IInv, TypeOK, DemoOK

(* Commands. *)
LEMMA CommandsStep ==
    ASSUME IInv, Commands
    PROVE  IInv'
<1>1. /\ {started, paused, streaming, warned} \subseteq BOOLEAN
      /\ quiet \in BOOLEAN /\ verified \in BOOLEAN
  BY DEF IInv, TypeOK
<1>2. ASSUME NEW command, EndOfLine(command), line' = <<>>, quiet' \in BOOLEAN,
             UNCHANGED <<pc, file, verified, demo>>
      PROVE  IInv'
  <2>1. pc = "poll" /\ UNCHANGED <<started, paused, streaming, warned>>
    BY <1>2, ReadStep DEF EndOfLine, demo
  <2>2. TypeOK' /\ BurstOK' /\ FileOK' /\ FreshOK'
    BY <1>1, <1>2, <2>1, EndOfLineStep
  <2>3. DemoOK'
    BY <1>2, <2>1 DEF IInv, DemoOK
  <2> QED
    BY <2>2, <2>3 DEF IInv
<1>3. CASE Ignore
  BY <1>1, <1>2, <1>3 DEF Ignore
<1>4. CASE QuietOn \/ QuietOff
  BY <1>2, <1>4 DEF QuietOn, QuietOff, SetQuiet
<1>5. CASE ReceiveRefused
  BY <1>2, <1>5 DEF ReceiveRefused
<1>6. CASE CommitRefused
  BY <1>1, <1>2, <1>6 DEF CommitRefused
<1>7. CASE ReceiveBegins
  <2>1. /\ {started', paused', streaming', warned'} \subseteq BOOLEAN
        /\ streaming' = started' /\ ~started'
    BY <1>7, PauseStep DEF ReceiveBegins
  <2>2. quiet' = TRUE /\ verified' = FALSE /\ pc' = "receive" /\ UNCHANGED <<line, file>>
        /\ EndOfLine("*fua5")
    BY <1>7 DEF ReceiveBegins
  <2>3. TypeOK' /\ BurstOK' /\ FileOK' /\ FreshOK'
    BY <2>1, <2>2, EndOfLineStep
  <2>4. DemoOK'
    BY <2>1, <2>2 DEF DemoOK
  <2> QED
    BY <2>3, <2>4 DEF IInv
<1>8. CASE CommitBegins
  <2>1. /\ verified /\ verified' = FALSE /\ pc' = "commit"
        /\ UNCHANGED <<line, file, quiet, started, paused, streaming, warned>>
        /\ EndOfLine("*fca5")
    BY <1>8 DEF CommitBegins, demo
  <2>2. TypeOK' /\ BurstOK' /\ FileOK' /\ FreshOK'
    BY <1>1, <2>1, EndOfLineStep
  <2>3. DemoOK'
    BY <2>1 DEF IInv, DemoOK
  <2> QED
    BY <2>2, <2>3 DEF IInv
<1> QED
  BY <1>3, <1>4, <1>5, <1>6, <1>7, <1>8 DEF Commands

(* A byte arrives.                                                          *)
LEMMA ArriveStep ==
    ASSUME IInv, Arrive
    PROVE  IInv'
<1>1. /\ ring \in Seq(Byte) /\ Len(ring) \in Nat /\ arrived \in 0 .. MaxBytes
      /\ burst \in 0 .. MaxBytes /\ silent \in 0 .. Idle
      /\ MaxBytes \in Nat /\ Idle \in Nat \ {0} /\ RingSize \in Nat
  BY Facts, LenProperties DEF IInv, TypeOK, Bursts
<1>2. /\ arrived < MaxBytes /\ arrived' = arrived + 1 /\ silent' = 0
      /\ burst' = IF silent = Idle THEN burst + 1 ELSE burst
      /\ UNCHANGED <<now, pc, count, received, line, lastCr, raw, rawLast, spoiled, quiet,
                     verified, started, paused, streaming, warned>>
  BY DEF Arrive, poll, edit, file, demo
<1>3. /\ burst <= arrived /\ spoiled \subseteq 0 .. burst
      /\ \A i \in 1 .. Len(ring) : ring[i].burst \in 0 .. burst
      /\ (ring # <<>> \/ raw => RingSize > 0)
  BY DEF IInv, BurstOK
<1>4. burst' \in 0 .. MaxBytes /\ burst <= burst' /\ burst' <= arrived' /\ burst' \in Nat
      /\ arrived' \in 0 .. MaxBytes
  BY <1>1, <1>2, <1>3
<1>5. Fresh => burst' \notin spoiled
  <2>1. CASE silent = Idle
    BY <1>1, <1>2, <1>3, <2>1
  <2>2. CASE silent # Idle
    BY <1>1, <1>2, <2>2 DEF Fresh
  <2> QED
    BY <2>1, <2>2
<1>6. ASSUME NEW k \in Kinds, Len(ring) < RingSize,
             ring' = Append(ring, [is |-> k, burst |-> burst'])
      PROVE  /\ ring' \in Seq(Byte) /\ ring' # <<>> /\ RingSize > 0
             /\ \A i \in 1 .. Len(ring') :
                   (i \in 1 .. Len(ring) /\ ring'[i] = ring[i]) \/ ring'[i].burst = burst'
  <2> DEFINE b == [is |-> k, burst |-> burst']
  <2>1. b \in Byte /\ b.burst = burst'
    BY <1>4 DEF Byte, Bursts
  <2> HIDE DEF b
  <2>2. /\ ring' \in Seq(Byte) /\ ring' # <<>> /\ Len(ring') = Len(ring) + 1
        /\ \A i \in 1 .. Len(ring) : ring'[i] = ring[i]
        /\ ring'[Len(ring) + 1] = b
    BY <1>1, <1>6, <2>1, AppendProperties DEF b
  <2>3. \A i \in 1 .. Len(ring') : i \in 1 .. Len(ring) \/ i = Len(ring) + 1
    BY <1>1, <2>2
  <2>4. RingSize > 0
    BY <1>1, <1>6
  <2> QED
    BY <2>1, <2>2, <2>3, <2>4
<1>7. \/ ring' = ring /\ ~(Len(ring) < RingSize)
      \/ /\ ring' \in Seq(Byte) /\ ring' # <<>> /\ RingSize > 0
         /\ \A i \in 1 .. Len(ring') :
               (i \in 1 .. Len(ring) /\ ring'[i] = ring[i]) \/ ring'[i].burst = burst'
  BY <1>6 DEF Arrive
<1>8. ring = <<>> /\ raw => ring' # <<>>
  <2>1. ring = <<>> => Len(ring) = 0
    BY <1>1
  <2> QED
    BY <1>1, <1>3, <1>7, <2>1
<1>9. TypeOK'
  <2>1. ring' \in Seq(Byte) /\ silent' \in 0 .. Idle /\ burst' \in Bursts
    BY <1>1, <1>2, <1>4, <1>7 DEF Bursts
  <2> QED
    BY <1>2, <1>4, <2>1 DEF IInv, TypeOK
<1>10. BurstOK'
  <2>1. \A i \in 1 .. Len(ring') : ring'[i].burst \in 0 .. burst'
    BY <1>1, <1>3, <1>4, <1>7
  <2>2. spoiled \subseteq 0 .. burst'
    BY <1>1, <1>3, <1>4
  <2>3. ring' # <<>> \/ raw => RingSize > 0
    BY <1>3, <1>7
  <2> QED
    BY <1>2, <1>4, <2>1, <2>2, <2>3 DEF BurstOK
<1>11. FileOK'
  <2>1. raw => ring' # <<>>
    BY <1>7, <1>8
  <2> QED
    BY <1>2, <2>1 DEF IInv, FileOK
<1>12. FreshOK'
  <2>1. ~raw => \A i \in 1 .. Len(ring') : ring'[i].burst \notin spoiled
    BY <1>5, <1>7 DEF IInv, FreshOK
  <2> QED
    BY <1>2, <1>5, <2>1 DEF IInv, FreshOK, Fresh
<1>13. DemoOK'
  BY <1>2 DEF IInv, DemoOK
<1> QED
  BY <1>9, <1>10, <1>11, <1>12, <1>13 DEF IInv

LEMMA TickStep ==
    ASSUME IInv, Tick
    PROVE  IInv'
<1>1. /\ now \in 0 .. Wrap - 1 /\ rawLast \in 0 .. Wrap - 1 /\ silent \in 0 .. Idle
      /\ Idle \in Nat \ {0}
  BY Facts DEF IInv, TypeOK
<1>2. /\ now' = (now + 1) % Wrap
      /\ silent' = IF silent = Idle THEN Idle ELSE silent + 1
      /\ UNCHANGED <<ring, burst, arrived, pc, count, received, line, lastCr, raw, rawLast,
                     spoiled, quiet, verified, started, paused, streaming, warned>>
  BY DEF Tick, poll, edit, file, demo
<1>3. now' \in 0 .. Wrap - 1 /\ Elapsed \in Nat /\ Elapsed' <= Elapsed + 1 /\ Elapsed' \in Nat
  <2>1. Elapsed = (now + Wrap - rawLast) % Wrap
        /\ Elapsed' = (((now + 1) % Wrap) + Wrap - rawLast) % Wrap
    BY <1>2 DEF Elapsed
  <2>2. now' \in 0 .. Wrap - 1 /\ Elapsed \in Nat /\ Elapsed' <= Elapsed + 1
    BY <1>1, <1>2, <2>1, ElapsedTick
  <2>3. Elapsed' \in Nat
    BY <1>1, <1>2, <2>1, <2>2, ElapsedTick
  <2> QED
    BY <2>2, <2>3
<1>4. silent' \in 0 .. Idle
  BY <1>1, <1>2
<1>5. TypeOK'
  BY <1>2, <1>3, <1>4 DEF IInv, TypeOK
<1>6. BurstOK' /\ DemoOK'
  BY <1>2 DEF IInv, BurstOK, DemoOK
<1>7. silent' = Idle \/ silent' = silent + 1
  BY <1>2
<1>8. FileOK'
  <2>1. raw /\ ring = <<>> => silent' = Idle \/ Elapsed' <= silent'
    <3>1. raw /\ ring = <<>> => silent = Idle \/ Elapsed <= silent
      BY DEF IInv, FileOK
    <3> HIDE DEF Elapsed
    <3> QED
      BY <1>1, <1>2, <1>3, <3>1
  <2> QED
    BY <1>2, <2>1 DEF IInv, FileOK
<1>9. FreshOK'
  <2>1. Fresh => Fresh'
    BY <1>1, <1>2 DEF Fresh
  <2> QED
    BY <1>2, <2>1 DEF IInv, FreshOK
<1> QED
  BY <1>5, <1>6, <1>8, <1>9 DEF IInv

(* A byte thrown away as part of a plain file, or the one that gives the    *)
(* file away: the line is empty and the tick is noted.                      *)
LEMMA DiscardStep ==
    ASSUME IInv, Reads, spoiled' = spoiled \cup {Head(ring).burst},
           raw' = TRUE, rawLast' = now, line' = <<>>, lastCr' \in BOOLEAN,
           UNCHANGED <<pc, quiet, verified, demo>>
    PROVE  IInv'
<1>1. /\ now \in 0 .. Wrap - 1 /\ burst \in Nat /\ silent \in 0 .. Idle
  BY DEF IInv, TypeOK, Bursts
<1>2. /\ Head(ring).burst \in 0 .. burst /\ Head(ring).burst \in Bursts
      /\ ring' \in Seq(Byte) /\ \A i \in 1 .. Len(ring') : ring'[i].burst \in 0 .. burst
      /\ RingSize > 0 /\ pc = "poll" /\ count' \in 0 .. MaxPerPoll /\ received' = TRUE
      /\ UNCHANGED <<now, silent, burst, arrived>>
  BY ReadStep
<1>3. UNCHANGED <<started, paused, streaming, warned>>
  BY DEF demo
<1>4. TypeOK'
  <2>1. line' \in Seq(Byte) /\ Len(line') <= Capacity
    BY EmptySeq, Facts
  <2>2. spoiled' \subseteq Bursts
    BY <1>2 DEF IInv, TypeOK
  <2> QED
    BY <1>1, <1>2, <1>3, <2>1, <2>2 DEF IInv, TypeOK
<1>5. BurstOK'
  BY <1>2 DEF IInv, BurstOK
<1>6. FileOK'
  <2>1. Elapsed' = 0
    <3>1. Elapsed' = (now + Wrap - now) % Wrap
      BY <1>2 DEF Elapsed
    <3> QED
      BY <1>1, <3>1, ElapsedIs
  <2>2. Elapsed' <= silent'
    BY <1>1, <1>2, <2>1
  <2> QED
    BY <1>2, <2>2 DEF IInv, FileOK
<1>7. FreshOK'
  BY <1>2 DEF FreshOK
<1>8. DemoOK'
  BY <1>3 DEF IInv, DemoOK
<1> QED
  BY <1>4, <1>5, <1>6, <1>7, <1>8 DEF IInv

(* A byte that edits the line. *)
LEMMA EditStep ==
    ASSUME IInv, Reads, ~raw, line' \in Seq(Byte), Len(line') <= Capacity,
           \A i \in 1 .. Len(line') : line'[i].burst \notin spoiled,
           lastCr' \in BOOLEAN, UNCHANGED <<pc, file, quiet, verified, demo>>
    PROVE  IInv'
<1>1. UNCHANGED <<raw, rawLast, spoiled, started, paused, streaming, warned>>
  BY DEF file, demo
<1>2. /\ ring' \in Seq(Byte) /\ \A i \in 1 .. Len(ring') : ring'[i].burst \in 0 .. burst
      /\ \A i \in 1 .. Len(ring') : ring'[i].burst \notin spoiled
      /\ RingSize > 0 /\ pc = "poll" /\ count' \in 0 .. MaxPerPoll /\ received' = TRUE
      /\ UNCHANGED <<now, silent, burst, arrived>>
  BY ReadStep
<1>3. TypeOK'
  BY <1>1, <1>2 DEF IInv, TypeOK
<1>4. BurstOK'
  BY <1>1, <1>2 DEF IInv, BurstOK
<1>5. FileOK'
  BY <1>1, <1>2 DEF IInv, FileOK
<1>6. FreshOK'
  BY <1>1, <1>2 DEF IInv, FreshOK, Fresh
<1>7. DemoOK'
  BY <1>1 DEF IInv, DemoOK
<1> QED
  BY <1>3, <1>4, <1>5, <1>6, <1>7 DEF IInv

LEMMA FeedStep ==
    ASSUME IInv, Feed
    PROVE  IInv'
<1> DEFINE b == Head(ring)
<1>1. /\ Reads /\ ~raw /\ lastCr' = FALSE /\ UNCHANGED <<pc, quiet, verified, demo>>
  BY DEF Feed
<1>2. b \in Byte /\ b.burst \notin spoiled
  BY <1>1, ReadStep
<1>3. /\ line \in Seq(Byte) /\ Len(line) \in Nat /\ Len(line) <= Capacity
      /\ \A i \in 1 .. Len(line) : line[i].burst \notin spoiled /\ line[i] \in Byte
      /\ Capacity \in Nat
  BY Facts, LenProperties, ElementOfSeq DEF IInv, TypeOK, FreshOK
<1>4. \/ BeginDiscard(b)
      \/ line' = line /\ UNCHANGED file
      \/ line # <<>> /\ line' = SubSeq(line, 1, Len(line) - 1) /\ UNCHANGED file
      \/ ~LineIsFull /\ line' = Append(line, b) /\ UNCHANGED file
  BY DEF Feed
<1>5. CASE BeginDiscard(b)
  BY <1>1, <1>5, DiscardStep DEF BeginDiscard
<1>6. CASE line' = line /\ UNCHANGED file
  BY <1>1, <1>3, <1>6, EditStep
<1>7. CASE line # <<>> /\ line' = SubSeq(line, 1, Len(line) - 1) /\ UNCHANGED file
  <2> DEFINE n == Len(line) - 1
             s == SubSeq(line, 1, n)
  <2>1. n \in Nat /\ n < Len(line) /\ \A i \in 1 .. n : line[i] \in Byte
    BY <1>3, <1>7, EmptySeq
  <2>2. /\ s \in Seq(Byte) /\ Len(s) = n /\ \A i \in 1 .. n : s[i] = line[i]
    <3> HIDE DEF n
    <3>1. /\ s \in Seq(Byte) /\ Len(s) = IF 1 <= n THEN n - 1 + 1 ELSE 0
          /\ \A i \in 1 .. n - 1 + 1 : s[i] = line[1 + i - 1]
      BY <2>1, SubSeqProperties
    <3> HIDE DEF s
    <3>2. n - 1 + 1 = n /\ \A i \in 1 .. n : 1 + i - 1 = i
      BY <2>1
    <3> QED
      BY <2>1, <3>1, <3>2
  <2>3. line' = s
    BY <1>7
  <2> HIDE DEF n, s
  <2>4. \A i \in 1 .. Len(line') : line'[i].burst \notin spoiled
    BY <1>3, <2>1, <2>2, <2>3
  <2>5. line' \in Seq(Byte) /\ Len(line') <= Capacity
    BY <1>3, <2>1, <2>2, <2>3
  <2> QED
    BY <1>1, <1>7, <2>4, <2>5, EditStep
<1>8. CASE ~LineIsFull /\ line' = Append(line, b) /\ UNCHANGED file
  <2> HIDE DEF b
  <2>1. /\ line' \in Seq(Byte) /\ Len(line') = Len(line) + 1
        /\ \A i \in 1 .. Len(line) : line'[i] = line[i]
        /\ line'[Len(line) + 1] = b
    BY <1>2, <1>3, <1>8, AppendProperties
  <2>2. Len(line') <= Capacity
    BY <1>3, <1>8, <2>1 DEF LineIsFull
  <2>3. \A i \in 1 .. Len(line') : i \in 1 .. Len(line) \/ i = Len(line) + 1
    BY <1>3, <2>1
  <2>4. \A i \in 1 .. Len(line') : line'[i].burst \notin spoiled
    BY <1>2, <1>3, <2>1, <2>3
  <2> QED
    BY <1>1, <1>8, <2>1, <2>2, <2>4, EditStep
<1> QED
  BY <1>4, <1>5, <1>6, <1>7, <1>8

(* The other steps of the loop. *)
LEMMA ReceiveTakesStep ==
    ASSUME IInv, ReceiveTakes
    PROVE  IInv'
<1>1. /\ ring \in Seq(Byte) /\ ring # <<>> /\ ring' = Tail(ring) /\ pc = "receive"
      /\ UNCHANGED <<now, silent, burst, arrived, pc, count, received, line, lastCr, raw,
                     rawLast, spoiled, quiet, verified, started, paused, streaming, warned>>
  BY DEF ReceiveTakes, IInv, TypeOK, poll, edit, file, demo
<1>2. /\ Tail(ring) \in Seq(Byte)
      /\ \A i \in 1 .. Len(Tail(ring)) : i + 1 \in 1 .. Len(ring) /\ Tail(ring)[i] = ring[i + 1]
  BY <1>1, ReadFacts
<1>3. TypeOK'
  BY <1>1, <1>2 DEF IInv, TypeOK
<1>4. BurstOK'
  BY <1>1, <1>2 DEF IInv, BurstOK
<1>5. FileOK' /\ ~raw
  BY <1>1 DEF IInv, FileOK
<1>6. FreshOK'
  BY <1>1, <1>2, <1>5 DEF IInv, FreshOK, Fresh
<1>7. DemoOK'
  BY <1>1 DEF IInv, DemoOK
<1> QED
  BY <1>3, <1>4, <1>5, <1>6, <1>7 DEF IInv

(* An update that ends, and leaves the demo stopped or restarts it. *)
LEMMA UpdateEnds ==
    ASSUME IInv, ReceiveEnds \/ CommitFails
    PROVE  IInv'
<1>1. /\ pc \in {"receive", "commit"} /\ pc' = "poll" /\ line' = <<>> /\ verified' \in BOOLEAN
      /\ UNCHANGED <<ring, now, silent, burst, arrived, count, received, lastCr, raw, rawLast,
                     spoiled, quiet>>
  BY DEF ReceiveEnds, CommitFails, IInv, TypeOK, uart, poll, file
<1>2. \/ verified' /\ pc = "receive" /\ UNCHANGED <<started, paused, streaming, warned>>
      \/ ~verified' /\ Restart
  BY DEF ReceiveEnds, CommitFails, IInv, DemoOK, demo
<1>3. /\ started' \in BOOLEAN /\ paused' \in BOOLEAN /\ streaming' \in BOOLEAN
      /\ warned' \in BOOLEAN
  BY <1>2, RestartStep DEF IInv, TypeOK
<1>4. DemoOK'
  <2>1. CASE verified' /\ pc = "receive" /\ UNCHANGED <<started, paused, streaming, warned>>
    BY <1>1, <2>1 DEF IInv, DemoOK
  <2>2. CASE ~verified' /\ Restart
    BY <1>1, <2>2, RestartStep DEF DemoOK
  <2> QED
    BY <1>2, <2>1, <2>2
<1>5. TypeOK'
  <2>1. line' \in Seq(Byte) /\ Len(line') <= Capacity
    BY <1>1, EmptySeq, Facts
  <2> QED
    BY <1>1, <1>3, <2>1 DEF IInv, TypeOK
<1>6. BurstOK'
  BY <1>1 DEF IInv, BurstOK
<1>7. FileOK' /\ ~raw
  BY <1>1 DEF IInv, FileOK
<1>8. FreshOK'
  BY <1>1, <1>7 DEF IInv, FreshOK, Fresh
<1> QED
  BY <1>4, <1>5, <1>6, <1>7, <1>8 DEF IInv

LEMMA ResetStep ==
    ASSUME IInv, CommitResets
    PROVE  IInv'
<1>1. /\ pc = "commit" /\ ring' = <<>> /\ now' = 0 /\ pc' = "main" /\ count' = 0
      /\ received' = FALSE /\ line' = <<>> /\ lastCr' = FALSE /\ quiet' = FALSE
      /\ raw' = FALSE /\ rawLast' = 0 /\ started' \in BOOLEAN /\ streaming' = started'
      /\ paused' = FALSE /\ warned' = FALSE
      /\ UNCHANGED <<silent, burst, arrived, spoiled, verified>>
  BY DEF CommitResets
<1>2. ~verified /\ ~raw
  BY <1>1 DEF IInv, DemoOK, FileOK
<1>3. ring' \in Seq(Byte) /\ line' \in Seq(Byte) /\ Len(line') = 0 /\ Len(ring') = 0
  BY <1>1, EmptySeq
<1>4. TypeOK'
  <2>1. /\ now' \in 0 .. Wrap - 1 /\ count' \in 0 .. MaxPerPoll /\ Len(line') <= Capacity
        /\ rawLast' \in 0 .. Wrap - 1
    BY <1>1, <1>3, Facts
  <2> QED
    BY <1>1, <1>3, <2>1 DEF IInv, TypeOK
<1>5. BurstOK'
  BY <1>1, <1>3 DEF IInv, BurstOK
<1>6. FileOK'
  BY <1>1 DEF FileOK
<1>7. FreshOK'
  BY <1>1, <1>2, <1>3 DEF IInv, FreshOK, Fresh
<1>8. DemoOK'
  BY <1>1, <1>2 DEF DemoOK
<1> QED
  BY <1>4, <1>5, <1>6, <1>7, <1>8 DEF IInv

(* The poll begins and ends: what has been silent for Idle is over. *)
LEMMA PollStep ==
    ASSUME IInv, Poll \/ PollEnds
    PROVE  IInv'
<1>1. UNCHANGED <<ring, now, silent, burst, arrived, line, lastCr, raw, rawLast, spoiled, quiet,
                  verified, started, paused, streaming, warned>>
  BY DEF Poll, PollEnds, uart, edit, file, demo
<1>2. CASE Poll
  <2>1. /\ pc = "main" /\ pc' = "poll" /\ count' = 0 /\ received' = FALSE
    BY <1>2 DEF Poll
  <2>2. count' \in 0 .. MaxPerPoll
    BY <2>1, Facts
  <2>3. TypeOK'
    BY <1>1, <2>1, <2>2 DEF IInv, TypeOK
  <2>4. BurstOK' /\ DemoOK'
    BY <1>1, <2>1 DEF IInv, BurstOK, DemoOK
  <2>5. FileOK'
    BY <1>1, <2>1 DEF IInv, FileOK, Elapsed
  <2>6. FreshOK'
    BY <1>1, <2>1 DEF IInv, FreshOK, Fresh
  <2> QED
    BY <2>3, <2>4, <2>5, <2>6 DEF IInv
<1>3. CASE PollEnds
  <2>1. /\ pc = "poll" /\ (count = MaxPerPoll \/ ring = <<>>) /\ UNCHANGED <<count, received>>
        /\ pc' = IF FileEnded THEN "clear" ELSE "main"
    BY <1>3 DEF PollEnds, poll
  <2>2. /\ pc = "poll" /\ (count = MaxPerPoll \/ ring = <<>>) /\ UNCHANGED <<count, received>>
    BY <1>3 DEF PollEnds, poll
  <2>3. FileEnded => raw /\ silent = Idle
    <3> SUFFICES ASSUME FileEnded PROVE raw /\ silent = Idle
      OBVIOUS
    <3>1. raw /\ ~received /\ Elapsed >= Idle
      BY DEF FileEnded
    <3>2. count = 0
      BY <3>1 DEF IInv, FileOK
    <3>3. ring = <<>>
      BY <2>2, <3>2, Facts
    <3>4. silent = Idle \/ Elapsed <= silent
      BY <3>1, <3>3 DEF IInv, FileOK
    <3>5. silent \in 0 .. Idle /\ Idle \in Nat /\ Elapsed \in Nat
      <4>1. now \in 0 .. Wrap - 1 /\ rawLast \in 0 .. Wrap - 1 /\ silent \in 0 .. Idle
        BY DEF IInv, TypeOK
      <4> QED
        BY <4>1, Facts, ElapsedTick DEF Elapsed
    <3> HIDE DEF Elapsed
    <3> QED
      BY <3>1, <3>4, <3>5
  <2>4. pc' \in {"main", "clear"} /\ (pc' = "clear" => raw /\ silent = Idle)
    BY <2>1, <2>3
  <2>5. TypeOK'
    BY <1>1, <2>2, <2>4 DEF IInv, TypeOK
  <2>6. BurstOK' /\ DemoOK'
    BY <1>1, <2>2, <2>4 DEF IInv, BurstOK, DemoOK
  <2>7. FileOK'
    BY <1>1, <2>2, <2>4 DEF IInv, FileOK, Elapsed
  <2>8. FreshOK'
    <3>1. pc' = "clear" => Fresh'
      <4>1. pc' = "clear" => silent' = Idle
        BY <1>1, <2>4
      <4> QED
        BY <4>1, Facts DEF Fresh
    <3> QED
      BY <1>1, <3>1 DEF IInv, FreshOK, Fresh
  <2> QED
    BY <2>5, <2>6, <2>7, <2>8 DEF IInv
<1> QED
  BY <1>2, <1>3

LEMMA DiscardEndsStep ==
    ASSUME IInv, DiscardEnds
    PROVE  IInv'
<1>1. /\ pc = "clear" /\ ring' = <<>> /\ raw' = FALSE /\ lastCr' = FALSE /\ pc' = "main"
      /\ UNCHANGED <<now, silent, burst, arrived, count, received, line, rawLast, spoiled,
                     quiet, verified, started, paused, streaming, warned>>
  BY DEF DiscardEnds, poll, demo
<1>2. raw /\ Fresh
  BY <1>1 DEF IInv, FileOK, FreshOK
<1>3. ring' \in Seq(Byte) /\ Len(ring') = 0
  BY <1>1, EmptySeq
<1>4. TypeOK'
  BY <1>1, <1>3 DEF IInv, TypeOK
<1>5. BurstOK'
  BY <1>1, <1>3 DEF IInv, BurstOK
<1>6. FileOK'
  BY <1>1 DEF IInv, FileOK
<1>7. FreshOK'
  BY <1>1, <1>2, <1>3 DEF IInv, FreshOK, Fresh
<1>8. DemoOK'
  BY <1>1 DEF IInv, DemoOK
<1> QED
  BY <1>4, <1>5, <1>6, <1>7, <1>8 DEF IInv

LEMMA Step_IInv == IInv /\ [Next]_vars => IInv'
<1> SUFFICES ASSUME IInv, [Next]_vars PROVE IInv'
  OBVIOUS
<1>1. CASE Discard
  <2>1. raw /\ line = <<>> /\ lastCr \in BOOLEAN
    BY <1>1 DEF Discard, IInv, FileOK, TypeOK
  <2> QED
    BY <1>1, <2>1, DiscardStep DEF Discard, edit
<1>2. CASE SkipLf
  <2>1. line \in Seq(Byte) /\ Len(line) <= Capacity
        /\ \A i \in 1 .. Len(line) : line[i].burst \notin spoiled
    BY DEF IInv, TypeOK, FreshOK
  <2> QED
    BY <1>2, <2>1, EditStep DEF SkipLf
<1>3. CASE UNCHANGED vars
  <2>1. UNCHANGED <<ring, now, silent, burst, arrived, pc, count, received, line, lastCr, raw,
                    rawLast, spoiled, quiet, verified, started, paused, streaming, warned>>
    BY <1>3 DEF vars, uart, poll, edit, file, demo
  <2>2. TypeOK'
    BY <2>1 DEF IInv, TypeOK
  <2>3. BurstOK' /\ FileOK' /\ FreshOK' /\ DemoOK'
    BY <2>1 DEF IInv, BurstOK, FileOK, FreshOK, Fresh, DemoOK, Elapsed
  <2> QED
    BY <2>2, <2>3 DEF IInv
<1> QED
  BY <1>1, <1>2, <1>3, ArriveStep, TickStep, CommandsStep, FeedStep, ReceiveTakesStep,
     UpdateEnds, ResetStep, PollStep, DiscardEndsStep DEF Next, Loop

(* A plain file sent to the console by mistake never ends up in a command:   *)
(* once one of its bytes was discarded, no later byte of the same burst is   *)
(* on the line (feed_normal_byte, fw_command_poll), for every length of a    *)
(* line, of a poll and of the silence that ends a file, across a wrap of the *)
(* tick.                                                                     *)
THEOREM FilesAreNotTyped == Spec => []LineIsTyped
<1>1. IInv => LineIsTyped
  BY DEF IInv, FreshOK, LineIsTyped
<1> QED
  BY Init_IInv, Step_IInv, <1>1, PTL DEF Spec

(* The audio demo stands still from the moment an update begins until it is *)
(* over, and in the commit too (receive_firmware, commit_firmware).          *)
THEOREM DemoIsStill == Spec => []FlashIsUndisturbed
<1>1. IInv => FlashIsUndisturbed
  BY DEF IInv, DemoOK, FlashIsUndisturbed
<1> QED
  BY Init_IInv, Step_IInv, <1>1, PTL DEF Spec

(* An update that leaves no image to commit leaves the demo running or the  *)
(* console has warned that it is not (restart_tdm_after_failed_attempt).     *)
THEOREM DemoIsBack == Spec => []DemoComesBack
<1>1. IInv => DemoComesBack
  BY DEF IInv, DemoOK, DemoComesBack
<1> QED
  BY Init_IInv, Step_IInv, <1>1, PTL DEF Spec
=============================================================================
