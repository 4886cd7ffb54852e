---------------------------- MODULE StreamsProofs ----------------------------
(* What Streams promises, for any FIFO depth, lengths, legs, domains and    *)
(* channels.  Each driver has an inductive invariant, found in a part of    *)
(* its own below; in all of them the difficulty is that a call, a handler   *)
(* and the hardware each do a little at a time, so that what is true        *)
(* between calls has to be said of every point inside them too.  The last   *)
(* part puts the drivers together again.                                    *)
EXTENDS Streams, Integers, SequenceTheorems, FiniteSetTheorems, WellFoundedInduction, TLAPS

(* UART transmit.  The byte last submitted is the one the transfer's count  *)
(* stands at, and the interrupt is enabled only while a transfer is active. *)

TxCurrent ==
  /\ tbuf = Len(length)
  /\ tbuf > 0 => tlen = length[tbuf]
  /\ busy => tbuf > 0 /\ tbuf \notin aborted /\ tbuf \notin complete
  /\ ~busy /\ tbuf > 0 => tbuf \in aborted \/ tcount = tlen

TxArmed ==
  /\ isr = "push" => txie
  /\ txie => busy /\ pc \notin {"clear", "enable", "abortclear", "abortend"}
  /\ pc \in {"clear", "enable"} => busy

\* The submissions s up to where the transfer stands.
Whole(s) == /\ \A i \in 1 .. Len(s) - 1 : Follows(s[i], s[i + 1])
            /\ s # <<>> => s[1][2] = 1
Ended(a) == a[1] < tbuf /\ (a[2] = length[a[1]] \/ a[1] \in aborted)
UpTo(s) == IF tcount > 0 THEN s # <<>> /\ s[Len(s)] = <<tbuf, tcount>>
                         ELSE s # <<>> => Ended(s[Len(s)])

TxInv == TypeOK /\ TxCurrent /\ TxArmed /\ Whole(Submissions) /\ UpTo(Submissions) /\ CompleteMeansSubmitted

-----------------------------------------------------------------------------
\* A byte that moves from the FIFO to the line stays where it is in the submissions.
LEMMA ShiftedSame ==
  ASSUME NEW S, NEW l \in Seq(S), NEW f \in Seq(S), f # <<>>
  PROVE  /\ Append(l, Head(f)) \o Tail(f) = l \o f
         /\ Append(l, Head(f)) \in Seq(S) /\ Tail(f) \in Seq(S) /\ Len(Tail(f)) = Len(f) - 1
<1> DEFINE h == Head(f)
           t == Tail(f)
<1>1. h \in S /\ t \in Seq(S) /\ Len(t) = Len(f) - 1 /\ Len(f) \in Nat \ {0} /\ h = f[1]
      /\ \A i \in 1 .. Len(f) - 1 : t[i] = f[i + 1]
  OBVIOUS
<1> HIDE DEF h, t
<1>2. <<h>> \in Seq(S) /\ Len(<<h>>) = 1 /\ <<h>>[1] = h
  BY <1>1
<1> DEFINE u == <<h>> \o t
<1>3. /\ u \in Seq(S) /\ Len(u) = Len(<<h>>) + Len(t)
      /\ \A i \in 1 .. Len(<<h>>) + Len(t) : u[i] = IF i <= Len(<<h>>) THEN <<h>>[i] ELSE t[i - Len(<<h>>)]
  BY <1>1, <1>2, ConcatProperties
<1> HIDE DEF u
<1>4. Len(u) = Len(f) /\ \A i \in 1 .. Len(f) : u[i] = f[i]
  BY <1>1, <1>2, <1>3
<1>5. u = f
  BY <1>3, <1>4, SeqEqual
<1>6. Append(l, h) = l \o <<h>> /\ Append(l, h) \in Seq(S)
  BY <1>1, AppendIsConcat, AppendProperties
<1>7. (l \o <<h>>) \o t = l \o (<<h>> \o t)
  BY <1>1, <1>2, ConcatAssociative
<1> QED
  BY <1>1, <1>5, <1>6, <1>7 DEF h, t, u

\* One that enters the FIFO is the last of them.
LEMMA PushedLast ==
  ASSUME NEW S, NEW l \in Seq(S), NEW f \in Seq(S), NEW b \in S
  PROVE  /\ l \o Append(f, b) = Append(l \o f, b)
         /\ Append(f, b) \in Seq(S) /\ Len(Append(f, b)) = Len(f) + 1
<1>1. Append(f, b) = f \o <<b>> /\ Append(f, b) \in Seq(S) /\ Len(Append(f, b)) = Len(f) + 1
  BY AppendIsConcat, AppendProperties
<1>2. <<b>> \in Seq(S)
  OBVIOUS
<1>3. (l \o f) \o <<b>> = l \o (f \o <<b>>)
  BY <1>2, ConcatAssociative
<1>4. l \o f \in Seq(S)
  BY ConcatProperties
<1>5. Append(l \o f, b) = (l \o f) \o <<b>>
  BY <1>4, AppendIsConcat
<1> QED
  BY <1>1, <1>3, <1>5

LEMMA SubmissionsType ==
  ASSUME TypeOK
  PROVE  /\ Len(length) \in Nat /\ Transfers \subseteq Nat
         /\ Submissions \in Seq(Transfers \X Nat) /\ Len(Submissions) \in Nat
         /\ \A i \in 1 .. Len(Submissions) : Submissions[i][1] \in Transfers /\ Submissions[i][2] \in Nat
         /\ Submissions = <<>> <=> Len(Submissions) = 0
<1>1. Len(length) \in Nat
  BY DEF TypeOK
<1>2. line \in Seq(Transfers \X Nat) /\ fifo \in Seq(Transfers \X Nat)
  BY DEF TypeOK
<1>3. Submissions \in Seq(Transfers \X Nat)
  BY <1>2, ConcatProperties DEF Submissions
<1>4. \A i \in 1 .. Len(Submissions) : Submissions[i] \in Transfers \X Nat
  BY <1>3, ElementOfSeq
<1>5. Len(Submissions) \in Nat /\ (Submissions = <<>> <=> Len(Submissions) = 0)
  BY <1>3, EmptySeq
<1> QED
  BY <1>1, <1>3, <1>4, <1>5 DEF Transfers

LEMMA TxInitInv == Init => TxInv
<1> SUFFICES ASSUME Init PROVE TxInv
  OBVIOUS
<1>1. length \in Seq(Lengths) /\ Len(length) = 0 /\ 0 <= MaxTransfers /\ 0 <= FifoDepth
  BY UartTxAssumption DEF Init
<1>2. fifo \in Seq(Transfers \X Nat) /\ line \in Seq(Transfers \X Nat) /\ Len(fifo) = 0
  BY DEF Init
<1>3. TypeOK
  <2>1. tbuf \in 0 .. Len(length) /\ tlen \in Lengths \cup {0} /\ tcount \in 0 .. tlen
    BY <1>1 DEF Init
  <2>2. {txif, txie, busy} \subseteq BOOLEAN /\ complete \subseteq Transfers /\ aborted \subseteq Transfers
    BY DEF Init
  <2>3. isr \in {"off", "push"} /\ pc \in {"idle", "clear", "enable", "raise", "abortclear", "abortend"}
    BY DEF Init
  <2> QED
    BY <1>1, <1>2, <2>1, <2>2, <2>3 DEF TypeOK
<1>4. Submissions = <<>> /\ Len(Submissions) = 0
  BY DEF Init, Submissions
<1>5. TxCurrent /\ TxArmed /\ Whole(Submissions) /\ UpTo(Submissions) /\ CompleteMeansSubmitted
  BY <1>1, <1>4 DEF Init, TxCurrent, TxArmed, Whole, UpTo, CompleteMeansSubmitted
<1> QED
  BY <1>3, <1>5 DEF TxInv

\* Steps on the interrupt alone.
LEMMA TxLinesKeep ==
  ASSUME TxInv, UNCHANGED <<transfer, history>>, Submissions' = Submissions,
         fifo' \in Seq(Transfers \X Nat), line' \in Seq(Transfers \X Nat), Len(fifo') <= FifoDepth,
         txif' \in BOOLEAN, txie' \in BOOLEAN, isr' \in {"off", "push"},
         pc' \in {"idle", "clear", "enable", "raise", "abortclear", "abortend"},
         TxArmed'
  PROVE  TxInv'
<1>1. Transfers' = Transfers /\ TypeOK'
  BY DEF TxInv, TypeOK, Transfers, transfer, history
<1>2. TxCurrent'
  BY DEF TxInv, TxCurrent, transfer, history
<1>3. Whole(Submissions)' /\ UpTo(Submissions)' /\ CompleteMeansSubmitted'
  BY DEF TxInv, Whole, Follows, UpTo, Ended, CompleteMeansSubmitted, transfer, history
<1> QED
  BY <1>1, <1>2, <1>3 DEF TxInv

LEMMA TxStepsKeep ==
  ASSUME TxInv, Shift \/ ClearFlag \/ EnableIrq \/ RaiseFlag \/ TxAbort \/ AbortClear \/ Enter \/ Pause
  PROVE  TxInv'
<1> USE DEF TxArmed
<1>t. /\ fifo \in Seq(Transfers \X Nat) /\ line \in Seq(Transfers \X Nat) /\ Len(fifo) <= FifoDepth
      /\ txif \in BOOLEAN /\ txie \in BOOLEAN /\ isr \in {"off", "push"} /\ TxArmed
      /\ pc \in {"idle", "clear", "enable", "raise", "abortclear", "abortend"}
  BY DEF TxInv, TypeOK
<1>1. CASE Shift
  <2>1. /\ line' = Append(line, Head(fifo)) /\ fifo' = Tail(fifo) /\ fifo # <<>> /\ txif' = TRUE
        /\ UNCHANGED <<txie, isr, transfer, pc, history>>
    BY <1>1 DEF Shift
  <2>2. Len(fifo) \in Nat /\ FifoDepth \in Nat
    BY <1>t, UartTxAssumption
  <2> DEFINE S == Transfers \X Nat
  <2>3. line \in Seq(S) /\ fifo \in Seq(S) /\ fifo # <<>>
    BY <1>t, <2>1
  <2>4. Append(line, Head(fifo)) \o Tail(fifo) = line \o fifo /\ Append(line, Head(fifo)) \in Seq(S)
        /\ Tail(fifo) \in Seq(S) /\ Len(Tail(fifo)) = Len(fifo) - 1
    <3> HIDE DEF S
    <3> QED
      BY <2>3, ShiftedSame
  <2>5. Len(fifo') <= FifoDepth
    BY <1>t, <2>1, <2>2, <2>4
  <2>6. Submissions' = Submissions
    BY <2>1, <2>4 DEF Submissions
  <2>7. TxArmed'
    BY <1>t, <2>1 DEF transfer
  <2> QED
    BY <1>t, <2>1, <2>4, <2>5, <2>6, <2>7, TxLinesKeep
<1>2. ASSUME UNCHANGED <<fifo, line, transfer, history>>, txif' \in BOOLEAN, txie' \in BOOLEAN,
             isr' \in {"off", "push"}, TxArmed',
             pc' \in {"idle", "clear", "enable", "raise", "abortclear", "abortend"}
      PROVE  TxInv'
  <2>1. Submissions' = Submissions
    BY <1>2 DEF Submissions
  <2> QED
    BY <1>2, <1>t, <2>1, TxLinesKeep
<1>3. CASE ClearFlag
  BY <1>2, <1>3, <1>t DEF ClearFlag, At, hardware, transfer
<1>4. CASE EnableIrq
  BY <1>2, <1>4, <1>t DEF EnableIrq, At, hardware, transfer
<1>5. CASE RaiseFlag
  BY <1>2, <1>5, <1>t DEF RaiseFlag, At, hardware, transfer
<1>6. CASE TxAbort
  BY <1>2, <1>6, <1>t DEF TxAbort, At, hardware, transfer
<1>7. CASE AbortClear
  BY <1>2, <1>7, <1>t DEF AbortClear, At, hardware, transfer
<1>8. CASE Enter
  BY <1>2, <1>8, <1>t DEF Enter, hardware, transfer
<1>9. CASE Pause
  BY <1>2, <1>9, <1>t DEF Pause, hardware, transfer
<1> QED
  BY <1>1, <1>3, <1>4, <1>5, <1>6, <1>7, <1>8, <1>9

\* A byte goes into the FIFO: it follows the last one.
LEMMA PushKeeps == ASSUME TxInv, Push PROVE TxInv'
<1> DEFINE b == <<tbuf, tcount + 1>>
           s == Submissions
<1>1. /\ isr = "push" /\ busy /\ tcount < tlen /\ Len(fifo) < FifoDepth
      /\ fifo' = Append(fifo, b) /\ tcount' = tcount + 1
      /\ UNCHANGED <<line, txif, txie, isr, tbuf, tlen, busy, pc, history>>
  BY DEF Push
<1>2. TypeOK /\ TxCurrent
  BY DEF TxInv
<1>3. Len(length) \in Nat /\ tbuf \in Transfers /\ tcount \in Nat /\ tlen \in Nat /\ b \in Transfers \X Nat
  BY <1>1, <1>2, UartTxAssumption DEF TypeOK, TxCurrent, Transfers
<1>4. /\ fifo \in Seq(Transfers \X Nat) /\ line \in Seq(Transfers \X Nat) /\ Len(fifo) \in Nat /\ FifoDepth \in Nat
  BY <1>2, UartTxAssumption DEF TypeOK
<1>5. /\ Submissions' = Append(s, b) /\ fifo' \in Seq(Transfers \X Nat) /\ Len(fifo') <= FifoDepth
  <2> DEFINE S == Transfers \X Nat
  <2>1. line \in Seq(S) /\ fifo \in Seq(S) /\ b \in S
    BY <1>3, <1>4
  <2>2. line \o Append(fifo, b) = Append(line \o fifo, b) /\ Append(fifo, b) \in Seq(S)
        /\ Len(Append(fifo, b)) = Len(fifo) + 1
    <3> HIDE DEF S, b
    <3> QED
      BY <2>1, PushedLast
  <2>3. Len(fifo') <= FifoDepth
    BY <1>1, <1>4, <2>2
  <2> QED
    BY <1>1, <2>2, <2>3 DEF Submissions
<1>6. Transfers' = Transfers
  BY <1>1 DEF Transfers, history
<1>7. TypeOK'
  BY <1>1, <1>2, <1>3, <1>5, <1>6 DEF TypeOK, history
<1>8. PICK n \in Nat : n = Len(s)
  BY <1>2, SubmissionsType
<1>9. s \in Seq(Transfers \X Nat) /\ (s = <<>> <=> n = 0)
      /\ \A i \in 1 .. n : s[i][1] \in Transfers /\ s[i][2] \in Nat
  BY <1>2, <1>8, SubmissionsType
<1>10. Whole(s) /\ UpTo(s) /\ CompleteMeansSubmitted
  BY DEF TxInv
<1> HIDE DEF s
<1> DEFINE u == Append(s, b)
<1>11. Len(u) = n + 1 /\ u[n + 1] = b /\ (\A i \in 1 .. n : u[i] = s[i]) /\ u # <<>>
  BY <1>3, <1>8, <1>9, AppendProperties, EmptySeq
<1> HIDE DEF u
<1>12. n > 0 => Follows(s[n], b)
  <2>1. CASE tcount > 0
    BY <1>3, <1>8, <1>10, <2>1 DEF UpTo, Follows
  <2>2. CASE ~(tcount > 0)
    BY <1>3, <1>8, <1>9, <1>10, <2>2 DEF UpTo, Ended, Follows
  <2> QED
    BY <2>1, <2>2
<1>13. n = 0 => tcount = 0
  BY <1>3, <1>9, <1>10 DEF UpTo
<1>14. \A i \in 1 .. n : Follows(u[i], u[i + 1])
  <2> TAKE i \in 1 .. n
  <2>1. CASE i = n
    BY <1>11, <1>12, <2>1
  <2>2. CASE i # n
    <3>1. i \in 1 .. Len(s) - 1 /\ i \in 1 .. n /\ i + 1 \in 1 .. n
      BY <1>8, <2>2
    <3> QED
      BY <1>10, <1>11, <3>1 DEF Whole
  <2> QED
    BY <2>1, <2>2
<1>15. u[1][2] = 1
  <2>1. CASE n = 0
    BY <1>3, <1>11, <1>13, <2>1
  <2>2. CASE n > 0
    BY <1>9, <1>10, <1>11, <2>2 DEF Whole
  <2> QED
    BY <2>1, <2>2
<1>16. \A a, c : Follows(a, c)' <=> Follows(a, c)
  BY <1>1 DEF Follows, history
<1>17. Submissions' = u
  BY <1>5 DEF u
<1>18. Whole(Submissions)'
  <2>1. Len(u) - 1 = n
    BY <1>11
  <2> QED
    BY <1>14, <1>15, <1>16, <1>17, <2>1 DEF Whole
<1>19. UpTo(Submissions)'
  BY <1>1, <1>3, <1>11, <1>17 DEF UpTo
<1>20. CompleteMeansSubmitted'
  <2> SUFFICES ASSUME NEW t \in complete
               PROVE  t \notin aborted /\ \E i \in 1 .. n + 1 : u[i] = <<t, length[t]>>
    BY <1>1, <1>11, <1>17 DEF CompleteMeansSubmitted, history
  <2>1. t \notin aborted /\ \E i \in 1 .. Len(s) : s[i] = <<t, length[t]>>
    BY <1>10 DEF CompleteMeansSubmitted, s
  <2>2. PICK i \in 1 .. n : s[i] = <<t, length[t]>>
    BY <1>8, <2>1
  <2>3. i \in 1 .. n + 1
    OBVIOUS
  <2> QED
    BY <1>11, <2>1, <2>2, <2>3
<1>21. TxCurrent' /\ TxArmed'
  BY <1>1 DEF TxInv, TxCurrent, TxArmed, history
<1> QED
  BY <1>7, <1>18, <1>19, <1>20, <1>21 DEF TxInv

\* The end of an abort: the transfer that was active is aborted, not complete.
LEMMA AbortEndKeeps == ASSUME TxInv, AbortEnd PROVE TxInv'
<1>1. /\ pc = "abortend" /\ isr = "off" /\ busy' = FALSE /\ pc' = "idle"
      /\ aborted' = IF busy THEN aborted \cup {tbuf} ELSE aborted
      /\ UNCHANGED <<fifo, line, txif, txie, isr, tbuf, tlen, tcount, length, complete>>
  BY DEF AbortEnd, At, hardware
<1>2. TypeOK /\ TxCurrent /\ TxArmed /\ Whole(Submissions) /\ UpTo(Submissions) /\ CompleteMeansSubmitted
  BY DEF TxInv
<1>3. Transfers' = Transfers /\ Submissions' = Submissions
  BY <1>1 DEF Transfers, Submissions
<1>4. busy => tbuf \in Transfers /\ tbuf \notin complete
  <2>1. Len(length) \in Nat /\ tbuf \in 0 .. Len(length)
    BY <1>2 DEF TypeOK
  <2> QED
    BY <1>2, <2>1 DEF TxCurrent, Transfers
<1>5. aborted \subseteq aborted' /\ aborted' \subseteq Transfers /\ (\A t \in complete : t \in aborted' => t \in aborted)
  BY <1>1, <1>2, <1>4 DEF TypeOK
<1>6. TypeOK'
  <2>1. {fifo', line'} \subseteq Seq(Transfers' \X Nat) /\ complete' \subseteq Transfers' /\ aborted' \subseteq Transfers'
    BY <1>1, <1>2, <1>3, <1>5 DEF TypeOK
  <2>2. {txif', txie', busy'} \subseteq BOOLEAN
    BY <1>1, <1>2 DEF TypeOK
  <2> QED
    BY <1>1, <1>2, <2>1, <2>2 DEF TypeOK
<1>7. TxCurrent'
  BY <1>1, <1>2 DEF TxCurrent
<1>8. TxArmed'
  BY <1>1, <1>2 DEF TxArmed
<1>9. ASSUME NEW a, NEW c, Follows(a, c) PROVE Follows(a, c)'
  BY <1>1, <1>5, <1>9 DEF Follows
<1>10. Whole(Submissions)'
  BY <1>2, <1>3, <1>9 DEF Whole
<1>11. UpTo(Submissions)'
  <2>1. ASSUME NEW a, Ended(a) PROVE Ended(a)'
    BY <1>1, <1>5, <2>1 DEF Ended
  <2> QED
    BY <1>1, <1>2, <1>3, <2>1 DEF UpTo
<1>12. CompleteMeansSubmitted'
  BY <1>1, <1>2, <1>3, <1>5 DEF CompleteMeansSubmitted
<1> QED
  BY <1>6, <1>7, <1>8, <1>10, <1>11, <1>12 DEF TxInv

\* A transfer is accepted when the one before it is all submitted, or aborted.
LEMMA AcceptKeeps ==
  ASSUME TxInv, NEW n \in Lengths, Len(length) < MaxTransfers,
         tbuf > 0 => tbuf \in aborted \/ tcount = tlen,
         length' = Append(length, n), tbuf' = Len(length) + 1, tlen' = n, tcount' = 0, busy' = TRUE,
         UNCHANGED <<fifo, line, aborted>>,
         complete' \subseteq Transfers,
         \A t \in complete' : t \notin aborted /\ \E i \in 1 .. Len(Submissions) : Submissions[i] = <<t, length[t]>>,
         txif' \in BOOLEAN, txie' \in BOOLEAN, isr' \in {"off", "push"},
         pc' \in {"idle", "clear", "enable", "raise", "abortclear", "abortend"},
         TxArmed'
  PROVE  TxInv'
<1>1. TypeOK /\ TxCurrent /\ Whole(Submissions) /\ UpTo(Submissions)
  BY DEF TxInv
<1>2. length \in Seq(Lengths) /\ Len(length) \in Nat /\ n \in Nat \ {0} /\ MaxTransfers \in Nat
  BY <1>1, UartTxAssumption DEF TypeOK
<1>3. /\ length' \in Seq(Lengths) /\ Len(length') = Len(length) + 1 /\ length'[Len(length) + 1] = n
      /\ \A t \in Transfers : length'[t] = length[t]
  BY <1>2, AppendProperties DEF Transfers
<1>4. Transfers \subseteq Transfers' /\ Len(length) + 1 \in Transfers' /\ Len(length) + 1 \notin Transfers
  BY <1>2, <1>3 DEF Transfers
<1>5. Submissions' = Submissions
  BY DEF Submissions
<1>6. fifo \in Seq(Transfers \X Nat) /\ line \in Seq(Transfers \X Nat)
  BY <1>1 DEF TypeOK
<1>7. fifo \in Seq(Transfers' \X Nat) /\ line \in Seq(Transfers' \X Nat)
  <2>1. Transfers \X Nat \subseteq Transfers' \X Nat
    BY <1>4
  <2> QED
    BY <1>6, <2>1, SeqMonotonic
<1>8. TypeOK'
  <2>1. {fifo', line'} \subseteq Seq(Transfers' \X Nat) /\ Len(fifo') <= FifoDepth
    BY <1>1, <1>7 DEF TypeOK
  <2>2. length' \in Seq(Lengths) /\ Len(length') <= MaxTransfers
    BY <1>2, <1>3
  <2>3. tbuf' \in 0 .. Len(length') /\ tlen' \in Lengths \cup {0} /\ tcount' \in 0 .. tlen'
    BY <1>2, <1>3
  <2>4. complete' \subseteq Transfers' /\ aborted' \subseteq Transfers' /\ {txif', txie', busy'} \subseteq BOOLEAN
    BY <1>1, <1>4 DEF TypeOK
  <2> QED
    BY <2>1, <2>2, <2>3, <2>4 DEF TypeOK
<1>9. TxCurrent'
  <2>1. tbuf' = Len(length') /\ tlen' = length'[tbuf'] /\ tbuf' > 0
    BY <1>2, <1>3
  <2>2. tbuf' \notin aborted' /\ tbuf' \notin complete'
    BY <1>1, <1>4 DEF TypeOK
  <2> QED
    BY <2>1, <2>2 DEF TxCurrent
<1>10. \A i \in 1 .. Len(Submissions) : Submissions[i][1] \in Transfers /\ Submissions[i][2] \in Nat
  BY <1>1, SubmissionsType
<1>11. Len(Submissions) \in Nat /\ (Submissions = <<>> <=> Len(Submissions) = 0)
  BY <1>1, SubmissionsType
<1>12. Whole(Submissions)'
  <2>1. ASSUME NEW a, NEW c, a[1] \in Transfers, Follows(a, c) PROVE Follows(a, c)'
    BY <1>3, <2>1 DEF Follows
  <2>2. ASSUME NEW i \in 1 .. Len(Submissions) - 1 PROVE Follows(Submissions[i], Submissions[i + 1])'
    <3>1. Follows(Submissions[i], Submissions[i + 1]) /\ i \in 1 .. Len(Submissions)
      BY <1>1, <1>11 DEF Whole
    <3> QED
      BY <1>5, <1>10, <2>1, <3>1
  <2> QED
    BY <1>1, <1>5, <2>2 DEF Whole
<1>13. UpTo(Submissions)'
  <2> SUFFICES ASSUME Submissions # <<>> PROVE Ended(Submissions[Len(Submissions)])'
    BY <1>5 DEF UpTo
  <2> DEFINE a == Submissions[Len(Submissions)]
  <2>1. a[1] \in Transfers
    BY <1>10, <1>11
  <2>2. a[1] < tbuf'
    BY <1>2, <2>1 DEF Transfers
  <2>3. a[2] = length[a[1]] \/ a[1] \in aborted
    <3>1. CASE tcount > 0
      <4>1. a[1] = tbuf /\ a[2] = tcount
        BY <1>1, <3>1 DEF UpTo
      <4>2. tbuf > 0
        BY <1>2, <2>1, <4>1 DEF Transfers
      <4> QED
        BY <1>1, <4>1, <4>2 DEF TxCurrent
    <3>2. CASE ~(tcount > 0)
      BY <1>1, <3>2 DEF UpTo, Ended
    <3> QED
      BY <3>1, <3>2
  <2>4. a[2] = length'[a[1]] \/ a[1] \in aborted'
    BY <1>3, <2>1, <2>3
  <2>5. a' = a
    BY <1>5
  <2> QED
    BY <1>5, <2>2, <2>4 DEF Ended
<1>14. CompleteMeansSubmitted'
  BY <1>3, <1>5 DEF CompleteMeansSubmitted
<1> QED
  BY <1>8, <1>9, <1>12, <1>13, <1>14 DEF TxInv

LEMMA TxStartKeeps == ASSUME TxInv, TxStart PROVE TxInv'
<1>1. PICK n \in Lengths : Accept(n)
  BY DEF TxStart
<1>2. /\ pc = "idle" /\ isr = "off" /\ ~busy /\ Len(length) < MaxTransfers /\ pc' = "clear"
      /\ UNCHANGED <<fifo, line, txif, txie, isr>>
  BY DEF TxStart, At, CanStart, hardware
<1>3. /\ length' = Append(length, n) /\ tbuf' = Len(length) + 1 /\ tlen' = n /\ tcount' = 0 /\ busy' = TRUE
      /\ complete' = complete /\ aborted' = aborted
  BY <1>1 DEF Accept
<1>4. TypeOK /\ TxCurrent /\ TxArmed /\ CompleteMeansSubmitted
  BY DEF TxInv
<1>5. tbuf > 0 => tbuf \in aborted \/ tcount = tlen
  BY <1>2, <1>4 DEF TxCurrent
<1>6. TxArmed'
  BY <1>2, <1>3, <1>4 DEF TxArmed
<1>7. complete \subseteq Transfers /\ txif \in BOOLEAN /\ txie \in BOOLEAN
  BY <1>4 DEF TypeOK
<1>8. \A t \in complete' : t \notin aborted /\ \E i \in 1 .. Len(Submissions) : Submissions[i] = <<t, length[t]>>
  BY <1>3, <1>4 DEF CompleteMeansSubmitted
<1> QED
  BY <1>2, <1>3, <1>5, <1>6, <1>7, <1>8, AcceptKeeps

\* SEND_COMPLETE: the last byte submitted is the transfer's last; then the
\* engine rests, or the callback has begun the next transfer.
LEMMA FinishKeeps == ASSUME TxInv, Finish PROVE TxInv'
<1>1. /\ isr = "push" /\ busy /\ Submitted /\ complete' = complete \cup {tbuf} /\ isr' = "off"
      /\ UNCHANGED <<fifo, line, pc, aborted>>
  BY DEF Finish
<1>2. TypeOK /\ TxCurrent /\ TxArmed /\ Whole(Submissions) /\ UpTo(Submissions) /\ CompleteMeansSubmitted
  BY DEF TxInv
<1>3. Len(length) \in Nat /\ tbuf \in Transfers /\ length \in Seq(Lengths) /\ tlen = length[tbuf] /\ tbuf \notin aborted
  BY <1>1, <1>2 DEF TypeOK, TxCurrent, Transfers
<1>4. tlen \in Nat \ {0} /\ tcount \in 0 .. tlen
  <2>1. length[tbuf] \in Lengths
    BY <1>3, ElementOfSeq DEF Transfers
  <2> QED
    BY <1>2, <1>3, <2>1, UartTxAssumption DEF TypeOK
<1>5. tcount = tlen /\ tcount > 0
  BY <1>1, <1>4 DEF Submitted
<1>6. Submissions # <<>> /\ Submissions[Len(Submissions)] = <<tbuf, length[tbuf]>> /\ Len(Submissions) \in 1 .. Len(Submissions)
  <2>1. Submissions # <<>> /\ Submissions[Len(Submissions)] = <<tbuf, length[tbuf]>>
    BY <1>2, <1>3, <1>5 DEF UpTo
  <2>2. Len(Submissions) \in Nat /\ (Submissions = <<>> <=> Len(Submissions) = 0)
    BY <1>2, SubmissionsType
  <2> QED
    BY <2>1, <2>2
<1>7. complete' \subseteq Transfers
  BY <1>1, <1>2, <1>3 DEF TypeOK
<1>8. ASSUME NEW t \in complete'
      PROVE  t \notin aborted /\ \E i \in 1 .. Len(Submissions) : Submissions[i] = <<t, length[t]>>
  BY <1>1, <1>2, <1>3, <1>6 DEF CompleteMeansSubmitted
<1>9. txie /\ pc \notin {"clear", "enable", "abortclear", "abortend"} /\ txif \in BOOLEAN /\ pc' = pc
      /\ pc \in {"idle", "clear", "enable", "raise", "abortclear", "abortend"}
  BY <1>1, <1>2 DEF TxArmed, TypeOK
<1>10. CASE busy' = FALSE /\ txie' = FALSE /\ UNCHANGED <<txif, tbuf, tlen, tcount, length>>
  <2>1. Transfers' = Transfers /\ Submissions' = Submissions
    BY <1>1, <1>10 DEF Transfers, Submissions
  <2>2. TypeOK'
    <3>1. {fifo', line'} \subseteq Seq(Transfers' \X Nat) /\ complete' \subseteq Transfers' /\ aborted' \subseteq Transfers'
      BY <1>1, <1>2, <1>7, <2>1 DEF TypeOK
    <3>2. {txif', txie', busy'} \subseteq BOOLEAN
      BY <1>2, <1>10 DEF TypeOK
    <3> QED
      BY <1>1, <1>2, <1>10, <3>1, <3>2 DEF TypeOK
  <2>3. TxCurrent'
    BY <1>1, <1>2, <1>5, <1>10 DEF TxCurrent
  <2>4. TxArmed'
    BY <1>1, <1>9, <1>10 DEF TxArmed
  <2>5. Whole(Submissions)' /\ UpTo(Submissions)'
    BY <1>1, <1>2, <1>10, <2>1 DEF Whole, Follows, UpTo, Ended
  <2>6. CompleteMeansSubmitted'
    BY <1>1, <1>8, <1>10, <2>1 DEF CompleteMeansSubmitted
  <2> QED
    BY <2>2, <2>3, <2>4, <2>5, <2>6 DEF TxInv
<1>11. CASE /\ Len(length) < MaxTransfers
            /\ \E n \in Lengths : /\ length' = Append(length, n)
                                  /\ tbuf' = Len(length) + 1 /\ tlen' = n /\ tcount' = 0
            /\ busy' = TRUE /\ txie' = TRUE /\ txif' = TRUE
  <2>1. PICK n \in Lengths : /\ length' = Append(length, n)
                             /\ tbuf' = Len(length) + 1 /\ tlen' = n /\ tcount' = 0
    BY <1>11
  <2>2. TxArmed'
    BY <1>1, <1>9, <1>11 DEF TxArmed
  <2> QED
    BY <1>1, <1>5, <1>7, <1>8, <1>9, <1>11, <2>1, <2>2, AcceptKeeps
<1> QED
  BY <1>10, <1>11 DEF Finish

LEMMA TxStepInv == TxInv /\ [Next]_vars => TxInv'
<1> SUFFICES ASSUME TxInv, [Next]_vars PROVE TxInv'
  OBVIOUS
<1>1. CASE UNCHANGED vars
  <2>1. Submissions' = Submissions /\ TxArmed'
    BY <1>1 DEF vars, hardware, transfer, Submissions, TxInv, TxArmed
  <2>2. /\ fifo \in Seq(Transfers \X Nat) /\ line \in Seq(Transfers \X Nat) /\ Len(fifo) <= FifoDepth
        /\ txif \in BOOLEAN /\ txie \in BOOLEAN /\ isr \in {"off", "push"}
        /\ pc \in {"idle", "clear", "enable", "raise", "abortclear", "abortend"}
    BY DEF TxInv, TypeOK
  <2> QED
    BY <1>1, <2>1, <2>2, TxLinesKeep DEF vars, hardware
<1> QED
  BY <1>1, TxStepsKeep, PushKeeps, AbortEndKeeps, TxStartKeeps, FinishKeeps DEF Next, Continue, Isr

LEMMA TxPromise == TxInv => TypeOK /\ WholeTransfers /\ CompleteMeansSubmitted /\ HandlerHasWork
BY DEF TxInv, TxArmed, Whole, WholeTransfers, HandlerHasWork

-----------------------------------------------------------------------------
(* CAN FD.  A call is the rest of a row of steps; what is still to do says  *)
(* what may be out of order now: a record of the node that the row is about *)
(* to write, a transmission whose interrupt it is about to arm or disarm.   *)

CanRows == {CanStartCall, CanAbortCall, IsrEnable, IsrDisable, CanInit, SetBitrate, CanDeinit}
Todo == {canCall[i] : i \in DOMAIN canCall}
\* What is left after the step at hand.
After == {canCall[i] : i \in 2 .. Len(canCall)}

RowOK == canCall = <<>> \/ \E s \in CanRows : \E n \in 1 .. Len(s) : canCall = SubSeq(s, n, Len(s))

NodeOK ==
  /\ canMode = nodeUp
  /\ "up" \notin Todo /\ "none" \notin Todo => canOn = nodeUp
  /\ "up" \in Todo /\ "none" \notin Todo => ~nodeUp /\ ("on" \in Todo \/ canOn)
  /\ "up" \notin Todo /\ "none" \in Todo /\ "off" \notin Todo => ~canOn

\* A transmission that is said to be under way is armed, or about to be.
Coming(step) == step \in Todo /\ "busy" \notin Todo
ArmOK ==
  /\ "busy" \in Todo => isrEnabled
  /\ txBusy /\ "notBusy" \notin Todo =>
       /\ isrEnabled
       /\ txqeie \/ Coming("txqeie")
       /\ txFifoIe \/ Coming("txFifoIe")
       /\ txLine \/ Coming("line")

CanTyped ==
  /\ canMode \in BOOLEAN /\ nodeUp \in BOOLEAN /\ canOn \in BOOLEAN /\ isrEnabled \in BOOLEAN
  /\ txBusy \in BOOLEAN /\ txqeie \in BOOLEAN /\ txFifoIe \in BOOLEAN /\ txLine \in BOOLEAN

CanInv == CanTyped /\ RowOK /\ NodeOK /\ ArmOK /\ DropIsTold

CanSteps == {"room", "put", "busy", "txqeie", "txFifoIe", "line", "noTxqeie", "noTxFifoIe", "noLine", "notBusy",
             "sources", "lines", "enabled", "disabled", "noLines", "noSources", "none", "on", "config", "operate",
             "up", "leave", "off"}

-----------------------------------------------------------------------------
\* The rest of a row.
LEMMA SuffixOf ==
  ASSUME NEW S, NEW s \in Seq(S), NEW n \in 1 .. Len(s), NEW r, r = SubSeq(s, n, Len(s))
  PROVE  /\ Len(s) \in Nat /\ Len(r) = Len(s) - n + 1 /\ DOMAIN r = 1 .. Len(s) - n + 1
         /\ \A i \in 1 .. Len(s) - n + 1 : r[i] = s[n + i - 1]
         /\ n < Len(s) => Tail(r) = SubSeq(s, n + 1, Len(s))
<1>1. Len(s) \in Nat
  OBVIOUS
<1>2. n \in Int /\ 1 <= n /\ n <= Len(s) /\ \A i \in 1 .. Len(s) : s[i] \in S
  BY <1>1, ElementOfSeq
<1>3. /\ r \in Seq(S) /\ Len(r) = Len(s) - n + 1
      /\ \A i \in 1 .. Len(s) - n + 1 : r[i] = s[n + i - 1]
  <2>1. /\ SubSeq(s, n, Len(s)) \in Seq(S) /\ Len(SubSeq(s, n, Len(s))) = Len(s) - n + 1
        /\ \A i \in 1 .. Len(s) - n + 1 : SubSeq(s, n, Len(s))[i] = s[n + i - 1]
    OBVIOUS
  <2> QED
    BY <2>1, Zenon
<1>4. Len(r) = Len(s) - n + 1
  BY <1>3
<1>5. DOMAIN r = 1 .. Len(r)
  BY <1>3
<1>6. ASSUME n < Len(s) PROVE Tail(r) = SubSeq(s, n + 1, Len(s))
  <2> DEFINE t == Tail(r)
             u == SubSeq(s, n + 1, Len(s))
  <2>a. r # <<>>
    <3>1. Len(<<>>) = 0
      OBVIOUS
    <3>2. PICK k \in Nat : k = Len(s)
      BY <1>1
    <3>3. k - n + 1 # 0 /\ Len(r) = k - n + 1
      BY <1>2, <1>4, <1>6, <3>2
    <3> QED
      BY <3>1, <3>3, Zenon
  <2>b. t \in Seq(S) /\ Len(t) = Len(r) - 1 /\ \A i \in 1 .. Len(t) : t[i] = r[i + 1]
    BY <1>3, <2>a, HeadTailProperties
  <2>1. t \in Seq(S) /\ Len(t) = Len(r) - 1 /\ \A i \in 1 .. Len(r) - 1 : t[i] = r[i + 1]
    BY <2>b
  <2>2. \A i \in n + 1 .. Len(s) : s[i] \in S
    BY <1>1, <1>2
  <2>3. /\ u \in Seq(S) /\ Len(u) = IF n + 1 <= Len(s) THEN Len(s) - (n + 1) + 1 ELSE 0
        /\ \A i \in 1 .. Len(s) - (n + 1) + 1 : u[i] = s[n + 1 + i - 1]
    BY <1>1, <2>2, SubSeqProperties
  <2> HIDE DEF t, u
  <2>4. Len(u) = Len(s) - n /\ Len(t) = Len(s) - n
    BY <1>1, <1>4, <1>6, <2>1, <2>3
  <2>5. \A i \in 1 .. Len(s) - n : t[i] = u[i]
    <3> TAKE i \in 1 .. Len(s) - n
    <3>1. i + 1 \in 1 .. Len(s) - n + 1 /\ i \in 1 .. Len(r) - 1 /\ i \in 1 .. Len(s) - (n + 1) + 1
      BY <1>1, <1>4
    <3>2. t[i] = s[n + (i + 1) - 1] /\ u[i] = s[n + 1 + i - 1]
      BY <1>3, <2>1, <2>3, <3>1
    <3> QED
      BY <1>1, <3>2
  <2>6. t = u
    BY <2>1, <2>3, <2>4, <2>5, SeqEqual
  <2> QED
    BY <2>6 DEF t, u
<1> QED
  BY <1>1, <1>3, <1>4, <1>5, <1>6

\* The rows are rows of steps, and what stands in them before and after what.
LEMMA RowTypes ==
  ASSUME NEW s \in CanRows
  PROVE  s \in Seq(CanSteps) /\ s # <<>>
<1>1. CanStartCall \in Seq(CanSteps) /\ CanAbortCall \in Seq(CanSteps) /\ IsrEnable \in Seq(CanSteps)
  BY DEF CanStartCall, CanAbortCall, IsrEnable, CanSteps
<1>2. IsrDisable \in Seq(CanSteps) /\ CanInit \in Seq(CanSteps)
  BY DEF IsrDisable, CanInit, CanSteps
<1>3. SetBitrate \in Seq(CanSteps) /\ CanDeinit \in Seq(CanSteps)
  BY DEF SetBitrate, CanDeinit, CanSteps
<1>4. CanStartCall # <<>> /\ CanAbortCall # <<>> /\ IsrEnable # <<>>
      /\ IsrDisable # <<>> /\ CanInit # <<>> /\ SetBitrate # <<>> /\ CanDeinit # <<>>
  BY DEF CanStartCall, CanAbortCall, IsrEnable, IsrDisable, CanInit, SetBitrate, CanDeinit
<1> QED
  BY <1>1, <1>2, <1>3, <1>4 DEF CanRows

NodeNames == {"none", "on", "config", "operate", "up", "leave", "off"}
Disarms == {"noTxqeie", "noTxFifoIe", "noLine", "noLines", "noSources", "disabled"}

\* The order of the steps: `now` is the one at hand, `left` what comes after it.
InOrder(now, left) ==
  /\ now \notin NodeNames => {"none", "up", "on", "off"} \cap left = {}
  /\ now \in NodeNames => {"busy", "notBusy", "txqeie", "txFifoIe", "line"} \cap left = {}
  /\ now \in {"room", "put"} => "busy" \in left /\ "notBusy" \notin left
  /\ now = "busy" => {"txqeie", "txFifoIe", "line"} \subseteq left /\ "notBusy" \notin left /\ "busy" \notin left
  /\ now \in Disarms => "notBusy" \in left /\ "busy" \notin left
  /\ now = "none" => left = {} \/ ({"on", "up"} \subseteq left /\ "none" \notin left)
  /\ now = "on" => "none" \notin left /\ "up" \in left /\ "on" \notin left
  /\ now \in {"config", "operate"} => "none" \notin left /\ "on" \notin left
  /\ now = "up" => left = {}
  /\ now = "off" => left = {"none"}
  /\ now = "leave" => left = {"off", "none"}

LEMMA RowOrder ==
  ASSUME NEW s \in CanRows, NEW n \in 1 .. Len(s)
  PROVE  InOrder(s[n], {s[k] : k \in n + 1 .. Len(s)})
<1> DEFINE left == {s[k] : k \in n + 1 .. Len(s)}
<1> USE DEF InOrder, NodeNames, Disarms
<1>1. CASE s = CanStartCall
  <2>1. /\ Len(s) = 6 /\ s[1] = "room" /\ s[2] = "put" /\ s[3] = "busy"
        /\ s[4] = "txqeie" /\ s[5] = "txFifoIe" /\ s[6] = "line"
    BY <1>1 DEF CanStartCall
  <2>2. left \subseteq {"put", "busy", "txqeie", "txFifoIe", "line"}
    BY <2>1
  <2>3. n = 3 => left = {"txqeie", "txFifoIe", "line"}
    BY <2>1
  <2>4. /\ s[n] \in {"room", "put", "busy", "txqeie", "txFifoIe", "line"}
        /\ s[n] = "busy" => n = 3
        /\ s[n] \in {"room", "put"} => n < 3
    BY <2>1
  <2>5. n < 3 => "busy" \in left
    BY <2>1
  <2> HIDE DEF left
  <2> QED
    BY <2>2, <2>3, <2>4, <2>5 DEF left
<1>2. CASE s = CanAbortCall
  <2>1. Len(s) = 4 /\ s[1] = "noTxqeie" /\ s[2] = "noTxFifoIe" /\ s[3] = "noLine" /\ s[4] = "notBusy"
    BY <1>2 DEF CanAbortCall
  <2>a. n \in 1 .. 4 /\ left = {s[k] : k \in n + 1 .. 4}
    BY <2>1
  <2>b. \A k \in n + 1 .. 4 : k = 2 \/ k = 3 \/ k = 4
    BY <2>a
  <2>c. n < 4 => 4 \in n + 1 .. 4
    BY <2>a
  <2>2. left \subseteq {"noTxFifoIe", "noLine", "notBusy"} /\ (n < 4 => "notBusy" \in left)
    BY <2>1, <2>a, <2>b, <2>c
  <2>d. n = 1 \/ n = 2 \/ n = 3 \/ n = 4
    BY <2>a
  <2>e. \/ n < 4 /\ s[n] \in {"noTxqeie", "noTxFifoIe", "noLine"}
        \/ n = 4 /\ s[n] = "notBusy"
    BY <2>1, <2>d
  <2>3. s[n] \in {"noTxqeie", "noTxFifoIe", "noLine", "notBusy"} /\ (s[n] # "notBusy" => n < 4)
    BY <2>e
  <2> HIDE DEF left
  <2> QED
    BY <2>2, <2>3 DEF left
<1>3. CASE s = IsrEnable
  <2>1. Len(s) = 4 /\ s[1] = "sources" /\ s[2] = "notBusy" /\ s[3] = "lines" /\ s[4] = "enabled"
    BY <1>3 DEF IsrEnable
  <2>a. n \in 1 .. 4 /\ left = {s[k] : k \in n + 1 .. 4}
    BY <2>1
  <2>b. \A k \in n + 1 .. 4 : k = 2 \/ k = 3 \/ k = 4
    BY <2>a
  <2>c. n = 1 \/ n = 2 \/ n = 3 \/ n = 4
    BY <2>a
  <2>2. left \subseteq {"notBusy", "lines", "enabled"} /\ s[n] \in {"sources", "notBusy", "lines", "enabled"}
    BY <2>1, <2>a, <2>b, <2>c
  <2> HIDE DEF left
  <2> QED
    BY <2>2 DEF left
<1>4. CASE s = IsrDisable
  <2>1. /\ Len(s) = 5 /\ s[1] = "disabled" /\ s[2] = "noLines" /\ s[3] = "noSources"
        /\ s[4] = "noTxqeie" /\ s[5] = "notBusy"
    BY <1>4 DEF IsrDisable
  <2>a. n \in 1 .. 5 /\ left = {s[k] : k \in n + 1 .. 5}
    BY <2>1
  <2>b. \A k \in n + 1 .. 5 : k = 2 \/ k = 3 \/ k = 4 \/ k = 5
    BY <2>a
  <2>c. n < 5 => 5 \in n + 1 .. 5
    BY <2>a
  <2>2. left \subseteq {"noLines", "noSources", "noTxqeie", "notBusy"} /\ (n < 5 => "notBusy" \in left)
    BY <2>1, <2>a, <2>b, <2>c
  <2>d. n = 1 \/ n = 2 \/ n = 3 \/ n = 4 \/ n = 5
    BY <2>a
  <2>e. \/ n < 5 /\ s[n] \in {"disabled", "noLines", "noSources", "noTxqeie"}
        \/ n = 5 /\ s[n] = "notBusy"
    BY <2>1, <2>d
  <2>3. s[n] \in {"disabled", "noLines", "noSources", "noTxqeie", "notBusy"} /\ (s[n] # "notBusy" => n < 5)
    BY <2>e
  <2> HIDE DEF left
  <2> QED
    BY <2>2, <2>3 DEF left
<1>5. CASE s = CanInit
  <2>1. Len(s) = 5 /\ s[1] = "none" /\ s[2] = "on" /\ s[3] = "config" /\ s[4] = "operate" /\ s[5] = "up"
    BY <1>5 DEF CanInit
  <2>2. /\ left \subseteq {"on", "config", "operate", "up"} /\ (n < 5 => "up" \in left)
        /\ n = 1 => "on" \in left
        /\ n > 1 => "on" \notin left
        /\ n = 5 => left = {}
    BY <2>1
  <2>3. /\ s[n] \in {"none", "on", "config", "operate", "up"}
        /\ s[n] = "none" <=> n = 1
        /\ s[n] = "up" <=> n = 5
    BY <2>1
  <2>4. n = 1 => "none" \notin left
    BY <2>1
  <2>5. n # 1 /\ n # 5 => n > 1 /\ n < 5
    BY <2>1
  <2> HIDE DEF left
  <2>6. InOrder(s[n], left)
    BY <2>2, <2>3, <2>4, <2>5
  <2> QED
    BY <2>6 DEF left
<1>6. CASE s = SetBitrate
  <2>1. Len(s) = 2 /\ s[1] = "config" /\ s[2] = "operate"
    BY <1>6 DEF SetBitrate
  <2>2. left \subseteq {"operate"} /\ s[n] \in {"config", "operate"}
    BY <2>1
  <2> HIDE DEF left
  <2> QED
    BY <2>2 DEF left
<1>7. CASE s = CanDeinit
  <2>1. Len(s) = 3 /\ s[1] = "leave" /\ s[2] = "off" /\ s[3] = "none"
    BY <1>7 DEF CanDeinit
  <2>2. n = 1 => left = {"off", "none"}
    BY <2>1
  <2>3. n = 2 => left = {"none"}
    BY <2>1
  <2>4. n = 3 => left = {}
    BY <2>1
  <2>5. (n = 1 /\ s[n] = "leave") \/ (n = 2 /\ s[n] = "off") \/ (n = 3 /\ s[n] = "none")
    BY <2>1
  <2> HIDE DEF left
  <2> QED
    BY <2>2, <2>3, <2>4, <2>5 DEF left
<1> QED
  BY <1>1, <1>2, <1>3, <1>4, <1>5, <1>6, <1>7 DEF CanRows

\* The step at hand, and what is left once it is done.
LEMMA StepAtHand ==
  ASSUME RowOK, CanBusy
  PROVE  /\ InOrder(canCall[1], After) /\ Todo = {canCall[1]} \cup After
         /\ Next1 => RowOK' /\ Todo' = After
         /\ \A status : CanReturn(status) => RowOK' /\ Todo' = {}
<1>1. PICK s \in CanRows : \E n \in 1 .. Len(s) : canCall = SubSeq(s, n, Len(s))
  BY DEF RowOK, CanBusy
<1>2. PICK n \in 1 .. Len(s) : canCall = SubSeq(s, n, Len(s))
  BY <1>1
<1>3. s \in Seq(CanSteps)
  BY RowTypes
<1>4. PICK w \in Nat : w = Len(s)
  BY <1>3
<1>5. /\ Len(canCall) = w - n + 1 /\ DOMAIN canCall = 1 .. w - n + 1 /\ n \in 1 .. w
      /\ \A i \in 1 .. w - n + 1 : canCall[i] = s[n + i - 1]
      /\ n < w => Tail(canCall) = SubSeq(s, n + 1, w)
  <2>1. Len(s) = w /\ n \in 1 .. w
    BY <1>4
  <2>2. canCall = SubSeq(s, n, Len(s))
    BY <1>2
  <2> QED
    BY <1>3, <2>1, <2>2, SuffixOf
<1>6. canCall[1] = s[n]
  <2>1. 1 \in 1 .. w - n + 1 /\ n + 1 - 1 = n
    BY <1>5
  <2> QED
    BY <1>5, <2>1
<1>7. After = {s[k] : k \in n + 1 .. w}
  <2>1. ASSUME NEW x \in After PROVE x \in {s[k] : k \in n + 1 .. w}
    <3>1. PICK i \in 2 .. w - n + 1 : x = canCall[i]
      BY <1>5, <2>1 DEF After
    <3>2. i \in 1 .. w - n + 1 /\ n + i - 1 \in n + 1 .. w
      BY <1>5
    <3> QED
      BY <1>5, <3>1, <3>2
  <2>2. ASSUME NEW k \in n + 1 .. w PROVE s[k] \in After
    <3>1. k - n + 1 \in 2 .. w - n + 1 /\ k - n + 1 \in 1 .. w - n + 1 /\ n + (k - n + 1) - 1 = k
      BY <1>5
    <3>2. canCall[k - n + 1] = s[k]
      BY <1>5, <3>1
    <3> QED
      BY <1>5, <3>1, <3>2 DEF After
  <2> QED
    BY <2>1, <2>2
<1>8. Todo = {canCall[1]} \cup After
  <2>1. 1 .. w - n + 1 = {1} \cup 2 .. w - n + 1
    BY <1>5
  <2> QED
    BY <1>5, <2>1 DEF Todo, After
<1>9. ASSUME NEW status, CanReturn(status) PROVE RowOK' /\ Todo' = {}
  <2>1. canCall' = <<>> /\ DOMAIN <<>> = {}
    BY <1>9 DEF CanReturn
  <2> QED
    BY <2>1 DEF RowOK, Todo
<1>10. ASSUME Next1 PROVE RowOK' /\ Todo' = After
  <2>1. CASE Len(canCall) = 1
    <3>1. CanReturn("OK")
      BY <1>10, <2>1 DEF Next1
    <3>2. After = {}
      BY <2>1 DEF After
    <3> QED
      BY <1>9, <3>1, <3>2
  <2>2. CASE Len(canCall) # 1
    <3>1. n < w /\ canCall' = SubSeq(s, n + 1, w) /\ n + 1 \in 1 .. w
      <4>1. canCall' = Tail(canCall)
        BY <1>10, <2>2 DEF Next1
      <4>2. n < w
        BY <1>4, <1>5, <2>2
      <4> QED
        BY <1>4, <1>5, <4>1, <4>2
    <3>2. RowOK'
      BY <1>4, <3>1 DEF RowOK
    <3>3. /\ DOMAIN canCall' = 1 .. w - (n + 1) + 1
          /\ \A i \in 1 .. w - (n + 1) + 1 : canCall'[i] = s[(n + 1) + i - 1]
      BY <1>3, <1>4, <3>1, SuffixOf
    <3>4. Todo' = {s[k] : k \in n + 1 .. w}
      <4>1. Todo' = {canCall'[i] : i \in 1 .. w - (n + 1) + 1}
        BY <3>3 DEF Todo
      <4>2. ASSUME NEW i \in 1 .. w - (n + 1) + 1 PROVE canCall'[i] \in {s[k] : k \in n + 1 .. w}
        <5>1. (n + 1) + i - 1 \in n + 1 .. w
          BY <1>5
        <5> QED
          BY <3>3, <5>1
      <4>3. ASSUME NEW k \in n + 1 .. w PROVE s[k] \in Todo'
        <5>1. k - n \in 1 .. w - (n + 1) + 1 /\ (n + 1) + (k - n) - 1 = k
          BY <1>5
        <5>2. canCall'[k - n] = s[k]
          BY <3>3, <5>1
        <5> QED
          BY <4>1, <5>1, <5>2
      <4> QED
        BY <4>1, <4>2, <4>3
    <3> QED
      BY <1>7, <3>2, <3>4
  <2> QED
    BY <2>1, <2>2
<1> QED
  BY <1>4, <1>6, <1>7, <1>8, <1>9, <1>10, RowOrder

-----------------------------------------------------------------------------
(* Every step keeps the invariant. *)

LEMMA CanInitInv == CanInitState => CanInv
<1> SUFFICES ASSUME CanInitState PROVE CanInv
  OBVIOUS
<1>1. canCall = <<>> /\ Todo = {}
  BY DEF CanInitState, Todo
<1> QED
  BY <1>1 DEF CanInitState, CanInv, CanTyped, RowOK, NodeOK, ArmOK, Coming, DropIsTold

\* Whoever is not in the middle of a call's node or interrupt steps.
LEMMA CanStill ==
  ASSUME CanInv, UNCHANGED <<nodeVars, lineVars, canCall>>, DropIsTold'
  PROVE  CanInv'
<1>1. Todo' = Todo /\ RowOK'
  BY DEF CanInv, Todo, RowOK
<1> QED
  BY <1>1 DEF CanInv, CanTyped, NodeOK, ArmOK, Coming, nodeVars, lineVars

\* What a call as a whole stores.
LEMMA RowSteps ==
  ASSUME NEW s \in CanRows, NEW T, T = {s[i] : i \in 1 .. Len(s)}
  PROVE  /\ s # CanStartCall => "busy" \notin T
         /\ \/ "up" \notin T /\ "none" \notin T
            \/ "up" \in T /\ "none" \in T
            \/ "none" \in T /\ "off" \in T
<1>1. CASE s = CanStartCall
  <2>1. Len(s) = 6 /\ s[1] = "room" /\ s[2] = "put" /\ s[3] = "busy" /\ s[4] = "txqeie" /\ s[5] = "txFifoIe" /\ s[6] = "line"
    BY <1>1 DEF CanStartCall
  <2>2. \A i \in 1 .. 6 : i = 1 \/ i = 2 \/ i = 3 \/ i = 4 \/ i = 5 \/ i = 6
    OBVIOUS
  <2>3. T = {"room", "put", "busy", "txqeie", "txFifoIe", "line"}
    BY <2>1, <2>2
  <2> QED
    BY <1>1, <2>3
<1>2. CASE s = CanAbortCall
  <2>1. Len(s) = 4 /\ s[1] = "noTxqeie" /\ s[2] = "noTxFifoIe" /\ s[3] = "noLine" /\ s[4] = "notBusy"
    BY <1>2 DEF CanAbortCall
  <2>2. \A i \in 1 .. 4 : i = 1 \/ i = 2 \/ i = 3 \/ i = 4
    OBVIOUS
  <2>3. T = {"noTxqeie", "noTxFifoIe", "noLine", "notBusy"}
    BY <2>1, <2>2
  <2> QED
    BY <1>2, <2>3
<1>3. CASE s = IsrEnable
  <2>1. Len(s) = 4 /\ s[1] = "sources" /\ s[2] = "notBusy" /\ s[3] = "lines" /\ s[4] = "enabled"
    BY <1>3 DEF IsrEnable
  <2>2. \A i \in 1 .. 4 : i = 1 \/ i = 2 \/ i = 3 \/ i = 4
    OBVIOUS
  <2>3. T = {"sources", "notBusy", "lines", "enabled"}
    BY <2>1, <2>2
  <2> QED
    BY <1>3, <2>3
<1>4. CASE s = IsrDisable
  <2>1. Len(s) = 5 /\ s[1] = "disabled" /\ s[2] = "noLines" /\ s[3] = "noSources" /\ s[4] = "noTxqeie" /\ s[5] = "notBusy"
    BY <1>4 DEF IsrDisable
  <2>2. \A i \in 1 .. 5 : i = 1 \/ i = 2 \/ i = 3 \/ i = 4 \/ i = 5
    OBVIOUS
  <2>3. T = {"disabled", "noLines", "noSources", "noTxqeie", "notBusy"}
    BY <2>1, <2>2
  <2> QED
    BY <1>4, <2>3
<1>5. CASE s = CanInit
  <2>1. Len(s) = 5 /\ s[1] = "none" /\ s[2] = "on" /\ s[3] = "config" /\ s[4] = "operate" /\ s[5] = "up"
    BY <1>5 DEF CanInit
  <2>2. \A i \in 1 .. 5 : i = 1 \/ i = 2 \/ i = 3 \/ i = 4 \/ i = 5
    OBVIOUS
  <2>3. T = {"none", "on", "config", "operate", "up"}
    BY <2>1, <2>2
  <2> QED
    BY <1>5, <2>3
<1>6. CASE s = SetBitrate
  <2>1. Len(s) = 2 /\ s[1] = "config" /\ s[2] = "operate"
    BY <1>6 DEF SetBitrate
  <2>2. \A i \in 1 .. 2 : i = 1 \/ i = 2
    OBVIOUS
  <2>3. T = {"config", "operate"}
    BY <2>1, <2>2
  <2> QED
    BY <1>6, <2>3
<1>7. CASE s = CanDeinit
  <2>1. Len(s) = 3 /\ s[1] = "leave" /\ s[2] = "off" /\ s[3] = "none"
    BY <1>7 DEF CanDeinit
  <2>2. \A i \in 1 .. 3 : i = 1 \/ i = 2 \/ i = 3
    OBVIOUS
  <2>3. T = {"leave", "off", "none"}
    BY <2>1, <2>2
  <2> QED
    BY <1>7, <2>3
<1> QED
  BY <1>1, <1>2, <1>3, <1>4, <1>5, <1>6, <1>7 DEF CanRows

\* A call begins where the node is settled.
LEMMA CanBegins ==
  ASSUME CanInv, NEW s \in CanRows, Call(s),
         s = CanStartCall => isrEnabled
  PROVE  CanInv'
<1>1. /\ canCall = <<>> /\ Todo = {} /\ canCall' = s
      /\ UNCHANGED <<hwVars, nodeVars, lineVars, dropped>>
  BY DEF Call, CanBusy, Todo
<1>2. s \in Seq(CanSteps) /\ s # <<>> /\ Len(s) \in Nat
  BY RowTypes
<1>3. Len(s) \in 1 .. Len(s) /\ 1 \in 1 .. Len(s)
  BY <1>2
<1>4. SubSeq(s, 1, Len(s)) = s
  BY <1>2, SubSeqFull
<1>5. RowOK'
  BY <1>1, <1>3, <1>4 DEF RowOK
<1>6. Todo' = {s[i] : i \in 1 .. Len(s)}
  <2>1. DOMAIN s = 1 .. Len(s)
    BY <1>2
  <2> QED
    BY <1>1, <2>1 DEF Todo
<1>7. s # CanStartCall => "busy" \notin Todo'
  BY <1>6, RowSteps
<1>8. \/ "up" \notin Todo' /\ "none" \notin Todo'
      \/ "up" \in Todo' /\ "none" \in Todo'
      \/ "none" \in Todo' /\ "off" \in Todo'
  BY <1>6, RowSteps
<1>9. NodeOK'
  BY <1>1, <1>8 DEF CanInv, NodeOK, nodeVars
<1>10. ArmOK'
  BY <1>1, <1>7 DEF CanInv, ArmOK, Coming, lineVars
<1> QED
  BY <1>1, <1>5, <1>9, <1>10 DEF CanInv, CanTyped, DropIsTold, nodeVars, lineVars, hwVars

LEMMA CanCallsKeep == ASSUME CanInv, CanCalls PROVE CanInv'
<1>1. ASSUME NEW status, CanRefuse(status) PROVE CanInv'
  BY <1>1, CanStill DEF CanRefuse, CanInv, DropIsTold, hwVars
<1>2. {CanStartCall, CanAbortCall, IsrEnable, IsrDisable, CanInit, SetBitrate, CanDeinit} \subseteq CanRows
  BY DEF CanRows
<1>3. IsrEnable # CanStartCall /\ IsrDisable # CanStartCall /\ CanInit # CanStartCall
      /\ SetBitrate # CanStartCall /\ CanDeinit # CanStartCall /\ CanAbortCall # CanStartCall
  BY DEF CanStartCall, CanAbortCall, IsrEnable, IsrDisable, CanInit, SetBitrate, CanDeinit
<1> QED
  BY <1>1, <1>2, <1>3, CanBegins DEF CanCalls

\* The steps on the node's own state and mode.
LEMMA NodeStepsKeep ==
  ASSUME CanInv, NodeSteps \/ Leave \/ Request("config", "config") \/ Request("operate", "operating")
  PROVE  CanInv'
<1>1. CanBusy /\ UNCHANGED lineVars /\ rxov' = rxov /\ dropped' = dropped
  BY DEF NodeSteps, Node, Leave, Request, Doing, hwVars
<1>2. InOrder(canCall[1], After) /\ Todo = {canCall[1]} \cup After
  BY <1>1, StepAtHand DEF CanInv
<1>3. Next1 => RowOK' /\ Todo' = After
  BY <1>1, StepAtHand DEF CanInv
<1>4. \A status : CanReturn(status) => RowOK' /\ Todo' = {}
  BY <1>1, StepAtHand DEF CanInv
<1>5. canCall' = canCall => RowOK' /\ Todo' = Todo
  BY DEF RowOK, Todo, CanInv
<1>6. DropIsTold'
  BY <1>1 DEF CanInv, DropIsTold
<1>7. canCall[1] \in NodeNames
  BY DEF NodeSteps, Node, Leave, Request, Doing, NodeNames
<1>8. ASSUME RowOK', Todo' \in {After, {}, Todo}, CanTyped', NodeOK' PROVE CanInv'
  <2>1. ArmOK'
    BY <1>1, <1>2, <1>7, <1>8 DEF CanInv, ArmOK, Coming, InOrder, lineVars, NodeNames
  <2> QED
    BY <1>6, <1>8, <2>1 DEF CanInv
<1>9. ASSUME UNCHANGED nodeVars, canCall' = canCall PROVE CanInv'
  BY <1>1, <1>6, <1>9, CanStill
<1>10. CASE Node("none", FALSE, FALSE, canOn)
  <2>1. canCall[1] = "none" /\ Next1 /\ ~canMode' /\ ~nodeUp' /\ canOn' = canOn
        /\ canMode' \in BOOLEAN /\ nodeUp' \in BOOLEAN
    BY <1>10 DEF Node, Doing
  <2>2. Todo' = After /\ (After = {} \/ ({"on", "up"} \subseteq After /\ "none" \notin After))
    BY <1>2, <1>3, <2>1 DEF InOrder
  <2>3. After = {} => ~canOn
    BY <1>2, <2>1 DEF CanInv, NodeOK
  <2> QED
    BY <1>1, <1>3, <1>8, <2>1, <2>2, <2>3 DEF CanInv, CanTyped, NodeOK, lineVars
<1>11. CASE Node("on", canMode, nodeUp, TRUE)
  <2>1. canCall[1] = "on" /\ Next1 /\ canMode' = canMode /\ nodeUp' = nodeUp /\ canOn' = TRUE
    BY <1>11 DEF Node, Doing
  <2>2. "none" \notin After /\ "up" \in After
    BY <1>2, <2>1 DEF InOrder
  <2> QED
    BY <1>1, <1>2, <1>3, <1>8, <2>1, <2>2 DEF CanInv, CanTyped, NodeOK, lineVars
<1>12. CASE Node("up", TRUE, TRUE, canOn)
  <2>1. canCall[1] = "up" /\ Next1 /\ canMode' = TRUE /\ nodeUp' = TRUE /\ canOn' = canOn
    BY <1>12 DEF Node, Doing
  <2>2. After = {} /\ Todo = {"up"}
    BY <1>2, <2>1 DEF InOrder
  <2>3. canOn
    BY <2>2 DEF CanInv, NodeOK
  <2> QED
    BY <1>1, <1>3, <1>8, <2>1, <2>2, <2>3 DEF CanInv, CanTyped, NodeOK, lineVars
<1>13. CASE Node("off", canMode, nodeUp, FALSE)
  <2>1. canCall[1] = "off" /\ Next1 /\ canMode' = canMode /\ nodeUp' = nodeUp /\ canOn' = FALSE
    BY <1>13 DEF Node, Doing
  <2>2. After = {"none"}
    BY <1>2, <2>1 DEF InOrder
  <2> QED
    BY <1>1, <1>3, <1>8, <2>1, <2>2 DEF CanInv, CanTyped, NodeOK, lineVars
<1>14. CASE Leave
  <2>1. canCall[1] = "leave" /\ canMode' = canMode /\ nodeUp' = nodeUp /\ canOn' = canOn
    BY <1>14 DEF Leave, Doing
  <2>2. After = {"off", "none"} /\ Todo = {"leave", "off", "none"}
    BY <1>2, <2>1 DEF InOrder
  <2>3. Next1 \/ canCall' = canCall
    BY <1>14 DEF Leave
  <2>4. RowOK' /\ Todo' \in {After, Todo}
    BY <1>3, <1>5, <2>3
  <2> QED
    BY <1>1, <1>8, <2>1, <2>2, <2>4 DEF CanInv, CanTyped, NodeOK, lineVars
<1>15. ASSUME NEW step \in {"config", "operate"}, NEW m, Request(step, m) PROVE CanInv'
  <2>1. canCall[1] = step /\ canMode' = canMode /\ nodeUp' = nodeUp
    BY <1>15 DEF Request, Doing
  <2>2. "none" \notin Todo /\ "on" \notin Todo
    BY <1>2, <2>1 DEF InOrder
  <2>3. CASE canCall' = canCall /\ canOn' = canOn
    BY <1>1, <1>5, <1>8, <2>1, <2>3 DEF CanInv, CanTyped, NodeOK, lineVars
  <2>4. CASE Next1 /\ canOn' = canOn
    <3>1. RowOK' /\ Todo' = After /\ ("up" \in After <=> "up" \in Todo) /\ "none" \notin After
      BY <1>2, <1>3, <2>1, <2>2, <2>4
    <3> QED
      BY <1>1, <1>8, <2>1, <2>2, <2>4, <3>1 DEF CanInv, CanTyped, NodeOK, lineVars
  <2>5. CASE CanReturn("TIMEOUT") /\ (IF "up" \in Todo THEN canOn' = FALSE ELSE canOn' = canOn)
    <3>1. RowOK' /\ Todo' = {}
      BY <1>4, <2>5
    <3>2. canOn' = nodeUp /\ canOn' \in BOOLEAN
      BY <2>2, <2>5 DEF CanInv, CanTyped, NodeOK
    <3> QED
      BY <1>1, <1>8, <2>1, <3>1, <3>2 DEF CanInv, CanTyped, NodeOK, lineVars
  <2> QED
    BY <1>15, <2>3, <2>4, <2>5 DEF Request, Todo
<1> QED
  BY <1>10, <1>11, <1>12, <1>13, <1>14, <1>15 DEF NodeSteps

\* The steps on the interrupt sources, the lines and the two flags.
LEMMA LineStepsKeep == ASSUME CanInv, LineSteps PROVE CanInv'
<1>1. PICK step, a, b, c, d, e, f : Lines(step, a, b, c, d, e, f)
  BY DEF LineSteps
<1>2. CanBusy /\ Next1 /\ UNCHANGED nodeVars /\ rxov' = rxov /\ dropped' = dropped
  BY <1>1 DEF Lines, Doing, hwVars
<1>3. InOrder(canCall[1], After) /\ Todo = {canCall[1]} \cup After /\ RowOK' /\ Todo' = After
  BY <1>2, StepAtHand DEF CanInv
<1>4. canCall[1] \notin NodeNames
  BY DEF LineSteps, Lines, Doing, NodeNames
<1>5. NodeOK'
  BY <1>2, <1>3, <1>4 DEF CanInv, NodeOK, InOrder, nodeVars, NodeNames
<1>6. CanTyped' /\ ArmOK'
  <2> USE <1>3 DEF CanInv, CanTyped, ArmOK, Coming, InOrder, Disarms, Doing, Lines, nodeVars
  <2>n. canMode' \in BOOLEAN /\ nodeUp' \in BOOLEAN /\ canOn' \in BOOLEAN
    BY <1>2
  <2> USE <2>n
  <2>1. CASE Lines("busy", txqeie, txFifoIe, txLine, rxLine, isrEnabled, TRUE)
    BY <2>1
  <2>2. CASE Lines("notBusy", txqeie, txFifoIe, txLine, rxLine, isrEnabled, FALSE)
    BY <2>2
  <2>3. CASE Lines("txqeie", TRUE, txFifoIe, txLine, rxLine, isrEnabled, txBusy)
    BY <2>3
  <2>4. CASE Lines("noTxqeie", FALSE, txFifoIe, txLine, rxLine, isrEnabled, txBusy)
    BY <2>4
  <2>5. CASE Lines("txFifoIe", txqeie, TRUE, txLine, rxLine, isrEnabled, txBusy)
    BY <2>5
  <2>6. CASE Lines("noTxFifoIe", txqeie, FALSE, txLine, rxLine, isrEnabled, txBusy)
    BY <2>6
  <2>7. CASE Lines("line", txqeie, txFifoIe, TRUE, rxLine, isrEnabled, txBusy)
    BY <2>7
  <2>8. CASE Lines("noLine", txqeie, txFifoIe, FALSE, rxLine, isrEnabled, txBusy)
    BY <2>8
  <2>9. CASE Lines("sources", txqeie, txFifoIe, txLine, rxLine, isrEnabled, txBusy)
    BY <2>9
  <2>10. CASE Lines("lines", txqeie, txFifoIe, txLine, TRUE, isrEnabled, txBusy)
    BY <2>10
  <2>11. CASE Lines("noLines", txqeie, txFifoIe, FALSE, FALSE, isrEnabled, txBusy)
    BY <2>11
  <2>12. CASE Lines("noSources", txqeie, FALSE, txLine, rxLine, isrEnabled, txBusy)
    BY <2>12
  <2>13. CASE Lines("enabled", txqeie, txFifoIe, txLine, rxLine, TRUE, txBusy)
    BY <2>13
  <2>14. CASE Lines("disabled", txqeie, txFifoIe, txLine, rxLine, FALSE, txBusy)
    BY <2>14
  <2> QED
    BY <2>1, <2>2, <2>3, <2>4, <2>5, <2>6, <2>7, <2>8, <2>9, <2>10, <2>11, <2>12, <2>13, <2>14 DEF LineSteps
<1> QED
  BY <1>2, <1>3, <1>5, <1>6 DEF CanInv, DropIsTold

\* A commit to the queue, or none for want of room.
LEMMA SendStepsKeep == ASSUME CanInv, Room \/ Put PROVE CanInv'
<1>1. CanBusy /\ UNCHANGED <<nodeVars, lineVars>> /\ rxov' = rxov /\ dropped' = dropped
      /\ (Next1 \/ CanReturn("TIMEOUT")) /\ canCall[1] \in {"room", "put"}
  BY DEF Room, Put, Doing, hwVars
<1>2. InOrder(canCall[1], After) /\ Todo = {canCall[1]} \cup After /\ RowOK' /\ Todo' \in {After, {}}
  BY <1>1, StepAtHand DEF CanInv
<1>3. NodeOK'
  BY <1>1, <1>2 DEF CanInv, NodeOK, InOrder, nodeVars, NodeNames
<1>4. ArmOK'
  <2>1. CASE Next1
    <3>1. Todo' = After
      BY <1>1, <2>1, StepAtHand DEF CanInv
    <3>2. ("notBusy" \in After <=> "notBusy" \in Todo) /\ "busy" \in After /\ "busy" \in Todo
      BY <1>1, <1>2 DEF InOrder
    <3> QED
      BY <1>1, <1>2, <3>1, <3>2 DEF CanInv, ArmOK, Coming, lineVars
  <2>2. CASE CanReturn("TIMEOUT")
    <3>1. Todo' = {}
      BY <1>1, <2>2, StepAtHand DEF CanInv
    <3>2. "notBusy" \notin Todo /\ "busy" \in Todo
      BY <1>1, <1>2 DEF InOrder
    <3> QED
      BY <1>1, <3>1, <3>2 DEF CanInv, ArmOK, Coming, lineVars
  <2> QED
    BY <1>1, <2>1, <2>2
<1> QED
  BY <1>1, <1>2, <1>3, <1>4 DEF CanInv, CanTyped, DropIsTold, nodeVars, lineVars

\* The handler disarms only what it ends, and the callback arms what it starts.
LEMMA CanHandlerKeeps == ASSUME CanInv, CanHandler PROVE CanInv'
<1>1. CASE ReadInt \/ CallbackReceive \/ CallbackEnds
  BY <1>1, CanStill DEF ReadInt, CallbackReceive, CallbackEnds, CanInv, DropIsTold, hwVars
<1>2. CASE Service
  <2>1. UNCHANGED <<nodeVars, canCall, isrEnabled>> /\ DropIsTold'
        /\ (Disarm \/ UNCHANGED <<txqeie, txFifoIe, txLine, txBusy>>)
    BY <1>2 DEF Service, Overflow, CanInv, DropIsTold
  <2>2. Todo' = Todo /\ RowOK'
    BY <2>1 DEF CanInv, Todo, RowOK
  <2>3. CanTyped' /\ ArmOK'
    <3>1. CASE Disarm
      BY <2>1, <2>2, <3>1 DEF CanInv, CanTyped, ArmOK, Coming, Disarm, nodeVars
    <3>2. CASE UNCHANGED <<txqeie, txFifoIe, txLine, txBusy>>
      BY <2>1, <2>2, <3>2 DEF CanInv, CanTyped, ArmOK, Coming, nodeVars
    <3> QED
      BY <2>1, <3>1, <3>2
  <2> QED
    BY <2>1, <2>2, <2>3 DEF CanInv, NodeOK, nodeVars
<1>3. CASE CallbackSend
  <2>1. UNCHANGED <<nodeVars, canCall, isrEnabled, rxov, dropped>>
        /\ isrEnabled /\ txBusy' = TRUE /\ txqeie' = TRUE /\ txFifoIe' = TRUE /\ txLine' = TRUE
    BY <1>3 DEF CallbackSend
  <2>2. Todo' = Todo /\ RowOK'
    BY <2>1 DEF CanInv, Todo, RowOK
  <2> QED
    BY <2>1, <2>2 DEF CanInv, CanTyped, NodeOK, ArmOK, Coming, DropIsTold, nodeVars
<1> QED
  BY <1>1, <1>2, <1>3 DEF CanHandler

LEMMA CanStepInv == CanInv /\ [CanNext]_canVars => CanInv'
<1> SUFFICES ASSUME CanInv, [CanNext]_canVars PROVE CanInv'
  OBVIOUS
<1>1. CASE CanThread
  BY <1>1, NodeStepsKeep, LineStepsKeep, SendStepsKeep DEF CanThread
<1>2. CASE CanReceive \/ CanPoll
  BY <1>2, CanStill DEF CanReceive, CanPoll, CanInv, DropIsTold
<1>3. CASE CanBus
  BY <1>3, CanStill DEF CanBus, ModeChanges, FrameSent, FrameArrives, CanHw, CanInv, DropIsTold
<1>4. CASE UNCHANGED canVars
  BY <1>4, CanStill DEF canVars, CanInv, DropIsTold, hwVars
<1> QED
  BY <1>1, <1>2, <1>3, <1>4, CanCallsKeep, CanHandlerKeeps DEF CanNext

LEMMA CanPromise == CanInv => CanSettled /\ DropIsTold
<1> SUFFICES ASSUME CanInv PROVE CanSettled /\ DropIsTold
  OBVIOUS
<1>1. CanQuiet => Todo = {}
  BY DEF CanQuiet, CanBusy, Todo
<1> QED
  BY <1>1 DEF CanInv, NodeOK, ArmOK, Coming, CanSettled

-----------------------------------------------------------------------------
(* The TDM domains.  While a start is under way, what runs is what ran      *)
(* before, the domains the call has finished and a part of the one at hand. *)

SetupSet == [Legs -> [role : Roles, shape : Shapes, domain : Domains]]
StartSet == [call : {"none", "inst", "domain", "all"}, todo : SUBSET Domains, arm : SUBSET Legs, go : SUBSET Legs,
             fresh : SUBSET Domains, before : SUBSET Legs, failed : BOOLEAN]

LegsOf(D) == {l \in Legs : setup[l].domain \in D}
WholeIn(S) == \A d \in Domains : Members(d) \cap S = {} \/ Members(d) \subseteq S
\* The legs of the domains that this call has started.
Started == IF start.call = "all" THEN LegsOf(start.fresh) ELSE {}
\* No leg of d waits to be switched on.
Aside(d) == \A l \in start.go : setup[l].domain # d

DomainsTyped ==
  /\ mode \in {"NONE", "SINGLE", "SYSTEM"} /\ opened \in BOOLEAN
  /\ configured \subseteq Legs /\ running \subseteq configured
  /\ clc \in {0} \cup Legs /\ fs \in [Legs -> {"none", "SS", "CLC"}] /\ pins \in [Legs -> {"none", "SS"}]
  /\ setup \in SetupSet /\ start \in StartSet

\* One interface configures leg 1 alone, the other all legs, with one master in a domain.
ModeOK ==
  /\ mode = "NONE" => configured = {}
  /\ mode = "SINGLE" => configured = {1}
  /\ mode = "SYSTEM" => configured = Legs
  /\ mode = "SYSTEM" => \A l, m \in Legs : l # m /\ setup[l].domain = setup[m].domain =>
                          "SLAVE" \in {setup[l].role, setup[m].role}

\* The CLC is with the leg that runs, or with one that was armed to run.
ClcOK ==
  /\ clc # 0 => pins[clc] = "SS" /\ NeedsClc(clc)
  /\ clc # 0 => clc \in running \/ (~Idle /\ ~start.failed /\ clc \in start.go \ start.arm)
  /\ \A l \in Legs : fs[l] = IF l = clc THEN "CLC" ELSE pins[l]

MastersLast ==
  /\ running # {} => opened
  /\ \A l \in running : setup[l].role = "MASTER" /\ mode = "SYSTEM" => Members(setup[l].domain) \subseteq running

CallOK ==
  /\ Idle => start.todo = {} /\ start.arm = {} /\ start.go = {} /\ start.fresh = {}
  /\ Idle /\ mode = "SYSTEM" => WholeIn(running)
  /\ ~Idle => opened /\ mode = IF start.call = "inst" THEN "SINGLE" ELSE "SYSTEM"
  /\ ~Idle /\ mode = "SYSTEM" => WholeIn(start.before)
  /\ start.call # "all" => start.todo = {}
  /\ Started \cap start.before = {}

\* A start that goes on.
GoingOK ==
  ~Idle /\ ~start.failed =>
    /\ start.arm \subseteq start.go /\ start.go \cap running = {}
    /\ start.before \cup Started \subseteq running
    /\ start.arm # {} => running = start.before \cup Started
    /\ start.call = "inst" => start.go \subseteq {1}
    /\ start.call # "inst" =>
         /\ \A l, m \in start.go : setup[l].domain = setup[m].domain
         /\ \A l \in start.go : /\ Members(setup[l].domain) \subseteq start.go \cup running
                                /\ Members(setup[l].domain) \cap start.before = {}
                                /\ start.arm # {} => Members(setup[l].domain) \subseteq start.go
         /\ \A d \in Domains : Aside(d) => ~Partial(d)
    /\ start.call = "all" =>
         /\ \A l \in start.go : setup[l].domain \in start.todo
         /\ \A d \in start.todo : /\ Members(d) # {} /\ Members(d) \cap start.before = {}
                                  /\ Aside(d) => Stopped(d)
         /\ \A m \in running : \/ m \in start.before \cup Started
                               \/ \E l \in start.go : setup[m].domain = setup[l].domain

\* One that has failed: what its domain had begun is stopped already.
FailedOK == ~Idle /\ start.failed => running = start.before \cup Started

TdmInv == DomainsTyped /\ ModeOK /\ ClcOK /\ MastersLast /\ CallOK /\ GoingOK /\ FailedOK

-----------------------------------------------------------------------------
LEMMA LeastOf ==
  ASSUME NEW T \in SUBSET Nat, T # {}
  PROVE  MinOf(T) \in T
<1> DEFINE R == OpToRel(<, Nat)
<1>1. IsWellFoundedOn(R, Nat)
  BY NatLessThanWellFounded
<1>2. \A x, y \in Nat : y < x => <<y, x>> \in R
  BY DEF OpToRel
<1>3. \E x \in T : \A y \in T : ~(<<y, x>> \in R)
  <2> HIDE DEF R
  <2> QED
    BY <1>1, WFMin
<1> HIDE DEF R
<1>4. PICK x \in T : \A y \in T : ~(<<y, x>> \in R)
  BY <1>3
<1>5. \A y \in T : ~(y < x)
  <2>1. T \subseteq Nat
    OBVIOUS
  <2> QED
    BY <1>2, <1>4, <2>1, Zenon
<1>6. \A y \in T : x <= y
  BY <1>5
<1> QED
  BY <1>4, <1>6 DEF MinOf

LEMMA LegFacts ==
  ASSUME DomainsTyped
  PROVE  /\ \A l \in Legs : /\ setup[l].domain \in Domains /\ setup[l].role \in Roles
                            /\ l \in Members(setup[l].domain)
         /\ \A d : Members(d) \subseteq Legs
         /\ \A d : \A l \in Members(d) : setup[l].domain = d
         /\ \A l, m \in Legs : setup[l].domain = setup[m].domain <=> m \in Members(setup[l].domain)
         /\ Legs \subseteq Nat /\ Domains \subseteq Nat /\ 0 \notin Legs /\ 1 \in Legs
<1>1. \A l \in Legs : setup[l].domain \in Domains /\ setup[l].role \in Roles
  BY DEF DomainsTyped, SetupSet
<1>2. Legs \subseteq Nat /\ 0 \notin Legs /\ 1 \in Legs
  BY TdmAssumption DEF Legs
<1>3. Domains \subseteq Nat
  BY TdmAssumption
<1> QED
  BY <1>1, <1>2, <1>3 DEF Members

\* While the configuration stays, so do the domains.
LEMMA SetupKept ==
  ASSUME UNCHANGED <<setup, mode>>
  PROVE  /\ \A d : Members(d)' = Members(d)
         /\ \A D : LegsOf(D)' = LegsOf(D)
         /\ \A l : NeedsClc(l)' <=> NeedsClc(l)
BY DEF Members, LegsOf, NeedsClc

LEMMA TdmInitInv == TdmInitState => TdmInv
<1> SUFFICES ASSUME TdmInitState PROVE TdmInv
  OBVIOUS
<1>1. 0 \in Domains
  BY TdmAssumption
<1>2. setup \in SetupSet
  BY <1>1 DEF TdmInitState, SetupSet, Roles, Shapes
<1>3. start \in StartSet /\ start.call = "none" /\ start.todo = {} /\ start.arm = {} /\ start.go = {} /\ start.fresh = {}
  BY DEF TdmInitState, NoStart, StartSet
<1>4. DomainsTyped
  BY <1>2, <1>3 DEF TdmInitState, DomainsTyped
<1>5. clc = 0 /\ 0 \notin Legs /\ fs = pins /\ running = {} /\ configured = {} /\ mode = "NONE"
  BY DEF TdmInitState, Legs
<1> QED
  BY <1>3, <1>4, <1>5 DEF TdmInv, ModeOK, ClcOK, MastersLast, CallOK, GoingOK, FailedOK, Idle, Started

-----------------------------------------------------------------------------
(* The calls that are one step. *)

LEMMA BetweenCalls ==
  ASSUME TdmInv, Idle, UNCHANGED start, DomainsTyped', ModeOK', ClcOK', MastersLast',
         mode' = "SYSTEM" => WholeIn(running)'
  PROVE  TdmInv'
<1>1. Idle' /\ Started' = {}
  BY DEF Idle, Started
<1>2. CallOK'
  BY <1>1 DEF TdmInv, CallOK, Idle
<1> QED
  BY <1>1, <1>2 DEF TdmInv, GoingOK, FailedOK

LEMMA ConfiguresKeep ==
  ASSUME TdmInv,
         \/ \E r \in Roles, s \in Shapes : InstConfigure(r, s)
         \/ \E new \in SetupSet : ConfigureSystem(new)
         \/ Open \/ Close
  PROVE  TdmInv'
<1>1. DomainsTyped /\ ModeOK /\ ClcOK /\ MastersLast /\ CallOK
  BY DEF TdmInv
<1>2. Idle /\ UNCHANGED <<start, running, fs, pins, clc>>
  BY DEF InstConfigure, ConfigureSystem, Open, Close
<1>3. clc # 0 => clc \in running /\ clc \in Legs
  BY <1>1, <1>2 DEF ClcOK, DomainsTyped
<1>4. CASE \E r \in Roles, s \in Shapes : InstConfigure(r, s)
  <2>1. PICK r \in Roles, s \in Shapes : InstConfigure(r, s)
    BY <1>4
  <2>2. /\ mode # "SYSTEM" /\ 1 \notin running /\ configured' = configured \cup {1} /\ mode' = "SINGLE" /\ opened' = opened
        /\ setup' = [setup EXCEPT ![1].role = r, ![1].shape = s]
    BY <2>1 DEF InstConfigure
  <2>3. 1 \in Legs
    BY <1>1, LegFacts
  <2>4. configured' = {1}
    BY <1>1, <2>2 DEF DomainsTyped, ModeOK
  <2>5. setup' \in SetupSet /\ \A l \in Legs \ {1} : setup'[l] = setup[l]
    <3> DEFINE new == [role |-> r, shape |-> s, domain |-> setup[1].domain]
    <3>1. setup \in SetupSet /\ setup[1].domain \in Domains /\ setup[1] \in [role : Roles, shape : Shapes, domain : Domains]
      BY <1>1, <2>3 DEF DomainsTyped, SetupSet
    <3>2. setup' = [setup EXCEPT ![1] = new]
      <4> DEFINE e == setup[1]
                 g == [setup EXCEPT ![1] = [e EXCEPT !.role = r]]
      <4>1. [e EXCEPT !.role = r] = [role |-> r, shape |-> e.shape, domain |-> e.domain]
        BY <3>1
      <4>2. DOMAIN g = Legs /\ g[1] = [role |-> r, shape |-> e.shape, domain |-> e.domain]
            /\ \A l \in Legs \ {1} : g[l] = setup[l]
        BY <2>3, <3>1, <4>1 DEF SetupSet
      <4>3. setup' = [g EXCEPT ![1] = [g[1] EXCEPT !.shape = s]]
        BY <2>2
      <4> HIDE DEF g
      <4>4. [g[1] EXCEPT !.shape = s] = new
        BY <4>2
      <4> QED
        BY <2>3, <3>1, <4>2, <4>3, <4>4 DEF SetupSet
    <3>3. new \in [role : Roles, shape : Shapes, domain : Domains]
      BY <2>1, <3>1
    <3> HIDE DEF new
    <3> QED
      BY <2>3, <3>1, <3>2, <3>3 DEF SetupSet
  <2>6. DomainsTyped'
    BY <1>1, <1>2, <2>2, <2>3, <2>4, <2>5 DEF DomainsTyped
  <2>7. ClcOK'
    <3>1. clc # 0 => NeedsClc(clc)'
      BY <1>1, <1>2, <1>3, <2>2, <2>5 DEF ClcOK, NeedsClc
    <3> QED
      BY <1>1, <1>2, <1>3, <3>1 DEF ClcOK
  <2>8. ModeOK' /\ MastersLast'
    BY <1>1, <1>2, <2>2, <2>4 DEF ModeOK, MastersLast
  <2> QED
    BY <1>2, <2>2, <2>6, <2>7, <2>8, BetweenCalls
<1>5. CASE \E new \in SetupSet : ConfigureSystem(new)
  <2>1. PICK new \in SetupSet : ConfigureSystem(new)
    BY <1>5
  <2>2. /\ running = {} /\ setup' = new /\ configured' = Legs /\ mode' = "SYSTEM" /\ opened' = opened
        /\ \A l, m \in Legs : l # m /\ new[l].domain = new[m].domain => "SLAVE" \in {new[l].role, new[m].role}
    BY <2>1 DEF ConfigureSystem
  <2>3. DomainsTyped'
    BY <1>1, <1>2, <2>1, <2>2 DEF DomainsTyped
  <2>4. ModeOK' /\ MastersLast' /\ WholeIn(running)'
    BY <1>2, <2>2 DEF ModeOK, MastersLast, WholeIn
  <2>5. ClcOK'
    BY <1>1, <1>2, <1>3, <2>2 DEF ClcOK
  <2> QED
    BY <1>2, <2>3, <2>4, <2>5, BetweenCalls
<1>6. CASE Open \/ Close
  <2>1. UNCHANGED <<mode, setup, configured>> /\ opened' \in BOOLEAN /\ (running # {} => opened')
    BY <1>1, <1>6 DEF Open, Close, MastersLast
  <2>2. DomainsTyped' /\ ModeOK'
    BY <1>1, <1>2, <2>1 DEF DomainsTyped, ModeOK
  <2>3. ClcOK' /\ MastersLast'
    BY <1>1, <1>2, <2>1, SetupKept DEF ClcOK, MastersLast, Idle
  <2>4. mode' = "SYSTEM" => WholeIn(running)'
    BY <1>1, <1>2, <2>1, SetupKept DEF CallOK, WholeIn
  <2> QED
    BY <1>2, <2>2, <2>3, <2>4, BetweenCalls
<1> QED
  BY <1>4, <1>5, <1>6

\* Legs that are stopped give up the CLC, and the frame-sync pin is as before.
LEMMA StopFacts ==
  ASSUME DomainsTyped, NEW S \in SUBSET Legs, StopLegs(S),
         clc # 0 => pins[clc] = "SS",
         \A l \in Legs : fs[l] = IF l = clc THEN "CLC" ELSE pins[l]
  PROVE  /\ running' = running \ S /\ clc' \in {0} \cup Legs /\ fs' \in [Legs -> {"none", "SS", "CLC"}]
         /\ \A l \in Legs : fs'[l] = IF l = clc' THEN "CLC" ELSE pins[l]
         /\ clc' # 0 => clc' = clc /\ clc \notin S
<1>1. 0 \notin Legs /\ clc \in {0} \cup Legs /\ fs \in [Legs -> {"none", "SS", "CLC"}]
  BY LegFacts DEF DomainsTyped
<1>2. CASE clc \in S
  <2>1. clc \in Legs /\ clc # 0 /\ clc' = 0 /\ fs' = [fs EXCEPT ![clc] = "SS"] /\ running' = running \ S
    BY <1>1, <1>2 DEF StopLegs, Release
  <2>2. \A l \in Legs : fs'[l] = IF l = clc THEN "SS" ELSE fs[l]
    BY <1>1, <2>1
  <2> QED
    BY <1>1, <2>1, <2>2
<1>3. CASE clc \notin S
  BY <1>1, <1>3 DEF StopLegs, Release
<1> QED
  BY <1>2, <1>3

LEMMA StopsKeep ==
  ASSUME TdmInv, (\E d \in Domains : StopDomain(d)) \/ StopAllDomains \/ InstStop
  PROVE  TdmInv'
<1>1. DomainsTyped /\ ModeOK /\ ClcOK /\ MastersLast /\ CallOK
  BY DEF TdmInv
<1>2. Idle /\ UNCHANGED <<mode, setup, configured, opened, pins, start>>
  BY DEF StopDomain, StopAllDomains, InstStop
<1>3. PICK S \in SUBSET Legs : StopLegs(S) /\ (mode = "SYSTEM" => S = Legs \/ \E d \in Domains : S = Members(d))
  <2>1. CASE StopAllDomains
    BY <2>1 DEF StopAllDomains
  <2>2. CASE InstStop
    <3>1. {1} \in SUBSET Legs
      BY <1>1, LegFacts
    <3> QED
      BY <2>2, <3>1 DEF InstStop
  <2>3. ASSUME NEW d \in Domains, StopDomain(d)
        PROVE  StopLegs(Members(d)) /\ Members(d) \in SUBSET Legs
    BY <1>1, <2>3, LegFacts DEF StopDomain
  <2> QED
    BY <2>1, <2>2, <2>3
<1>4. /\ running' = running \ S /\ clc' \in {0} \cup Legs /\ fs' \in [Legs -> {"none", "SS", "CLC"}]
      /\ \A l \in Legs : fs'[l] = IF l = clc' THEN "CLC" ELSE pins[l]
      /\ clc' # 0 => clc' = clc /\ clc \notin S
  BY <1>1, <1>3, StopFacts DEF ClcOK
<1>5. DomainsTyped' /\ ModeOK'
  BY <1>1, <1>2, <1>4 DEF DomainsTyped, ModeOK
<1>6. ClcOK'
  BY <1>1, <1>2, <1>4, SetupKept DEF ClcOK, Idle
<1>7. mode' = "SYSTEM" => WholeIn(running)'
  <2> SUFFICES ASSUME mode = "SYSTEM", NEW e \in Domains
               PROVE  Members(e) \cap running' = {} \/ Members(e) \subseteq running'
    BY <1>2, SetupKept DEF WholeIn
  <2>1. Members(e) \cap running = {} \/ Members(e) \subseteq running
    BY <1>1, <1>2 DEF CallOK, WholeIn
  <2>2. Members(e) \cap S = {} \/ Members(e) \subseteq S
    BY <1>3 DEF Members
  <2> QED
    BY <1>4, <2>1, <2>2
<1>8. MastersLast'
  <2> SUFFICES ASSUME NEW l \in running', setup[l].role = "MASTER", mode = "SYSTEM"
               PROVE  Members(setup[l].domain) \subseteq running'
    BY <1>1, <1>2, <1>4, SetupKept DEF MastersLast
  <2>1. l \in Legs /\ l \in running
    BY <1>1, <1>4 DEF DomainsTyped
  <2>2. setup[l].domain \in Domains /\ l \in Members(setup[l].domain)
    BY <1>1, <2>1, LegFacts
  <2> QED
    BY <1>2, <1>7, <2>2, SetupKept DEF WholeIn
<1> QED
  BY <1>2, <1>5, <1>6, <1>7, <1>8, BetweenCalls

-----------------------------------------------------------------------------
(* A start, step by step. *)

LEMMA StartsKeep ==
  ASSUME TdmInv, InstStart \/ (\E d \in Domains : StartDomain(d)) \/ StartAllDomains
  PROVE  TdmInv'
<1>1. DomainsTyped /\ ModeOK /\ ClcOK /\ MastersLast /\ CallOK
  BY DEF TdmInv
<1>2. Idle /\ opened /\ UNCHANGED <<mode, setup, configured, opened, running, fs, pins, clc>>
  BY DEF InstStart, StartDomain, StartAllDomains
<1>3. clc # 0 => clc \in running
  BY <1>1, <1>2 DEF ClcOK
<1>4. ModeOK' /\ ClcOK' /\ MastersLast'
  <2>1. ModeOK' /\ MastersLast'
    BY <1>1, <1>2 DEF ModeOK, MastersLast, Members
  <2>2. ClcOK'
    BY <1>1, <1>2, <1>3, SetupKept DEF ClcOK
  <2> QED
    BY <2>1, <2>2
<1>5. running \in SUBSET Legs /\ (mode = "SYSTEM" => WholeIn(running))
  BY <1>1, <1>2 DEF DomainsTyped, CallOK
<1>6. ASSUME start' \in StartSet, start'.call \in {"inst", "domain", "all"}, ~start'.failed, start'.fresh = {},
             start'.before = running, start'.arm = start'.go, start'.go \cap running = {},
             mode = IF start'.call = "inst" THEN "SINGLE" ELSE "SYSTEM",
             start'.call # "all" => start'.todo = {},
             start'.call = "inst" => start'.go = {1},
             start'.call = "domain" => \E d \in Domains : start'.go = Members(d),
             start'.call = "all" => start'.go = {} /\ \A d \in start'.todo : Members(d) # {} /\ Stopped(d)
      PROVE  TdmInv'
  <2>1. DomainsTyped'
    BY <1>1, <1>2, <1>6 DEF DomainsTyped
  <2>2. ~Idle' /\ Started' = {}
    <3>1. start'.call # "none"
      BY <1>6
    <3>2. LegsOf({}) = {} /\ LegsOf(start.fresh)' = {}
      BY <1>6 DEF LegsOf
    <3> QED
      BY <3>1, <3>2 DEF Idle, Started
  <2>3. CallOK'
    <3>1. mode' = "SYSTEM" => WholeIn(start.before)'
      BY <1>2, <1>5, <1>6, SetupKept DEF WholeIn
    <3>2. opened' /\ mode' = IF start'.call = "inst" THEN "SINGLE" ELSE "SYSTEM"
      BY <1>2, <1>6
    <3>3. Started' \cap start'.before = {}
      BY <2>2
    <3> QED
      BY <1>6, <2>2, <3>1, <3>2, <3>3 DEF CallOK
  <2>4. start'.before \cup Started' = running
    BY <1>6, <2>2
  <2>5. ASSUME start'.call # "inst"
        PROVE  /\ \A l, m \in start'.go : setup[l].domain = setup[m].domain
               /\ \A l \in start'.go : /\ Members(setup[l].domain) \subseteq start'.go
                                       /\ Members(setup[l].domain) \cap start'.before = {}
               /\ \A d \in Domains : ~Partial(d)
    <3>1. \A d \in Domains : ~Partial(d)
      BY <1>5, <1>6, <2>5 DEF WholeIn, Partial, Stopped
    <3>2. start'.go = {} \/ \E d \in Domains : start'.go = Members(d)
      BY <1>6, <2>5
    <3>3. \A d \in Domains : \A l \in Members(d) : setup[l].domain = d
      BY <1>1, LegFacts
    <3> QED
      BY <1>6, <3>1, <3>2, <3>3
  <2>6. \A d : Partial(d)' = Partial(d) /\ Stopped(d)' = Stopped(d)
    BY <1>2 DEF Partial, Stopped, Members
  <2>7. start'.call = "all" =>
          /\ \A l \in start'.go : setup[l].domain \in start'.todo
          /\ \A d \in start'.todo : Members(d) # {} /\ Members(d) \cap start'.before = {} /\ Stopped(d)
    BY <1>6 DEF Stopped
  <2>8. GoingOK'
    BY <1>2, <1>6, <2>4, <2>5, <2>6, <2>7, SetupKept DEF GoingOK
  <2> QED
    BY <1>4, <1>6, <2>1, <2>3, <2>8 DEF TdmInv, FailedOK
<1>7. CASE InstStart
  <2>1. /\ mode = "SINGLE" /\ 1 \notin running
        /\ start' = [NoStart EXCEPT !.call = "inst", !.arm = {1}, !.go = {1}, !.before = running]
    BY <1>7 DEF InstStart
  <2>2. /\ start' = [call |-> "inst", todo |-> {}, arm |-> {1}, go |-> {1}, fresh |-> {}, before |-> running, failed |-> FALSE]
    BY <2>1 DEF NoStart
  <2>3. start' \in StartSet
    BY <1>1, <1>5, <2>2, LegFacts DEF StartSet
  <2>4. /\ start'.call = "inst" /\ start'.todo = {} /\ start'.arm = {1} /\ start'.go = {1}
        /\ start'.fresh = {} /\ start'.before = running /\ ~start'.failed
    BY <2>2
  <2> QED
    BY <1>6, <2>1, <2>3, <2>4
<1>8. ASSUME NEW d \in Domains, StartDomain(d) PROVE TdmInv'
  <2>1. /\ mode = "SYSTEM" /\ Stopped(d)
        /\ start' = [NoStart EXCEPT !.call = "domain", !.arm = Members(d), !.go = Members(d), !.before = running]
    BY <1>8 DEF StartDomain
  <2>2. start' = [call |-> "domain", todo |-> {}, arm |-> Members(d), go |-> Members(d), fresh |-> {},
                  before |-> running, failed |-> FALSE]
    BY <2>1 DEF NoStart
  <2>3. start' \in StartSet
    BY <1>1, <1>5, <2>2, LegFacts DEF StartSet
  <2>4. /\ start'.call = "domain" /\ start'.todo = {} /\ start'.arm = Members(d) /\ start'.go = Members(d)
        /\ start'.fresh = {} /\ start'.before = running /\ ~start'.failed
    BY <2>2
  <2> QED
    BY <1>6, <2>1, <2>3, <2>4 DEF Stopped
<1>9. CASE StartAllDomains
  <2>1. /\ mode = "SYSTEM" /\ \A d \in {setup[l].domain : l \in configured} : Valid(d)
        /\ start' = [NoStart EXCEPT !.call = "all", !.todo = ToStart, !.before = running]
    BY <1>9 DEF StartAllDomains
  <2>2. start' = [call |-> "all", todo |-> ToStart, arm |-> {}, go |-> {}, fresh |-> {}, before |-> running, failed |-> FALSE]
    BY <2>1 DEF NoStart
  <2>3. ToStart \subseteq Domains /\ \A d \in ToStart : Members(d) # {} /\ Stopped(d)
    <3>1. \A l \in configured : setup[l].domain \in Domains
      BY <1>1, LegFacts DEF DomainsTyped
    <3> QED
      BY <2>1, <3>1 DEF ToStart, Valid
  <2>4. start' \in StartSet
    BY <1>5, <2>2, <2>3 DEF StartSet
  <2>5. /\ start'.call = "all" /\ start'.todo = ToStart /\ start'.arm = {} /\ start'.go = {}
        /\ start'.fresh = {} /\ start'.before = running /\ ~start'.failed
    BY <2>2
  <2> QED
    BY <1>6, <2>1, <2>3, <2>4, <2>5
<1> QED
  BY <1>7, <1>8, <1>9

LEMMA NextDomainKeeps == ASSUME TdmInv, NextDomain PROVE TdmInv'
<1>1. DomainsTyped /\ ModeOK /\ ClcOK /\ MastersLast /\ CallOK /\ GoingOK
  BY DEF TdmInv
<1> DEFINE d == MinOf(start.todo)
<1>2. /\ start.call = "all" /\ start.arm = {} /\ start.go = {} /\ start.todo # {} /\ ~start.failed /\ ~Idle
      /\ start' = [start EXCEPT !.arm = Members(d), !.go = Members(d)]
      /\ UNCHANGED <<mode, setup, configured, opened, running, fs, pins, clc>>
  BY DEF NextDomain, Idle
<1>3. start.todo \in SUBSET Domains /\ Members(d) \in SUBSET Legs
  BY <1>1, LegFacts DEF DomainsTyped, StartSet
<1>4. d \in start.todo /\ d \in Domains
  <2>1. start.todo \in SUBSET Nat
    BY <1>1, <1>3, LegFacts
  <2> QED
    BY <1>2, <1>3, <2>1, LeastOf
<1> HIDE DEF d
<1>5. start \in StartSet
  BY <1>1 DEF DomainsTyped
<1>6. /\ start'.call = "all" /\ start'.todo = start.todo /\ start'.arm = Members(d) /\ start'.go = Members(d)
      /\ start'.fresh = start.fresh /\ start'.before = start.before /\ start'.failed = start.failed
  BY <1>2, <1>5 DEF StartSet
<1>7. start' \in StartSet
  BY <1>2, <1>3, <1>5 DEF StartSet
<1>8. DomainsTyped' /\ ModeOK' /\ MastersLast'
  BY <1>1, <1>2, <1>7 DEF DomainsTyped, ModeOK, MastersLast, Members
<1>9. ClcOK'
  <2>1. clc # 0 => clc \in running
    BY <1>1, <1>2 DEF ClcOK
  <2> QED
    BY <1>1, <1>2, <2>1, SetupKept DEF ClcOK
<1>10. Started' = Started /\ ~Idle'
  BY <1>2, <1>6, SetupKept DEF Started, Idle
<1>11. CallOK'
  BY <1>1, <1>2, <1>6, <1>10, SetupKept DEF CallOK, WholeIn
<1>12. /\ Members(d) \cap start.before = {} /\ Members(d) \cap running = {}
       /\ running = start.before \cup Started
       /\ \A e \in Domains : ~Partial(e)
       /\ \A e \in start.todo : Members(e) # {} /\ Members(e) \cap start.before = {} /\ Stopped(e)
  <2>1. \A e : Aside(e)
    BY <1>2 DEF Aside
  <2> QED
    BY <1>1, <1>2, <1>4, <2>1 DEF GoingOK, Stopped
<1>13. \A l \in Members(d) : setup[l].domain = d
  BY <1>1, LegFacts
<1>14. \A e : Partial(e)' = Partial(e) /\ Stopped(e)' = Stopped(e)
  BY <1>2 DEF Partial, Stopped, Members
<1>15. GoingOK'
  BY <1>2, <1>4, <1>6, <1>10, <1>12, <1>13, <1>14, SetupKept DEF GoingOK
<1> QED
  BY <1>6, <1>8, <1>9, <1>11, <1>15, <1>2 DEF TdmInv, FailedOK

\* Arming a leg changes neither what runs nor what is to run.
LEMMA ArmedKept ==
  ASSUME TdmInv, ~Idle, ~start.failed, start.arm # {}, start' \in StartSet,
         start'.call = start.call, start'.todo = start.todo, start'.arm \subseteq start.arm, start'.go = start.go,
         start'.fresh = start.fresh, start'.before = start.before, start'.failed = start.failed,
         UNCHANGED <<mode, setup, configured, opened, running, pins>>,
         clc' \in {0} \cup Legs, fs' \in [Legs -> {"none", "SS", "CLC"}], ClcOK'
  PROVE  TdmInv'
<1>1. DomainsTyped /\ ModeOK /\ MastersLast /\ CallOK /\ GoingOK
  BY DEF TdmInv
<1>2. DomainsTyped' /\ ModeOK' /\ MastersLast'
  BY <1>1 DEF DomainsTyped, ModeOK, MastersLast, Members
<1>3. Started' = Started /\ ~Idle'
  BY SetupKept DEF Started, Idle
<1>4. CallOK'
  BY <1>1, <1>3, SetupKept DEF CallOK, WholeIn
<1>5. \A e : Partial(e)' = Partial(e) /\ Stopped(e)' = Stopped(e) /\ Aside(e)' = Aside(e)
  BY DEF Partial, Stopped, Members, Aside
<1>6. GoingOK'
  BY <1>1, <1>3, <1>5, SetupKept DEF GoingOK
<1> QED
  BY <1>2, <1>4, <1>6 DEF TdmInv, FailedOK

LEMMA ArmLegKeeps == ASSUME TdmInv, ArmLeg PROVE TdmInv'
<1>1. DomainsTyped /\ ModeOK /\ ClcOK /\ MastersLast /\ CallOK /\ GoingOK
  BY DEF TdmInv
<1> DEFINE l == MinOf(start.arm)
<1>2. /\ start.arm # {} /\ ~start.failed
      /\ NeedsClc(l) => Engages(l)
      /\ IF NeedsClc(l) THEN clc' = l /\ fs' = [fs EXCEPT ![l] = "CLC"] ELSE Release({l})
      /\ start' = [start EXCEPT !.arm = @ \ {l}]
      /\ UNCHANGED <<mode, setup, configured, opened, running, pins>>
  BY DEF ArmLeg
<1>3. start \in StartSet /\ start.arm \in SUBSET Legs /\ start.go \in SUBSET Legs /\ clc \in {0} \cup Legs
      /\ fs \in [Legs -> {"none", "SS", "CLC"}] /\ 0 \notin Legs
  BY <1>1, LegFacts DEF DomainsTyped, StartSet
<1>4. ~Idle
  BY <1>1, <1>2 DEF CallOK
<1>5. l \in start.arm /\ l \in Legs /\ l # 0 /\ l \in start.go
  <2>1. start.arm \in SUBSET Nat
    BY <1>1, <1>3, LegFacts
  <2>2. l \in start.arm
    BY <1>2, <2>1, LeastOf
  <2>3. start.arm \subseteq start.go
    BY <1>1, <1>2, <1>4 DEF GoingOK
  <2> QED
    BY <1>3, <2>2, <2>3
<1> HIDE DEF l
<1>6. /\ start'.call = start.call /\ start'.todo = start.todo /\ start'.arm = start.arm \ {l} /\ start'.go = start.go
      /\ start'.fresh = start.fresh /\ start'.before = start.before /\ start'.failed = start.failed
  BY <1>2, <1>3 DEF StartSet
<1>7. start' \in StartSet
  BY <1>2, <1>3 DEF StartSet
<1>8. /\ \A m \in Legs : fs[m] = IF m = clc THEN "CLC" ELSE pins[m]
      /\ clc # 0 => /\ pins[clc] = "SS" /\ NeedsClc(clc)
                    /\ clc \in running \/ clc \in start.go \ start.arm
  BY <1>1 DEF ClcOK
<1>9. CASE NeedsClc(l)
  <2>1. clc \in {0, l} /\ fs[l] = "SS" /\ clc' = l /\ fs' = [fs EXCEPT ![l] = "CLC"]
    BY <1>2, <1>9 DEF Engages
  <2>2. clc = 0 /\ pins[l] = "SS"
    BY <1>3, <1>5, <1>8, <2>1
  <2>3. \A m \in Legs : fs'[m] = IF m = l THEN "CLC" ELSE fs[m]
    BY <1>3, <1>5, <2>1
  <2>4. clc' \in {0} \cup Legs /\ fs' \in [Legs -> {"none", "SS", "CLC"}]
    BY <1>3, <1>5, <2>1
  <2>5. \A m \in Legs : fs'[m] = IF m = clc' THEN "CLC" ELSE pins[m]
    BY <1>3, <1>5, <1>8, <2>1, <2>2, <2>3
  <2>6. l \in start'.go \ start'.arm
    BY <1>5, <1>6
  <2>7. Idle' = Idle
    BY <1>6 DEF Idle
  <2>8. ClcOK'
    BY <1>2, <1>4, <1>6, <1>9, <2>1, <2>2, <2>5, <2>6, <2>7, SetupKept DEF ClcOK
  <2> QED
    BY <2>4, <2>8, <1>6, <1>7, <1>1, <1>2, <1>4, ArmedKept
<1>10. CASE ~NeedsClc(l)
  <2>1. Release({l}) /\ clc # l
    BY <1>2, <1>5, <1>8, <1>10
  <2>2. clc' = clc /\ fs' = fs
    BY <2>1 DEF Release
  <2>3. clc # 0 => clc \in running \/ clc \in start'.go \ start'.arm
    BY <1>6, <1>8
  <2>4. Idle' = Idle
    BY <1>6 DEF Idle
  <2>5. ClcOK'
    BY <1>2, <1>4, <1>6, <1>8, <2>2, <2>3, <2>4, SetupKept DEF ClcOK
  <2> QED
    BY <2>2, <2>5, <1>3, <1>6, <1>7, <1>1, <1>2, <1>4, ArmedKept
<1> QED
  BY <1>9, <1>10

\* The domain that fails to arm had nothing running, and gives back the CLC.
LEMMA ArmFailsKeeps == ASSUME TdmInv, ArmFails PROVE TdmInv'
<1>1. DomainsTyped /\ ModeOK /\ ClcOK /\ MastersLast /\ CallOK /\ GoingOK
  BY DEF TdmInv
<1> DEFINE l == MinOf(start.arm)
           d == setup[l].domain
<1>2. /\ start.arm # {} /\ ~start.failed /\ start' = [start EXCEPT !.failed = TRUE]
      /\ IF start.call = "inst" THEN UNCHANGED <<running, clc, fs>> ELSE StopLegs(Members(d))
      /\ UNCHANGED <<mode, setup, configured, opened, pins>>
  BY DEF ArmFails
<1>3. start \in StartSet /\ start.arm \in SUBSET Legs /\ clc \in {0} \cup Legs
      /\ fs \in [Legs -> {"none", "SS", "CLC"}]
  BY <1>1 DEF DomainsTyped, StartSet
<1>4. ~Idle
  BY <1>1, <1>2 DEF CallOK
<1>5. l \in start.arm /\ l \in Legs /\ l \in start.go /\ start.arm \subseteq start.go
  <2>1. start.arm \in SUBSET Nat
    BY <1>1, <1>3, LegFacts
  <2>2. l \in start.arm
    BY <1>2, <2>1, LeastOf
  <2>3. start.arm \subseteq start.go
    BY <1>1, <1>2, <1>4 DEF GoingOK
  <2> QED
    BY <1>3, <2>2, <2>3
<1>6. running = start.before \cup Started
  BY <1>1, <1>2, <1>4 DEF GoingOK
<1>7. /\ start'.call = start.call /\ start'.todo = start.todo /\ start'.fresh = start.fresh
      /\ start'.before = start.before /\ start'.failed
  BY <1>2, <1>3 DEF StartSet
<1>8. start' \in StartSet
  BY <1>2, <1>3 DEF StartSet
<1> HIDE DEF l
<1>9. /\ running' = running /\ clc' \in {0} \cup Legs /\ fs' \in [Legs -> {"none", "SS", "CLC"}]
      /\ \A m \in Legs : fs'[m] = IF m = clc' THEN "CLC" ELSE pins[m]
      /\ clc' # 0 => clc' = clc /\ clc \in running
  <2>1. CASE start.call = "inst"
    <3>1. UNCHANGED <<running, clc, fs>>
      BY <1>2, <2>1
    <3>2. start.go \subseteq {1}
      BY <1>1, <1>2, <1>4, <2>1 DEF GoingOK
    <3>3. start.go \ start.arm = {}
      BY <1>5, <3>2
    <3> QED
      BY <1>1, <1>3, <3>1, <3>3 DEF ClcOK
  <2>2. CASE start.call # "inst"
    <3>1. StopLegs(Members(d)) /\ Members(d) \in SUBSET Legs
      BY <1>1, <1>2, <2>2, LegFacts
    <3>2. /\ running' = running \ Members(d) /\ clc' \in {0} \cup Legs /\ fs' \in [Legs -> {"none", "SS", "CLC"}]
          /\ \A m \in Legs : fs'[m] = IF m = clc' THEN "CLC" ELSE pins[m]
          /\ clc' # 0 => clc' = clc /\ clc \notin Members(d)
      BY <1>1, <3>1, StopFacts DEF ClcOK
    <3>3. /\ Members(d) \subseteq start.go /\ start.go \cap running = {}
          /\ \A m \in start.go : setup[m].domain = d
      BY <1>1, <1>2, <1>4, <1>5, <2>2 DEF GoingOK
    <3>4. running' = running
      BY <3>2, <3>3
    <3>5. start.go \subseteq Members(d)
      <4>1. start.go \subseteq Legs
        BY <1>3 DEF StartSet
      <4> QED
        BY <3>3, <4>1 DEF Members
    <3>6. clc # 0 /\ clc \notin Members(d) => clc \in running
      BY <1>1, <3>5 DEF ClcOK
    <3> QED
      BY <3>2, <3>4, <3>6
  <2> QED
    BY <2>1, <2>2
<1>10. DomainsTyped' /\ ModeOK' /\ MastersLast'
  BY <1>1, <1>2, <1>8, <1>9 DEF DomainsTyped, ModeOK, MastersLast, Members
<1>11. Started' = Started /\ ~Idle'
  BY <1>2, <1>4, <1>7, SetupKept DEF Started, Idle
<1>12. CallOK'
  BY <1>1, <1>2, <1>4, <1>7, <1>11, SetupKept DEF CallOK, WholeIn
<1>13. ClcOK'
  BY <1>1, <1>2, <1>9, SetupKept DEF ClcOK
<1> QED
  BY <1>6, <1>7, <1>9, <1>10, <1>11, <1>12, <1>13 DEF TdmInv, GoingOK, FailedOK

\* The slaves of a domain run before its master; the last leg makes it whole.
LEMMA GoLegKeeps == ASSUME TdmInv, GoLeg PROVE TdmInv'
<1>1. DomainsTyped /\ ModeOK /\ ClcOK /\ MastersLast /\ CallOK /\ GoingOK
  BY DEF TdmInv
<1> DEFINE l == MinOf(GoSet)
           d == setup[l].domain
<1>2. /\ start.arm = {} /\ start.go # {} /\ ~start.failed /\ running' = running \cup {l}
      /\ start' = [start EXCEPT !.go = @ \ {l},
                                !.todo = IF start.go = {l} THEN @ \ {d} ELSE @,
                                !.fresh = IF start.go = {l} THEN @ \cup {d} ELSE @]
      /\ UNCHANGED <<mode, setup, configured, opened, fs, pins, clc>>
  BY DEF GoLeg
<1>3. start \in StartSet /\ start.go \in SUBSET Legs /\ start.todo \in SUBSET Domains /\ start.fresh \in SUBSET Domains
      /\ start.before \in SUBSET Legs
  BY <1>1 DEF DomainsTyped, StartSet
<1>4. ~Idle
  BY <1>1, <1>2 DEF CallOK
<1>5. GoSet \subseteq start.go /\ GoSet # {} /\ (\A m \in GoSet : setup[m].role # "SLAVE" => GoSet = start.go /\ \A x \in start.go : setup[x].role # "SLAVE")
  BY <1>2 DEF GoSet
<1>6. l \in GoSet /\ l \in start.go /\ l \in Legs
  <2>1. GoSet \in SUBSET Nat
    BY <1>1, <1>3, <1>5, LegFacts
  <2> QED
    BY <1>3, <1>5, <2>1, LeastOf
<1> HIDE DEF l
<1>7. d \in Domains /\ l \in Members(d) /\ Members(d) \subseteq Legs /\ \A m \in Legs : setup[m].domain = d <=> m \in Members(d)
  BY <1>1, <1>6, LegFacts DEF Members
<1> HIDE DEF d
<1>8. /\ start'.call = start.call /\ start'.arm = {} /\ start'.go = start.go \ {l}
      /\ start'.before = start.before /\ start'.failed = start.failed
      /\ start.go = {l} => start'.todo = start.todo \ {d} /\ start'.fresh = start.fresh \cup {d}
      /\ start.go # {l} => start'.todo = start.todo /\ start'.fresh = start.fresh
  BY <1>2, <1>3 DEF StartSet
<1>9. start' \in StartSet
  BY <1>2, <1>3, <1>7 DEF StartSet
<1>10. ~Idle'
  BY <1>4, <1>8 DEF Idle
<1>11. /\ start.go \cap running = {} /\ start.before \cup Started \subseteq running
       /\ start.call = "inst" => start.go \subseteq {1}
       /\ start.call # "inst" => /\ mode = "SYSTEM"
                                 /\ \A m \in start.go : setup[m].domain = d
                                 /\ Members(d) \subseteq start.go \cup running /\ Members(d) \cap start.before = {}
                                 /\ \A e \in Domains : Aside(e) => ~Partial(e)
       /\ start.call = "inst" => mode = "SINGLE"
  BY <1>1, <1>2, <1>4, <1>6 DEF GoingOK, CallOK, d
<1>12. DomainsTyped'
  <2>1. l \in configured
    BY <1>1, <1>6, <1>11 DEF ModeOK
  <2> QED
    BY <1>1, <1>2, <1>9, <2>1 DEF DomainsTyped
<1>13. ModeOK'
  BY <1>1, <1>2 DEF ModeOK
<1>14. ClcOK'
  <2>1. clc # 0 => clc \in running' \/ clc \in start'.go \ start'.arm
    BY <1>1, <1>2, <1>8 DEF ClcOK
  <2> QED
    BY <1>1, <1>2, <1>8, <1>10, <2>1, SetupKept DEF ClcOK
<1>15. MastersLast'
  <2>1. opened'
    BY <1>1, <1>2, <1>4 DEF CallOK
  <2>2. ASSUME NEW m \in running', setup[m].role = "MASTER", mode = "SYSTEM"
        PROVE  Members(setup[m].domain) \subseteq running'
    <3>1. CASE m # l
      BY <1>1, <1>2, <2>2, <3>1 DEF MastersLast
    <3>2. CASE m = l
      <4>1. \A x \in start.go : setup[x].role # "SLAVE"
        BY <1>5, <1>6, <2>2, <3>2
      <4>2. start.call # "inst"
        BY <1>11, <2>2
      <4>3. ASSUME NEW x \in start.go PROVE x = l
        <5>1. x \in Legs /\ setup[x].role # "SLAVE" /\ setup[x].domain = setup[l].domain
          BY <1>3, <1>6, <1>11, <4>1, <4>2
        <5> QED
          BY <1>1, <1>6, <2>2, <3>2, <5>1 DEF ModeOK
      <4> QED
        BY <1>2, <1>11, <3>2, <4>2, <4>3 DEF d
    <3> QED
      BY <3>1, <3>2
  <2> QED
    BY <1>2, <2>1, <2>2, SetupKept DEF MastersLast
<1>16. Started' = IF start.call = "all" /\ start.go = {l} THEN Started \cup Members(d) ELSE Started
  <2>1. start.call # "all" => Started' = {} /\ Started = {}
    BY <1>8 DEF Started
  <2>2. CASE start.call = "all" /\ start.go = {l}
    <3>1. Started' = LegsOf(start.fresh \cup {d})
      BY <1>2, <1>8, <2>2, SetupKept DEF Started
    <3>2. LegsOf(start.fresh \cup {d}) = LegsOf(start.fresh) \cup Members(d)
      BY DEF LegsOf, Members
    <3> QED
      BY <2>2, <3>1, <3>2 DEF Started
  <2>3. CASE start.call = "all" /\ start.go # {l}
    BY <1>2, <1>8, <2>3, SetupKept DEF Started
  <2> QED
    BY <2>1, <2>2, <2>3
<1>17. CallOK'
  <2>1. Started' \cap start'.before = {}
    BY <1>1, <1>8, <1>11, <1>16 DEF CallOK
  <2>2. start'.call # "all" => start'.todo = {}
    BY <1>1, <1>8 DEF CallOK
  <2> QED
    BY <1>1, <1>2, <1>4, <1>8, <1>10, <2>1, <2>2, SetupKept DEF CallOK, WholeIn
<1>18. GoingOK'
  <2>1. start'.arm \subseteq start'.go /\ start'.go \cap running' = {} /\ start'.arm = {}
    BY <1>2, <1>8, <1>11
  <2>2. start'.before \cup Started' \subseteq running'
    BY <1>2, <1>8, <1>11, <1>16
  <2>3. start'.call = "inst" => start'.go \subseteq {1}
    BY <1>8, <1>11
  <2>4. ASSUME start.call # "inst"
        PROVE  /\ \A m, x \in start'.go : setup[m].domain = setup[x].domain
               /\ \A m \in start'.go : /\ Members(setup[m].domain) \subseteq start'.go \cup running'
                                       /\ Members(setup[m].domain) \cap start'.before = {}
               /\ \A e \in Domains : Aside(e)' => ~Partial(e)'
    <3>1. ASSUME NEW e \in Domains, Aside(e)' PROVE ~Partial(e)'
      <4>1. CASE e = d
        <5>1. start.go = {l}
          BY <1>2, <1>6, <1>8, <1>11, <2>4, <3>1, <4>1 DEF Aside
        <5> QED
          BY <1>2, <1>11, <2>4, <4>1, <5>1, SetupKept DEF Partial, Stopped
      <4>2. CASE e # d
        <5>1. Aside(e)
          BY <1>11, <2>4, <4>2 DEF Aside
        <5>2. l \notin Members(e)
          BY <1>6, <1>7, <4>2 DEF Members, d
        <5> QED
          BY <1>2, <1>11, <2>4, <5>1, <5>2, SetupKept DEF Partial, Stopped
      <4> QED
        BY <4>1, <4>2
    <3> QED
      BY <1>2, <1>8, <1>11, <2>4, <3>1
  <2>5. ASSUME start.call = "all"
        PROVE  /\ \A m \in start'.go : setup[m].domain \in start'.todo
               /\ \A e \in start'.todo : /\ Members(e) # {} /\ Members(e) \cap start'.before = {}
                                         /\ Aside(e)' => Stopped(e)'
               /\ \A m \in running' : \/ m \in start'.before \cup Started'
                                      \/ \E x \in start'.go : setup[m].domain = setup[x].domain
    <3>1. /\ \A m \in start.go : setup[m].domain \in start.todo
          /\ \A e \in start.todo : /\ Members(e) # {} /\ Members(e) \cap start.before = {}
                                   /\ Aside(e) => Stopped(e)
          /\ \A m \in running : \/ m \in start.before \cup Started
                                \/ \E x \in start.go : setup[m].domain = setup[x].domain
      BY <1>1, <1>2, <1>4, <2>5 DEF GoingOK
    <3>2. start.call # "inst"
      BY <2>5
    <3>3. CASE start.go = {l}
      <4>1. start'.go = {} /\ start'.todo = start.todo \ {d} /\ Started' = Started \cup Members(d)
        BY <1>8, <1>16, <2>5, <3>3
      <4>2. ASSUME NEW e \in start'.todo PROVE Stopped(e)'
        <5>1. e \in start.todo /\ e # d
          BY <4>1
        <5>2. Aside(e)
          BY <1>11, <3>2, <5>1 DEF Aside
        <5>3. l \notin Members(e)
          BY <1>6, <5>1 DEF Members, d
        <5> QED
          BY <1>2, <3>1, <5>1, <5>2, <5>3, SetupKept DEF Stopped
      <4>3. ASSUME NEW m \in running' PROVE m \in start'.before \cup Started'
        <5>1. m = l \/ m \in running
          BY <1>2
        <5>2. m \in Legs
          BY <1>12 DEF DomainsTyped
        <5>3. m \in Members(d) \/ m \in start.before \cup Started
          BY <1>7, <1>11, <3>1, <3>2, <5>1, <5>2
        <5> QED
          BY <1>8, <4>1, <5>3
      <4> QED
        BY <1>8, <3>1, <4>1, <4>2, <4>3
    <3>4. CASE start.go # {l}
      <4>1. start'.todo = start.todo /\ Started' = Started /\ start'.go = start.go \ {l}
        BY <1>8, <1>16, <3>4
      <4>2. PICK x \in start'.go : setup[x].domain = d
        BY <1>6, <1>11, <3>2, <3>4, <4>1
      <4>3. ASSUME NEW e \in start'.todo, Aside(e)' PROVE Stopped(e)'
        <5>1. e # d
          BY <1>2, <4>2, <4>3 DEF Aside
        <5>2. Aside(e)
          BY <1>11, <3>2, <5>1 DEF Aside
        <5>3. l \notin Members(e)
          BY <1>6, <5>1 DEF Members, d
        <5> QED
          BY <1>2, <3>1, <4>1, <5>2, <5>3, SetupKept DEF Stopped
      <4>4. ASSUME NEW m \in running'
            PROVE  m \in start'.before \cup Started' \/ \E y \in start'.go : setup[m].domain = setup[y].domain
        <5>1. CASE m = l
          BY <4>2, <5>1 DEF d
        <5>2. CASE m \in running /\ m \notin start.before \cup Started
          BY <1>11, <3>1, <3>2, <4>2, <5>2
        <5> QED
          BY <1>2, <1>8, <4>1, <5>1, <5>2
      <4> QED
        BY <1>8, <3>1, <4>1, <4>3, <4>4
    <3> QED
      BY <3>3, <3>4
  <2> QED
    BY <1>2, <1>8, <2>1, <2>2, <2>3, <2>4, <2>5, SetupKept DEF GoingOK
<1> QED
  BY <1>2, <1>8, <1>12, <1>13, <1>14, <1>15, <1>17, <1>18 DEF TdmInv, FailedOK

\* What a call that failed had started is stopped again.
LEMMA UndoneIsBefore == ASSUME TdmInv, StartEnds, start.failed PROVE running' = start.before
<1>1. ~Idle /\ StopLegs(RolledBack)
  BY DEF StartEnds
<1>2. RolledBack = Started
  BY DEF RolledBack, Started, LegsOf
<1> QED
  BY <1>1, <1>2 DEF TdmInv, FailedOK, CallOK, StopLegs

LEMMA StartEndsKeeps == ASSUME TdmInv, StartEnds PROVE TdmInv'
<1>1. DomainsTyped /\ ModeOK /\ ClcOK /\ MastersLast /\ CallOK /\ GoingOK
  BY DEF TdmInv
<1>2. ~Idle /\ start' = [NoStart EXCEPT !.before = start.before, !.failed = start.failed]
      /\ UNCHANGED <<mode, setup, configured, opened, pins>>
  BY DEF StartEnds
<1>3. start' = [call |-> "none", todo |-> {}, arm |-> {}, go |-> {}, fresh |-> {}, before |-> start.before, failed |-> start.failed]
  BY <1>2 DEF NoStart
<1>4. start'.call = "none" /\ start'.todo = {} /\ start'.arm = {} /\ start'.go = {} /\ start'.fresh = {}
  BY <1>3
<1>5. start' \in StartSet
  BY <1>1, <1>3 DEF DomainsTyped, StartSet
<1>6. Idle' /\ Started' = {}
  BY <1>4 DEF Idle, Started
<1>7. /\ clc' \in {0} \cup Legs /\ fs' \in [Legs -> {"none", "SS", "CLC"}] /\ running' \subseteq running
      /\ \A m \in Legs : fs'[m] = IF m = clc' THEN "CLC" ELSE pins[m]
      /\ clc' # 0 => clc' = clc /\ clc \in running'
      /\ mode = "SYSTEM" => WholeIn(running')
  <2>1. CASE start.failed
    <3>1. running' = start.before
      BY <2>1, UndoneIsBefore
    <3>2. StopLegs(RolledBack) /\ RolledBack \in SUBSET Legs
      BY <2>1 DEF StartEnds, RolledBack
    <3>3. /\ running' = running \ RolledBack /\ clc' \in {0} \cup Legs /\ fs' \in [Legs -> {"none", "SS", "CLC"}]
          /\ \A m \in Legs : fs'[m] = IF m = clc' THEN "CLC" ELSE pins[m]
          /\ clc' # 0 => clc' = clc /\ clc \notin RolledBack
      BY <1>1, <3>2, StopFacts DEF ClcOK
    <3>4. clc # 0 => clc \in running
      BY <1>1, <2>1 DEF ClcOK
    <3>5. mode = "SYSTEM" => WholeIn(running')
      BY <1>1, <1>2, <3>1 DEF CallOK
    <3> QED
      BY <3>3, <3>4, <3>5
  <2>2. CASE ~start.failed
    <3>1. start.arm = {} /\ start.go = {} /\ UNCHANGED <<running, clc, fs>>
      BY <2>2 DEF StartEnds
    <3>2. clc # 0 => clc \in running
      BY <1>1, <3>1 DEF ClcOK
    <3>3. mode = "SYSTEM" => WholeIn(running)
      <4>1. mode = "SYSTEM" => start.call # "inst"
        BY <1>1, <1>2 DEF CallOK
      <4> QED
        BY <1>1, <1>2, <2>2, <3>1, <4>1 DEF GoingOK, Aside, WholeIn, Partial, Stopped
    <3> QED
      BY <1>1, <3>1, <3>2, <3>3 DEF DomainsTyped, ClcOK
  <2> QED
    BY <2>1, <2>2
<1>8. DomainsTyped' /\ ModeOK'
  BY <1>1, <1>2, <1>5, <1>7 DEF DomainsTyped, ModeOK
<1>9. ClcOK'
  BY <1>1, <1>2, <1>7, SetupKept DEF ClcOK
<1>10. MastersLast'
  <2> SUFFICES ASSUME NEW m \in running', setup[m].role = "MASTER", mode = "SYSTEM"
               PROVE  Members(setup[m].domain) \subseteq running'
    BY <1>1, <1>2, <1>7, SetupKept DEF MastersLast
  <2>1. m \in Legs
    BY <1>8 DEF DomainsTyped
  <2>2. setup[m].domain \in Domains /\ m \in Members(setup[m].domain)
    BY <1>1, <2>1, LegFacts
  <2> QED
    BY <1>7, <2>2 DEF WholeIn
<1>11. mode' = "SYSTEM" => WholeIn(running)'
  BY <1>2, <1>7, SetupKept DEF WholeIn
<1>12. CallOK'
  BY <1>4, <1>6, <1>11 DEF CallOK
<1> QED
  BY <1>6, <1>8, <1>9, <1>10, <1>12 DEF TdmInv, GoingOK, FailedOK

LEMMA TdmStepInv == TdmInv /\ [TdmNext]_tdmVars => TdmInv'
<1> SUFFICES ASSUME TdmInv, [TdmNext]_tdmVars PROVE TdmInv'
  OBVIOUS
<1>1. CASE UNCHANGED tdmVars
  <2>1. UNCHANGED <<mode, setup, configured, opened, running, fs, pins, clc, start>>
    BY <1>1 DEF tdmVars
  <2>2. DomainsTyped' /\ ModeOK' /\ ClcOK' /\ MastersLast'
    BY <2>1 DEF TdmInv, DomainsTyped, ModeOK, ClcOK, MastersLast, NeedsClc, Members, Idle
  <2>3. CallOK' /\ FailedOK'
    BY <2>1 DEF TdmInv, CallOK, FailedOK, Idle, WholeIn, Members, Started, LegsOf
  <2>4. GoingOK'
    BY <2>1 DEF TdmInv, GoingOK, Idle, Members, Started, LegsOf, Aside, Partial, Stopped
  <2> QED
    BY <2>2, <2>3, <2>4 DEF TdmInv
<1>2. CASE \E new \in [Legs -> [role : Roles, shape : Shapes, domain : Domains]] : ConfigureSystem(new)
  BY <1>2, ConfiguresKeep DEF SetupSet
<1> QED
  BY <1>1, <1>2, ConfiguresKeep, StopsKeep, StartsKeep, NextDomainKeeps, ArmLegKeeps, ArmFailsKeeps, GoLegKeeps,
     StartEndsKeeps DEF TdmNext

LEMMA TdmUndoes ==
  TdmInv /\ [TdmNext]_tdmVars => (~Idle /\ start'.call = "none" /\ start.failed => running' = start.before)
<1> SUFFICES ASSUME TdmInv, [TdmNext]_tdmVars, ~Idle, start'.call = "none", start.failed
             PROVE  running' = start.before
  OBVIOUS
<1>1. CASE StartEnds
  BY <1>1, UndoneIsBefore
<1>2. CASE UNCHANGED tdmVars
  BY <1>2 DEF tdmVars, Idle
<1> QED
  BY <1>1, <1>2 DEF TdmNext, InstConfigure, ConfigureSystem, Open, Close, StartDomain, StopDomain, StartAllDomains,
     StopAllDomains, InstStart, InstStop, NextDomain, ArmLeg, ArmFails, GoLeg

LEMMA TdmPromise == TdmInv => TdmTypeOK /\ DomainsAreWhole /\ ClcIsReturned
<1> SUFFICES ASSUME TdmInv PROVE TdmTypeOK /\ DomainsAreWhole /\ ClcIsReturned
  OBVIOUS
<1>1. DomainsTyped /\ ClcOK /\ MastersLast /\ CallOK
  BY DEF TdmInv
<1>2. TdmTypeOK
  BY <1>1 DEF DomainsTyped, TdmTypeOK
<1>3. DomainsAreWhole
  BY <1>1 DEF MastersLast, CallOK, WholeIn, DomainsAreWhole, Partial, Stopped
<1>4. ClcIsReturned
  BY <1>1 DEF ClcOK, ClcIsReturned
<1> QED
  BY <1>2, <1>3, <1>4

-----------------------------------------------------------------------------
(* The frame sync. *)
\* The code of a number of words that is a power of two counts that many words.
LEMMA CodesCount == \A w \in {2, 4, 8, 16, 32} : 2^FrmCnt(w) = w
<1> SUFFICES ASSUME NEW w \in {2, 4, 8, 16, 32} PROVE 2^FrmCnt(w) = w
  OBVIOUS
<1>1. 2^1 = 2 /\ 2^2 = 4 /\ 2^3 = 8 /\ 2^4 = 16 /\ 2^5 = 32
  OBVIOUS
<1>2. \E n \in 0 .. 5 : w = 2^n
  BY <1>1
<1>3. FrmCnt(w) = CHOOSE n \in 0 .. 5 : w = 2^n
  BY <1>2 DEF FrmCnt
<1> QED
  BY <1>2, <1>3

LEMMA FramesFitAll == FramesFit
<1> SUFFICES ASSUME NEW c \in FrameConfigs, IsSupported(c)
             PROVE  PinPeriod(c) = c.slots /\ (c.shape = "50PCT" /\ c.role = "MASTER" => 2 * PinHigh(c) = c.slots)
  BY DEF FramesFit
<1>1. \/ c.format = "I2S" /\ c.slots = 2
      \/ c.format = "TDM" /\ c.slots \in {4, 8, 16, 32}
  BY DEF IsSupported
<1>2. CASE ClcShapes(c)
  <2>1. c.shape = "50PCT" /\ c.role = "MASTER" /\ c.format = "TDM" /\ c.slots \in {4, 8, 16, 32}
    BY <1>1, <1>2 DEF ClcShapes
  <2>2. FsWords(c) = c.slots \div 2
    BY <2>1 DEF FsWords
  <2>3. FsWords(c) \in {2, 4, 8, 16} /\ 2 * FsWords(c) = c.slots
    BY <2>1, <2>2
  <2>4. SpiPeriod(c) = FsWords(c)
    BY <2>3, CodesCount DEF SpiPeriod
  <2>a. ~WordWide(c)
    BY <2>1 DEF WordWide
  <2>5. PinPeriod(c) = 2 * SpiPeriod(c) /\ PinHigh(c) = SpiPeriod(c)
    BY <1>2, <2>a DEF PinPeriod, PinHigh
  <2> QED
    BY <2>3, <2>4, <2>5
<1>3. CASE ~ClcShapes(c)
  <2>1. FsWords(c) = c.slots /\ c.slots \in {2, 4, 8, 16, 32}
    BY <1>1, <1>3 DEF ClcShapes, FsWords
  <2>2. PinPeriod(c) = c.slots
    BY <1>3, <2>1, CodesCount DEF SpiPeriod, PinPeriod
  <2>3. c.shape = "50PCT" /\ c.role = "MASTER" => WordWide(c) /\ c.slots = 2
    BY <1>1, <1>3 DEF ClcShapes, WordWide
  <2>4. WordWide(c) => PinHigh(c) = 1
    BY <1>3 DEF PinHigh
  <2> QED
    BY <2>2, <2>3, <2>4
<1> QED
  BY <1>2, <1>3

-----------------------------------------------------------------------------
(* One TDM stream.  A half that was received is with the callback's counts, *)
(* lost, or noted in a status that the handler has read or will read.       *)

Noted(S, e) == IF e \in S THEN 1 ELSE 0
Noting(S) == Noted(S, "HALF") + Noted(S, "DONE")

StreamTyped ==
  /\ on \in BOOLEAN /\ dmaIf \in BOOLEAN /\ dmaIe \in BOOLEAN
  /\ pos \in 0..3 /\ stat \subseteq Events /\ snap \subseteq Events
  /\ handler \in {"off", "read", "wipe", "map", "call"}
  /\ diag \in [blocks : Nat, misses : Nat, others : Nat]
  /\ halves \in [made : 0..MaxHalves, unseen : Nat, skipped : Nat, hushed : 0..2]
  /\ reader \in [step : {"none", "first", "second"}, ie : BOOLEAN, blocks : Nat]

\* While a half is being handed over, the handler holds it and the status may hold the next.
Accounted ==
  halves.made = diag.blocks + diag.misses + halves.skipped + halves.unseen
                + Noting(stat) + (IF handler = "map" THEN Noting(snap) ELSE 0)

\* Whatever came since the handler read the status has raised the flag again.
Announced ==
  /\ handler = "wipe" => snap \subseteq stat /\ (stat \ snap # {} => dmaIf)
  /\ handler \in {"map", "call"} => halves.hushed = 0 /\ (stat # {} => dmaIf)
  /\ handler = "off" /\ ~dmaIf => Noting(stat) = halves.hushed

\* The half that was received last is the one the channel has just left.
InTime ==
  halves.unseen = 0 =>
    /\ stat = {"HALF"} => pos \in {2, 3}
    /\ stat = {"DONE"} => pos \in {0, 1}
    /\ handler = "wipe" /\ stat = Events =>
         /\ snap = {"HALF"} => pos \in {0, 1}
         /\ snap = {"DONE"} => pos \in {2, 3}

Masking == reader.step # "none" => ~dmaIe /\ handler = "off"

StreamInv == StreamTyped /\ Accounted /\ Announced /\ InTime /\ Masking /\ ReadingIsWhole

-----------------------------------------------------------------------------
LEMMA NotingCounts ==
  ASSUME NEW S \in SUBSET Events
  PROVE  Cardinality(S) = Noting(S) /\ Noting(S) \in 0 .. 2
<1>1. S = {} \/ S = {"HALF"} \/ S = {"DONE"} \/ S = {"HALF", "DONE"}
  BY DEF Events
<1>2. CASE S = {}
  BY <1>2, FS_EmptySet DEF Noting, Noted
<1>3. CASE S = {"HALF"}
  BY <1>3, FS_Singleton DEF Noting, Noted
<1>4. CASE S = {"DONE"}
  <2>1. Cardinality({"DONE"}) = 1
    BY FS_Singleton
  <2>2. "HALF" \notin S /\ "DONE" \in S
    BY <1>4
  <2> QED
    BY <1>4, <2>1, <2>2 DEF Noting, Noted
<1>5. CASE S = {"HALF", "DONE"}
  <2>1. IsFiniteSet({"HALF"}) /\ Cardinality({"HALF"}) = 1
    BY FS_Singleton
  <2>2. S = {"HALF"} \cup {"DONE"}
    BY <1>5
  <2>3. Cardinality(S) = 2
    BY <2>1, <2>2, FS_AddElement
  <2> QED
    BY <1>5, <2>3 DEF Noting, Noted
<1> QED
  BY <1>1, <1>2, <1>3, <1>4, <1>5

LEMMA UnseenType ==
  ASSUME NEW M, NEW h \in [made : M, unseen : Nat, skipped : Nat, hushed : 0..2], NEW x \in Nat
  PROVE  [h EXCEPT !.unseen = x, !.hushed = 0] \in [made : M, unseen : Nat, skipped : Nat, hushed : 0..2]
<1>1. [h EXCEPT !.unseen = x] \in [made : M, unseen : Nat, skipped : Nat, hushed : 0..2]
  OBVIOUS
<1>2. \A g \in [made : M, unseen : Nat, skipped : Nat, hushed : 0..2] :
         [g EXCEPT !.hushed = 0] \in [made : M, unseen : Nat, skipped : Nat, hushed : 0..2]
  OBVIOUS
<1>3. [h EXCEPT !.unseen = x, !.hushed = 0] = [[h EXCEPT !.unseen = x] EXCEPT !.hushed = 0]
  OBVIOUS
<1> QED
  BY <1>1, <1>2, <1>3

LEMMA StreamInitInv == StreamInitState => StreamInv
<1> SUFFICES ASSUME StreamInitState PROVE StreamInv
  OBVIOUS
<1>1. MaxHalves \in Nat
  BY StreamAssumption
<1>2. StreamTyped
  <2>1. NoHalves \in [made : 0..MaxHalves, unseen : Nat, skipped : Nat, hushed : 0..2]
    BY <1>1 DEF NoHalves
  <2>2. NoCounts \in [blocks : Nat, misses : Nat, others : Nat]
    BY DEF NoCounts
  <2>3. NotReading \in [step : {"none", "first", "second"}, ie : BOOLEAN, blocks : Nat]
    BY DEF NotReading
  <2>4. on \in BOOLEAN /\ dmaIf \in BOOLEAN /\ dmaIe \in BOOLEAN
    BY DEF StreamInitState
  <2>5. pos \in 0..3
    BY DEF StreamInitState
  <2> QED
    BY <2>1, <2>2, <2>3, <2>4, <2>5 DEF StreamInitState, StreamTyped
<1> QED
  BY <1>2 DEF StreamInitState, StreamInv, Accounted, Announced, InTime, Masking, ReadingIsWhole, Noting, Noted,
              NoCounts, NoHalves, NotReading

\* The channel passes the middle or the end of its buffer, or neither.
LEMMA TransferKeeps == ASSUME StreamInv, Transfer PROVE StreamInv'
<1>1. StreamTyped /\ Accounted /\ Announced /\ InTime /\ Masking /\ ReadingIsWhole
  BY DEF StreamInv
<1>2. /\ pos' = (pos + 1) % 4 /\ stat' = stat \cup Crossed /\ dmaIf' = (dmaIf \/ Crossed # {})
      /\ UNCHANGED <<on, dmaIe, handler, snap, diag, reader>>
      /\ halves' = [halves EXCEPT !.made = @ + Cardinality(Crossed), !.unseen = @ + Cardinality(Crossed \cap stat)]
      /\ Crossed # {} => halves.made < MaxHalves
  BY DEF Transfer
<1>3. Crossed \in SUBSET Events /\ Crossed \cap stat \in SUBSET Events /\ stat \in SUBSET Events
  BY <1>1 DEF Crossed, Events, StreamTyped
<1>4. Cardinality(Crossed) = Noting(Crossed) /\ Cardinality(Crossed \cap stat) = Noting(Crossed \cap stat)
  BY <1>3, NotingCounts
<1>5. MaxHalves \in Nat /\ halves.made \in 0..MaxHalves /\ halves.unseen \in Nat /\ halves.skipped \in Nat
      /\ diag.blocks \in Nat /\ diag.misses \in Nat
  BY <1>1, StreamAssumption DEF StreamTyped
<1>6. /\ halves'.made = halves.made + Noting(Crossed) /\ halves'.unseen = halves.unseen + Noting(Crossed \cap stat)
      /\ halves'.skipped = halves.skipped /\ halves'.hushed = halves.hushed
      /\ DOMAIN halves' = DOMAIN halves
  BY <1>1, <1>2, <1>4 DEF StreamTyped
<1>7. /\ Noting(stat') = Noting(stat) + Noting(Crossed) - Noting(Crossed \cap stat)
      /\ Noting(stat) \in Nat /\ Noting(Crossed) \in 0..1 /\ Noting(Crossed \cap stat) \in 0..1
      /\ Crossed = {} => Noting(Crossed) = 0
      /\ Crossed \cap stat = {} <=> Noting(Crossed \cap stat) = 0
  BY <1>1, <1>2 DEF Crossed, Noting, Noted, StreamTyped
<1>8. StreamTyped'
  <2>1. halves' \in [made : 0..MaxHalves, unseen : Nat, skipped : Nat, hushed : 0..2]
    <3>1. halves.made + Noting(Crossed) \in 0..MaxHalves /\ halves.unseen + Noting(Crossed \cap stat) \in Nat
      BY <1>2, <1>5, <1>7
    <3> QED
      BY <1>1, <1>2, <1>4, <3>1 DEF StreamTyped
  <2>2. pos' \in 0..3 /\ stat' \subseteq Events /\ dmaIf' \in BOOLEAN
    BY <1>1, <1>2, <1>3 DEF StreamTyped
  <2> QED
    BY <1>1, <1>2, <2>1, <2>2 DEF StreamTyped
<1>9. Accounted'
  <2>1. (Noting(snap))' = Noting(snap) /\ Noting(snap) \in 0..2 /\ handler' = handler
    BY <1>1, <1>2 DEF Noting, Noted
  <2> QED
    BY <1>1, <1>2, <1>5, <1>6, <1>7, <2>1 DEF Accounted
<1>10. Announced'
  <2>1. Crossed = {} => stat' = stat
    BY <1>2
  <2> QED
    BY <1>1, <1>2, <1>6, <2>1 DEF Announced, Noting, Noted
<1>11. InTime'
  <2> SUFFICES ASSUME halves'.unseen = 0 PROVE InTime'
    BY DEF InTime
  <2>1. halves.unseen = 0 /\ Crossed \cap stat = {}
    BY <1>5, <1>6, <1>7
  <2>2. pos = 0 \/ pos = 1 \/ pos = 2 \/ pos = 3
    BY <1>1 DEF StreamTyped
  <2>3. CASE pos = 0 \/ pos = 2
    <3>1. stat' = stat /\ pos' = pos + 1 /\ handler' = handler /\ snap' = snap
      BY <1>2, <2>3 DEF Crossed
    <3> QED
      BY <1>1, <2>1, <2>3, <3>1 DEF InTime
  <2>4. CASE pos = 1
    <3>1. stat' = stat \cup {"HALF"} /\ pos' = 2 /\ handler' = handler /\ snap' = snap /\ "HALF" \notin stat
      BY <1>2, <2>1, <2>4 DEF Crossed
    <3>2. handler = "wipe" => snap \subseteq stat
      BY <1>1 DEF Announced
    <3> QED
      BY <1>1, <3>1, <3>2 DEF InTime
  <2>5. CASE pos = 3
    <3>1. stat' = stat \cup {"DONE"} /\ pos' = 0 /\ handler' = handler /\ snap' = snap /\ "DONE" \notin stat
      BY <1>2, <2>1, <2>5 DEF Crossed
    <3>2. handler = "wipe" => snap \subseteq stat
      BY <1>1 DEF Announced
    <3> QED
      BY <1>1, <3>1, <3>2 DEF InTime
  <2> QED
    BY <2>2, <2>3, <2>4, <2>5
<1> QED
  BY <1>1, <1>2, <1>8, <1>9, <1>10, <1>11 DEF StreamInv, Masking, ReadingIsWhole

\* The handler up to the read of the status, and its return.
LEMMA SnapshotKeeps == ASSUME StreamInv, HandlerEnters \/ HandlerReads \/ HandlerReturns PROVE StreamInv'
<1>1. StreamTyped /\ Accounted /\ Announced /\ InTime /\ Masking /\ ReadingIsWhole
  BY DEF StreamInv
<1>2. /\ UNCHANGED <<on, pos, stat, dmaIe, diag, halves, reader>>
      /\ \/ handler = "off" /\ dmaIe /\ handler' = "read" /\ dmaIf' = FALSE /\ snap' = snap
         \/ handler = "read" /\ handler' = "wipe" /\ snap' = stat /\ dmaIf' = dmaIf
         \/ handler = "call" /\ handler' = "off" /\ snap' = snap /\ dmaIf' = dmaIf
  BY DEF HandlerEnters, Enters, FlagCleared, HandlerReads, HandlerReturns
<1>3. StreamTyped'
  BY <1>1, <1>2 DEF StreamTyped
<1>4. Accounted'
  BY <1>1, <1>2 DEF Accounted, Noting, Noted
<1>5. Announced'
  BY <1>1, <1>2 DEF Announced, Noting, Noted
<1>6. InTime'
  BY <1>1, <1>2 DEF InTime, Events
<1>7. Masking' /\ ReadingIsWhole'
  BY <1>1, <1>2 DEF Masking, ReadingIsWhole
<1> QED
  BY <1>3, <1>4, <1>5, <1>6, <1>7 DEF StreamInv

\* The status is cleared: what came since the read stays, or was never seen.
LEMMA WipeKeeps == ASSUME StreamInv, HandlerWipes PROVE StreamInv'
<1>1. StreamTyped /\ Accounted /\ Announced /\ InTime /\ Masking /\ ReadingIsWhole
  BY DEF StreamInv
<1>2. /\ handler = "wipe" /\ handler' = "map" /\ UNCHANGED <<on, pos, dmaIe, dmaIf, snap, diag, reader>>
      /\ \/ stat' = {} /\ halves' = [halves EXCEPT !.unseen = @ + Cardinality(stat \ snap), !.hushed = 0]
         \/ stat' = stat \ snap /\ halves' = [halves EXCEPT !.hushed = 0]
  BY DEF HandlerWipes, Wiped
<1>3. snap \subseteq stat /\ stat \subseteq Events /\ stat \ snap \in SUBSET Events
  BY <1>1, <1>2 DEF StreamTyped, Announced
<1>4. Cardinality(stat \ snap) = Noting(stat \ snap)
  BY <1>3, NotingCounts
<1>5. Noting(stat) = Noting(snap) + Noting(stat \ snap) /\ Noting(snap) \in Nat /\ Noting(stat \ snap) \in 0..2
      /\ Noting({}) = 0 /\ (Noting(stat \ snap) = 0 => stat = snap)
  <2>1. \A e \in {"HALF", "DONE"} :
          /\ Noted(stat, e) = Noted(snap, e) + Noted(stat \ snap, e)
          /\ Noted(snap, e) \in 0..1 /\ Noted(stat \ snap, e) \in 0..1 /\ Noted({}, e) = 0
          /\ Noted(stat \ snap, e) = 0 => (e \in stat => e \in snap)
    BY <1>3 DEF Noted
  <2>2. Noting(stat \ snap) = 0 => \A e \in {"HALF", "DONE"} : Noted(stat \ snap, e) = 0
    BY <2>1 DEF Noting
  <2>3. Noting(stat \ snap) = 0 => stat = snap
    BY <1>3, <2>1, <2>2 DEF Events
  <2> QED
    BY <2>1, <2>3 DEF Noting
<1>6. halves.unseen \in Nat /\ halves.made \in Nat /\ halves.skipped \in Nat /\ diag.blocks \in Nat /\ diag.misses \in Nat
  BY <1>1, StreamAssumption DEF StreamTyped
<1>7. /\ halves'.made = halves.made /\ halves'.skipped = halves.skipped /\ halves'.hushed = 0
      /\ \/ stat' = {} /\ halves'.unseen = halves.unseen + Noting(stat \ snap)
         \/ stat' = stat \ snap /\ halves'.unseen = halves.unseen
  BY <1>1, <1>2, <1>4 DEF StreamTyped
<1>8. halves' \in [made : 0..MaxHalves, unseen : Nat, skipped : Nat, hushed : 0..2]
  <2>1. halves.unseen + Noting(stat \ snap) \in Nat
    BY <1>5, <1>6
  <2>2. \A x \in Nat : [halves EXCEPT !.unseen = x, !.hushed = 0]
                        \in [made : 0..MaxHalves, unseen : Nat, skipped : Nat, hushed : 0..2]
    BY <1>1, UnseenType DEF StreamTyped
  <2>3. [halves EXCEPT !.hushed = 0] \in [made : 0..MaxHalves, unseen : Nat, skipped : Nat, hushed : 0..2]
    BY <1>1 DEF StreamTyped
  <2>4. CASE halves' = [halves EXCEPT !.unseen = @ + Cardinality(stat \ snap), !.hushed = 0]
    <3>1. halves' = [halves EXCEPT !.unseen = halves.unseen + Noting(stat \ snap), !.hushed = 0]
      BY <1>4, <2>4
    <3> QED
      BY <2>1, <2>2, <3>1
  <2> QED
    BY <1>2, <2>3, <2>4
<1>9. StreamTyped'
  BY <1>1, <1>2, <1>3, <1>8 DEF StreamTyped
<1>10. Accounted'
  <2>1. Noting(snap)' = Noting(snap) /\ handler' = "map" /\ diag' = diag
    BY <1>2 DEF Noting, Noted
  <2>2. halves.made = diag.blocks + diag.misses + halves.skipped + halves.unseen + Noting(snap) + Noting(stat \ snap)
    BY <1>1, <1>2, <1>5, <1>6 DEF Accounted
  <2>3. CASE stat' = {} /\ halves'.unseen = halves.unseen + Noting(stat \ snap)
    BY <1>5, <1>6, <1>7, <2>1, <2>2, <2>3 DEF Accounted
  <2>4. CASE stat' = stat \ snap /\ halves'.unseen = halves.unseen
    BY <1>5, <1>6, <1>7, <2>1, <2>2, <2>4 DEF Accounted
  <2> QED
    BY <1>7, <2>3, <2>4
<1>11. Announced'
  BY <1>1, <1>2, <1>7 DEF Announced
<1>12. InTime'
  <2> SUFFICES ASSUME halves'.unseen = 0 PROVE InTime'
    BY DEF InTime
  <2>1. halves.unseen = 0 /\ (stat' = {} \/ stat' = stat \ snap)
    BY <1>5, <1>6, <1>7
  <2>2. stat' = {"HALF"} => stat = {"HALF"} \/ (stat = Events /\ snap = {"DONE"})
    BY <1>3, <2>1 DEF Events
  <2>3. stat' = {"DONE"} => stat = {"DONE"} \/ (stat = Events /\ snap = {"HALF"})
    BY <1>3, <2>1 DEF Events
  <2> QED
    BY <1>1, <1>2, <2>1, <2>2, <2>3 DEF InTime
<1> QED
  BY <1>1, <1>2, <1>9, <1>10, <1>11, <1>12 DEF StreamInv, Masking, ReadingIsWhole

\* What the snapshot held is handed over, missed or skipped.
LEMMA MapKeeps == ASSUME StreamInv, HandlerMaps PROVE StreamInv'
<1>1. StreamTyped /\ Accounted /\ Announced /\ InTime /\ Masking /\ ReadingIsWhole
  BY DEF StreamInv
<1>2. PICK dst \in Destinations :
        LET skip == Source # "NONE" /\ dst = "NONE"
            block == Source # "NONE" /\ dst # "NONE"
        IN  /\ diag' = [blocks |-> diag.blocks + (IF block THEN 1 ELSE 0),
                        misses |-> diag.misses + (IF Late THEN 1 ELSE 0),
                        others |-> diag.others + (IF Source = "NONE" THEN 1 ELSE 0)]
            /\ halves' = [halves EXCEPT !.skipped = @ + (IF skip THEN 1 ELSE 0)]
            /\ handler' = IF block THEN "call" ELSE "off"
  BY DEF HandlerMaps
<1>3. handler = "map" /\ UNCHANGED <<on, pos, stat, dmaIf, dmaIe, snap, reader>>
  BY DEF HandlerMaps
<1> DEFINE given == IF Source # "NONE" /\ dst # "NONE" THEN 1 ELSE 0
           skips == IF Source # "NONE" /\ dst = "NONE" THEN 1 ELSE 0
           missed == IF Late THEN 1 ELSE 0
           empty == IF Source = "NONE" THEN 1 ELSE 0
<1>4. given \in 0..1 /\ skips \in 0..1 /\ missed \in 0..1 /\ empty \in 0..1
  OBVIOUS
<1>5. given + skips + missed = Noting(snap)
  <2>a. snap \in SUBSET Events
    BY <1>1 DEF StreamTyped
  <2>1. snap = {} \/ snap = {"HALF"} \/ snap = {"DONE"} \/ snap = {"HALF", "DONE"}
    BY <2>a DEF Events
  <2>2. CASE snap = {}
    <3>1. Source = "NONE" /\ ~Late
      BY <2>2 DEF Source, Late, Events
    <3> QED
      BY <2>2, <3>1 DEF Noting, Noted
  <2>3. CASE snap = {"HALF"}
    <3>1. Source = "FIRST" /\ ~Late
      BY <2>3 DEF Source, Late, Events
    <3> QED
      BY <2>3, <3>1 DEF Noting, Noted
  <2>4. CASE snap = {"DONE"}
    <3>1. Source = "SECOND" /\ ~Late
      BY <2>4 DEF Source, Late, Events
    <3> QED
      BY <2>4, <3>1 DEF Noting, Noted
  <2>5. CASE snap = {"HALF", "DONE"}
    <3>1. Source = "SECOND" /\ Late
      BY <2>5 DEF Source, Late, Events
    <3> QED
      BY <2>5, <3>1 DEF Noting, Noted
  <2> QED
    BY <2>1, <2>2, <2>3, <2>4, <2>5
<1>6. /\ diag' = [blocks |-> diag.blocks + given, misses |-> diag.misses + missed, others |-> diag.others + empty]
      /\ halves' = [halves EXCEPT !.skipped = @ + skips]
      /\ handler' \in {"call", "off"}
  BY <1>2
<1> HIDE DEF given, skips, missed, empty
<1>7. /\ halves.made \in 0..MaxHalves /\ halves.unseen \in Nat /\ halves.skipped \in Nat
      /\ diag.blocks \in Nat /\ diag.misses \in Nat /\ diag.others \in Nat
  BY <1>1 DEF StreamTyped
<1>8. StreamTyped'
  <2>1. diag' \in [blocks : Nat, misses : Nat, others : Nat]
    BY <1>4, <1>6, <1>7
  <2>2. halves' \in [made : 0..MaxHalves, unseen : Nat, skipped : Nat, hushed : 0..2]
    BY <1>1, <1>4, <1>6, <1>7 DEF StreamTyped
  <2> QED
    BY <1>1, <1>3, <1>6, <2>1, <2>2 DEF StreamTyped
<1>9. /\ halves'.made = halves.made /\ halves'.unseen = halves.unseen /\ halves'.hushed = halves.hushed
      /\ halves'.skipped = halves.skipped + skips
      /\ diag'.blocks = diag.blocks + given /\ diag'.misses = diag.misses + missed
  BY <1>1, <1>6 DEF StreamTyped
<1>10. Noting(stat)' = Noting(stat) /\ Noting(stat) \in 0..2 /\ Noting(snap) \in 0..2
  BY <1>3 DEF Noting, Noted
<1>11. Accounted'
  <2>1. halves.made = diag.blocks + diag.misses + halves.skipped + halves.unseen + Noting(stat) + Noting(snap)
    BY <1>1, <1>3 DEF Accounted
  <2>2. halves'.made = diag'.blocks + diag'.misses + halves'.skipped + halves'.unseen + Noting(stat) + 0
    BY <1>4, <1>5, <1>7, <1>9, <1>10, <2>1, StreamAssumption
  <2> QED
    BY <1>6, <1>10, <2>2 DEF Accounted
<1>12. Announced'
  <2>1. halves.hushed = 0 /\ (stat # {} => dmaIf)
    BY <1>1, <1>3 DEF Announced
  <2>2. stat = {} => Noting(stat) = 0
    BY DEF Noting, Noted
  <2> QED
    BY <1>3, <1>6, <1>9, <1>10, <2>1, <2>2 DEF Announced
<1>13. InTime'
  BY <1>1, <1>3, <1>6, <1>9 DEF InTime
<1>14. Masking' /\ ReadingIsWhole'
  BY <1>1, <1>3 DEF Masking, ReadingIsWhole
<1> QED
  BY <1>8, <1>11, <1>12, <1>13, <1>14 DEF StreamInv

\* The thread's calls.
LEMMA StreamCallsKeep == ASSUME StreamInv, StartStream \/ StopStream \/ \E b \in BOOLEAN : SetBlockIrq(b)
                         PROVE  StreamInv'
<1>1. StreamTyped /\ Accounted /\ Announced /\ InTime /\ Masking /\ ReadingIsWhole
  BY DEF StreamInv
<1>2. handler = "off" /\ handler' = "off" /\ snap' = snap /\ reader' = reader /\ reader.step = "none"
  BY DEF StartStream, StopStream, SetBlockIrq, Thread
<1>3. Masking' /\ ReadingIsWhole'
  BY <1>2 DEF Masking, ReadingIsWhole
<1>4. Noting({}) = 0
  BY DEF Noting, Noted
<1>5. CASE StartStream
  <2>1. on' = TRUE /\ pos' = 0 /\ stat' = {} /\ dmaIf' = FALSE /\ dmaIe' = TRUE /\ diag' = NoCounts /\ halves' = NoHalves
    BY <1>5 DEF StartStream, ChannelsConfigured
  <2>2. StreamTyped'
    <3>1. NoHalves \in [made : 0..MaxHalves, unseen : Nat, skipped : Nat, hushed : 0..2]
      BY StreamAssumption DEF NoHalves
    <3>2. NoCounts \in [blocks : Nat, misses : Nat, others : Nat]
      BY DEF NoCounts
    <3>3. on' \in BOOLEAN /\ dmaIf' \in BOOLEAN /\ dmaIe' \in BOOLEAN /\ stat' \subseteq Events
      BY <2>1
    <3>4. pos' \in 0..3
      BY <2>1
    <3> QED
      BY <1>1, <1>2, <2>1, <3>1, <3>2, <3>3, <3>4 DEF StreamTyped
  <2> QED
    BY <1>2, <1>3, <1>4, <2>1, <2>2 DEF StreamInv, Accounted, Announced, InTime, NoCounts, NoHalves
<1>6. CASE StopStream
  <2>1. /\ on' = FALSE /\ dmaIe' = FALSE /\ stat' = {} /\ dmaIf' = FALSE /\ pos' = pos /\ diag' = diag
        /\ halves' = [halves EXCEPT !.unseen = @ + Cardinality(stat), !.hushed = 0]
    BY <1>6 DEF StopStream, ChannelsStopped, FlagsCleared
  <2>2. Cardinality(stat) = Noting(stat) /\ Noting(stat) \in 0..2
    BY <1>1, NotingCounts DEF StreamTyped
  <2>3. halves.unseen \in Nat /\ halves.made \in Nat /\ halves.skipped \in Nat /\ diag.blocks \in Nat /\ diag.misses \in Nat
    BY <1>1, StreamAssumption DEF StreamTyped
  <2>4. /\ halves'.made = halves.made /\ halves'.skipped = halves.skipped /\ halves'.hushed = 0
        /\ halves'.unseen = halves.unseen + Noting(stat)
    BY <1>1, <2>1, <2>2 DEF StreamTyped
  <2>5. halves' \in [made : 0..MaxHalves, unseen : Nat, skipped : Nat, hushed : 0..2]
    <3>1. halves.unseen + Noting(stat) \in Nat
      BY <2>2, <2>3
    <3>2. \A x \in Nat : [halves EXCEPT !.unseen = x, !.hushed = 0]
                          \in [made : 0..MaxHalves, unseen : Nat, skipped : Nat, hushed : 0..2]
      BY <1>1, UnseenType DEF StreamTyped
    <3>3. halves' = [halves EXCEPT !.unseen = halves.unseen + Noting(stat), !.hushed = 0]
      BY <2>1, <2>2
    <3> QED
      BY <3>1, <3>2, <3>3
  <2>6. StreamTyped'
    BY <1>1, <1>2, <2>1, <2>5 DEF StreamTyped
  <2>7. Accounted'
    <3>1. halves.made = diag.blocks + diag.misses + halves.skipped + halves.unseen + Noting(stat) + 0
      BY <1>1, <1>2 DEF Accounted
    <3> QED
      <4>1. Noting(stat)' = 0 /\ diag' = diag /\ handler' # "map"
        BY <1>2, <1>4, <2>1
      <4>2. halves'.made = diag.blocks + diag.misses + halves'.skipped + halves'.unseen + 0 + 0
        BY <2>2, <2>3, <2>4, <3>1
      <4> QED
        BY <4>1, <4>2 DEF Accounted
  <2> QED
    BY <1>2, <1>3, <1>4, <2>1, <2>4, <2>6, <2>7 DEF StreamInv, Announced, InTime
<1>7. ASSUME NEW b \in BOOLEAN, SetBlockIrq(b) PROVE StreamInv'
  <2>1. /\ dmaIe' = b /\ dmaIf' = (dmaIf /\ ~b) /\ UNCHANGED <<on, pos, stat, diag>>
        /\ halves' = [halves EXCEPT !.hushed = IF b THEN Cardinality(stat) ELSE @]
    BY <1>7 DEF SetBlockIrq
  <2>2. Cardinality(stat) = Noting(stat) /\ Noting(stat) \in 0..2
    BY <1>1, NotingCounts DEF StreamTyped
  <2>3. /\ halves'.made = halves.made /\ halves'.skipped = halves.skipped /\ halves'.unseen = halves.unseen
        /\ halves'.hushed = IF b THEN Noting(stat) ELSE halves.hushed
    BY <1>1, <2>1, <2>2 DEF StreamTyped
  <2>4. halves' \in [made : 0..MaxHalves, unseen : Nat, skipped : Nat, hushed : 0..2]
    BY <1>1, <2>1, <2>2 DEF StreamTyped
  <2>5. dmaIe' \in BOOLEAN /\ dmaIf' \in BOOLEAN
    BY <1>1, <1>7, <2>1 DEF StreamTyped
  <2>6. StreamTyped'
    BY <1>1, <1>2, <2>1, <2>4, <2>5 DEF StreamTyped
  <2>7. Noting(stat)' = Noting(stat)
    BY <2>1 DEF Noting, Noted
  <2>8. Accounted'
    BY <1>1, <1>2, <2>1, <2>3, <2>7 DEF Accounted
  <2>9. Announced'
    BY <1>1, <1>2, <2>1, <2>3, <2>7 DEF Announced
  <2>10. InTime'
    BY <1>1, <1>2, <2>1, <2>3 DEF InTime
  <2> QED
    BY <1>3, <2>6, <2>8, <2>9, <2>10 DEF StreamInv
<1> QED
  BY <1>5, <1>6, <1>7

\* The thread reads the counters while the handler cannot run.
LEMMA ReadsKeep == ASSUME StreamInv, ReadBegins \/ ReadFirst \/ ReadEnds PROVE StreamInv'
<1>1. StreamTyped /\ Accounted /\ Announced /\ InTime /\ Masking /\ ReadingIsWhole
  BY DEF StreamInv
<1>2. handler = "off" /\ UNCHANGED <<on, pos, stat, dmaIf, handler, snap, diag, halves>>
  BY DEF ReadBegins, ReadFirst, ReadEnds, Thread
<1>3. Accounted' /\ Announced' /\ InTime'
  BY <1>1, <1>2 DEF Accounted, Announced, InTime, Noting, Noted
<1>4. reader.ie \in BOOLEAN /\ diag.blocks \in Nat /\ dmaIe \in BOOLEAN /\ reader \in [step : {"none", "first", "second"}, ie : BOOLEAN, blocks : Nat]
  BY <1>1 DEF StreamTyped
<1>5. reader' \in [step : {"none", "first", "second"}, ie : BOOLEAN, blocks : Nat] /\ dmaIe' \in BOOLEAN
      /\ Masking' /\ ReadingIsWhole'
  <2>1. CASE ReadBegins
    BY <1>1, <1>2, <1>4, <2>1 DEF ReadBegins, Masked, NotReading, Masking, ReadingIsWhole
  <2>2. CASE ReadFirst
    <3>1. dmaIe' = dmaIe /\ ~dmaIe /\ reader' = [reader EXCEPT !.step = "second", !.blocks = diag.blocks]
      BY <1>1, <2>2 DEF ReadFirst, Thread, Masking
    <3> QED
      BY <1>2, <1>4, <3>1 DEF Masking, ReadingIsWhole
  <2>3. CASE ReadEnds
    <3>1. dmaIe' \in BOOLEAN /\ reader' = NotReading
      BY <1>4, <2>3 DEF ReadEnds
    <3> QED
      BY <3>1 DEF Masking, ReadingIsWhole, NotReading
  <2> QED
    BY <2>1, <2>2, <2>3
<1>6. StreamTyped'
  BY <1>1, <1>2, <1>5 DEF StreamTyped
<1> QED
  BY <1>3, <1>5, <1>6 DEF StreamInv

LEMMA StreamStepInv == StreamInv /\ [StreamNext]_streamVars => StreamInv'
<1> SUFFICES ASSUME StreamInv, [StreamNext]_streamVars PROVE StreamInv'
  OBVIOUS
<1>1. CASE UNCHANGED streamVars
  BY <1>1 DEF streamVars, StreamInv, StreamTyped, Accounted, Announced, InTime, Masking, ReadingIsWhole, Noting, Noted
<1> QED
  BY <1>1, TransferKeeps, SnapshotKeeps, WipeKeeps, MapKeeps, StreamCallsKeep, ReadsKeep DEF StreamNext

LEMMA StreamPromise == StreamInv => StreamTypeOK /\ HalvesAreAccounted /\ FreshUnlessCounted /\ ReadingIsWhole
<1> SUFFICES ASSUME StreamInv PROVE StreamTypeOK /\ HalvesAreAccounted /\ FreshUnlessCounted
  BY DEF StreamInv
<1>1. StreamTyped /\ Accounted /\ Announced /\ InTime
  BY DEF StreamInv
<1>2. StreamTypeOK
  BY <1>1 DEF StreamTyped, StreamTypeOK
<1>3. HalvesAreAccounted
  <2>1. Noting(stat) \in Nat /\ halves.unseen \in Nat /\ halves.skipped \in Nat /\ diag.blocks \in Nat /\ diag.misses \in Nat
    BY <1>1 DEF StreamTyped, Noting, Noted
  <2> QED
    BY <1>1, <2>1 DEF Accounted, Announced, HalvesAreAccounted
<1>4. FreshUnlessCounted
  <2> SUFFICES ASSUME handler = "wipe", snap = stat, halves.unseen = 0, Source # "NONE", ~Late
               PROVE  Source # HalfOf(pos)
    BY DEF FreshUnlessCounted
  <2>a. snap \in SUBSET Events
    BY <1>1 DEF StreamTyped
  <2>1. snap = {} \/ snap = {"HALF"} \/ snap = {"DONE"} \/ snap = {"HALF", "DONE"}
    BY <2>a DEF Events
  <2>2. CASE snap = {"HALF"}
    BY <1>1, <2>2 DEF InTime, Source, HalfOf
  <2>3. CASE snap = {"DONE"}
    BY <1>1, <2>3 DEF InTime, Source, HalfOf
  <2> QED
    BY <2>1, <2>2, <2>3 DEF Source, Late, Events
<1> QED
  BY <1>2, <1>3, <1>4

-----------------------------------------------------------------------------
(* DMA.  The inductive invariant says when a status may hold what is not   *)
(* of the present run: between the programming of a channel and the second *)
(* clearing of its status, when no handler can be on it, because its       *)
(* interrupt has been masked since before it was stopped.                  *)

\* The events a channel holds, and the one that may still finish, are of its run.
OfThisRun(c) == \A e \in chan[c].stat \cup chan[c].flight : e.run = chan[c].run

HandlerIsWhole == /\ taking.at = "off" => taking = NotTaking
                  /\ taking.at = "read" => taking.snap = {}
RunsLeft == call.at \in {"mask", "stop", "clear", "program"} => chan[call.ch].run < MaxConfigs
MaskHolds == call.at \in Configuring => call.ch \notin enabled
StatusIsOfThisRun == \A c \in Channels : OfThisRun(c) \/ (call.at = "clearAgain" /\ call.ch = c)

DmaInv ==
  /\ DmaTypeOK /\ HandlerIsWhole /\ RunsLeft /\ MaskHolds /\ StatusIsOfThisRun
  /\ SnapshotIsOfThisRun /\ ConfigIsQuiet /\ NeighboursKeepTheirs

LEMMA DmaInitInv == DmaInitState => DmaInv
<1> SUFFICES ASSUME DmaInitState PROVE DmaInv
  OBVIOUS
<1> USE DEF DmaInitState, NotTaking, NoCall
<1>1. DmaTypeOK
  <2>1. 0 \in Runs
    BY DmaAssumption DEF Runs
  <2>2. chan \in [Channels -> ChanRegs]
    BY <2>1 DEF ChanRegs
  <2>3. call \in [ch : Channels \cup {NoChannel}, at : {"none", "write", "mask"} \cup Configuring, irq : BOOLEAN,
                  repeat : BOOLEAN, byte : SUBSET (Channels \cup Neighbours)]
    OBVIOUS
  <2>4. taking \in [ch : Channels \cup {NoChannel}, at : {"off", "read", "wipe"}, snap : SUBSET MarksOf(Runs)]
    OBVIOUS
  <2>5. QED
    BY <2>2, <2>3, <2>4 DEF DmaTypeOK
<1>2. HandlerIsWhole /\ RunsLeft /\ MaskHolds /\ StatusIsOfThisRun
  BY DEF HandlerIsWhole, RunsLeft, MaskHolds, StatusIsOfThisRun, OfThisRun, Configuring
<1>3. SnapshotIsOfThisRun /\ ConfigIsQuiet /\ NeighboursKeepTheirs
  BY DEF SnapshotIsOfThisRun, ConfigIsQuiet, NeighboursKeepTheirs, Configuring
<1>4. QED
  BY <1>1, <1>2, <1>3 DEF DmaInv

\* A step that changes the registers of one channel, of the same run, and adds no event of
\* another one, while everything else stays.
LEMMA ChanKept ==
  ASSUME DmaInv, NEW c \in Channels, NEW r \in ChanRegs,
         chan' = [chan EXCEPT ![c] = r], r.run = chan[c].run,
         OfThisRun(c) => \A e \in r.stat \cup r.flight : e.run = r.run,
         UNCHANGED <<ready, enabled, owned, call, taking>>
  PROVE  DmaInv'
<1>1. DmaTypeOK' /\ \A d \in Channels : chan'[d].run = chan[d].run
  BY DEF DmaInv, DmaTypeOK, ChanRegs
<1>2. StatusIsOfThisRun'
  BY DEF DmaInv, DmaTypeOK, StatusIsOfThisRun, OfThisRun
<1>3. SnapshotIsOfThisRun'
  BY <1>1 DEF DmaInv, DmaTypeOK, HandlerIsWhole, SnapshotIsOfThisRun, NotTaking
<1>4. RunsLeft'
  BY <1>1, DmaAssumption DEF DmaInv, DmaTypeOK, RunsLeft, Configuring
<1>5. QED
  BY <1>1, <1>2, <1>3, <1>4 DEF DmaInv, HandlerIsWhole, MaskHolds, ConfigIsQuiet, NeighboursKeepTheirs

LEMMA StatusKept ==
  ASSUME StatusIsOfThisRun, call' = call,
         \A d \in Channels : /\ chan'[d].run = chan[d].run /\ chan'[d].stat \subseteq chan[d].stat
                             /\ chan'[d].flight = chan[d].flight
  PROVE  StatusIsOfThisRun'
BY DEF StatusIsOfThisRun, OfThisRun

LEMMA CallHasChannel ==
  ASSUME DmaInv PROVE call.at \in Configuring => call.ch \in Channels
BY DEF DmaInv, DmaTypeOK, Configuring

\* The hardware adds events of the present run only.
LEMMA HardwareKeeps ==
  ASSUME DmaInv, NEW c \in Channels, Lands(c) \/ \E e \in Marks : Reaches(c, e)
  PROVE  DmaInv'
<1>a. chan[c] \in ChanRegs
  BY DEF DmaInv, DmaTypeOK
<1>1. CASE \E e \in Marks : Reaches(c, e)
  <2>1. PICK e \in Marks : Reaches(c, e)
    BY <1>1
  <2> DEFINE ev == [mark |-> e, run |-> chan[c].run]
             goesOn == e = "HALF" \/ chan[c].repeat
             r  == [chan[c] EXCEPT !.stat = @ \cup {ev}, !.flag = TRUE, !.on = goesOn]
  <2>b. goesOn \in BOOLEAN
    BY Zenon
  <2>2. ev \in MarksOf(Runs)
    BY <1>a DEF MarksOf, ChanRegs
  <2>4. chan' = [chan EXCEPT ![c] = r]
    BY <2>1 DEF Reaches
  <2> HIDE DEF goesOn, ev
  <2>3. r \in ChanRegs
    BY <2>2, <1>a, <2>b DEF ChanRegs
  <2>5. r.run = chan[c].run /\ r.flight = chan[c].flight /\ r.stat = chan[c].stat \cup {ev}
    BY <1>a DEF ChanRegs
  <2>6. OfThisRun(c) => \A x \in r.stat \cup r.flight : x.run = r.run
    BY <2>5 DEF OfThisRun, ev
  <2> HIDE DEF r, ev
  <2>7. QED
    BY <2>1, <2>3, <2>4, <2>5, <2>6, ChanKept DEF Reaches
<1>2. CASE Lands(c)
  <2>1. PICK e \in chan[c].flight : chan' = [chan EXCEPT ![c].stat = @ \cup {e}, ![c].flag = TRUE, ![c].flight = {}]
    BY <1>2 DEF Lands
  <2> DEFINE r == [chan[c] EXCEPT !.stat = @ \cup {e}, !.flag = TRUE, !.flight = {}]
  <2>2. r \in ChanRegs
    BY <1>a DEF ChanRegs
  <2>3. chan' = [chan EXCEPT ![c] = r]
    BY <2>1
  <2>4. r.run = chan[c].run /\ r.flight = {} /\ r.stat = chan[c].stat \cup {e}
    BY <1>a DEF ChanRegs
  <2>5. OfThisRun(c) => \A x \in r.stat \cup r.flight : x.run = r.run
    BY <2>4 DEF OfThisRun
  <2> HIDE DEF r
  <2>6. QED
    BY <1>2, <2>2, <2>3, <2>4, <2>5, ChanKept DEF Lands
<1>3. QED
  BY <1>1, <1>2

\* The other peripherals touch their own enables only, and no mask.
LEMMA NeighbourKeeps ==
  ASSUME DmaInv, NEW n \in Neighbours, NeighbourMoves(n)
  PROVE  DmaInv'
<1>1. PICK wanted \in {owned \cup {n}, owned \ {n}} :
        owned' = wanted /\ enabled' = (enabled \ Neighbours) \cup wanted
  BY DEF NeighbourMoves
<1>2. wanted \subseteq Neighbours /\ UNCHANGED <<ready, chan, call, taking>>
  BY DEF NeighbourMoves, DmaInv, DmaTypeOK
<1>3. DmaTypeOK' /\ NeighboursKeepTheirs'
  BY <1>1, <1>2 DEF DmaInv, DmaTypeOK, NeighboursKeepTheirs
<1>4. MaskHolds'
  BY <1>1, <1>2, DmaAssumption DEF DmaInv, DmaTypeOK, MaskHolds, Configuring
<1>5. QED
  BY <1>2, <1>3, <1>4 DEF DmaInv, HandlerIsWhole, RunsLeft, StatusIsOfThisRun, OfThisRun, SnapshotIsOfThisRun, ConfigIsQuiet

\* A handler enters only where the interrupt is not masked, so never on the channel that
\* is configured, and takes what is there then.
LEMMA HandlerKeeps ==
  ASSUME DmaInv, IsrReads \/ IsrLeaves \/ \E c \in Channels : IsrEnters(c)
  PROVE  DmaInv'
<1> USE DEF DmaInv, DmaTypeOK
<1>1. CASE \E c \in Channels : IsrEnters(c)
  <2>1. PICK c \in Channels : IsrEnters(c)
    BY <1>1
  <2>a. chan[c] \in ChanRegs
    OBVIOUS
  <2>2. [chan[c] EXCEPT !.flag = FALSE] \in ChanRegs
    BY <2>a DEF ChanRegs
  <2>3. chan' = [chan EXCEPT ![c] = [chan[c] EXCEPT !.flag = FALSE]]
    BY <2>1 DEF IsrEnters
  <2>4. \A d \in Channels : /\ chan'[d].run = chan[d].run /\ chan'[d].stat = chan[d].stat
                             /\ chan'[d].flight = chan[d].flight
    BY <2>a, <2>3 DEF ChanRegs
  <2>5. DmaTypeOK'
    BY <2>1, <2>2, <2>3 DEF IsrEnters
  <2>6. HandlerIsWhole' /\ ConfigIsQuiet' /\ SnapshotIsOfThisRun'
    BY <2>1 DEF IsrEnters, HandlerIsWhole, ConfigIsQuiet, MaskHolds, SnapshotIsOfThisRun
  <2>7. RunsLeft'
    BY <2>1, <2>4 DEF IsrEnters, RunsLeft, Configuring
  <2>c. StatusIsOfThisRun'
    BY <2>1, <2>4, StatusKept DEF IsrEnters
  <2>8. QED
    BY <2>1, <2>5, <2>6, <2>7, <2>c DEF IsrEnters, MaskHolds, NeighboursKeepTheirs
<1>2. CASE IsrReads
  <2>1. taking.ch \in Channels /\ taking' = [taking EXCEPT !.at = "wipe", !.snap = chan[taking.ch].stat]
    BY <1>2 DEF IsrReads
  <2>2. OfThisRun(taking.ch)
    BY <2>1 DEF StatusIsOfThisRun, ConfigIsQuiet, Configuring
  <2>3. chan[taking.ch].stat \subseteq MarksOf(Runs)
    BY <2>1 DEF ChanRegs
  <2>4. DmaTypeOK'
    BY <1>2, <2>1, <2>3 DEF IsrReads
  <2>5. SnapshotIsOfThisRun'
    BY <1>2, <2>1, <2>2 DEF IsrReads, SnapshotIsOfThisRun, OfThisRun
  <2>6. QED
    BY <1>2, <2>1, <2>4, <2>5 DEF IsrReads, HandlerIsWhole, RunsLeft, MaskHolds, StatusIsOfThisRun, OfThisRun,
       ConfigIsQuiet, NeighboursKeepTheirs
<1>3. CASE IsrLeaves
  <2> DEFINE c == taking.ch
             r == [chan[c] EXCEPT !.stat = {}]
  <2>1. c \in Channels /\ chan' = [chan EXCEPT ![c] = r] /\ taking' = NotTaking
    BY <1>3 DEF IsrLeaves
  <2>2. r \in ChanRegs /\ r.run = chan[c].run /\ r.stat = {} /\ r.flight = chan[c].flight
    BY <2>1 DEF ChanRegs
  <2> HIDE DEF r
  <2>3. \A d \in Channels : /\ chan'[d].run = chan[d].run /\ chan'[d].stat \subseteq chan[d].stat
                             /\ chan'[d].flight = chan[d].flight
    BY <2>1, <2>2
  <2>4. DmaTypeOK'
    <3>1. chan' \in [Channels -> ChanRegs]
      BY <2>1, <2>2
    <3>2. UNCHANGED <<ready, enabled, owned, call>>
      BY <1>3 DEF IsrLeaves
    <3>3. taking' \in [ch : Channels \cup {NoChannel}, at : {"off", "read", "wipe"}, snap : SUBSET MarksOf(Runs)]
          /\ taking'.at = "off"
      BY <2>1 DEF NotTaking
    <3>4. QED
      BY <3>1, <3>2, <3>3
  <2>5. StatusIsOfThisRun'
    BY <1>3, <2>3, StatusKept DEF IsrLeaves
  <2>6. RunsLeft'
    BY <1>3, <2>3 DEF IsrLeaves, RunsLeft, Configuring
  <2>7. HandlerIsWhole' /\ SnapshotIsOfThisRun'
    BY <2>1 DEF HandlerIsWhole, SnapshotIsOfThisRun, NotTaking
  <2>8. ConfigIsQuiet'
    <3>1. taking'.ch = NoChannel /\ call' = call
      BY <1>3, <2>1 DEF IsrLeaves, NotTaking
    <3>2. QED
      BY <3>1, CallHasChannel, DmaAssumption DEF ConfigIsQuiet
  <2>9. QED
    BY <1>3, <2>4, <2>5, <2>6, <2>7, <2>8 DEF IsrLeaves, MaskHolds, NeighboursKeepTheirs
<1>4. QED
  BY <1>1, <1>2, <1>3

\* Between the thread's steps no handler is under way: its snapshot is empty.
LEMMA CallerAlone ==
  ASSUME DmaInv, NEW at, Caller(at)
  PROVE  taking = NotTaking /\ taking.snap = {} /\ taking.ch \notin Channels
BY DmaAssumption DEF DmaInv, Caller, HandlerIsWhole, NotTaking

\* A step of a call that leaves the channels alone and writes one channel's enable at most.
LEMMA EnableKept ==
  ASSUME DmaInv, NEW at, Caller(at), UNCHANGED <<ready, chan, owned, taking>>,
         call' \in [ch : Channels \cup {NoChannel}, at : {"none", "write", "mask"} \cup Configuring, irq : BOOLEAN,
                   repeat : BOOLEAN, byte : SUBSET (Channels \cup Neighbours)],
         call'.at # "none" => call'.ch \in Channels,
         call'.at = "mask" => chan[call'.ch].run < MaxConfigs,
         call'.at \in Configuring => call'.at = "stop" /\ at = "mask" /\ call'.ch = call.ch /\ call.ch \notin enabled',
         at # "clearAgain",
         enabled' = enabled \/ \E c \in Channels, b \in BOOLEAN : StoreEnable(c, b)
  PROVE  DmaInv'
<1>1. enabled' \subseteq Channels \cup Neighbours /\ enabled' \cap Neighbours = enabled \cap Neighbours
  <2> enabled \subseteq Channels \cup Neighbours
    BY DEF DmaInv, DmaTypeOK
  <2>1. CASE enabled' = enabled
    BY <2>1
  <2>2. CASE \E c \in Channels, b \in BOOLEAN : StoreEnable(c, b)
    <3>1. PICK c \in Channels : enabled' = enabled \cup {c} \/ enabled' = enabled \ {c}
      BY <2>2 DEF StoreEnable
    <3>2. QED
      BY <3>1, DmaAssumption
  <2>3. QED
    BY <2>1, <2>2
<1>2. DmaTypeOK' /\ NeighboursKeepTheirs'
  BY <1>1 DEF DmaInv, DmaTypeOK, NeighboursKeepTheirs
<1>3. RunsLeft'
  BY DEF DmaInv, RunsLeft, Caller, Configuring
<1>4. \A c \in Channels : OfThisRun(c)
  BY DEF DmaInv, StatusIsOfThisRun, Caller
<1>5. StatusIsOfThisRun' /\ MaskHolds'
  BY <1>4 DEF StatusIsOfThisRun, MaskHolds, OfThisRun
<1>6. SnapshotIsOfThisRun' /\ ConfigIsQuiet' /\ HandlerIsWhole'
  BY CallerAlone DEF DmaInv, SnapshotIsOfThisRun, ConfigIsQuiet, HandlerIsWhole, Configuring, DmaTypeOK
<1>7. QED
  BY <1>2, <1>3, <1>5, <1>6 DEF DmaInv

\* A step of a configuration that rewrites its channel's registers.
LEMMA ConfigKept ==
  ASSUME DmaInv, NEW at, NEW next \in Configuring, Caller(at), at \in Configuring, Goes(next),
         NEW r \in ChanRegs, chan' = [chan EXCEPT ![call.ch] = r],
         next \in {"stop", "clear", "program"} => r.run < MaxConfigs,
         (at # "clearAgain" => OfThisRun(call.ch)) /\ next # "clearAgain" =>
           \A e \in r.stat \cup r.flight : e.run = r.run,
         UNCHANGED <<ready, enabled, owned, taking>>
  PROVE  DmaInv'
<1>1. call' = [call EXCEPT !.at = next, !.byte = enabled] /\ call.at = at /\ call.ch \in Channels
  BY CallHasChannel DEF Goes, Caller
<1>2. call'.ch = call.ch /\ call'.at = next
  BY <1>1 DEF DmaInv, DmaTypeOK
<1>3. DmaTypeOK'
  BY <1>1 DEF DmaInv, DmaTypeOK
<1>4. chan'[call.ch] = r /\ \A c \in Channels \ {call.ch} : chan'[c] = chan[c]
  BY <1>1 DEF DmaInv, DmaTypeOK
<1>5. RunsLeft'
  BY <1>2, <1>4 DEF RunsLeft, Configuring
<1>11. MaskHolds'
  <2>1. call.ch \notin enabled
    BY <1>1 DEF DmaInv, MaskHolds
  <2>2. QED
    BY <1>2, <2>1 DEF MaskHolds
<1>6. \A c \in Channels \ {call.ch} : OfThisRun(c)'
  BY <1>4 DEF DmaInv, StatusIsOfThisRun, OfThisRun
<1>7. next # "clearAgain" => OfThisRun(call.ch)'
  <2>1. at # "clearAgain" => OfThisRun(call.ch)
    BY <1>1 DEF DmaInv, StatusIsOfThisRun
  <2>2. next # "clearAgain" => \A e \in r.stat \cup r.flight : e.run = r.run
    BY <2>1
  <2>3. QED
    BY <1>2, <1>4, <2>2 DEF OfThisRun
<1>8. StatusIsOfThisRun'
  BY <1>2, <1>6, <1>7 DEF StatusIsOfThisRun
<1>9. SnapshotIsOfThisRun' /\ ConfigIsQuiet' /\ HandlerIsWhole'
  BY <1>1, <1>2, CallerAlone DEF DmaInv, SnapshotIsOfThisRun, ConfigIsQuiet, HandlerIsWhole
<1>10. QED
  BY <1>3, <1>5, <1>8, <1>9, <1>11 DEF DmaInv, NeighboursKeepTheirs

LEMMA ConfigStepsKeep ==
  ASSUME DmaInv, ConfigMasks \/ ConfigStops \/ ConfigClears \/ ConfigPrograms \/ ConfigClearsAgain \/ ConfigEnds
  PROVE  DmaInv'
<1> DEFINE c == call.ch
<1>1. call.at # "none" => c \in Channels /\ chan[c] \in ChanRegs
  BY DEF DmaInv, DmaTypeOK
<1>2. call.at # "clearAgain" /\ c \in Channels => OfThisRun(c)
  BY DEF DmaInv, StatusIsOfThisRun
<1>3. call.at \in {"mask", "stop", "clear", "program"} => chan[c].run < MaxConfigs
  BY DEF DmaInv, RunsLeft
<1>4. CASE ConfigMasks
  <2>1. call.at = "mask" /\ Caller("mask") /\ c \in Channels
    BY <1>1, <1>4 DEF ConfigMasks, Caller
  <2>2. call' = [call EXCEPT !.at = "stop", !.byte = enabled] /\ enabled' = enabled \ {c} /\ StoreEnable(c, FALSE)
    BY <1>4 DEF ConfigMasks, Goes, LineMasked, StoreEnable
  <2>3. call' \in [ch : Channels \cup {NoChannel}, at : {"none", "write", "mask"} \cup Configuring, irq : BOOLEAN,
                   repeat : BOOLEAN, byte : SUBSET (Channels \cup Neighbours)]
    BY <2>2 DEF DmaInv, DmaTypeOK, Configuring
  <2>4. call'.at = "stop" /\ call'.ch = c
    BY <2>2 DEF DmaInv, DmaTypeOK
  <2>5. QED
    BY <1>4, <2>1, <2>2, <2>3, <2>4, EnableKept DEF ConfigMasks
<1>5. CASE ConfigStops
  <2> DEFINE r == Halted(chan[c])
  <2>1. Caller("stop") /\ Goes("clear") /\ chan' = [chan EXCEPT ![c] = r] /\ call.at = "stop"
    BY <1>5 DEF ConfigStops, Caller
  <2>2. r \in ChanRegs /\ r.run = chan[c].run /\ r.stat = chan[c].stat
        /\ \A e \in r.flight : e.run = chan[c].run \/ e \in chan[c].flight
    BY <1>1, <2>1 DEF Halted, ChanRegs, MarksOf
  <2>3. \A e \in r.stat \cup r.flight : e.run = r.run
    BY <1>1, <1>2, <2>1, <2>2 DEF OfThisRun
  <2> HIDE DEF r
  <2>4. QED
    BY <1>3, <1>5, <2>1, <2>2, <2>3, ConfigKept DEF ConfigStops, Configuring
<1>6. CASE ConfigClears
  <2> DEFINE r == [chan[c] EXCEPT !.stat = {}, !.flag = FALSE]
  <2>1. Caller("clear") /\ Goes("program") /\ chan' = [chan EXCEPT ![c] = r] /\ call.at = "clear"
    BY <1>6 DEF ConfigClears, Caller
  <2>2. r \in ChanRegs /\ r.run = chan[c].run /\ r.stat = {} /\ r.flight = chan[c].flight
    BY <1>1, <2>1 DEF ChanRegs
  <2>3. \A e \in r.stat \cup r.flight : e.run = r.run
    BY <1>1, <1>2, <2>1, <2>2 DEF OfThisRun
  <2> HIDE DEF r
  <2>4. QED
    BY <1>3, <1>6, <2>1, <2>2, <2>3, ConfigKept DEF ConfigClears, Configuring
<1>7. CASE ConfigPrograms
  <2> DEFINE r == [chan[c] EXCEPT !.run = @ + 1, !.repeat = call.repeat]
  <2>1. Caller("program") /\ Goes("clearAgain") /\ chan' = [chan EXCEPT ![c] = r] /\ call.at = "program"
    BY <1>7 DEF ConfigPrograms, Caller
  <2>2. chan[c].run + 1 \in Runs /\ call.repeat \in BOOLEAN
    <3>1. chan[c].run \in Runs /\ chan[c].run < MaxConfigs
      BY <1>1, <1>3, <2>1 DEF ChanRegs
    <3>2. call.repeat \in BOOLEAN
      BY DEF DmaInv, DmaTypeOK
    <3>3. QED
      BY <3>1, <3>2, DmaAssumption DEF Runs
  <2>3. r \in ChanRegs
    BY <1>1, <2>1, <2>2 DEF ChanRegs
  <2> HIDE DEF r
  <2>4. QED
    BY <1>7, <2>1, <2>3, ConfigKept DEF ConfigPrograms, Configuring
<1>8. CASE ConfigClearsAgain
  <2> DEFINE r == Fresh(chan[c])
  <2>1. Caller("clearAgain") /\ Goes("unmask") /\ chan' = [chan EXCEPT ![c] = r] /\ call.at = "clearAgain"
    BY <1>8 DEF ConfigClearsAgain, Caller
  <2>2. r \in ChanRegs /\ r.stat = {} /\ r.flight = {}
    BY <1>1, <2>1 DEF ChanRegs, Fresh
  <2> HIDE DEF r
  <2>3. QED
    BY <1>8, <2>1, <2>2, ConfigKept DEF ConfigClearsAgain, Configuring
<1>9. CASE ConfigEnds
  <2>1. Caller("unmask") /\ call.at = "unmask" /\ call' = NoCall /\ StoreEnable(c, call.irq)
    BY <1>9 DEF ConfigEnds, Caller
  <2>2. c \in Channels /\ call.irq \in BOOLEAN
    BY <1>1, <2>1 DEF DmaInv, DmaTypeOK
  <2>3. call' \in [ch : Channels \cup {NoChannel}, at : {"none", "write", "mask"} \cup Configuring, irq : BOOLEAN,
                   repeat : BOOLEAN, byte : SUBSET (Channels \cup Neighbours)] /\ call'.at = "none"
    BY <2>1 DEF NoCall
  <2>4. QED
    BY <1>9, <2>1, <2>2, <2>3, EnableKept DEF ConfigEnds, Configuring
<1>10. QED
  BY <1>4, <1>5, <1>6, <1>7, <1>8, <1>9

LEMMA RegisterCallsKeep ==
  ASSUME DmaInv, NEW c \in Channels, ClearStatus(c) \/ IrqClearFlag(c) \/ \E b \in BOOLEAN : ChannelEnable(c, b)
  PROVE  DmaInv'
<1>1. chan[c] \in ChanRegs
  BY DEF DmaInv, DmaTypeOK
<1>2. CASE ClearStatus(c)
  <2> DEFINE r == [chan[c] EXCEPT !.stat = {}]
  <2>1. r \in ChanRegs /\ r.run = chan[c].run /\ r.stat = {} /\ r.flight = chan[c].flight
    BY <1>1 DEF ChanRegs
  <2>2. chan' = [chan EXCEPT ![c] = r]
    BY <1>2 DEF ClearStatus
  <2>3. OfThisRun(c) => \A e \in r.stat \cup r.flight : e.run = r.run
    BY <2>1 DEF OfThisRun
  <2> HIDE DEF r
  <2>4. QED
    BY <1>2, <2>1, <2>2, <2>3, ChanKept DEF ClearStatus
<1>3. CASE IrqClearFlag(c)
  <2> DEFINE r == [chan[c] EXCEPT !.flag = FALSE]
  <2>1. r \in ChanRegs /\ r.run = chan[c].run /\ r.stat = chan[c].stat /\ r.flight = chan[c].flight
    BY <1>1 DEF ChanRegs
  <2>2. chan' = [chan EXCEPT ![c] = r]
    BY <1>3 DEF IrqClearFlag
  <2>3. OfThisRun(c) => \A e \in r.stat \cup r.flight : e.run = r.run
    BY <2>1 DEF OfThisRun
  <2> HIDE DEF r
  <2>4. QED
    BY <1>3, <2>1, <2>2, <2>3, ChanKept DEF IrqClearFlag
<1>4. CASE ChannelEnable(c, TRUE)
  <2> DEFINE r == [chan[c] EXCEPT !.on = TRUE]
  <2>1. r \in ChanRegs /\ r.run = chan[c].run /\ r.stat = chan[c].stat /\ r.flight = chan[c].flight
    BY <1>1 DEF ChanRegs
  <2>2. chan' = [chan EXCEPT ![c] = r]
    BY <1>4 DEF ChannelEnable
  <2>3. OfThisRun(c) => \A e \in r.stat \cup r.flight : e.run = r.run
    BY <2>1 DEF OfThisRun
  <2> HIDE DEF r
  <2>4. QED
    BY <1>4, <2>1, <2>2, <2>3, ChanKept DEF ChannelEnable
<1>5. CASE ChannelEnable(c, FALSE)
  <2> DEFINE r == Halted(chan[c])
  <2>1. r \in ChanRegs /\ r.run = chan[c].run /\ r.stat = chan[c].stat
        /\ \A e \in r.flight : e.run = chan[c].run \/ e \in chan[c].flight
    BY <1>1 DEF Halted, ChanRegs, MarksOf
  <2>2. chan' = [chan EXCEPT ![c] = r]
    BY <1>5 DEF ChannelEnable
  <2>3. OfThisRun(c) => \A e \in r.stat \cup r.flight : e.run = r.run
    BY <2>1 DEF OfThisRun
  <2> HIDE DEF r
  <2>4. QED
    BY <1>5, <2>1, <2>2, <2>3, ChanKept DEF ChannelEnable
<1>6. QED
  BY <1>2, <1>3, <1>4, <1>5

LEMMA MaskCallsKeep ==
  ASSUME DmaInv, GlobalInit \/ IrqEnableEnds
                 \/ \E c \in Channels, a, b \in BOOLEAN : IrqEnableBegins(c, a) \/ ConfigBegins(c, a, b)
  PROVE  DmaInv'
<1>1. CASE GlobalInit
  BY <1>1 DEF GlobalInit, DmaInv, DmaTypeOK, HandlerIsWhole, RunsLeft, MaskHolds, StatusIsOfThisRun, OfThisRun,
     SnapshotIsOfThisRun, ConfigIsQuiet, NeighboursKeepTheirs
<1>2. CASE IrqEnableEnds
  <2>1. Caller("write") /\ call.ch \in Channels /\ call.irq \in BOOLEAN
    BY <1>2 DEF IrqEnableEnds, Caller, DmaInv, DmaTypeOK
  <2>2. call' \in [ch : Channels \cup {NoChannel}, at : {"none", "write", "mask"} \cup Configuring, irq : BOOLEAN,
                   repeat : BOOLEAN, byte : SUBSET (Channels \cup Neighbours)]
        /\ call'.at = "none"
    BY <1>2 DEF IrqEnableEnds, NoCall
  <2>3. QED
    BY <1>2, <2>1, <2>2, EnableKept DEF IrqEnableEnds, Configuring
<1>3. ASSUME NEW c \in Channels, NEW a \in BOOLEAN, IrqEnableBegins(c, a)
      PROVE  DmaInv'
  <2>1. enabled \in SUBSET (Channels \cup Neighbours)
    BY DEF DmaInv, DmaTypeOK
  <2>2. call' \in [ch : Channels \cup {NoChannel}, at : {"none", "write", "mask"} \cup Configuring, irq : BOOLEAN,
                   repeat : BOOLEAN, byte : SUBSET (Channels \cup Neighbours)]
        /\ call'.at = "write" /\ call'.ch = c
    BY <1>3, <2>1 DEF IrqEnableBegins, NoCall
  <2>3. QED
    BY <1>3, <2>2, EnableKept DEF IrqEnableBegins, Configuring
<1>4. ASSUME NEW c \in Channels, NEW a \in BOOLEAN, NEW b \in BOOLEAN, ConfigBegins(c, a, b)
      PROVE  DmaInv'
  <2>1. enabled \in SUBSET (Channels \cup Neighbours)
    BY DEF DmaInv, DmaTypeOK
  <2>2. call' \in [ch : Channels \cup {NoChannel}, at : {"none", "write", "mask"} \cup Configuring, irq : BOOLEAN,
                   repeat : BOOLEAN, byte : SUBSET (Channels \cup Neighbours)]
        /\ call'.at = "mask" /\ call'.ch = c
    BY <1>4, <2>1 DEF ConfigBegins
  <2>3. QED
    BY <1>4, <2>2, EnableKept DEF ConfigBegins, Configuring
<1>5. QED
  BY <1>1, <1>2, <1>3, <1>4

LEMMA DmaStepInv == DmaInv /\ [DmaNext]_dmaVars => DmaInv'
<1> SUFFICES ASSUME DmaInv, [DmaNext]_dmaVars PROVE DmaInv'
  OBVIOUS
<1>1. CASE CallerNext
  BY <1>1, ConfigStepsKeep, RegisterCallsKeep, MaskCallsKeep DEF CallerNext
<1>2. CASE DmaNext /\ ~CallerNext
  BY <1>2, HardwareKeeps, NeighbourKeeps, HandlerKeeps DEF DmaNext
<1>3. CASE UNCHANGED dmaVars
  BY <1>3 DEF dmaVars, DmaInv, DmaTypeOK, HandlerIsWhole, RunsLeft, MaskHolds, StatusIsOfThisRun, OfThisRun,
     SnapshotIsOfThisRun, ConfigIsQuiet, NeighboursKeepTheirs
<1>4. QED
  BY <1>1, <1>2, <1>3

\* Every variable keeps its type, whatever the hardware, the handlers and the thread do.
THEOREM DmaIsTyped == DmaSpec => []DmaTypeOK
<1>1. DmaInv => DmaTypeOK
  BY DEF DmaInv
<1>2. QED
  BY <1>1, DmaInitInv, DmaStepInv, PTL DEF DmaSpec

\* A handler never takes an event of a configuration before the present one: the status
\* is cleared once more after the channel was programmed, before its interrupt can be enabled.
THEOREM NoStaleEvent == DmaSpec => []SnapshotIsOfThisRun
<1>1. DmaInv => SnapshotIsOfThisRun
  BY DEF DmaInv
<1>2. QED
  BY <1>1, DmaInitInv, DmaStepInv, PTL DEF DmaSpec

\* No handler is on a channel while nora_dma_channel_config is between its mask and its end.
THEOREM ConfigurationIsQuiet == DmaSpec => []ConfigIsQuiet
<1>1. DmaInv => ConfigIsQuiet
  BY DEF DmaInv
<1>2. QED
  BY <1>1, DmaInitInv, DmaStepInv, PTL DEF DmaSpec

\* The literal stores of NORA_DMA_IRQ_IE_WRITE leave the neighbours' enables in the byte alone.
THEOREM NeighboursAreLeftAlone == DmaSpec => []NeighboursKeepTheirs
<1>1. DmaInv => NeighboursKeepTheirs
  BY DEF DmaInv
<1>2. QED
  BY <1>1, DmaInitInv, DmaStepInv, PTL DEF DmaSpec

-----------------------------------------------------------------------------
(* The drivers together.                                                    *)

FlowInv == /\ moving \in {"uart", "can", "domains", "stream", "dma"}
           /\ TxInv /\ CanInv /\ TdmInv /\ StreamInv /\ DmaInv

LEMMA FlowInitInv == FlowInit => FlowInv
BY TxInitInv, CanInitInv, TdmInitInv, StreamInitInv, DmaInitInv DEF FlowInit, FlowInv

\* A step of the composition is, for every driver, a step of that driver or a stutter.
LEMMA FlowSteps ==
  [FlowNext]_flowVars => /\ [Next]_vars /\ [CanNext]_canVars /\ [TdmNext]_tdmVars
                         /\ [StreamNext]_streamVars /\ [DmaNext]_dmaVars
                         /\ UNCHANGED moving
BY DEF FlowNext, flowVars

LEMMA FlowStepInv == FlowInv /\ [FlowNext]_flowVars => FlowInv'
BY FlowSteps, TxStepInv, CanStepInv, TdmStepInv, StreamStepInv, DmaStepInv DEF FlowInv

\* Whatever the handlers, the DMA and the thread do, every driver agrees with its hardware
\* between calls: an interrupt is armed while there is something for it to do, and only then,
\* no handler runs for a DMA channel that is being programmed, and the literal stores of
\* NORA_DMA_IRQ_IE_WRITE leave the neighbours' enables alone.
THEOREM DriversAgree == FlowSpec => []DriversAreSettled
<1>1. FlowInv => DriversAreSettled
  BY TxPromise, CanPromise, TdmPromise, StreamPromise DEF FlowInv, DriversAreSettled, DmaInv
<1>2. QED
  BY <1>1, FlowInitInv, FlowStepInv, PTL DEF FlowSpec

\* nora_uart_tx reports a transfer complete only when all of its bytes were submitted, in order
\* and without those of another between them, whatever was aborted before; and a frame that
\* nora_canfd found no room for is still marked, or someone was told.
THEOREM LossIsSeen == FlowSpec => []NothingIsLostUnseen
<1>1. FlowInv => NothingIsLostUnseen
  BY TxPromise, CanPromise DEF FlowInv, NothingIsLostUnseen
<1>2. QED
  BY <1>1, FlowInitInv, FlowStepInv, PTL DEF FlowSpec

\* However the starts and stops of instances, domains and systems follow one another, and at
\* whichever leg a start fails, a domain runs with all its legs or with none, the CLC is held
\* only by a running leg that needs it, and the frame sync is the one the slots ask for.
THEOREM DomainsStayWhole == FlowSpec => []DomainsRunWhole
<1>1. FlowInv => DomainsRunWhole
  BY TdmPromise, FramesFitAll DEF FlowInv, DomainsRunWhole
<1>2. QED
  BY <1>1, FlowInitInv, FlowStepInv, PTL DEF FlowSpec

\* Every half of the receive buffer reaches the callback once, fresh and whole, or is counted
\* as missed, and no handler takes an event of a configuration before the present one.
THEOREM HalvesAreAllTold == FlowSpec => []StreamIsAccounted
<1>1. FlowInv => StreamIsAccounted
  BY StreamPromise DEF FlowInv, StreamIsAccounted, DmaInv
<1>2. QED
  BY <1>1, FlowInitInv, FlowStepInv, PTL DEF FlowSpec

\* A start that fails at some leg leaves exactly the legs running that ran before it.
THEOREM FailuresAreUndone == FlowSpec => FailureIsUndone
<1>1. FlowInv /\ [FlowNext]_flowVars
      => [~Idle /\ start'.call = "none" /\ start.failed => running' = start.before]_tdmVars
  BY FlowSteps, TdmUndoes DEF FlowInv
<1>2. QED
  BY <1>1, FlowInitInv, FlowStepInv, PTL DEF FlowSpec, FailureIsUndone
=============================================================================
