----------------------------- MODULE XmodemProofs -----------------------------
(***************************************************************************)
(* Proofs about Xmodem for every file, line and budget of errors: what the  *)
(* block numbers let through, the stream the sink gets, and what XMODEM_OK  *)
(* means on a line that damages nothing.                                    *)
(***************************************************************************)
EXTENDS Xmodem, SequenceTheorems, TLAPS

(* Bodies travel in the order they were sent: each number stands between    *)
(* two bounds, and no body is overtaken.                                    *)
Bodies(w) == {i \in 1 .. Len(w) : w[i].is = "body"}

SortedIn(w, low, high) ==
    /\ \A i \in Bodies(w) : w[i].block \in low .. high /\ w[i].block # 0
    /\ \A i, k \in Bodies(w) : i < k => w[i].block <= w[k].block

Last == IF delivered = <<>> THEN 0 ELSE delivered[Len(delivered)]

(* The block in hand is older than every body still on the wire.            *)
InHand == pc = "check" /\ blk.sound

SentOK ==
    /\ sender \in {"header", "stalled"} => sent \in 1 .. Blocks
    /\ sender = "ready" => sent = 0
    /\ sender = "wait" => sent # 0

OrderOK ==
    /\ SortedIn(wire, Last, sent) /\ Last <= sent
    /\ InHand => /\ blk.is = "body" /\ blk.block # 0
                 /\ blk.block \in Last .. sent
                 /\ SortedIn(wire, blk.block, sent)

(* What the block numbers say of the blocks delivered. *)
Numbered(d) ==
    /\ \A i \in 1 .. Len(d) : d[i] \in 1 .. Blocks /\ d[i] % Wrap = i % Wrap
    /\ \A i \in 2 .. Len(d) : d[i - 1] < d[i]

DeliveredOK ==
    /\ expected = (Len(delivered) + 1) % Wrap
    /\ started <=> delivered # <<>>
    /\ pc # "done" => status = "RUNNING"
    /\ status = "OK" => started
    /\ Numbered(delivered)

IInv == TypeOK /\ SentOK /\ OrderOK /\ DeliveredOK
-----------------------------------------------------------------------------
(* Sequences. *)

LEMMA HeadTail ==
    ASSUME NEW S, NEW s \in Seq(S), s # <<>>
    PROVE  /\ Head(s) = s[1] /\ Head(s) \in S /\ Len(s) \in Nat \ {0}
           /\ Tail(s) \in Seq(S) /\ Len(Tail(s)) = Len(s) - 1
           /\ \A i \in 1 .. Len(s) - 1 : Tail(s)[i] = s[i + 1]
OBVIOUS

LEMMA Replaced ==
    ASSUME NEW S, NEW s \in Seq(S), s # <<>>, NEW x \in S
    PROVE  /\ <<x>> \o Tail(s) \in Seq(S)
           /\ Len(<<x>> \o Tail(s)) = Len(s)
           /\ \A i \in 1 .. Len(s) :
                 (<<x>> \o Tail(s))[i] = IF i = 1 THEN x ELSE s[i]
<1> DEFINE t == Tail(s)
<1>1. t \in Seq(S) /\ Len(t) = Len(s) - 1 /\ Len(s) \in Nat \ {0}
  OBVIOUS
<1>2. \A i \in 1 .. Len(s) - 1 : t[i] = s[i + 1]
  OBVIOUS
<1> HIDE DEF t
<1>3. <<x>> \in Seq(S) /\ Len(<<x>>) = 1 /\ <<x>>[1] = x
  OBVIOUS
<1> DEFINE u == <<x>> \o t
<1>4. /\ u \in Seq(S) /\ Len(u) = Len(<<x>>) + Len(t)
      /\ \A i \in 1 .. Len(<<x>>) + Len(t) :
            u[i] = IF i <= Len(<<x>>) THEN <<x>>[i] ELSE t[i - Len(<<x>>)]
  BY <1>1, <1>3, ConcatProperties
<1> HIDE DEF u
<1>5. \A i \in 1 .. Len(s) : u[i] = IF i = 1 THEN x ELSE s[i]
  BY <1>1, <1>2, <1>3, <1>4
<1> QED
  BY <1>1, <1>3, <1>4, <1>5 DEF t, u

LEMMA Lost ==
    ASSUME NEW S, NEW s \in Seq(S), NEW n \in 1 .. Len(s)
    PROVE  /\ Without(s, n) \in Seq(S) /\ Len(Without(s, n)) = Len(s) - 1
           /\ \A i \in 1 .. Len(s) - 1 :
                 Without(s, n)[i] = IF i < n THEN s[i] ELSE s[i + 1]
<1> DEFINE a == SubSeq(s, 1, n - 1)
           b == SubSeq(s, n + 1, Len(s))
           c == a \o b
<1>1. Len(s) \in Nat
  OBVIOUS
<1>2. a \in Seq(S) /\ Len(a) = n - 1 /\ \A i \in 1 .. n - 1 : a[i] = s[i]
  <2>1. \A i \in 1 .. n - 1 : s[i] \in S
    BY <1>1, ElementOfSeq
  <2> QED
    BY <1>1, <2>1, SubSeqProperties
<1>3. b \in Seq(S) /\ Len(b) = Len(s) - n
        /\ \A i \in 1 .. Len(s) - n : b[i] = s[i + n]
  <2>1. \A i \in n + 1 .. Len(s) : s[i] \in S
    BY <1>1, ElementOfSeq
  <2>2. /\ b \in Seq(S)
        /\ Len(b) = IF n + 1 <= Len(s) THEN Len(s) - (n + 1) + 1 ELSE 0
        /\ \A i \in 1 .. Len(s) - (n + 1) + 1 : b[i] = s[n + 1 + i - 1]
    BY <1>1, <2>1, SubSeqProperties
  <2> HIDE DEF b
  <2> QED
    BY <1>1, <2>2
<1> HIDE DEF a, b
<1>4. /\ c \in Seq(S) /\ Len(c) = Len(a) + Len(b)
      /\ \A i \in 1 .. Len(a) + Len(b) :
            c[i] = IF i <= Len(a) THEN a[i] ELSE b[i - Len(a)]
  BY <1>2, <1>3, ConcatProperties
<1> HIDE DEF c
<1>5. Len(c) = Len(s) - 1
  BY <1>1, <1>2, <1>3, <1>4
<1>6. ASSUME NEW i \in 1 .. Len(s) - 1, i < n
      PROVE  c[i] = s[i]
  <2>1. i \in 1 .. Len(a) + Len(b) /\ i <= Len(a) /\ i \in 1 .. n - 1
    BY <1>1, <1>2, <1>3, <1>6
  <2>2. c[i] = a[i]
    BY <1>4, <2>1
  <2> QED
    BY <1>2, <2>1, <2>2
<1>7. ASSUME NEW i \in 1 .. Len(s) - 1, ~(i < n)
      PROVE  c[i] = s[i + 1]
  <2> DEFINE k == i - (n - 1)
  <2>1. k \in 1 .. Len(s) - n /\ k + n = i + 1
    BY <1>1, <1>7
  <2>2. i \in 1 .. Len(a) + Len(b) /\ ~(i <= Len(a)) /\ i - Len(a) = k
    BY <1>1, <1>2, <1>3, <1>7
  <2> HIDE DEF k
  <2>3. c[i] = b[i - Len(a)]
    BY <1>4, <2>2
  <2> QED
    BY <1>3, <2>1, <2>2, <2>3
<1>8. Without(s, n) = c
  BY DEF Without, a, b, c
<1> QED
  BY <1>4, <1>5, <1>6, <1>7, <1>8

(* The constants, the tokens. *)
LEMMA Facts ==
    /\ Blocks \in Nat \ {0} /\ LongBlocks \subseteq 1 .. Blocks
    /\ Wrap \in Nat /\ Wrap > 2
    /\ HandshakeTries \in Nat /\ MaxErrors \in Nat
    /\ MaxFaults \in Nat /\ MaxResends \in Nat
    /\ \A b \in Controls : Byte(b) \in Tokens /\ Byte(b).is = b /\ b # "body"
    /\ Rest \in Tokens /\ Rest.is = "rest" /\ ~Rest.sound
    /\ \A i \in 1 .. Blocks : Body(i) \in Tokens /\ Body(i).is = "body"
                                /\ Body(i).block = i
    /\ \A i : Header(i) \in {Byte("EOT"), Byte("STX"), Byte("SOH")}
<1> USE XmodemAssumption
<1>1. /\ Blocks \in Nat \ {0} /\ LongBlocks \subseteq 1 .. Blocks
      /\ Wrap \in Nat /\ Wrap > 2
      /\ HandshakeTries \in Nat /\ MaxErrors \in Nat
      /\ MaxFaults \in Nat /\ MaxResends \in Nat
  OBVIOUS
<1>2. \A b \in Controls : Byte(b) \in Tokens /\ Byte(b).is = b /\ b # "body"
  BY DEF Byte, Controls, Tokens
<1>3. Rest \in Tokens /\ Rest.is = "rest" /\ ~Rest.sound
  BY DEF Rest, Tokens
<1>4. \A i \in 1 .. Blocks : Body(i) \in Tokens /\ Body(i).is = "body"
                                /\ Body(i).block = i
  BY DEF Body, Tokens
<1>5. \A i : Header(i) \in {Byte("EOT"), Byte("STX"), Byte("SOH")}
  BY DEF Header
<1> QED
  BY <1>1, <1>2, <1>3, <1>4, <1>5

(* What a line, a reader and a writer do to a sorted wire. *)
LEMMA SortedTail ==
    ASSUME NEW w \in Seq(Tokens), w # <<>>, NEW low, NEW high,
           SortedIn(w, low, high)
    PROVE  SortedIn(Tail(w), low, high)
<1> DEFINE t == Tail(w)
<1>1. /\ Len(w) \in Nat \ {0} /\ Len(t) = Len(w) - 1
      /\ \A i \in 1 .. Len(w) - 1 : t[i] = w[i + 1]
  BY HeadTail
<1> HIDE DEF t
<1>2. ASSUME NEW i \in Bodies(t)
      PROVE  i \in Nat /\ i + 1 \in Bodies(w) /\ t[i] = w[i + 1]
  <2>1. i \in 1 .. Len(w) - 1 /\ i + 1 \in 1 .. Len(w) /\ t[i].is = "body"
    BY <1>1, <1>2 DEF Bodies
  <2> QED
    BY <1>1, <2>1 DEF Bodies
<1>3. SortedIn(t, low, high)
  BY <1>2 DEF SortedIn
<1> QED
  BY <1>3 DEF t

LEMMA SortedRest ==
    ASSUME NEW w \in Seq(Tokens), w # <<>>, NEW low, NEW high,
           SortedIn(w, low, high)
    PROVE  SortedIn(<<Rest>> \o Tail(w), low, high)
<1>1. Rest \in Tokens /\ Rest.is # "body"
  BY Facts
<1> QED
  BY <1>1, Replaced, LenProperties DEF SortedIn, Bodies

LEMMA SortedLost ==
    ASSUME NEW w \in Seq(Tokens), NEW n \in 1 .. Len(w), NEW low, NEW high,
           SortedIn(w, low, high)
    PROVE  SortedIn(Without(w, n), low, high)
<1> DEFINE u == Without(w, n)
<1>1. /\ Len(u) = Len(w) - 1 /\ Len(w) \in Nat
      /\ \A i \in 1 .. Len(w) - 1 : u[i] = IF i < n THEN w[i] ELSE w[i + 1]
  BY Lost, LenProperties
<1> HIDE DEF u
<1>2. \A i \in Bodies(u) :
         \/ i < n /\ i \in Bodies(w) /\ u[i] = w[i]
         \/ i >= n /\ i + 1 \in Bodies(w) /\ u[i] = w[i + 1]
  BY <1>1 DEF Bodies
<1>3. \A i \in Bodies(u) : i \in Nat
  BY <1>1 DEF Bodies
<1>4. SortedIn(u, low, high)
  <2>1. ASSUME NEW i \in Bodies(u), NEW k \in Bodies(u), i < k
        PROVE  u[i].block <= u[k].block
    <3>1. PICK p \in Bodies(w) : u[i] = w[p] /\ p \in {i, i + 1} /\ (p = i <=> i < n)
      BY <1>1, <1>2, <1>3
    <3>2. PICK q \in Bodies(w) : u[k] = w[q] /\ q \in {k, k + 1} /\ (q = k <=> k < n)
      BY <1>1, <1>2, <1>3
    <3>3. p < q
      BY <1>1, <1>3, <2>1, <3>1, <3>2
    <3> QED
      BY <3>1, <3>2, <3>3 DEF SortedIn
  <2> QED
    BY <1>2, <2>1 DEF SortedIn
<1> QED
  BY <1>4 DEF u

LEMMA DamageType ==
    ASSUME NEW v \in Tokens, NEW t \in Damage(v)
    PROVE  t \in Tokens /\ (t.is = "body" => v.is = "body" /\ t.block = v.block)
<1> DEFINE x == [v EXCEPT !.sound = FALSE]
<1>1. x \in Tokens /\ x.block = v.block
  BY DEF Tokens
<1>2. Damage(v) = IF v.is = "body" THEN {x, Rest} ELSE {Byte(b) : b \in Controls}
  BY DEF Damage
<1> HIDE DEF x
<1>3. CASE v.is = "body"
  <2>1. t = x \/ t = Rest
    BY <1>2, <1>3
  <2>2. Rest \in Tokens /\ Rest.is # "body"
    BY Facts
  <2> QED
    BY <1>1, <1>3, <2>1, <2>2
<1>4. CASE v.is # "body"
  <2>1. PICK b \in Controls : t = Byte(b)
    BY <1>2, <1>4
  <2> QED
    BY <2>1, Facts
<1> QED
  BY <1>3, <1>4

LEMMA SortedDamaged ==
    ASSUME NEW w \in Seq(Tokens), NEW n \in 1 .. Len(w), NEW low, NEW high,
           SortedIn(w, low, high), NEW t \in Damage(w[n])
    PROVE  SortedIn([w EXCEPT ![n] = t], low, high)
<1>1. w[n] \in Tokens
  OBVIOUS
<1>2. t \in Tokens /\ (t.is = "body" => w[n].is = "body" /\ t.block = w[n].block)
  BY <1>1, DamageType
<1> QED
  BY <1>2, ExceptSeq, LenProperties DEF SortedIn, Bodies

LEMMA SortedByte ==
    ASSUME NEW w \in Seq(Tokens), NEW low, NEW high, SortedIn(w, low, high),
           NEW t \in Tokens, t.is # "body"
    PROVE  SortedIn(Append(w, t), low, high)
BY AppendProperties, LenProperties DEF SortedIn, Bodies

LEMMA SortedBody ==
    ASSUME NEW w \in Seq(Tokens), NEW low \in Nat, NEW high \in 1 .. Blocks,
           SortedIn(w, low, high), low <= high
    PROVE  SortedIn(Append(w, Body(high)), low, high)
<1> DEFINE b == Body(high)
           u == Append(w, b)
           n == Len(w)
<1>1. b \in Tokens /\ b.is = "body" /\ b.block = high /\ high # 0 /\ high \in low .. high
  BY Facts
<1> HIDE DEF b
<1>2. /\ n \in Nat /\ Len(u) = n + 1 /\ u[n + 1] = b
      /\ \A i \in 1 .. n : u[i] = w[i]
  BY <1>1, AppendProperties, LenProperties
<1> HIDE DEF u, n
<1>3. ASSUME NEW i \in Bodies(u), i # n + 1 PROVE i \in Bodies(w) /\ u[i] = w[i] /\ i \in 1 .. n
  <2>1. i \in 1 .. n + 1 /\ u[i].is = "body"
    BY <1>2, <1>3 DEF Bodies
  <2>2. i \in 1 .. n /\ u[i] = w[i]
    BY <1>2, <1>3, <2>1
  <2> QED
    BY <2>1, <2>2 DEF Bodies, n
<1>4. ASSUME NEW i \in Bodies(u) PROVE u[i].block \in low .. high /\ u[i].block # 0
  BY <1>1, <1>2, <1>3 DEF SortedIn
<1>5. ASSUME NEW i \in Bodies(u), NEW k \in Bodies(u), i < k PROVE u[i].block <= u[k].block
  <2>1. i \in 1 .. n + 1 /\ k \in 1 .. n + 1
    BY <1>2 DEF Bodies
  <2>2. i # n + 1
    BY <1>2, <1>5, <2>1
  <2>3. CASE k = n + 1
    <3>1. u[k].block = high
      BY <1>1, <1>2, <2>3
    <3>2. u[i].block \in low .. high
      BY <1>4, <1>5
    <3> QED
      BY <3>1, <3>2
  <2>4. CASE k # n + 1
    BY <1>3, <1>5, <2>2, <2>4 DEF SortedIn
  <2> QED
    BY <2>3, <2>4
<1> QED
  BY <1>4, <1>5 DEF SortedIn, u, b

LEMMA SortedWider ==
    ASSUME NEW w \in Seq(Tokens), NEW low, NEW high \in Nat, NEW higher \in Nat,
           high <= higher, low \in Nat, SortedIn(w, low, high)
    PROVE  SortedIn(w, low, higher)
BY DEF SortedIn, Bodies

(* A bad block is counted, or one too many ends the transfer. *)
LEMMA RetryFacts ==
    ASSUME TypeOK, NEW s \in {"SYNC", "TIMEOUT", "CANCELLED"}, Retry(s)
    PROVE  /\ UNCHANGED <<tries, expected, started, hs, long, blk, delivered>>
           /\ errors' \in 0 .. MaxErrors /\ replies' \in Seq(Replies)
           /\ \/ pc' = "purge" /\ status' = status
              \/ pc' = "done" /\ status' = s
<1>1. MaxErrors \in Nat /\ errors \in 0 .. MaxErrors /\ replies \in Seq(Replies)
  BY Facts DEF TypeOK
<1>2. "CAN" \in Replies
  BY DEF Replies
<1>3. CASE errors + 1 > MaxErrors
  BY <1>1, <1>2, <1>3, AppendProperties DEF Retry, Cancels, Ends, Reply
<1>4. CASE ~(errors + 1 > MaxErrors)
  BY <1>1, <1>4 DEF Retry
<1> QED
  BY <1>3, <1>4

(* The types of the sequences. *)
LEMMA QueueTypes ==
    ASSUME TypeOK, SentOK, [Next]_vars
    PROVE  wire' \in Seq(Tokens) /\ replies' \in Seq(Replies)
<1>1. /\ wire \in Seq(Tokens) /\ replies \in Seq(Replies)
      /\ sent \in 0 .. Blocks + 1 /\ Blocks \in Nat \ {0}
  BY Facts DEF TypeOK
<1>2. \A b \in Replies : Append(replies, b) \in Seq(Replies)
  BY <1>1, AppendProperties
<1>3. \A b \in Controls : Append(wire, Byte(b)) \in Seq(Tokens)
  BY <1>1, Facts, AppendProperties
<1>4. \A i : Append(wire, Header(i)) \in Seq(Tokens)
  BY <1>3, Facts DEF Controls
<1>5. wire # <<>> => Tail(wire) \in Seq(Tokens) /\ <<Rest>> \o Tail(wire) \in Seq(Tokens)
  BY <1>1, Facts, HeadTail, Replaced
<1>6. <<>> \in Seq(Tokens)
  OBVIOUS
<1> HIDE DEF Replies, Controls, Tokens
<1>r. "C" \in Replies /\ "ACK" \in Replies /\ "NAK" \in Replies /\ "CAN" \in Replies
  BY DEF Replies
<1>11. CASE Flush
  BY <1>1, <1>6, <1>11 DEF Flush
<1>12. CASE Kick
  BY <1>1, <1>2, <1>r, <1>12 DEF Kick, Reply, Ends
<1>13. CASE HandshakeTimeout
  BY <1>1, <1>13 DEF HandshakeTimeout
<1>14. CASE ReadHeader
  BY <1>1, <1>5, <1>14 DEF ReadHeader
<1>15. CASE HeaderTimeout
  BY <1>1, <1>2, <1>r, <1>15 DEF HeaderTimeout, Cancels, Ends, Reply
<1>16. CASE Decide
  <2>1. wire' = wire
    BY <1>16 DEF Decide
  <2>2. replies' \in Seq(Replies) \/ Retry("SYNC")
    BY <1>1, <1>2, <1>r, <1>16 DEF Decide, Reply
  <2> QED
    BY <1>1, <2>1, <2>2, RetryFacts
<1>17. CASE SecondCancel
  <2>1. wire' \in Seq(Tokens)
    BY <1>1, <1>5, <1>17 DEF SecondCancel
  <2>2. replies' = replies \/ Retry("CANCELLED")
    BY <1>17 DEF SecondCancel
  <2> QED
    BY <1>1, <2>1, <2>2, RetryFacts
<1>18. CASE ReadBody
  BY <1>1, <1>5, <1>18 DEF ReadBody
<1>19. CASE BodyTimeout
  BY <1>1, <1>19, RetryFacts DEF BodyTimeout
<1>20. CASE Purge
  BY <1>1, <1>2, <1>5, <1>r, <1>20 DEF Purge, Reply
<1>21. CASE Check
  <2>1. wire' = wire
    BY <1>21 DEF Check
  <2>2. replies' \in Seq(Replies) \/ Retry("SYNC")
    BY <1>1, <1>2, <1>r, <1>21 DEF Check, Accept, Cancels, Reply
  <2> QED
    BY <1>1, <2>1, <2>2, RetryFacts
<1>22. CASE SendBody
  <2>1. Body(sent) \in Tokens
    BY <1>22, Facts DEF SendBody, SentOK
  <2> QED
    BY <1>1, <1>22, <2>1, AppendProperties DEF SendBody
<1>23. CASE Listen
  <2>1. replies # <<>> /\ replies' = Tail(replies)
    BY <1>23 DEF Listen
  <2>2. replies' \in Seq(Replies)
    BY <1>1, <2>1, HeadTail
  <2>3. wire' = wire \/ \E i : wire' = Append(wire, Header(i))
    BY <1>23 DEF Listen, Leave, Send, Quiet
  <2> QED
    BY <1>1, <1>4, <2>2, <2>3
<1>24. CASE SenderTimeout
  BY <1>1, <1>4, <1>24 DEF SenderTimeout, Send
<1>25. CASE SenderAborts
  <2>1. <<Byte("CAN"), Byte("CAN")>> \in Seq(Tokens)
    <3>1. Byte("CAN") \in Tokens
      BY Facts DEF Controls
    <3> QED
      BY <3>1
  <2> QED
    BY <1>1, <1>25, <2>1, ConcatProperties DEF SenderAborts
<1>26. CASE LineFault
  <2>1. \A i \in 1 .. Len(wire) : Without(wire, i) \in Seq(Tokens)
    BY <1>1, Lost
  <2>2. \A i \in 1 .. Len(wire) : \A t \in Damage(wire[i]) :
           [wire EXCEPT ![i] = t] \in Seq(Tokens)
    <3> SUFFICES ASSUME NEW i \in 1 .. Len(wire), NEW t \in Damage(wire[i])
                 PROVE  [wire EXCEPT ![i] = t] \in Seq(Tokens)
      OBVIOUS
    <3>1. t \in Tokens
      BY <1>1, DamageType
    <3> QED
      BY <1>1, <3>1, ExceptSeq
  <2>3. \A i \in 1 .. Len(replies) : Without(replies, i) \in Seq(Replies)
    BY <1>1, Lost
  <2>4. \A i \in 1 .. Len(replies) : \A b \in Replies :
           [replies EXCEPT ![i] = b] \in Seq(Replies)
    BY <1>1, ExceptSeq
  <2>5. wire' \in Seq(Tokens)
    BY <1>1, <1>26, <2>1, <2>2 DEF LineFault
  <2>6. replies' \in Seq(Replies)
    BY <1>1, <1>26, <2>3, <2>4 DEF LineFault
  <2> QED
    BY <2>5, <2>6
<1>27. CASE Stall
  BY <1>1, <1>27 DEF Stall
<1>28. CASE UNCHANGED vars
  BY <1>1, <1>28 DEF vars
<1> QED
  BY <1>11, <1>12, <1>13, <1>14, <1>15, <1>16, <1>17, <1>18, <1>19, <1>20, <1>21,
     <1>22, <1>23, <1>24, <1>25, <1>26, <1>27, <1>28 DEF Next, Receive

(* The types of the receiver's and the sender's scalars. *)
ReceiverType ==
    /\ pc \in {"flush", "kick", "handshake", "header", "decide", "second",
               "body", "purge", "check", "done"}
    /\ tries \in 0 .. HandshakeTries
    /\ expected \in 0 .. Wrap - 1
    /\ errors \in 0 .. MaxErrors
    /\ {started, long} \subseteq BOOLEAN
    /\ {hs, blk} \subseteq Tokens
    /\ delivered \in Seq(0 .. Blocks)
    /\ status \in {"RUNNING", "OK", "TIMEOUT", "CANCELLED", "SYNC", "SINK"}

SourceType ==
    /\ sender \in {"ready", "header", "stalled", "wait", "gone"}
    /\ sent \in 0 .. Blocks + 1
    /\ faults \in 0 .. MaxFaults
    /\ resends \in 0 .. MaxResends

LEMMA SourceStep ==
    ASSUME TypeOK, SentOK, [Next]_vars
    PROVE  SourceType' /\ SentOK' /\ sent <= sent' /\ sent \in Nat /\ sent' \in Nat
<1>1. /\ SourceType /\ Blocks \in Nat \ {0} /\ MaxFaults \in Nat /\ MaxResends \in Nat
      /\ sent \in Nat
  BY Facts DEF TypeOK, SourceType
<1> USE DEF SentOK
<1>11. CASE Receive
  <2>1. UNCHANGED <<source, faults>>
    BY <1>11 DEF Receive, Flush, Kick, HandshakeTimeout, ReadHeader, HeaderTimeout,
       Decide, SecondCancel, ReadBody, BodyTimeout, Purge, Check
  <2> QED
    BY <1>1, <2>1 DEF source, SourceType
<1>12. CASE SendBody
  BY <1>1, <1>12 DEF SendBody, SourceType
<1>13. CASE Listen
  <2>1. \/ UNCHANGED <<sender, sent, resends>>
        \/ sender' = "gone" /\ UNCHANGED <<sent, resends>>
        \/ sender = "ready" /\ Send(1, 0)
        \/ sent = 1 /\ Send(1, 0)
        \/ sender = "wait" /\ Send(sent, 0)
        \/ sender = "wait" /\ sent <= Blocks /\ Send(sent + 1, 0)
    BY <1>1, <1>13 DEF Listen, Leave, Quiet
  <2>2. UNCHANGED faults
    BY <1>13 DEF Listen
  <2>3. CASE sender' = "gone" /\ UNCHANGED <<sent, resends>>
    BY <1>1, <2>2, <2>3 DEF SourceType
  <2>4. CASE sender = "ready" /\ Send(1, 0)
    BY <1>1, <2>2, <2>4 DEF SourceType, Send
  <2>5. CASE sent = 1 /\ Send(1, 0)
    BY <1>1, <2>2, <2>5 DEF SourceType, Send
  <2>6. CASE sender = "wait" /\ Send(sent, 0)
    BY <1>1, <2>2, <2>6 DEF SourceType, Send
  <2>7. CASE sender = "wait" /\ sent <= Blocks /\ Send(sent + 1, 0)
    BY <1>1, <2>2, <2>7 DEF SourceType, Send
  <2>8. CASE UNCHANGED <<sender, sent, resends>>
    BY <1>1, <2>2, <2>8 DEF SourceType
  <2> QED
    BY <2>1, <2>3, <2>4, <2>5, <2>6, <2>7, <2>8
<1>14. CASE SenderTimeout
  BY <1>1, <1>14 DEF SenderTimeout, Send, SourceType
<1>15. CASE SenderAborts
  BY <1>1, <1>15 DEF SenderAborts, SourceType
<1>16. CASE LineFault
  BY <1>1, <1>16 DEF LineFault, SourceType, source
<1>17. CASE Stall
  BY <1>1, <1>17 DEF Stall, SourceType
<1>18. CASE UNCHANGED vars
  BY <1>1, <1>18 DEF vars, source, SourceType
<1> QED
  BY <1>11, <1>12, <1>13, <1>14, <1>15, <1>16, <1>17, <1>18 DEF Next

LEMMA ReceiverStep ==
    ASSUME TypeOK, [Next]_vars
    PROVE  ReceiverType'
<1>1. /\ ReceiverType /\ Wrap \in Nat /\ Wrap > 2 /\ MaxErrors \in Nat
      /\ HandshakeTries \in Nat /\ errors \in 0 .. MaxErrors /\ 0 \in 0 .. MaxErrors
      /\ wire \in Seq(Tokens)
  BY Facts DEF TypeOK, ReceiverType
<1>2. ASSUME NEW s \in {"SYNC", "TIMEOUT", "CANCELLED"}, Retry(s)
      PROVE  ReceiverType'
  BY <1>1, <1>2, RetryFacts DEF ReceiverType
<1>3. wire # <<>> => Head(wire) \in Tokens
  BY <1>1
<1>4. Rest \in Tokens
  BY Facts
<1> HIDE DEF Tokens
<1>11. CASE Flush
  BY <1>1, <1>11 DEF Flush, ReceiverType
<1>12. CASE Kick
  BY <1>1, <1>12 DEF Kick, Ends, ReceiverType
<1>13. CASE HandshakeTimeout
  BY <1>1, <1>13 DEF HandshakeTimeout, ReceiverType
<1>14. CASE ReadHeader
  BY <1>1, <1>3, <1>14 DEF ReadHeader, ReceiverType
<1>15. CASE HeaderTimeout
  BY <1>1, <1>15 DEF HeaderTimeout, Cancels, Ends, ReceiverType
<1>16. CASE Decide
  <2>1. \/ \E s \in {"OK", "TIMEOUT"} : Ends(s)
        \/ pc' = "second" /\ UNCHANGED <<tries, expected, errors, started, hs, long,
                                         blk, delivered, status>>
        \/ /\ pc' = "body" /\ long' \in BOOLEAN /\ blk' = hs
           /\ UNCHANGED <<tries, expected, errors, started, hs, delivered, status>>
        \/ Retry("SYNC")
    BY <1>16 DEF Decide
  <2> QED
    BY <1>1, <1>2, <2>1 DEF Ends, ReceiverType
<1>17. CASE SecondCancel
  BY <1>1, <1>2, <1>17 DEF SecondCancel, Ends, ReceiverType
<1>18. CASE ReadBody
  BY <1>1, <1>3, <1>4, <1>18 DEF ReadBody, ReceiverType
<1>19. CASE BodyTimeout
  BY <1>2, <1>19 DEF BodyTimeout
<1>20. CASE Purge
  BY <1>1, <1>20 DEF Purge, ReceiverType
<1>21. CASE Check
  <2>1. \/ Retry("SYNC")
        \/ /\ errors' = 0 /\ pc' = "header"
           /\ UNCHANGED <<tries, expected, started, hs, long, blk, delivered, status>>
        \/ \E s \in {"SYNC", "SINK"} : Ends(s)
        \/ Accept
    BY <1>21 DEF Check, Cancels
  <2>2. CASE Accept
    <3>1. Payload(blk) \in 0 .. Blocks
      BY <1>1, Facts DEF Payload, ReceiverType, Tokens
    <3>2. delivered' \in Seq(0 .. Blocks)
      BY <1>1, <2>2, <3>1, AppendProperties DEF Accept, ReceiverType
    <3>3. expected' \in 0 .. Wrap - 1
      BY <1>1, <2>2 DEF Accept, ReceiverType
    <3> QED
      BY <1>1, <2>2, <3>2, <3>3 DEF Accept, ReceiverType
  <2> QED
    BY <1>1, <1>2, <2>1, <2>2 DEF Ends, ReceiverType
<1>22. CASE SendBody \/ Listen \/ SenderTimeout \/ SenderAborts \/ LineFault \/ Stall
            \/ UNCHANGED vars
  <2>1. UNCHANGED receiver
    BY <1>22 DEF SendBody, Listen, SenderTimeout, SenderAborts, LineFault, Stall, vars
  <2> QED
    BY <1>1, <2>1 DEF receiver, ReceiverType
<1> QED
  BY <1>11, <1>12, <1>13, <1>14, <1>15, <1>16, <1>17, <1>18, <1>19, <1>20, <1>21,
     <1>22 DEF Next, Receive

LEMMA TypeStep ==
    ASSUME TypeOK, SentOK, [Next]_vars
    PROVE  TypeOK' /\ SentOK'
BY QueueTypes, SourceStep, ReceiverStep DEF TypeOK, ReceiverType, SourceType

(* The remainder of a number is the only one below the divisor. *)
LEMMA Remainder ==
    ASSUME NEW w \in Nat \ {0}, NEW q \in Nat, NEW r \in 0 .. w - 1
    PROVE  (w * q + r) % w = r
<1> DEFINE n == w * q + r
           p == n \div w
           s == n % w
<1>1. w * q \in Nat /\ n \in Nat
  OBVIOUS
<1>2. p \in Nat /\ s \in 0 .. w - 1 /\ n = w * p + s
  <2> HIDE DEF n
  <2> QED
    BY <1>1
<1>3. w * p + s = w * q + r
  BY <1>2
<1> HIDE DEF n, p, s
<1>4. ASSUME NEW x \in Nat, NEW y \in Nat, x < y
      PROVE  w * x + w <= w * y
  <2>1. w * (x + 1) <= w * y
    BY <1>4
  <2> QED
    BY <2>1
<1>5. ~(p < q) /\ ~(q < p)
  <2>1. w * p \in Nat /\ w * q \in Nat
    BY <1>2
  <2> QED
    BY <1>2, <1>3, <1>4, <2>1
<1>6. p = q
  BY <1>2, <1>5
<1>7. s = r
  BY <1>2, <1>3, <1>6
<1> QED
  BY <1>7 DEF s, n

(* Block numbers count on from one another. *)
LEMMA NextNumber ==
    ASSUME NEW n \in Nat
    PROVE  /\ n % Wrap \in 0 .. Wrap - 1
           /\ (n + 1) % Wrap = ((n % Wrap) + 1) % Wrap
           /\ (n + 1) % Wrap = IF (n % Wrap) + 1 = Wrap THEN 0 ELSE (n % Wrap) + 1
<1> DEFINE q == n \div Wrap
           r == n % Wrap
<1>1. Wrap \in Nat /\ Wrap > 2
  BY Facts
<1>2. q \in Nat /\ r \in 0 .. Wrap - 1 /\ n = Wrap * q + r
  BY <1>1
<1> HIDE DEF q, r
<1>3. CASE r + 1 < Wrap
  <2>1. n + 1 = Wrap * q + (r + 1)
    BY <1>1, <1>2
  <2>2. (Wrap * q + (r + 1)) % Wrap = r + 1
    BY <1>1, <1>2, <1>3, Remainder
  <2>3. (Wrap * 0 + (r + 1)) % Wrap = r + 1
    BY <1>1, <1>2, <1>3, Remainder
  <2>4. Wrap * 0 + (r + 1) = r + 1
    BY <1>1, <1>2
  <2>5. (r + 1) % Wrap = r + 1
    BY <2>3, <2>4
  <2>6. (n + 1) % Wrap = r + 1
    BY <2>1, <2>2
  <2> QED
    BY <1>1, <1>2, <1>3, <2>5, <2>6 DEF r
<1>4. CASE r + 1 = Wrap
  <2>1. n + 1 = Wrap * (q + 1) + 0
    BY <1>1, <1>2, <1>4
  <2>2. (Wrap * (q + 1) + 0) % Wrap = 0
    BY <1>1, <1>2, Remainder
  <2>3. (Wrap * 1 + 0) % Wrap = 0
    BY <1>1, Remainder
  <2>4. Wrap * 1 + 0 = r + 1
    BY <1>1, <1>2, <1>4
  <2>5. (r + 1) % Wrap = 0
    BY <2>3, <2>4
  <2>6. (n + 1) % Wrap = 0
    BY <2>1, <2>2
  <2> QED
    BY <1>1, <1>2, <1>4, <2>5, <2>6 DEF r
<1> QED
  BY <1>1, <1>2, <1>3, <1>4

LEMMA SmallNumber ==
    ASSUME NEW n \in 0 .. Wrap
    PROVE  n % Wrap = IF n = Wrap THEN 0 ELSE n
<1>1. Wrap \in Nat /\ Wrap > 2
  BY Facts
<1>2. CASE n < Wrap
  <2>1. (Wrap * 0 + n) % Wrap = n
    BY <1>1, <1>2, Remainder
  <2>2. Wrap * 0 + n = n
    BY <1>1
  <2> QED
    BY <1>2, <2>1, <2>2
<1>3. CASE n = Wrap
  <2>1. (Wrap * 1 + 0) % Wrap = 0
    BY <1>1, Remainder
  <2>2. Wrap * 1 + 0 = n
    BY <1>1, <1>3
  <2> QED
    BY <1>3, <2>1, <2>2
<1> QED
  BY <1>1, <1>2, <1>3

(* A header makes the body after it the first on the wire. *)
LEMMA SortedFirst ==
    ASSUME NEW w \in Seq(Tokens), w # <<>>, NEW low \in Nat, NEW high \in Nat,
           SortedIn(w, low, high), Head(w).is = "body"
    PROVE  /\ Head(w).block \in low .. high /\ Head(w).block # 0
           /\ SortedIn(Tail(w), Head(w).block, high)
<1>1. /\ Head(w) = w[1] /\ Len(w) \in Nat \ {0} /\ Len(Tail(w)) = Len(w) - 1
      /\ \A i \in 1 .. Len(w) - 1 : Tail(w)[i] = w[i + 1]
  BY HeadTail
<1>2. 1 \in Bodies(w)
  BY <1>1 DEF Bodies
<1>3. \A i \in Bodies(Tail(w)) : i + 1 \in Bodies(w) /\ 1 < i + 1
                                  /\ Tail(w)[i] = w[i + 1] /\ i \in Nat
  BY <1>1 DEF Bodies
<1>4. w[1].block \in low .. high /\ w[1].block # 0
  BY <1>2 DEF SortedIn
<1>5. \A i \in Bodies(Tail(w)) : Tail(w)[i].block \in w[1].block .. high
                                  /\ Tail(w)[i].block # 0
  <2> SUFFICES ASSUME NEW i \in Bodies(Tail(w))
               PROVE  w[i + 1].block \in w[1].block .. high /\ w[i + 1].block # 0
    BY <1>3
  <2>1. i + 1 \in Bodies(w) /\ 1 < i + 1
    BY <1>3
  <2> DEFINE k == i + 1
  <2> HIDE DEF k
  <2>2. k \in Bodies(w) /\ 1 < k
    BY <2>1 DEF k
  <2>3. w[k].block \in low .. high /\ w[k].block # 0 /\ w[1].block <= w[k].block
    BY <1>2, <2>2 DEF SortedIn
  <2>4. w[k].block \in w[1].block .. high /\ w[k].block # 0
    BY <1>4, <2>3
  <2> QED
    BY <2>4 DEF k
<1>6. SortedIn(Tail(w), low, high)
  BY SortedTail
<1> QED
  BY <1>1, <1>4, <1>5, <1>6 DEF SortedIn

LEMMA LastType == ASSUME TypeOK PROVE Last \in Nat
<1>1. delivered \in Seq(0 .. Blocks) /\ Blocks \in Nat
  BY Facts DEF TypeOK
<1>2. CASE delivered # <<>>
  <2>1. Len(delivered) \in 1 .. Len(delivered)
    BY <1>1, <1>2
  <2> QED
    BY <1>1, <1>2, <2>1, ElementOfSeq DEF Last
<1> QED
  BY <1>2 DEF Last

(* What the receiver leaves alone unless it accepts a block. *)
LEMMA Undelivered ==
    ASSUME TypeOK, [Next]_vars, ~(Check /\ Accept)
    PROVE  UNCHANGED <<delivered, expected, started>>
<1> USE DEF receiver
<1>1. ASSUME NEW s \in {"SYNC", "TIMEOUT", "CANCELLED"}, Retry(s)
      PROVE  UNCHANGED <<delivered, expected, started>>
  BY <1>1, RetryFacts
<1>11. CASE Flush \/ Kick \/ HandshakeTimeout \/ ReadHeader \/ HeaderTimeout \/ Purge
            \/ ReadBody
  BY <1>11 DEF Flush, Kick, HandshakeTimeout, ReadHeader, HeaderTimeout, Purge, ReadBody,
     Cancels, Ends
<1>12. CASE Decide
  BY <1>1, <1>12 DEF Decide, Ends
<1>13. CASE SecondCancel
  BY <1>1, <1>13 DEF SecondCancel, Ends
<1>14. CASE BodyTimeout
  BY <1>1, <1>14 DEF BodyTimeout
<1>15. CASE Check
  BY <1>1, <1>15 DEF Check, Cancels, Ends
<1>16. CASE SendBody \/ Listen \/ SenderTimeout \/ SenderAborts \/ LineFault \/ Stall
            \/ UNCHANGED vars
  BY <1>16 DEF SendBody, Listen, SenderTimeout, SenderAborts, LineFault, Stall, vars
<1> QED
  BY <1>11, <1>12, <1>13, <1>14, <1>15, <1>16 DEF Next, Receive

(* Accept's block: sound, the next number, and younger than the last one. *)
LEMMA Accepted ==
    ASSUME IInv, Check, Accept
    PROVE  /\ blk.sound /\ blk.is = "body" /\ Payload(blk) = blk.block
           /\ blk.block \in 1 .. Blocks /\ blk.block \in Last .. sent
           /\ SortedIn(wire, blk.block, sent)
           /\ blk.block % Wrap = expected
           /\ delivered' = Append(delivered, blk.block) /\ delivered' # <<>>
           /\ Len(delivered') = Len(delivered) + 1 /\ Len(delivered) \in Nat
           /\ Last' = blk.block
           /\ \A i \in 1 .. Len(delivered) : delivered'[i] = delivered[i]
           /\ delivered'[Len(delivered) + 1] = blk.block
<1>1. /\ delivered \in Seq(0 .. Blocks) /\ Blocks \in Nat /\ blk \in Tokens
      /\ errors \in 0 .. MaxErrors /\ MaxErrors \in Nat
      /\ Wrap \in Nat /\ Wrap > 2 /\ expected \in 0 .. Wrap - 1
  BY Facts DEF IInv, TypeOK
<1>2. blk.block \in 0 .. Blocks /\ blk.sound \in BOOLEAN
  BY <1>1 DEF Tokens
<1>3. pc = "check" /\ pc' = "header" /\ expected' = (expected + 1) % Wrap
      /\ delivered' = Append(delivered, Payload(blk))
  BY DEF Check, Accept
<1>4. blk.sound
  <2> SUFFICES ASSUME ~blk.sound PROVE FALSE
    OBVIOUS
  <2>1. Retry("SYNC")
    BY DEF Check, Damaged
  <2>2. pc' \in {"purge", "done"}
    BY <2>1, RetryFacts DEF IInv
  <2> QED
    BY <1>3, <2>2
<1>5. Number(blk) = expected
  <2> SUFFICES ASSUME Number(blk) # expected PROVE FALSE
    OBVIOUS
  <2>1. Len(delivered') = Len(delivered) + 1 /\ Len(delivered) \in Nat
    <3>1. Payload(blk) \in 0 .. Blocks
      BY <1>2, <1>4 DEF Payload
    <3> QED
      BY <1>1, <1>3, <3>1, AppendProperties
  <2>2. delivered' = delivered
    BY <1>4 DEF Check, Damaged, Cancels, Ends
  <2> QED
    BY <2>1, <2>2
<1>6. InHand /\ Payload(blk) = blk.block
  BY <1>3, <1>4 DEF InHand, Payload
<1>7. blk.is = "body" /\ blk.block # 0 /\ blk.block \in Last .. sent
      /\ SortedIn(wire, blk.block, sent)
  BY <1>6 DEF IInv, OrderOK
<1>8. blk.block \in 1 .. Blocks
  BY <1>1, <1>2, <1>7
<1>9. /\ delivered' = Append(delivered, blk.block) /\ delivered' # <<>>
      /\ Len(delivered') = Len(delivered) + 1 /\ Len(delivered) \in Nat
      /\ \A i \in 1 .. Len(delivered) : delivered'[i] = delivered[i]
      /\ delivered'[Len(delivered) + 1] = blk.block
  BY <1>1, <1>2, <1>3, <1>6, AppendProperties, LenProperties
<1> QED
  BY <1>4, <1>5, <1>6, <1>7, <1>8, <1>9 DEF Number, Last

(* Outside InHand the wire's order is all there is to keep. *)
LEMMA OrderStep ==
    ASSUME IInv, [Next]_vars
    PROVE  OrderOK'
<1>1. /\ wire \in Seq(Tokens) /\ Last \in Nat /\ sent \in Nat /\ sent' \in Nat /\ sent <= sent'
      /\ SortedIn(wire, Last, sent) /\ Last <= sent /\ Blocks \in Nat \ {0}
      /\ sent \in 0 .. Blocks + 1
  BY LastType, SourceStep, Facts DEF IInv, OrderOK, TypeOK
<1>2. ASSUME NEW t \in Tokens, t.is # "body", wire' = Append(wire, t), UNCHANGED receiver
      PROVE  OrderOK'
  <2>1. Last' = Last /\ (InHand' <=> InHand) /\ blk' = blk
    BY <1>2 DEF Last, InHand, receiver
  <2>2. ASSUME NEW low \in Nat, SortedIn(wire, low, sent)
        PROVE  SortedIn(wire', low, sent')
    <3>1. SortedIn(wire, low, sent')
      BY <1>1, <2>2, SortedWider
    <3> QED
      BY <1>1, <1>2, <3>1, SortedByte
  <2>3. InHand => blk.block \in Nat
    BY <1>1 DEF IInv, OrderOK
  <2> QED
    BY <1>1, <2>1, <2>2, <2>3 DEF IInv, OrderOK
<1>3. ASSUME UNCHANGED <<wire, sent>>, UNCHANGED delivered, InHand' => InHand /\ UNCHANGED blk
      PROVE  OrderOK'
  <2>1. Last' = Last
    BY <1>3 DEF Last
  <2> QED
    BY <1>3, <2>1 DEF IInv, OrderOK
<1>4. ASSUME SortedIn(wire', Last, sent'), UNCHANGED delivered, ~InHand'
      PROVE  OrderOK'
  <2>1. Last' = Last
    BY <1>4 DEF Last
  <2> QED
    BY <1>1, <1>4, <2>1 DEF OrderOK
<1>5. ASSUME NEW s \in {"SYNC", "TIMEOUT", "CANCELLED"}, Retry(s)
      PROVE  UNCHANGED delivered /\ ~InHand'
  BY <1>5, RetryFacts DEF IInv, InHand
<1>6. wire # <<>> => /\ SortedIn(Tail(wire), Last, sent)
                     /\ SortedIn(<<Rest>> \o Tail(wire), Last, sent)
  BY <1>1, SortedTail, SortedRest
<1>7. \A i : Header(i) \in Tokens /\ Header(i).is # "body"
  BY Facts DEF Controls
<1>8. CASE Receive /\ ~(Check /\ Accept)
  <2>1. UNCHANGED <<sent, delivered>>
    <3>1. UNCHANGED delivered
      BY <1>8, Undelivered DEF IInv, Next
    <3>2. UNCHANGED sent
      BY <1>8 DEF Receive, Flush, Kick, HandshakeTimeout, ReadHeader, HeaderTimeout,
         Decide, SecondCancel, ReadBody, BodyTimeout, Purge, Check, source
    <3> QED
      BY <3>1, <3>2
  <2>11. CASE Flush
    <3>1. SortedIn(<<>>, Last, sent)
      BY DEF SortedIn, Bodies
    <3> QED
      BY <1>4, <2>1, <2>11, <3>1 DEF Flush, InHand
  <2>12. CASE Kick \/ HandshakeTimeout \/ HeaderTimeout
    BY <1>3, <2>1, <2>12 DEF Kick, HandshakeTimeout, HeaderTimeout, Cancels, Ends, InHand
  <2>13. CASE ReadHeader
    BY <1>4, <1>6, <2>1, <2>13 DEF ReadHeader, InHand
  <2>14. CASE Decide
    <3>1. ~InHand'
      BY <1>5, <2>14 DEF Decide, Ends, InHand
    <3> QED
      BY <1>3, <2>1, <2>14, <3>1 DEF Decide
  <2>15. CASE SecondCancel
    <3>1. ~InHand'
      BY <1>5, <2>15 DEF SecondCancel, Ends, InHand
    <3>2. SortedIn(wire', Last, sent)
      BY <1>1, <1>6, <2>15 DEF SecondCancel
    <3> QED
      BY <1>4, <2>1, <3>1, <3>2
  <2>16. CASE ReadBody
    <3>1. wire # <<>>
      BY <2>16 DEF ReadBody
    <3>2. CASE WholeBody
      <4>1. blk' = Head(wire) /\ wire' = Tail(wire) /\ Head(wire).is = "body"
        BY <2>16, <3>2 DEF ReadBody, WholeBody
      <4>2. /\ Head(wire).block \in Last .. sent /\ Head(wire).block # 0
            /\ SortedIn(Tail(wire), Head(wire).block, sent)
        BY <1>1, <3>1, <4>1, SortedFirst
      <4>3. SortedIn(wire', Last, sent) /\ Last' = Last
        BY <1>6, <2>1, <3>1, <4>1 DEF Last
      <4> QED
        BY <1>1, <2>1, <4>1, <4>2, <4>3 DEF OrderOK
    <3>3. CASE ~WholeBody
      <4>1. ~InHand'
        BY <2>16, <3>3, Facts DEF ReadBody, InHand
      <4>2. SortedIn(wire', Last, sent)
        BY <1>6, <2>16, <3>1, <3>3 DEF ReadBody
      <4> QED
        BY <1>4, <2>1, <4>1, <4>2
    <3> QED
      BY <3>2, <3>3
  <2>17. CASE BodyTimeout
    BY <1>3, <1>5, <2>1, <2>17 DEF BodyTimeout
  <2>18. CASE Purge
    <3>1. SortedIn(wire', Last, sent)
      BY <1>1, <1>6, <2>18 DEF Purge
    <3> QED
      BY <1>4, <2>1, <2>18, <3>1 DEF Purge, InHand
  <2>19. CASE Check
    <3>1. ~InHand'
      BY <1>5, <1>8, <2>19 DEF Check, Cancels, Ends, InHand
    <3> QED
      BY <1>3, <2>1, <2>19, <3>1 DEF Check
  <2> QED
    BY <1>8, <2>11, <2>12, <2>13, <2>14, <2>15, <2>16, <2>17, <2>18, <2>19 DEF Receive
<1>9. CASE Check /\ Accept
  <2>1. SortedIn(wire, blk.block, sent) /\ Last' = blk.block /\ blk.block \in Last .. sent
    BY <1>9, Accepted
  <2>2. UNCHANGED <<wire, sent>> /\ ~InHand'
    BY <1>9 DEF Check, Accept, InHand, source
  <2> QED
    BY <1>1, <2>1, <2>2 DEF OrderOK
<1>10. CASE SendBody
  <2>1. /\ sent \in 1 .. Blocks /\ sent' = sent /\ wire' = Append(wire, Body(sent))
        /\ UNCHANGED receiver
    BY <1>10 DEF SendBody, IInv, SentOK
  <2>2. Last' = Last /\ (InHand' <=> InHand) /\ blk' = blk
    BY <2>1 DEF Last, InHand, receiver
  <2>3. ASSUME NEW low \in Nat, SortedIn(wire, low, sent), low <= sent
        PROVE  SortedIn(wire', low, sent')
    BY <1>1, <2>1, <2>3, SortedBody
  <2>4. InHand => blk.block \in Nat /\ blk.block <= sent
    BY <1>1 DEF IInv, OrderOK
  <2> QED
    BY <1>1, <2>1, <2>2, <2>3, <2>4 DEF IInv, OrderOK
<1>11. CASE Listen
  <2>1. UNCHANGED receiver
    BY <1>11 DEF Listen
  <2>2. \/ UNCHANGED <<wire, sent>>
        \/ \E i : wire' = Append(wire, Header(i))
    BY <1>11 DEF Listen, Leave, Quiet, Send
  <2>3. UNCHANGED delivered /\ (InHand' => InHand /\ UNCHANGED blk)
    BY <2>1 DEF receiver, InHand
  <2> QED
    BY <1>2, <1>3, <1>7, <2>1, <2>2, <2>3
<1>12. CASE SenderTimeout
  BY <1>2, <1>7, <1>12 DEF SenderTimeout, Send
<1>13. CASE SenderAborts
  <2> DEFINE c == Byte("CAN")
             u == Append(wire, c)
  <2>1. c \in Tokens /\ c.is # "body"
    BY Facts DEF Controls
  <2> HIDE DEF c
  <2>2. u \in Seq(Tokens)
    BY <1>1, <2>1, AppendProperties
  <2>3. wire' = Append(u, c) /\ UNCHANGED <<receiver, sent>>
    <3>1. wire' = wire \o <<c, c>> /\ UNCHANGED <<receiver, sent>>
      BY <1>13 DEF SenderAborts, c
    <3>2. wire \o <<c, c>> = Append(Append(wire, c), c)
      BY <1>1, <2>1
    <3> QED
      BY <3>1, <3>2
  <2>4. Last' = Last /\ (InHand' <=> InHand) /\ blk' = blk
    BY <2>3 DEF Last, InHand, receiver
  <2> HIDE DEF u
  <2>5. ASSUME NEW low \in Nat, SortedIn(wire, low, sent)
        PROVE  SortedIn(wire', low, sent')
    <3>1. SortedIn(u, low, sent)
      BY <1>1, <2>1, <2>5, SortedByte DEF u
    <3> QED
      BY <2>1, <2>2, <2>3, <3>1, SortedByte
  <2>6. InHand => blk.block \in Nat
    BY <1>1 DEF IInv, OrderOK
  <2> QED
    BY <1>1, <2>3, <2>4, <2>5, <2>6 DEF IInv, OrderOK
<1>14. CASE LineFault
  <2>1. UNCHANGED receiver /\ UNCHANGED sent
    BY <1>14 DEF LineFault, source
  <2>2. Last' = Last /\ (InHand' <=> InHand) /\ blk' = blk
    BY <2>1 DEF Last, InHand, receiver
  <2>3. ASSUME NEW low \in Nat, SortedIn(wire, low, sent)
        PROVE  SortedIn(wire', low, sent)
    <3>1. \/ wire' = wire
          \/ \E i \in 1 .. Len(wire) : wire' = Without(wire, i)
          \/ \E i \in 1 .. Len(wire) : \E t \in Damage(wire[i]) : wire' = [wire EXCEPT ![i] = t]
      BY <1>14 DEF LineFault
    <3>2. \A i \in 1 .. Len(wire) : SortedIn(Without(wire, i), low, sent)
      BY <1>1, <2>3, SortedLost
    <3>3. \A i \in 1 .. Len(wire) : \A t \in Damage(wire[i]) :
             SortedIn([wire EXCEPT ![i] = t], low, sent)
      BY <1>1, <2>3, SortedDamaged
    <3> QED
      BY <2>3, <3>1, <3>2, <3>3
  <2>4. InHand => blk.block \in Nat
    BY <1>1 DEF IInv, OrderOK
  <2> QED
    BY <1>1, <2>1, <2>2, <2>3, <2>4 DEF IInv, OrderOK
<1>15. CASE Stall \/ UNCHANGED vars
  <2>1. UNCHANGED receiver /\ UNCHANGED <<wire, sent>>
    BY <1>15 DEF Stall, vars, source
  <2> QED
    BY <1>3, <2>1 DEF receiver, InHand
<1> QED
  BY <1>8, <1>9, <1>10, <1>11, <1>12, <1>13, <1>14, <1>15 DEF Next, Receive

(* The numbers of the blocks delivered go up one by one, modulo Wrap. *)
LEMMA NumberedStep ==
    ASSUME IInv, Check, Accept
    PROVE  Numbered(delivered') /\ expected' = (Len(delivered') + 1) % Wrap
<1> DEFINE n == Len(delivered)
<1>1. /\ n \in Nat /\ Len(delivered') = n + 1 /\ Wrap \in Nat /\ Wrap > 2
      /\ delivered'[n + 1] = blk.block /\ blk.block \in 1 .. Blocks
      /\ \A i \in 1 .. n : delivered'[i] = delivered[i]
      /\ blk.block % Wrap = expected /\ expected = (n + 1) % Wrap
      /\ Last <= blk.block /\ Last \in Nat
  BY Accepted, LastType, Facts DEF IInv, DeliveredOK
<1>2. n > 0 => Last = delivered[n] /\ delivered[n] \in Nat /\ delivered[n] % Wrap = n % Wrap
  BY <1>1, LastType, EmptySeq DEF Last, IInv, DeliveredOK, Numbered
<1>3. n % Wrap # (n + 1) % Wrap /\ (n + 1) + 1 = n + 2
      /\ ((n + 1) + 1) % Wrap = (((n + 1) % Wrap) + 1) % Wrap
  <2> HIDE DEF n
  <2>1. n + 1 \in Nat
    BY <1>1
  <2>2. /\ n % Wrap \in 0 .. Wrap - 1
        /\ (n + 1) % Wrap = IF (n % Wrap) + 1 = Wrap THEN 0 ELSE (n % Wrap) + 1
    BY <1>1, NextNumber
  <2>3. ((n + 1) + 1) % Wrap = (((n + 1) % Wrap) + 1) % Wrap
    BY <2>1, NextNumber
  <2>4. n % Wrap # (n + 1) % Wrap
    BY <1>1, <2>2
  <2> QED
    BY <1>1, <2>3, <2>4
<1> HIDE DEF n
<1>4. n > 0 => delivered[n] < blk.block
  <2>1. n > 0 => delivered[n] # blk.block
    BY <1>1, <1>2, <1>3
  <2> QED
    BY <1>1, <1>2, <2>1
<1>5. \A i \in 1 .. n : delivered[i] \in 1 .. Blocks /\ delivered[i] % Wrap = i % Wrap
  BY DEF IInv, DeliveredOK, Numbered, n
<1>6. \A i \in 2 .. n : delivered[i - 1] < delivered[i]
  BY DEF IInv, DeliveredOK, Numbered, n
<1>7. ASSUME NEW i \in 1 .. n + 1
      PROVE  delivered'[i] \in 1 .. Blocks /\ delivered'[i] % Wrap = i % Wrap
  <2>1. CASE i = n + 1
    BY <1>1, <2>1
  <2>2. CASE i # n + 1
    <3>1. i \in 1 .. n
      BY <1>1, <2>2
    <3> QED
      BY <1>1, <1>5, <3>1
  <2> QED
    BY <2>1, <2>2
<1>8. ASSUME NEW i \in 2 .. n + 1
      PROVE  delivered'[i - 1] < delivered'[i]
  <2>1. CASE i = n + 1
    <3>1. i - 1 = n /\ n > 0 /\ n \in 1 .. n
      BY <1>1, <2>1
    <3> QED
      BY <1>1, <1>4, <2>1, <3>1
  <2>2. CASE i # n + 1
    <3>1. i \in 2 .. n /\ i \in 1 .. n /\ i - 1 \in 1 .. n
      BY <1>1, <2>2
    <3> QED
      BY <1>1, <1>6, <3>1
  <2> QED
    BY <2>1, <2>2
<1>9. Numbered(delivered')
  BY <1>1, <1>7, <1>8 DEF Numbered
<1>10. expected' = (expected + 1) % Wrap
  BY DEF Accept
<1> QED
  BY <1>1, <1>3, <1>9, <1>10

LEMMA DeliveredStep ==
    ASSUME IInv, [Next]_vars
    PROVE  DeliveredOK'
<1> USE DEF DeliveredOK
<1>1. ASSUME UNCHANGED <<delivered, expected, started>>,
             pc' # "done" => status' = "RUNNING", status' = "OK" => started
      PROVE  DeliveredOK'
  BY <1>1 DEF IInv
<1>2. ASSUME NEW s \in {"SYNC", "TIMEOUT", "CANCELLED"}, Retry(s), pc # "done"
      PROVE  DeliveredOK'
  BY <1>1, <1>2, RetryFacts DEF IInv
<1>3. (pc # "done" => status = "RUNNING") /\ (status = "OK" => started)
  BY DEF IInv
<1>8. CASE Receive /\ ~(Check /\ Accept)
  <2>1. UNCHANGED <<delivered, expected, started>>
    BY <1>8, Undelivered DEF IInv, Next
  <2>2. CASE \E s \in {"SYNC", "TIMEOUT", "CANCELLED"} : Retry(s) /\ pc # "done"
    BY <1>2, <2>2
  <2>3. CASE pc # "done" /\ UNCHANGED status
    BY <1>1, <1>3, <2>1, <2>3
  <2>4. CASE \E s \in {"SYNC", "TIMEOUT", "CANCELLED", "SINK"} : Ends(s)
    BY <1>1, <2>1, <2>4 DEF Ends
  <2>11. CASE Flush \/ HandshakeTimeout \/ ReadHeader \/ ReadBody \/ Purge
    BY <2>3, <2>11 DEF Flush, HandshakeTimeout, ReadHeader, ReadBody, Purge
  <2>12. CASE Kick \/ HeaderTimeout
    BY <2>3, <2>4, <2>12 DEF Kick, HeaderTimeout, Cancels
  <2>14. CASE Decide
    <3>1. CASE Ends(IF started THEN "OK" ELSE "TIMEOUT")
      BY <1>1, <2>1, <3>1 DEF Ends
    <3> QED
      BY <2>2, <2>3, <2>14, <3>1 DEF Decide
  <2>15. CASE SecondCancel
    BY <2>2, <2>4, <2>15 DEF SecondCancel
  <2>17. CASE BodyTimeout
    BY <2>2, <2>17 DEF BodyTimeout
  <2>19. CASE Check
    BY <1>8, <2>2, <2>3, <2>4, <2>19 DEF Check, Cancels
  <2> QED
    BY <1>8, <2>11, <2>12, <2>14, <2>15, <2>17, <2>19 DEF Receive
<1>9. CASE Check /\ Accept
  <2>1. Numbered(delivered') /\ expected' = (Len(delivered') + 1) % Wrap /\ delivered' # <<>>
    BY <1>9, NumberedStep, Accepted
  <2>2. started' = TRUE /\ UNCHANGED status /\ pc = "check" /\ pc' = "header"
    BY <1>9 DEF Check, Accept
  <2> QED
    BY <1>3, <2>1, <2>2
<1>10. CASE SendBody \/ Listen \/ SenderTimeout \/ SenderAborts \/ LineFault \/ Stall
            \/ UNCHANGED vars
  <2>1. UNCHANGED receiver
    BY <1>10 DEF SendBody, Listen, SenderTimeout, SenderAborts, LineFault, Stall, vars
  <2> QED
    BY <1>1, <1>3, <2>1 DEF receiver
<1> QED
  BY <1>8, <1>9, <1>10 DEF Next

LEMMA Init_IInv == Init => IInv
<1> SUFFICES ASSUME Init PROVE IInv
  OBVIOUS
<1> USE DEF Init
<1>1. Byte("EOT") \in Tokens /\ Byte("CAN") \in Tokens /\ Byte("junk") \in Tokens
  BY Facts DEF Controls
<1>2. wire \in Seq(Tokens)
  <2>1. <<>> \in Seq(Tokens) /\ <<Byte("EOT")>> \in Seq(Tokens)
        /\ <<Byte("CAN"), Byte("CAN")>> \in Seq(Tokens)
    BY <1>1
  <2> QED
    BY <2>1 DEF StaleWires
<1>3. replies \in Seq(Replies) /\ delivered \in Seq(0 .. Blocks)
  BY EmptySeq
<1>4. TypeOK
  <2>1. hs \in Tokens /\ blk \in Tokens
    BY <1>1, Facts
  <2>2. /\ pc = "flush" /\ tries \in 0 .. HandshakeTries /\ errors \in 0 .. MaxErrors
        /\ expected \in 0 .. Wrap - 1 /\ started \in BOOLEAN /\ long \in BOOLEAN
        /\ status = "RUNNING"
    <3>1. pc = "flush" /\ status = "RUNNING" /\ tries = 0 /\ errors = 0 /\ expected = 1
      OBVIOUS
    <3>2. started \in BOOLEAN /\ long \in BOOLEAN
      OBVIOUS
    <3> HIDE DEF Init
    <3>3. /\ tries \in 0 .. HandshakeTries /\ errors \in 0 .. MaxErrors
          /\ expected \in 0 .. Wrap - 1
      BY <3>1, Facts
    <3> QED
      BY <3>1, <3>2, <3>3
  <2>3. sender = "ready" /\ sent \in 0 .. Blocks + 1 /\ faults \in 0 .. MaxFaults
        /\ resends \in 0 .. MaxResends
    BY Facts
  <2> HIDE DEF Init
  <2>4. {started, long} \subseteq BOOLEAN
    BY <2>2
  <2>5. {hs, blk} \subseteq Tokens
    BY <2>1
  <2> QED
    BY <1>2, <1>3, <2>2, <2>3, <2>4, <2>5 DEF TypeOK
<1>5. SentOK /\ Last = 0 /\ ~InHand
  BY DEF SentOK, Last, InHand
<1>6. SortedIn(wire, 0, 0)
  <2>1. \A i \in 1 .. Len(wire) : wire[i].is # "body"
    BY DEF StaleWires, Byte
  <2> QED
    BY <2>1 DEF SortedIn, Bodies
<1>7. DeliveredOK
  <2>1. 1 % Wrap = 1
    BY SmallNumber, Facts
  <2>2. Len(delivered) = 0
    OBVIOUS
  <2> QED
    BY <2>1, <2>2 DEF DeliveredOK, Numbered
<1> QED
  BY <1>4, <1>5, <1>6, <1>7 DEF IInv, OrderOK

LEMMA Step_IInv == IInv /\ [Next]_vars => IInv'
BY TypeStep, OrderStep, DeliveredStep DEF IInv

(***************************************************************************)
(* A line that damages nothing.                                            *)
(*                                                                         *)
(* Flight strings together what lies between the sink and the sender: the   *)
(* last block the receiver has settled, the header it has read, the wire.   *)
(* Every token follows from the one or two before it (Chain), and the last  *)
(* one tells where the sender is (Tip).                                     *)
(***************************************************************************)
Headers == {"SOH", "STX"}

Behind == IF pc = "check" THEN blk.block ELSE Len(delivered)
Ahead  == IF pc \in {"decide", "body", "second"} THEN <<hs>> ELSE <<>>
Flight == <<Body(Behind)>> \o (Ahead \o wire)

HeaderOf(n) == IF n \in LongBlocks THEN "STX" ELSE "SOH"

HasHeader(f, k) == f[k].is \in Headers /\ f[k - 1].is = "body"

HasBody(f, k) ==
    /\ k > 2 /\ f[k].is = "body" /\ f[k].sound
    /\ f[k - 1].is = HeaderOf(f[k].block)
    /\ f[k].block \in {f[k - 2].block, f[k - 2].block + 1}

HasEnd(f, k) ==
    /\ f[k].is = "EOT"
    /\ \/ f[k - 1].is = "EOT"
       \/ f[k - 1].is = "body" /\ f[k - 1].block = Blocks

HasCancel(f, k) ==
    /\ f[k].is = "CAN"
    /\ \/ f[k - 1].is = "CAN"
       \/ f[k - 1].is \notin Headers /\ k < Len(f) /\ f[k + 1].is = "CAN"

Link(f, k) == HasHeader(f, k) \/ HasBody(f, k) \/ HasEnd(f, k) \/ HasCancel(f, k)

Chain(f) == f[1].is = "body" /\ \A k \in 2 .. Len(f) : Link(f, k)

Tip(f, who, at) ==
    LET last == f[Len(f)]
    IN  /\ who # "stalled"
        /\ who = "ready" => Len(f) = 1 /\ f[1].block = 0
        /\ who = "header" =>
              /\ Len(f) > 1 /\ last.is = HeaderOf(at)
              /\ at \in {f[Len(f) - 1].block, f[Len(f) - 1].block + 1}
        /\ who = "wait" => \/ last.is = "body" /\ last.block = at
                           \/ last.is = "EOT" /\ at = Blocks + 1
        /\ who = "gone" => last.is \notin Headers

InOrder == \A i \in 1 .. Len(delivered) : delivered[i] = i

Reading ==
    /\ pc # "purge"
    /\ pc = "body" => hs.is \in Headers /\ blk = hs /\ (long <=> hs.is = "STX")
    /\ pc = "second" => hs.is = "CAN"
    /\ pc = "check" => /\ blk.sound /\ blk.is = "body"
                       /\ blk.block \in {Len(delivered), Len(delivered) + 1}

Running == Chain(Flight) /\ Tip(Flight, sender, sent) /\ Reading

Clean == faults = 0 =>
    /\ InOrder
    /\ pc = "flush" => sender = "ready" /\ sent = 0 /\ replies = <<>> /\ delivered = <<>>
    /\ pc \notin {"flush", "done"} => Running
    /\ status = "OK" => Complete

-----------------------------------------------------------------------------
(* The links of a chain that grows at its end. *)
LEMMA ChainGrows ==
    ASSUME NEW f \in Seq(Tokens), f # <<>>, Chain(f), NEW t \in Tokens,
           Link(Append(f, t), Len(f) + 1)
    PROVE  Chain(Append(f, t))
<1> DEFINE g == Append(f, t)
<1>1. /\ Len(f) \in Nat \ {0} /\ Len(g) = Len(f) + 1
      /\ \A i \in 1 .. Len(f) : g[i] = f[i]
  BY AppendProperties, EmptySeq
<1> HIDE DEF g
<1>2. g[1].is = "body"
  BY <1>1 DEF Chain
<1>3. ASSUME NEW k \in 2 .. Len(f) PROVE Link(g, k)
  <2>1. Link(f, k)
    BY DEF Chain
  <2>2. /\ g[k] = f[k] /\ k - 1 \in 1 .. Len(f) /\ g[k - 1] = f[k - 1]
        /\ k > 2 => g[k - 2] = f[k - 2]
        /\ k < Len(f) => g[k + 1] = f[k + 1]
        /\ k < Len(f) => k < Len(g)
    BY <1>1
  <2> QED
    BY <2>1, <2>2 DEF Link, HasHeader, HasBody, HasEnd, HasCancel
<1>4. Link(g, Len(f) + 1)
  BY DEF g
<1>5. \A k \in 2 .. Len(g) : k \in 2 .. Len(f) \/ k = Len(f) + 1
  BY <1>1
<1>6. Chain(g)
  BY <1>2, <1>3, <1>4, <1>5 DEF Chain
<1> QED
  BY <1>6 DEF g

(* The same for the two CANs of an abort. *)
LEMMA ChainCancels ==
    ASSUME NEW f \in Seq(Tokens), f # <<>>, Chain(f), f[Len(f)].is \notin Headers,
           NEW c \in Tokens, c.is = "CAN"
    PROVE  Chain(Append(Append(f, c), c))
<1> DEFINE g == Append(f, c)
           h == Append(g, c)
           n == Len(f)
<1>1. /\ n \in Nat \ {0} /\ g \in Seq(Tokens) /\ Len(g) = n + 1
      /\ \A i \in 1 .. n : g[i] = f[i]
      /\ g[n + 1] = c
  BY AppendProperties, EmptySeq
<1> HIDE DEF g
<1>2. /\ Len(h) = n + 2 /\ \A i \in 1 .. n + 1 : h[i] = g[i]
      /\ h[n + 2] = c
  BY <1>1, AppendProperties
<1> HIDE DEF h, n
<1>3. h[1].is = "body" /\ h[n].is \notin Headers /\ h[n + 1] = c
  BY <1>1, <1>2 DEF Chain, n
<1>4. ASSUME NEW k \in 2 .. n PROVE Link(h, k)
  <2>1. Link(f, k)
    BY DEF Chain, n
  <2>2. /\ h[k] = f[k] /\ k - 1 \in 1 .. n /\ h[k - 1] = f[k - 1]
        /\ k > 2 => h[k - 2] = f[k - 2]
        /\ k < n => h[k + 1] = f[k + 1]
        /\ k < n => k < Len(h)
    BY <1>1, <1>2
  <2> QED
    BY <2>1, <2>2 DEF Link, HasHeader, HasBody, HasEnd, HasCancel, n
<1>5. Link(h, n + 1)
  <2>1. (n + 1) - 1 = n /\ (n + 1) + 1 = n + 2 /\ n + 1 < Len(h)
    BY <1>1, <1>2
  <2> QED
    BY <1>2, <1>3, <2>1 DEF Link, HasCancel
<1>6. Link(h, n + 2)
  <2>1. (n + 2) - 1 = n + 1
    BY <1>1
  <2> QED
    BY <1>2, <1>3, <2>1 DEF Link, HasCancel
<1>7. \A k \in 2 .. Len(h) : k \in 2 .. n \/ k = n + 1 \/ k = n + 2
  BY <1>1, <1>2
<1>8. Chain(h)
  BY <1>3, <1>4, <1>5, <1>6, <1>7 DEF Chain
<1> QED
  BY <1>8 DEF h, g

(* A chain whose first block has been read begins at the next one. *)
LEMMA ChainMoves ==
    ASSUME NEW f \in Seq(Tokens), NEW g \in Seq(Tokens), Len(f) > 2, Chain(f),
           Len(g) = Len(f) - 2, \A k \in 1 .. Len(g) : g[k] = f[k + 2],
           f[3].is = "body"
    PROVE  Chain(g)
<1>1. Len(f) \in Nat /\ Len(g) \in Nat
  BY LenProperties
<1>2. g[1].is = "body"
  BY <1>1
<1>3. ASSUME NEW k \in 2 .. Len(g) PROVE Link(g, k)
  <2> DEFINE j == k + 2
  <2>1. j \in 2 .. Len(f) /\ k \in Nat /\ k - 1 \in 1 .. Len(g) /\ (k - 1) + 2 = j - 1
    BY <1>1
  <2>2. g[k] = f[j] /\ g[k - 1] = f[j - 1]
    BY <1>1, <2>1
  <2>3. Link(f, j)
    BY <2>1 DEF Chain
  <2>4. k > 2 => k - 2 \in 1 .. Len(g) /\ (k - 2) + 2 = j - 2
    BY <1>1
  <2>5. k > 2 => g[k - 2] = f[j - 2]
    BY <2>4
  <2>6. j < Len(f) => k < Len(g) /\ k + 1 \in 1 .. Len(g) /\ (k + 1) + 2 = j + 1
    BY <1>1
  <2>7. j < Len(f) => k < Len(g) /\ g[k + 1] = f[j + 1]
    BY <2>6
  <2>8. CASE k = 2
    <3>1. g[1].is = "body" /\ f[j - 1].is = "body"
      BY <1>2, <2>2, <2>8
    <3>2. ~HasBody(f, j)
      BY <3>1 DEF HasBody, HeaderOf
    <3> HIDE DEF j
    <3> QED
      BY <2>2, <2>3, <2>7, <3>2 DEF Link, HasHeader, HasEnd, HasCancel
  <2>9. CASE k # 2
    <3>1. k > 2
      BY <2>1, <2>9
    <3> HIDE DEF j
    <3> QED
      BY <2>2, <2>3, <2>5, <2>7, <3>1 DEF Link, HasHeader, HasBody, HasEnd, HasCancel
  <2> QED
    BY <2>8, <2>9
<1> QED
  BY <1>2, <1>3 DEF Chain

LEMMA BehindType ==
    ASSUME IInv, InOrder
    PROVE  /\ Behind \in 0 .. Blocks /\ Len(delivered) \in 0 .. Blocks
           /\ Body(Behind) \in Tokens /\ Body(Behind).is = "body"
           /\ Body(Behind).block = Behind
<1>1. delivered \in Seq(0 .. Blocks) /\ Blocks \in Nat /\ Len(delivered) \in Nat
      /\ blk \in Tokens
  BY Facts, LenProperties DEF IInv, TypeOK
<1>2. Len(delivered) \in 0 .. Blocks
  <2>1. CASE Len(delivered) > 0
    <3>1. Len(delivered) \in 1 .. Len(delivered)
      BY <1>1, <2>1
    <3> QED
      BY <1>1, <3>1 DEF InOrder, IInv, DeliveredOK, Numbered
  <2> QED
    BY <1>1, <2>1
<1>3. Behind \in 0 .. Blocks
  BY <1>1, <1>2 DEF Behind, Tokens
<1> QED
  BY <1>2, <1>3 DEF Body, Tokens

(* A token put in front of a sequence. *)
LEMMA Cons ==
    ASSUME NEW S, NEW w \in Seq(S), NEW x \in S
    PROVE  /\ <<x>> \o w \in Seq(S) /\ Len(<<x>> \o w) = Len(w) + 1 /\ Len(w) \in Nat
           /\ (<<x>> \o w)[1] = x
           /\ \A i \in 1 .. Len(w) : (<<x>> \o w)[i + 1] = w[i]
           /\ <<x>> \o w # <<>>
<1>1. <<x>> \in Seq(S) /\ Len(<<x>>) = 1 /\ <<x>>[1] = x /\ Len(w) \in Nat
  OBVIOUS
<1> DEFINE u == <<x>> \o w
<1>2. /\ u \in Seq(S) /\ Len(u) = Len(<<x>>) + Len(w)
      /\ \A i \in 1 .. Len(<<x>>) + Len(w) :
            u[i] = IF i <= Len(<<x>>) THEN <<x>>[i] ELSE w[i - Len(<<x>>)]
  BY <1>1, ConcatProperties
<1> HIDE DEF u
<1>3. Len(u) = Len(w) + 1 /\ u[1] = x
  BY <1>1, <1>2
<1>4. ASSUME NEW i \in 1 .. Len(w) PROVE u[i + 1] = w[i]
  <2>1. i + 1 \in 1 .. Len(<<x>>) + Len(w) /\ ~(i + 1 <= Len(<<x>>)) /\ (i + 1) - Len(<<x>>) = i
    BY <1>1
  <2> QED
    BY <1>2, <2>1
<1>5. u # <<>>
  BY <1>1, <1>3
<1> QED
  BY <1>1, <1>2, <1>3, <1>4, <1>5 DEF u

LEMMA ConsAppend ==
    ASSUME NEW S, NEW w \in Seq(S), NEW x \in S, NEW t \in S
    PROVE  <<x>> \o Append(w, t) = Append(<<x>> \o w, t)
<1> DEFINE a == <<x>> \o w
           b == Append(w, t)
           c == <<x>> \o b
           d == Append(a, t)
<1>1. /\ a \in Seq(S) /\ Len(a) = Len(w) + 1 /\ Len(w) \in Nat /\ a[1] = x
      /\ \A i \in 1 .. Len(w) : a[i + 1] = w[i]
  BY Cons
<1>2. /\ b \in Seq(S) /\ Len(b) = Len(w) + 1
      /\ \A i \in 1 .. Len(w) : b[i] = w[i]
      /\ b[Len(w) + 1] = t
  BY AppendProperties
<1> HIDE DEF a, b
<1>3. /\ c \in Seq(S) /\ Len(c) = Len(b) + 1 /\ c[1] = x
      /\ \A i \in 1 .. Len(b) : c[i + 1] = b[i]
  BY <1>2, Cons
<1>4. /\ d \in Seq(S) /\ Len(d) = Len(a) + 1
      /\ \A i \in 1 .. Len(a) : d[i] = a[i]
      /\ d[Len(a) + 1] = t
  BY <1>1, AppendProperties
<1> HIDE DEF c, d
<1>5. ASSUME NEW i \in 1 .. Len(c) PROVE c[i] = d[i]
  <2>1. CASE i = 1
    BY <1>1, <1>3, <1>4, <2>1
  <2>2. CASE i \in 2 .. Len(w) + 1
    <3> DEFINE k == i - 1
    <3>1. k \in 1 .. Len(w) /\ k + 1 = i /\ k \in 1 .. Len(b) /\ i \in 1 .. Len(a)
      BY <1>1, <1>2, <2>2
    <3> HIDE DEF k
    <3>2. c[k + 1] = w[k] /\ a[k + 1] = w[k]
      BY <1>1, <1>2, <1>3, <3>1
    <3> QED
      BY <1>4, <3>1, <3>2
  <2>3. CASE i = Len(w) + 2
    <3>1. Len(w) + 1 \in 1 .. Len(b) /\ (Len(w) + 1) + 1 = i /\ Len(a) + 1 = i
      BY <1>1, <1>2, <2>3
    <3> QED
      BY <1>2, <1>3, <1>4, <3>1
  <2> QED
    BY <1>1, <1>2, <1>3, <2>1, <2>2, <2>3
<1>6. c = d
  BY <1>1, <1>2, <1>3, <1>4, <1>5, SeqEqual
<1> QED
  BY <1>6 DEF a, b, c, d

LEMMA ConsTail ==
    ASSUME NEW S, NEW w \in Seq(S), w # <<>>
    PROVE  <<Head(w)>> \o Tail(w) = w
<1>1. /\ Head(w) \in S /\ Head(w) = w[1] /\ Tail(w) \in Seq(S)
      /\ Len(w) \in Nat \ {0} /\ Len(Tail(w)) = Len(w) - 1
      /\ \A i \in 1 .. Len(w) - 1 : Tail(w)[i] = w[i + 1]
  BY HeadTail
<1> DEFINE c == <<Head(w)>> \o Tail(w)
<1>2. /\ c \in Seq(S) /\ Len(c) = Len(Tail(w)) + 1 /\ c[1] = Head(w)
      /\ \A i \in 1 .. Len(Tail(w)) : c[i + 1] = Tail(w)[i]
  BY <1>1, Cons
<1> HIDE DEF c
<1>3. ASSUME NEW i \in 1 .. Len(c) PROVE c[i] = w[i]
  <2>1. CASE i = 1
    BY <1>1, <1>2, <2>1
  <2>2. CASE i # 1
    <3> DEFINE k == i - 1
    <3>1. k \in 1 .. Len(w) - 1 /\ k + 1 = i
      BY <1>1, <1>2, <2>2
    <3> HIDE DEF k
    <3> QED
      BY <1>1, <1>2, <3>1
  <2> QED
    BY <2>1, <2>2
<1>4. c = w
  BY <1>1, <1>2, <1>3, SeqEqual
<1> QED
  BY <1>4 DEF c

(* What the flight begins with. *)
LEMMA FlightFacts ==
    ASSUME IInv, InOrder
    PROVE  /\ Flight \in Seq(Tokens) /\ Flight # <<>>
           /\ Flight[1] = Body(Behind)
           /\ pc \notin {"decide", "body", "second"} =>
                 /\ Flight = <<Body(Behind)>> \o wire /\ Len(Flight) = Len(wire) + 1
                 /\ \A i \in 1 .. Len(wire) : Flight[i + 1] = wire[i]
           /\ pc \in {"decide", "body", "second"} =>
                 /\ Flight[2] = hs /\ Len(Flight) = Len(wire) + 2
                 /\ \A i \in 1 .. Len(wire) : Flight[i + 2] = wire[i]
<1> DEFINE x == Body(Behind)
           q == Ahead \o wire
<1>1. x \in Tokens /\ wire \in Seq(Tokens) /\ hs \in Tokens /\ Len(wire) \in Nat
  BY BehindType, LenProperties DEF IInv, TypeOK
<1> HIDE DEF x
<1>2. CASE pc \notin {"decide", "body", "second"}
  <2>1. q = wire
    BY <1>1, <1>2, ConcatEmptySeq DEF Ahead
  <2>2. Flight = <<x>> \o wire
    BY <2>1 DEF Flight, x, q
  <2> QED
    BY <1>1, <1>2, <2>2, Cons DEF x
<1>3. CASE pc \in {"decide", "body", "second"}
  <2>1. q = <<hs>> \o wire
    BY <1>3 DEF Ahead
  <2>2. /\ q \in Seq(Tokens) /\ Len(q) = Len(wire) + 1 /\ q[1] = hs
        /\ \A i \in 1 .. Len(wire) : q[i + 1] = wire[i]
    BY <1>1, <2>1, Cons
  <2>3. Flight = <<x>> \o q
    BY DEF Flight, x, q
  <2> HIDE DEF q
  <2>4. /\ Flight \in Seq(Tokens) /\ Len(Flight) = Len(q) + 1 /\ Flight[1] = x
        /\ \A i \in 1 .. Len(q) : Flight[i + 1] = q[i]
        /\ Flight # <<>>
    BY <1>1, <2>2, <2>3, Cons
  <2>5. 1 \in 1 .. Len(q) /\ Flight[2] = q[1]
    <3>1. 1 \in 1 .. Len(q) /\ 1 + 1 = 2
      BY <1>1, <2>2
    <3> QED
      BY <2>4, <3>1
  <2>6. ASSUME NEW i \in 1 .. Len(wire) PROVE Flight[i + 2] = wire[i]
    <3> DEFINE k == i + 1
    <3>1. k \in 1 .. Len(q) /\ k + 1 = i + 2
      BY <1>1, <2>2
    <3>2. q[k] = wire[i]
      BY <2>2
    <3> HIDE DEF k
    <3> QED
      BY <2>4, <3>1, <3>2
  <2>7. Len(Flight) = Len(wire) + 2
    BY <1>1, <2>2, <2>4
  <2> QED
    BY <1>3, <2>2, <2>4, <2>5, <2>6, <2>7 DEF x
<1> QED
  BY <1>2, <1>3

(* A token sent is appended to the flight. *)
LEMMA FlightGrows ==
    ASSUME IInv, InOrder, NEW t \in Tokens, NEW w \in Seq(Tokens)
    PROVE  <<Body(Behind)>> \o (Ahead \o Append(w, t))
              = Append(<<Body(Behind)>> \o (Ahead \o w), t)
<1> DEFINE x == Body(Behind)
           q == Ahead \o w
<1>1. x \in Tokens /\ hs \in Tokens /\ Append(w, t) \in Seq(Tokens)
  BY BehindType, AppendProperties DEF IInv, TypeOK
<1>2. Ahead \o Append(w, t) = Append(q, t) /\ q \in Seq(Tokens)
  <2>1. CASE pc \notin {"decide", "body", "second"}
    <3>1. Ahead = <<>>
      BY <2>1 DEF Ahead
    <3> QED
      BY <1>1, <3>1, ConcatEmptySeq
  <2>2. CASE pc \in {"decide", "body", "second"}
    <3>1. Ahead = <<hs>>
      BY <2>2 DEF Ahead
    <3> QED
      BY <1>1, <3>1, ConsAppend, Cons
  <2> QED
    BY <2>1, <2>2
<1> HIDE DEF x, q
<1>3. <<x>> \o Append(q, t) = Append(<<x>> \o q, t)
  BY <1>1, <1>2, ConsAppend
<1> QED
  BY <1>2, <1>3 DEF x, q

(* Where the sender may be when it sends block i. *)
SendsNext(i) ==
    \/ sender = "ready" /\ i = 1
    \/ sender = "wait" /\ i \in {sent, sent + 1} /\ i <= Blocks + 1

LEMMA CleanSend ==
    ASSUME IInv, InOrder, Running, NEW i, SendsNext(i), NEW r, Send(i, r),
           UNCHANGED receiver
    PROVE  Running'
<1> DEFINE f == Flight
           n == Len(f)
           t == Header(i)
<1>1. /\ f \in Seq(Tokens) /\ f # <<>> /\ f[1] = Body(Behind)
      /\ Body(Behind).is = "body" /\ Body(Behind).block = Behind
  BY FlightFacts, BehindType
<1>2. n \in Nat \ {0} /\ n \in 1 .. n /\ f[n] \in Tokens
  BY <1>1, EmptySeq, ElementOfSeq
<1>3. /\ Chain(f) /\ Tip(f, sender, sent) /\ Reading
  BY DEF Running
<1>4. Blocks \in Nat \ {0} /\ sent \in 0 .. Blocks + 1 /\ wire \in Seq(Tokens)
      /\ t \in Tokens
  BY Facts DEF IInv, TypeOK, Controls
<1>5. Flight' = Append(f, t)
  <2>1. Flight' = <<Body(Behind)>> \o (Ahead \o Append(wire, t))
    BY DEF Flight, Behind, Ahead, receiver, Send
  <2> QED
    BY <1>4, <2>1, FlightGrows DEF Flight
<1>6. /\ Len(Append(f, t)) = n + 1 /\ Append(f, t)[n + 1] = t
      /\ \A k \in 1 .. n : Append(f, t)[k] = f[k]
  BY <1>1, <1>4, AppendProperties
<1>7. Reading'
  BY <1>3 DEF Reading, receiver
<1>8. \/ f[n].is = "body" /\ i \in {f[n].block, f[n].block + 1}
      \/ f[n].is = "EOT" /\ i = Blocks + 1
  <2>1. CASE sender = "ready" /\ i = 1
    <3>1. n = 1 /\ f[1].block = 0 /\ f[1].is = "body"
      BY <1>1, <1>3, <2>1 DEF Tip
    <3> QED
      BY <2>1, <3>1
  <2>2. CASE sender = "wait" /\ i \in {sent, sent + 1} /\ i <= Blocks + 1
    BY <1>3, <1>4, <2>2 DEF Tip
  <2> QED
    BY <2>1, <2>2 DEF SendsNext
<1>9. i \in 1 .. Blocks + 1
  BY <1>4 DEF SendsNext, IInv, SentOK
<1>10. f[n].block \in 0 .. Blocks
  BY <1>2 DEF Tokens
<1>11. sent' = i /\ sender' = IF i > Blocks THEN "wait" ELSE "header"
  BY DEF Send
<1> HIDE DEF f, n
<1> DEFINE g == Append(f, t)
<1>12. CASE i <= Blocks
  <2>1. t.is = HeaderOf(i) /\ HeaderOf(i) \in Headers
    <3>1. ~(i > Blocks)
      BY <1>4, <1>9, <1>12
    <3> QED
      BY <3>1 DEF Header, HeaderOf, Headers, Byte
  <2>2. f[n].is = "body" /\ i \in {f[n].block, f[n].block + 1}
    BY <1>4, <1>8, <1>9, <1>12
  <2>3. sender' = "header"
    BY <1>4, <1>9, <1>11, <1>12
  <2> HIDE DEF t
  <2>4. g[n + 1] = t /\ g[n] = f[n] /\ (n + 1) - 1 = n /\ Len(g) = n + 1 /\ n + 1 > 1
    BY <1>2, <1>6
  <2>5. Chain(g)
    <3>1. Link(g, n + 1)
      <4> HIDE DEF g
      <4> QED
        BY <2>1, <2>2, <2>4 DEF Link, HasHeader
    <3> QED
      BY <1>1, <1>3, <1>4, <3>1, ChainGrows DEF n
  <2> HIDE DEF g
  <2>6. Tip(g, sender', sent')
    BY <1>11, <2>1, <2>2, <2>3, <2>4 DEF Tip
  <2> QED
    BY <1>5, <1>7, <2>5, <2>6 DEF Running, g
<1>13. CASE ~(i <= Blocks)
  <2>1. i = Blocks + 1 /\ i > Blocks
    BY <1>4, <1>9, <1>13
  <2>2. t.is = "EOT"
    BY <2>1 DEF Header, Byte
  <2>3. sender' = "wait"
    BY <1>11, <2>1
  <2>4. f[n].is = "EOT" \/ (f[n].is = "body" /\ f[n].block = Blocks)
    BY <1>4, <1>8, <1>10, <2>1
  <2> HIDE DEF t
  <2>5. g[n + 1] = t /\ g[n] = f[n] /\ (n + 1) - 1 = n /\ Len(g) = n + 1
    BY <1>2, <1>6
  <2>6. Chain(g)
    <3>1. Link(g, n + 1)
      <4> HIDE DEF g
      <4> QED
        BY <2>2, <2>4, <2>5 DEF Link, HasEnd
    <3> QED
      BY <1>1, <1>3, <1>4, <3>1, ChainGrows DEF n
  <2> HIDE DEF g
  <2>7. Tip(g, sender', sent')
    BY <1>11, <2>1, <2>2, <2>3, <2>5 DEF Tip
  <2> QED
    BY <1>5, <1>7, <2>6, <2>7 DEF Running, g
<1> QED
  BY <1>12, <1>13

(* The body of a header sent, and the two CANs of an abort. *)
LEMMA CleanBody ==
    ASSUME IInv, InOrder, Running, SendBody
    PROVE  Running'
<1> DEFINE f == Flight
           n == Len(f)
           t == Body(sent)
           g == Append(f, t)
<1>1. /\ f \in Seq(Tokens) /\ f # <<>> /\ n \in Nat \ {0}
      /\ wire \in Seq(Tokens)
  BY FlightFacts, EmptySeq DEF IInv, TypeOK
<1>2. /\ Chain(f) /\ Tip(f, sender, sent) /\ Reading /\ sender = "header"
  BY DEF Running, SendBody, Tip
<1>3. sent \in 1 .. Blocks /\ t \in Tokens
  BY <1>2, Facts DEF IInv, SentOK
<1>4. UNCHANGED receiver /\ sender' = "wait" /\ sent' = sent /\ wire' = Append(wire, t)
  BY DEF SendBody
<1>5. Flight' = g
  <2>1. Flight' = <<Body(Behind)>> \o (Ahead \o Append(wire, t))
    BY <1>4 DEF Flight, Behind, Ahead, receiver
  <2> QED
    BY <1>1, <1>3, <2>1, FlightGrows DEF Flight
<1>6. /\ Len(g) = n + 1 /\ g[n + 1] = t
      /\ \A k \in 1 .. n : g[k] = f[k]
  BY <1>1, <1>3, AppendProperties
<1>7. Reading'
  BY <1>2, <1>4 DEF Reading, receiver
<1>8. t.is = "body" /\ t.block = sent /\ t.sound
  BY DEF Body
<1> HIDE DEF f, n, t
<1>9. /\ n > 1 /\ f[n].is = HeaderOf(sent)
      /\ sent \in {f[n - 1].block, f[n - 1].block + 1}
  BY <1>2 DEF Tip, n
<1>10. g[n] = f[n] /\ g[n - 1] = f[n - 1] /\ (n + 1) - 1 = n /\ (n + 1) - 2 = n - 1 /\ n + 1 > 2
  BY <1>1, <1>6, <1>9
<1>11. Chain(g)
  <2>1. Link(g, n + 1)
    <3> HIDE DEF g
    <3> QED
      BY <1>6, <1>8, <1>9, <1>10 DEF Link, HasBody
  <2> QED
    BY <1>1, <1>2, <1>3, <2>1, ChainGrows DEF n
<1> HIDE DEF g
<1>12. Tip(g, sender', sent')
  BY <1>4, <1>6, <1>8 DEF Tip
<1> QED
  BY <1>5, <1>7, <1>11, <1>12 DEF Running

LEMMA CleanAbort ==
    ASSUME IInv, InOrder, Running, SenderAborts
    PROVE  Running'
<1> DEFINE f == Flight
           n == Len(f)
           c == Byte("CAN")
           g == Append(Append(f, c), c)
<1>1. /\ f \in Seq(Tokens) /\ f # <<>> /\ n \in Nat \ {0}
      /\ wire \in Seq(Tokens) /\ c \in Tokens /\ c.is = "CAN"
  BY FlightFacts, EmptySeq, Facts DEF IInv, TypeOK, Controls
<1>2. /\ Chain(f) /\ Tip(f, sender, sent) /\ Reading /\ sender = "wait"
  BY DEF Running, SenderAborts
<1>3. UNCHANGED receiver /\ sender' = "gone" /\ wire' = wire \o <<c, c>>
  BY DEF SenderAborts
<1> HIDE DEF c
<1>4. wire \o <<c, c>> = Append(Append(wire, c), c) /\ Append(wire, c) \in Seq(Tokens)
  BY <1>1
<1>5. Flight' = g
  <2>1. Flight' = <<Body(Behind)>> \o (Ahead \o Append(Append(wire, c), c))
    BY <1>3, <1>4 DEF Flight, Behind, Ahead, receiver
  <2>2. Flight' = Append(<<Body(Behind)>> \o (Ahead \o Append(wire, c)), c)
    BY <1>1, <1>4, <2>1, FlightGrows
  <2>3. <<Body(Behind)>> \o (Ahead \o Append(wire, c)) = Append(f, c)
    BY <1>1, FlightGrows DEF Flight
  <2> QED
    BY <2>2, <2>3
<1>6. Reading'
  BY <1>2, <1>3 DEF Reading, receiver
<1> HIDE DEF f
<1>7. f[n].is \in {"body", "EOT"}
  BY <1>2 DEF Tip
<1>8. Chain(g)
  BY <1>1, <1>2, <1>7, ChainCancels DEF Headers
<1>9. g[Len(g)] = c
  <2>1. Append(f, c) \in Seq(Tokens)
    BY <1>1, AppendProperties
  <2> HIDE DEF n
  <2> QED
    BY <1>1, <2>1, AppendProperties
<1> HIDE DEF g
<1>10. Tip(g, sender', sent')
  BY <1>1, <1>3, <1>9 DEF Tip, Headers
<1> QED
  BY <1>5, <1>6, <1>8, <1>10 DEF Running

(* The number before the next one is that of the last block. *)
LEMMA PreviousNumber ==
    ASSUME NEW n \in Nat
    PROVE  (((n + 1) % Wrap) + Wrap - 1) % Wrap = n % Wrap
<1> DEFINE r == n % Wrap
           e == (n + 1) % Wrap
<1>1. Wrap \in Nat /\ Wrap > 2
  BY Facts
<1>2. r \in 0 .. Wrap - 1 /\ e = IF r + 1 = Wrap THEN 0 ELSE r + 1
  BY NextNumber
<1> HIDE DEF r, e
<1>3. CASE r + 1 = Wrap
  <2>1. e + Wrap - 1 = r /\ r \in 0 .. Wrap /\ r # Wrap
    BY <1>1, <1>2, <1>3
  <2> QED
    BY <2>1, SmallNumber DEF r, e
<1>4. CASE r + 1 # Wrap
  <2>1. e + Wrap - 1 = Wrap * 1 + r
    BY <1>1, <1>2, <1>4
  <2>2. (Wrap * 1 + r) % Wrap = r
    BY <1>1, <1>2, Remainder
  <2> QED
    BY <2>1, <2>2 DEF r, e
<1> QED
  BY <1>3, <1>4

(* A step that changes neither the flight nor the sender. *)
LEMMA CleanStays ==
    ASSUME Running, UNCHANGED <<sender, sent, delivered, hs, wire>>,
           Behind' = Behind, Ahead' = Ahead, Reading'
    PROVE  Running'
<1>1. Flight' = Flight
  BY DEF Flight
<1> QED
  BY <1>1 DEF Running

(* The header byte read stays in the flight. *)
LEMMA CleanHeader ==
    ASSUME IInv, InOrder, Running, ReadHeader
    PROVE  Running'
<1>1. /\ pc \in {"handshake", "header"} /\ wire # <<>> /\ hs' = Head(wire)
      /\ pc' = "decide" /\ UNCHANGED <<delivered, sender, sent, blk>>
      /\ wire' = IF hs'.is = "body" THEN <<Rest>> \o Tail(wire) ELSE Tail(wire)
  BY DEF ReadHeader, source
<1>2. /\ wire \in Seq(Tokens) /\ Len(wire) \in Nat \ {0} /\ Head(wire) = wire[1]
  BY <1>1, HeadTail DEF IInv, TypeOK
<1>3. /\ Len(Flight) = Len(wire) + 1 /\ Flight[2] = wire[1]
      /\ Flight = <<Body(Behind)>> \o wire
  <2>1. \A i \in 1 .. Len(wire) : Flight[i + 1] = wire[i]
    BY <1>1, FlightFacts
  <2>2. 1 \in 1 .. Len(wire) /\ 1 + 1 = 2
    BY <1>2
  <2> QED
    BY <1>1, <2>1, <2>2, FlightFacts
<1>4. Link(Flight, 2)
  <2>1. 2 \in 2 .. Len(Flight)
    BY <1>2, <1>3
  <2> QED
    BY <2>1 DEF Running, Chain
<1>5. wire[1].is # "body"
  BY <1>3, <1>4 DEF Link, HasBody, HasHeader, HasEnd, HasCancel, Headers
<1>6. wire' = Tail(wire) /\ <<Head(wire)>> \o Tail(wire) = wire
  BY <1>1, <1>2, <1>5, ConsTail
<1>7. Ahead' \o wire' = wire
  BY <1>1, <1>6 DEF Ahead
<1>8. Behind' = Behind
  BY <1>1 DEF Behind
<1>9. Flight' = Flight
  BY <1>3, <1>7, <1>8 DEF Flight
<1>10. Reading'
  BY <1>1 DEF Reading
<1> QED
  BY <1>1, <1>9, <1>10 DEF Running

(* What the byte read stands for. *)
LEMMA CleanRead ==
    ASSUME IInv, InOrder, Running, pc \in {"decide", "body", "second"}
    PROVE  /\ hs.is \in Headers \/ (hs.is = "EOT" /\ Len(delivered) = Blocks)
              \/ (hs.is = "CAN" /\ wire # <<>> /\ Head(wire).is = "CAN")
           /\ hs.is \in Headers /\ wire # <<>> =>
                 /\ HasBody(Flight, 3) /\ Flight[3] = Head(wire) /\ Flight[2] = hs
                 /\ Flight[1].block = Len(delivered)
           /\ hs.is \in Headers /\ wire = <<>> => sender = "header"
<1> DEFINE f == Flight
<1>1. /\ f[1].is = "body" /\ f[1].block = Len(delivered) /\ f[2] = hs
      /\ Len(f) = Len(wire) + 2 /\ \A i \in 1 .. Len(wire) : f[i + 2] = wire[i]
      /\ wire \in Seq(Tokens) /\ Len(wire) \in Nat
      /\ sender \in {"ready", "header", "stalled", "wait", "gone"}
  BY FlightFacts, BehindType, LenProperties DEF Behind, IInv, TypeOK
<1>2. Chain(f) /\ Tip(f, sender, sent)
  BY DEF Running
<1> HIDE DEF f
<1>3. Link(f, 2)
  <2>1. 2 \in 2 .. Len(f)
    BY <1>1
  <2> QED
    BY <1>2, <2>1 DEF Chain
<1>4. wire # <<>> => Head(wire) = wire[1] /\ f[3] = wire[1] /\ Len(f) > 2
  <2>1. wire # <<>> => 1 \in 1 .. Len(wire) /\ 1 + 2 = 3
    BY <1>1, EmptySeq
  <2> QED
    BY <1>1, <2>1, HeadTail
<1>5. wire = <<>> => Len(f) = 2
  BY <1>1
<1>6. hs.is \in Headers \/ (hs.is = "EOT" /\ Len(delivered) = Blocks)
              \/ (hs.is = "CAN" /\ 2 < Len(f) /\ f[3].is = "CAN")
  BY <1>1, <1>3 DEF Link, HasHeader, HasBody, HasEnd, HasCancel
<1>7. 2 < Len(f) => wire # <<>>
  BY <1>5
<1>8. hs.is \in Headers /\ wire # <<>> => HasBody(f, 3)
  <2> SUFFICES ASSUME hs.is \in Headers, wire # <<>> PROVE HasBody(f, 3)
    OBVIOUS
  <2>1. Link(f, 3)
    <3>1. 3 \in 2 .. Len(f)
      BY <1>1, <1>4
    <3> QED
      BY <1>2, <3>1 DEF Chain
  <2> QED
    BY <1>1, <2>1 DEF Link, HasHeader, HasEnd, HasCancel, Headers
<1>9. hs.is \in Headers /\ wire = <<>> => sender = "header"
  BY <1>1, <1>2, <1>5 DEF Tip, Headers
<1> QED
  BY <1>1, <1>4, <1>6, <1>7, <1>8, <1>9 DEF f

(* A block is read whole: the flight moves on to it. *)
LEMMA CleanWhole ==
    ASSUME IInv, InOrder, Running, ReadBody
    PROVE  Running' /\ pc' = "check"
<1> DEFINE f == Flight
           g == Flight'
           b == Head(wire)
<1>1. pc = "body" /\ wire # <<>> /\ UNCHANGED <<sender, sent, delivered>>
  BY DEF ReadBody, source
<1>2. hs.is \in Headers /\ blk = hs /\ (long <=> hs.is = "STX")
  BY <1>1 DEF Running, Reading
<1>3. /\ HasBody(f, 3) /\ f[3] = b /\ f[2] = hs /\ f[1].block = Len(delivered)
  BY <1>1, <1>2, CleanRead
<1>4. /\ f \in Seq(Tokens) /\ Len(f) = Len(wire) + 2
      /\ \A i \in 1 .. Len(wire) : f[i + 2] = wire[i]
      /\ wire \in Seq(Tokens) /\ Len(wire) \in Nat \ {0} /\ b = wire[1] /\ b \in Tokens
      /\ Tail(wire) \in Seq(Tokens) /\ Len(Tail(wire)) = Len(wire) - 1
      /\ \A i \in 1 .. Len(wire) - 1 : Tail(wire)[i] = wire[i + 1]
  BY <1>1, FlightFacts, HeadTail DEF IInv, TypeOK
<1> HIDE DEF f, b
<1>5. /\ b.is = "body" /\ b.sound /\ hs.is = HeaderOf(b.block)
      /\ b.block \in {Len(delivered), Len(delivered) + 1}
  BY <1>3 DEF HasBody
<1>6. WholeBody
  <2>1. b.block \in LongBlocks <=> long
    BY <1>2, <1>5 DEF HeaderOf
  <2>2. blk # Rest
    BY <1>2, Facts DEF Headers
  <2> QED
    BY <1>5, <2>1, <2>2 DEF WholeBody, b
<1>7. blk' = b /\ wire' = Tail(wire) /\ pc' = "check"
  BY <1>6 DEF ReadBody, b
<1>8. Reading'
  BY <1>1, <1>5, <1>7 DEF Reading
<1>9. Body(b.block) = b
  BY <1>4, <1>5 DEF Body, Tokens
<1>10. g = <<b>> \o Tail(wire)
  <2>1. Behind' = b.block /\ Ahead' = <<>>
    BY <1>7 DEF Behind, Ahead
  <2>2. g = <<b>> \o (<<>> \o Tail(wire))
    BY <1>7, <1>9, <2>1 DEF Flight
  <2> QED
    BY <1>4, <2>2, ConcatEmptySeq
<1>11. g = wire
  BY <1>1, <1>4, <1>10, ConsTail DEF b
<1> HIDE DEF g
<1>12. Chain(g)
  <2>1. Len(f) > 2 /\ Len(g) = Len(f) - 2 /\ \A k \in 1 .. Len(g) : g[k] = f[k + 2]
    BY <1>4, <1>11
  <2> QED
    BY <1>3, <1>4, <1>5, <1>11, <2>1, ChainMoves DEF Running, f
<1>13. Tip(g, sender', sent')
  <2>1. Tip(f, sender, sent)
    BY DEF Running, f
  <2>2. Len(g) = Len(wire) /\ g[Len(g)] = f[Len(f)]
    BY <1>4, <1>11
  <2>3. sender = "header" => Len(g) > 1 /\ g[Len(g) - 1] = f[Len(f) - 1]
    <3>1. sender = "header" => f[Len(f)].is \in Headers
      BY <2>1 DEF Tip, HeaderOf, Headers
    <3>2. Len(g) = 1 => f[Len(f)] = b
      BY <1>4, <1>11, <2>2
    <3>3. b.is \notin Headers
      BY <1>5 DEF Headers
    <3>4. Len(g) > 1 => g[Len(g) - 1] = f[Len(f) - 1]
      BY <1>4, <1>11
    <3> QED
      BY <1>4, <2>2, <3>1, <3>2, <3>3, <3>4
  <2>4. sender # "ready"
    BY <1>4, <2>1 DEF Tip
  <2> QED
    BY <1>1, <2>1, <2>2, <2>3, <2>4 DEF Tip
<1> QED
  BY <1>7, <1>8, <1>12, <1>13 DEF Running, g

(* A block checked: a repeated one is settled already, a new one follows.   *)
LEMMA CleanCheck ==
    ASSUME IInv, InOrder, Running, Check
    PROVE  /\ InOrder'
           /\ pc' = "header" \/ (pc' = "done" /\ status' # "OK")
           /\ pc' = "header" => Running'
<1> DEFINE n == Len(delivered)
<1>1. /\ pc = "check" /\ blk.sound /\ blk.is = "body" /\ blk.block \in {n, n + 1}
      /\ n \in Nat /\ expected = (n + 1) % Wrap /\ UNCHANGED <<wire, sender, sent>>
      /\ delivered \in Seq(0 .. Blocks)
  BY LenProperties DEF Check, Running, Reading, source, IInv, TypeOK, DeliveredOK
<1>2. Previous = n % Wrap /\ n % Wrap # (n + 1) % Wrap
  <2> HIDE DEF n
  <2>1. Previous = (((n + 1) % Wrap) + Wrap - 1) % Wrap
    BY <1>1 DEF Previous
  <2>2. Previous = n % Wrap
    BY <1>1, <2>1, PreviousNumber
  <2>3. /\ n % Wrap \in 0 .. Wrap - 1
        /\ (n + 1) % Wrap = IF (n % Wrap) + 1 = Wrap THEN 0 ELSE (n % Wrap) + 1
    BY <1>1, NextNumber
  <2> QED
    BY <2>2, <2>3, Facts
<1>3. Flight = <<Body(blk.block)>> \o wire
  BY <1>1, FlightFacts DEF Behind
<1>4. ASSUME pc' = "header", Len(delivered') = blk.block
      PROVE  Running'
  <2>1. Behind' = blk.block /\ Ahead' = <<>>
    BY <1>4 DEF Behind, Ahead
  <2>2. Flight' = <<Body(blk.block)>> \o (<<>> \o wire)
    BY <1>1, <2>1 DEF Flight
  <2>3. Flight' = Flight
    BY <1>3, <2>2, ConcatEmptySeq DEF IInv, TypeOK
  <2>4. Reading'
    BY <1>4 DEF Reading
  <2> QED
    BY <1>1, <2>3, <2>4 DEF Running
<1>5. \/ Duplicate /\ pc' = "header" /\ UNCHANGED delivered
      \/ Accept
      \/ \E s \in {"SYNC", "SINK"} : Ends(s)
  BY <1>1 DEF Check, Damaged, Cancels
<1>6. CASE Duplicate /\ pc' = "header" /\ UNCHANGED delivered
  <2>1. blk.block = n
    BY <1>1, <1>2, <1>6 DEF Duplicate, Number
  <2> QED
    BY <1>4, <1>6, <2>1 DEF InOrder
<1>7. CASE Accept
  <2>1. /\ blk.block % Wrap = expected /\ Len(delivered') = n + 1
        /\ \A i \in 1 .. n : delivered'[i] = delivered[i]
        /\ delivered'[n + 1] = blk.block
    BY <1>7, Accepted
  <2>2. pc' = "header"
    BY <1>7 DEF Accept
  <2> HIDE DEF n
  <2>3. blk.block = n + 1
    BY <1>1, <1>2, <2>1
  <2>4. \A i \in 1 .. n + 1 : i \in 1 .. n \/ i = n + 1
    BY <1>1
  <2>5. \A i \in 1 .. n : delivered[i] = i
    BY DEF InOrder, n
  <2>6. InOrder'
    BY <2>1, <2>3, <2>4, <2>5 DEF InOrder
  <2> QED
    BY <1>4, <2>1, <2>2, <2>3, <2>6
<1>8. CASE \E s \in {"SYNC", "SINK"} : Ends(s)
  BY <1>8 DEF Ends, InOrder
<1> QED
  BY <1>5, <1>6, <1>7, <1>8

(* No receiver step leaves the chain while the line is clean. *)
LEMMA CleanReceive ==
    ASSUME IInv, Clean, Receive, faults = 0
    PROVE  /\ InOrder' /\ pc' # "flush"
           /\ pc' # "done" => Running'
           /\ status' = "OK" => Complete'
<1>1. /\ InOrder /\ pc # "done" /\ status = "RUNNING" /\ (pc # "flush" => Running)
      /\ UNCHANGED <<sender, sent>>
      /\ pc \in {"flush", "kick", "handshake", "header", "decide", "second",
                 "body", "purge", "check", "done"}
  <2>1. pc # "done"
    BY DEF Receive, Flush, Kick, HandshakeTimeout, ReadHeader, HeaderTimeout, Decide,
       SecondCancel, ReadBody, BodyTimeout, Purge, Check
  <2>2. UNCHANGED <<sender, sent>>
    BY DEF Receive, Flush, Kick, HandshakeTimeout, ReadHeader, HeaderTimeout, Decide,
       SecondCancel, ReadBody, BodyTimeout, Purge, Check, source
  <2> QED
    BY <2>1, <2>2 DEF Clean, IInv, DeliveredOK, TypeOK
<1>2. ASSUME NEW s, Ends(s), s # "OK"
      PROVE  InOrder' /\ pc' = "done" /\ status' # "OK"
  BY <1>1, <1>2 DEF Ends, InOrder
<1>3. ASSUME UNCHANGED <<delivered, hs, wire, blk, status>>, pc # "flush",
             pc \notin {"decide", "body", "second", "check"},
             pc' \in {"kick", "handshake", "header"}
      PROVE  InOrder' /\ Running' /\ status' # "OK"
  <2>1. Behind' = Behind /\ Ahead' = Ahead /\ Reading'
    BY <1>3 DEF Behind, Ahead, Reading
  <2> QED
    BY <1>1, <1>3, <2>1, CleanStays DEF InOrder
<1>11. CASE Flush
  <2>1. /\ pc = "flush" /\ pc' = "kick" /\ wire' = <<>> /\ UNCHANGED <<delivered, status>>
        /\ sender = "ready" /\ sent = 0 /\ delivered = <<>>
    BY <1>11 DEF Flush, Clean
  <2>2. Behind' = 0 /\ Ahead' = <<>>
    BY <2>1 DEF Behind, Ahead
  <2>3. Flight' = <<Body(0)>>
    <3>1. Flight' = <<Body(0)>> \o (<<>> \o <<>>)
      BY <2>1, <2>2 DEF Flight
    <3>2. Body(0) \in Tokens
      BY Facts DEF Body, Tokens
    <3> QED
      BY <3>1, <3>2, ConcatEmptySeq
  <2> DEFINE f == <<Body(0)>>
  <2>4. Len(f) = 1 /\ f[1] = Body(0) /\ f[1].is = "body" /\ f[1].block = 0
    BY DEF Body
  <2> HIDE DEF f
  <2>5. Chain(f) /\ Tip(f, sender', sent')
    BY <1>1, <2>1, <2>4 DEF Chain, Tip
  <2>6. Reading'
    BY <2>1 DEF Reading
  <2> QED
    BY <1>1, <2>1, <2>3, <2>5, <2>6 DEF Running, InOrder, f
<1>12. CASE Kick
  BY <1>2, <1>3, <1>12 DEF Kick
<1>13. CASE HandshakeTimeout
  BY <1>3, <1>13 DEF HandshakeTimeout
<1>14. CASE ReadHeader
  <2>1. pc # "flush" /\ pc' = "decide" /\ UNCHANGED <<delivered, status>>
    BY <1>14 DEF ReadHeader
  <2> QED
    BY <1>1, <1>14, <2>1, CleanHeader DEF InOrder
<1>15. CASE HeaderTimeout
  BY <1>2, <1>3, <1>15 DEF HeaderTimeout, Cancels
<1>16. CASE Decide
  <2>1. pc = "decide" /\ UNCHANGED <<wire, delivered>>
    BY <1>16, RetryFacts DEF Decide, Ends, IInv
  <2>2. InOrder'
    BY <1>1, <2>1 DEF InOrder
  <2>3. hs.is \in Headers \/ (hs.is = "EOT" /\ Len(delivered) = Blocks) \/ hs.is = "CAN"
    BY <1>1, <2>1, CleanRead
  <2>4. Looks(hs) = {hs.is}
    BY <2>3 DEF Looks, Headers
  <2>5. CASE hs.is = "EOT" /\ Len(delivered) = Blocks
    <3>1. Ends(IF started THEN "OK" ELSE "TIMEOUT")
      BY <1>16, <2>4, <2>5 DEF Decide
    <3> QED
      BY <2>1, <2>2, <2>5, <3>1 DEF Ends, Complete
  <2>6. CASE hs.is = "CAN"
    <3>1. pc' = "second" /\ UNCHANGED <<hs, blk, status>>
      BY <1>16, <2>4, <2>6 DEF Decide
    <3>2. Behind' = Behind /\ Ahead' = Ahead /\ Reading'
      BY <2>1, <2>6, <3>1 DEF Behind, Ahead, Reading
    <3> QED
      BY <1>1, <2>1, <2>2, <3>1, <3>2, CleanStays
  <2>7. CASE hs.is \in Headers
    <3>1. pc' = "body" /\ (long' <=> hs.is = "STX") /\ blk' = hs /\ UNCHANGED <<hs, status>>
      BY <1>16, <2>4, <2>7 DEF Decide, Headers
    <3>2. Behind' = Behind /\ Ahead' = Ahead /\ Reading'
      BY <2>1, <2>7, <3>1 DEF Behind, Ahead, Reading
    <3> QED
      BY <1>1, <2>1, <2>2, <3>1, <3>2, CleanStays
  <2> QED
    BY <2>3, <2>5, <2>6, <2>7
<1>17. CASE SecondCancel
  <2>1. pc = "second" /\ hs.is = "CAN"
    BY <1>1, <1>17 DEF SecondCancel, Running, Reading
  <2>2. wire # <<>> /\ Head(wire).is = "CAN"
    BY <1>1, <2>1, CleanRead DEF Headers
  <2> QED
    BY <1>2, <1>17, <2>2 DEF SecondCancel
<1>18. CASE ReadBody
  <2>1. pc # "flush" /\ UNCHANGED <<delivered, status>>
    BY <1>18 DEF ReadBody
  <2> QED
    BY <1>1, <1>18, <2>1, CleanWhole DEF InOrder
<1>19. CASE BodyTimeout
  <2>1. pc = "body" /\ Silence /\ hs.is \in Headers
    BY <1>1, <1>19 DEF BodyTimeout, Running, Reading
  <2>2. sender = "header"
    BY <1>1, <2>1, CleanRead DEF Silence
  <2> QED
    BY <2>1, <2>2 DEF Silence
<1>20. CASE Purge
  BY <1>1, <1>20 DEF Purge, Running, Reading
<1>21. CASE Check
  <2>1. Running
    BY <1>1, <1>21 DEF Check
  <2>2. status' = "OK" => pc' = "done"
    <3>1. IInv'
      BY Step_IInv DEF Next
    <3> QED
      BY <3>1 DEF IInv, DeliveredOK
  <2> QED
    BY <1>1, <1>21, <2>1, <2>2, CleanCheck
<1> QED
  BY <1>11, <1>12, <1>13, <1>14, <1>15, <1>16, <1>17, <1>18, <1>19, <1>20, <1>21
     DEF Receive

LEMMA CleanStep ==
    ASSUME IInv, Clean, [Next]_vars
    PROVE  Clean'
<1> SUFFICES ASSUME faults' = 0 PROVE Clean'
  BY DEF Clean
<1>1. faults \in Nat
  BY Facts DEF IInv, TypeOK
<1>2. faults = 0 /\ ~LineFault /\ ~Stall
  <2>1. ~LineFault /\ ~Stall
    BY <1>1 DEF LineFault, Stall
  <2>2. UNCHANGED faults
    BY <2>1 DEF Next, Receive, Flush, Kick, HandshakeTimeout, ReadHeader, HeaderTimeout,
       Decide, SecondCancel, ReadBody, BodyTimeout, Purge, Check, SendBody, Listen,
       SenderTimeout, SenderAborts, vars
  <2> QED
    BY <2>1, <2>2
<1>3. CASE Receive
  BY <1>2, <1>3, CleanReceive DEF Clean
<1>4. ASSUME UNCHANGED receiver,
             pc = "flush" => UNCHANGED <<sender, sent, replies>>,
             pc \notin {"flush", "done"} => Running'
      PROVE  Clean'
  BY <1>2, <1>4 DEF Clean, receiver, InOrder, Complete
<1>5. /\ InOrder /\ (pc \notin {"flush", "done"} => Running)
      /\ pc = "flush" => sender = "ready" /\ sent = 0 /\ replies = <<>>
  BY <1>2 DEF Clean
<1>6. ASSUME NEW i, SendsNext(i), NEW r, Send(i, r), UNCHANGED receiver, pc # "flush"
      PROVE  Clean'
  BY <1>4, <1>5, <1>6, CleanSend
<1>7. ASSUME UNCHANGED receiver, UNCHANGED <<wire, sender, sent>>,
             pc = "flush" => UNCHANGED replies
      PROVE  Clean'
  <2>1. Behind' = Behind /\ Ahead' = Ahead /\ (Reading' <=> Reading)
    BY <1>7 DEF Behind, Ahead, Reading, receiver
  <2>2. Running => Running'
    BY <1>7, <2>1, CleanStays DEF Running, receiver
  <2> QED
    BY <1>4, <1>5, <1>7, <2>2
<1>8. CASE SendBody
  <2>1. pc # "flush" /\ UNCHANGED receiver
    BY <1>5, <1>8 DEF SendBody
  <2> QED
    BY <1>4, <1>5, <1>8, <2>1, CleanBody
<1>9. CASE Listen
  <2>1. pc # "flush" /\ UNCHANGED receiver /\ sender \in {"ready", "wait"}
    BY <1>5, <1>9 DEF Listen
  <2>2. \/ UNCHANGED <<wire, sender, sent>>
        \/ Leave
        \/ sender = "ready" /\ Send(1, 0)
        \/ sender = "wait" /\ sent = 1 /\ Send(1, 0)
        \/ sender = "wait" /\ Send(sent, 0)
        \/ sender = "wait" /\ ~(sent > Blocks) /\ Send(sent + 1, 0)
    BY <1>9 DEF Listen, Quiet
  <2>3. sent \in 0 .. Blocks + 1 /\ Blocks \in Nat \ {0}
    BY Facts DEF IInv, TypeOK
  <2>4. CASE sender = "ready" /\ Send(1, 0)
    BY <1>6, <2>1, <2>4 DEF SendsNext
  <2>5. CASE sender = "wait" /\ Send(sent, 0)
    BY <1>6, <2>1, <2>3, <2>5 DEF SendsNext
  <2>6. CASE sender = "wait" /\ ~(sent > Blocks) /\ Send(sent + 1, 0)
    <3>1. SendsNext(sent + 1)
      BY <2>3, <2>6 DEF SendsNext
    <3> QED
      BY <1>6, <2>1, <2>6, <3>1
  <2>7. CASE Leave
    <3>1. UNCHANGED <<wire, sent>> /\ sender' = "gone"
      BY <2>7 DEF Leave
    <3>2. ASSUME Running PROVE Running'
      <4>1. Flight' = Flight /\ Reading'
        BY <2>1, <3>1, <3>2 DEF Flight, Behind, Ahead, Running, Reading, receiver
      <4>2. Flight[Len(Flight)].is \notin Headers
        <5>1. Tip(Flight, sender, sent) /\ Flight[1].is = "body"
          BY <3>2 DEF Running, Chain
        <5> QED
          BY <2>1, <5>1 DEF Tip, Headers
      <4>3. Tip(Flight, sender', sent')
        BY <3>1, <4>2 DEF Tip
      <4> QED
        BY <3>2, <4>1, <4>3 DEF Running
    <3> QED
      BY <1>4, <1>5, <2>1, <3>2
  <2> QED
    BY <1>7, <2>1, <2>2, <2>4, <2>5, <2>6, <2>7
<1>10. CASE SenderTimeout
  <2>1. sender = "wait" /\ Send(sent, 1) /\ UNCHANGED receiver /\ pc # "flush"
    BY <1>5, <1>10 DEF SenderTimeout
  <2>2. SendsNext(sent)
    BY <2>1, Facts DEF SendsNext, IInv, TypeOK
  <2> QED
    BY <1>6, <2>1, <2>2
<1>11. CASE SenderAborts
  <2>1. pc # "flush" /\ UNCHANGED receiver
    BY <1>5, <1>11 DEF SenderAborts
  <2> QED
    BY <1>4, <1>5, <1>11, <2>1, CleanAbort
<1>12. CASE UNCHANGED vars
  BY <1>7, <1>12 DEF vars, source
<1> QED
  BY <1>2, <1>3, <1>8, <1>9, <1>10, <1>11, <1>12 DEF Next

LEMMA Init_Clean == Init => Clean
BY DEF Init, Clean, InOrder

(* On a line that damages nothing XMODEM_OK means that the sink has the      *)
(* whole file, for every file and number of resends; and every variable of  *)
(* the receiver keeps its type, the error count its budget (xmodem_receive). *)
THEOREM OKIsComplete == Spec => []OKMeansComplete
<1>1. Init => IInv /\ Clean
  BY Init_IInv, Init_Clean
<1>2. IInv /\ Clean /\ [Next]_vars => (IInv /\ Clean)'
  BY Step_IInv, CleanStep
<1>3. IInv /\ Clean => OKMeansComplete
  BY DEF IInv, Clean, OKMeansComplete
<1> QED
  BY <1>1, <1>2, <1>3, PTL DEF Spec

(* The block numbers alone, for every file and line: the blocks the sink    *)
(* took go up, and the i-th of them has the number i modulo 256.            *)
NumbersCount == Numbered(delivered)

THEOREM NumbersKeepCount == Spec => []NumbersCount
<1>1. Init => IInv
  BY Init_IInv
<1>2. IInv /\ [Next]_vars => IInv'
  BY Step_IInv
<1>3. IInv => NumbersCount
  BY DEF IInv, DeliveredOK, NumbersCount
<1> QED
  BY <1>1, <1>2, <1>3, PTL DEF Spec

(* As long as no two blocks of the file share a number but the first and    *)
(* the last, numbers and order leave only the next block to accept.         *)
LEMMA InOrderStep ==
    ASSUME IInv, InOrder, [Next]_vars, Blocks <= Wrap
    PROVE  InOrder'
<1>1. CASE ~(Check /\ Accept)
  BY <1>1, Undelivered DEF IInv, InOrder
<1>2. CASE Check /\ Accept
  <2> DEFINE n == Len(delivered)
             b == blk.block
  <2>1. /\ n \in 0 .. Blocks /\ b \in 1 .. Blocks /\ b % Wrap = (n + 1) % Wrap /\ Last <= b
        /\ Len(delivered') = n + 1 /\ delivered'[n + 1] = b
        /\ \A i \in 1 .. n : delivered'[i] = delivered[i]
        /\ Wrap \in Nat /\ Wrap > 2 /\ Blocks \in Nat
    BY <1>2, Accepted, BehindType, Facts DEF IInv, DeliveredOK
  <2>2. n > 0 => Last = n
    <3>1. n > 0 => n \in 1 .. n /\ delivered # <<>>
      BY <2>1, EmptySeq
    <3> QED
      BY <3>1 DEF Last, InOrder
  <2>3. \A i \in 1 .. n : delivered[i] = i
    BY DEF InOrder
  <2> HIDE DEF n, b
  <2>4. b \in 0 .. Wrap /\ n \in 0 .. Wrap
    BY <2>1
  <2>5. b % Wrap = IF b = Wrap THEN 0 ELSE b
    BY <2>4, SmallNumber
  <2>6. /\ n % Wrap = IF n = Wrap THEN 0 ELSE n
        /\ (n + 1) % Wrap = IF (n % Wrap) + 1 = Wrap THEN 0 ELSE (n % Wrap) + 1
    <3>1. n \in Nat
      BY <2>1
    <3>2. n % Wrap = IF n = Wrap THEN 0 ELSE n
      BY <2>4, SmallNumber
    <3>3. (n + 1) % Wrap = IF (n % Wrap) + 1 = Wrap THEN 0 ELSE (n % Wrap) + 1
      BY <3>1, NextNumber
    <3> QED
      BY <3>2, <3>3
  <2>7. b = n + 1
    BY <2>1, <2>2, <2>4, <2>5, <2>6
  <2>8. \A i \in 1 .. n + 1 : i \in 1 .. n \/ i = n + 1
    BY <2>1
  <2> QED
    BY <2>1, <2>3, <2>7, <2>8 DEF InOrder
<1> QED
  BY <1>1, <1>2

(* What xmodem_receive returned stays what it was. *)
LEMMA DoneStays ==
    ASSUME [Next]_vars, pc = "done"
    PROVE  UNCHANGED status
BY DEF Next, Receive, Flush, Kick, HandshakeTimeout, ReadHeader, HeaderTimeout, Decide,
   SecondCancel, ReadBody, BodyTimeout, Purge, Check, SendBody, Listen, SenderTimeout,
   SenderAborts, LineFault, Stall, vars, receiver

LEMMA StreamStep ==
    ASSUME IInv, IInv', InOrder, InOrder', [Next]_vars
    PROVE  [Stream!Next]_<<delivered, Result>>
<1>1. (pc # "done" => status = "RUNNING") /\ (pc' # "done" => status' = "RUNNING")
      /\ (status' = "OK" => delivered' # <<>>)
  BY DEF IInv, DeliveredOK
<1>2. CASE Check /\ Accept
  <2>1. /\ delivered' = Append(delivered, blk.block) /\ blk.block \in 1 .. Blocks
        /\ Len(delivered') = Len(delivered) + 1 /\ Len(delivered) \in Nat
        /\ delivered'[Len(delivered) + 1] = blk.block
    BY <1>2, Accepted
  <2>2. blk.block = Len(delivered) + 1
    <3>1. Len(delivered) + 1 \in 1 .. Len(delivered')
      BY <2>1
    <3> QED
      BY <2>1, <3>1 DEF InOrder
  <2>3. Result = "RUNNING" /\ Result' = "RUNNING"
    BY <1>1, <1>2 DEF Check, Accept, Result
  <2>4. Len(delivered) < Blocks
    BY <2>1, <2>2, Facts
  <2> QED
    BY <2>1, <2>2, <2>3, <2>4 DEF Stream!Next, Stream!Deliver
<1>3. CASE ~(Check /\ Accept)
  <2>1. delivered' = delivered
    BY <1>3, Undelivered DEF IInv
  <2>2. CASE pc = "done" \/ status' = status
    <3>1. Result' = Result
      BY <2>2, DoneStays DEF Result
    <3> QED
      BY <2>1, <3>1
  <2>3. CASE pc # "done" /\ status' # status
    <3>1. Result = "RUNNING" /\ Result' \in {"OK", "ERROR"}
      BY <1>1, <2>3 DEF Result
    <3>2. Result' = "OK" => delivered # <<>>
      BY <1>1, <2>1 DEF Result
    <3> QED
      BY <2>1, <3>1, <3>2 DEF Stream!Next, Stream!End
  <2> QED
    BY <2>2, <2>3
<1> QED
  BY <1>2, <1>3

LEMMA Init_InOrder == Init => InOrder
BY DEF Init, InOrder

LEMMA Init_Stream == Init => Stream!Init
BY DEF Init, Stream!Init, Result

(* What the sink gets is the stream of BlockStream: the blocks of the file   *)
(* in order and each once, whatever the line loses or damages and however    *)
(* often a block is repeated, for every file of at most 256 blocks, and for  *)
(* every file when the line damages nothing.  Past 256 blocks the number     *)
(* alone does not tell a block from the one 256 later.                       *)
THEOREM SinkGetsTheFile ==
    ASSUME Blocks <= Wrap \/ MaxFaults = 0
    PROVE  Spec => StreamsFile
<1> DEFINE Inv == IInv /\ Clean /\ InOrder
<1>1. Init => Inv
  BY Init_IInv, Init_Clean, Init_InOrder
<1>2. Inv /\ [Next]_vars => Inv'
  <2> SUFFICES ASSUME Inv, [Next]_vars PROVE Inv'
    OBVIOUS
  <2>1. IInv' /\ Clean'
    BY Step_IInv, CleanStep
  <2>2. CASE Blocks <= Wrap
    BY <2>1, <2>2, InOrderStep
  <2>3. CASE MaxFaults = 0
    <3>1. faults' = 0
      BY <2>1, <2>3 DEF IInv, TypeOK
    <3> QED
      BY <2>1, <3>1 DEF Clean
  <2> QED
    BY <2>2, <2>3
<1>3. Inv /\ Inv' /\ [Next]_vars => [Stream!Next]_<<delivered, Result>>
  BY StreamStep
<1>4. Init => Stream!Init
  BY Init_Stream
<1> QED
  BY <1>1, <1>2, <1>3, <1>4, PTL DEF Spec, StreamsFile, Stream!Spec
=============================================================================
