----------------------------- MODULE UartRxProofs -----------------------------
(***************************************************************************)
(* Proofs about UartRx for every ring size, FIFO depth and set of transfer  *)
(* lengths: what the handler may do between two instructions of a call      *)
(* never breaks the ring under its reader, never runs past a transfer's     *)
(* buffer, and never shows in a status snapshot.                            *)
(***************************************************************************)
EXTENDS UartRx, TLAPS

(* Where the thread is tells the call it is in. *)
CallOK ==
    /\ pc = "idle" <=> call = "none"
    /\ pc \in {"copy", "advance"} => call = "read_byte"
    /\ pc \in {"inner", "reopen"} => call = "start_clean"
    /\ pc \in {"drop", "empty"} => call \in {"flush", "start_clean"}
    /\ pc \in {"arm", "armcount", "armbusy"} => call \in {"start", "start_clean"}
    /\ pc = "restore" => call \in {"flush", "start_clean", "status_get", "status_clear"}
    /\ pc \in {"readcount", "readdrops"} => call = "status_get"
    /\ pc = "zero" => call = "status_clear"

(* The critical sections: the interrupt is closed in them, and the flush    *)
(* inside rx_start_clean leaves it closed.                                  *)
Closed == call \in {"flush", "start_clean", "status_get", "status_clear"}

ClosedOK ==
    /\ Closed => ~rxie /\ isr = "off"
    /\ call = "start_clean" /\ pc # "inner" => ~saved

(* While a transfer is being set up none is active. *)
SetUp == call \in {"start", "start_clean"} /\ pc # "reopen"

SetUpOK ==
    /\ SetUp => ~busy /\ ~event
    /\ call \in {"start", "start_clean"} => arg \in Lengths
    /\ pc \in {"armcount", "armbusy"} => buf = <<>> /\ alen = arg
    /\ pc = "armbusy" => acount = 0

(* The counters, and the snapshot under way. *)
CountsOK ==
    /\ drops <= count
    /\ pc = "readdrops" => snap.count = count
    /\ pc # "readdrops" => snap.drops <= snap.count

IInv ==
    /\ TypeOK /\ CallOK /\ ClosedOK /\ SetUpOK /\ CountsOK
    /\ ReaderIsSafe /\ TransferFits /\ CompleteMeansFull
-----------------------------------------------------------------------------
(* An index moves on inside the ring. *)
LEMMA NextIdxRange ==
    ASSUME NEW i \in 0 .. Size - 1
    PROVE  NextIdx(i) \in 0 .. Size - 1
BY UartRxAssumption DEF NextIdx

(* A byte appended. *)
LEMMA AppendByte ==
    ASSUME NEW S, NEW s \in Seq(S), NEW b \in S
    PROVE  Append(s, b) \in Seq(S) /\ Len(Append(s, b)) = Len(s) + 1 /\ Len(s) \in Nat
OBVIOUS

(* The constants. *)
LEMMA Constants ==
    /\ MaxBytes \in Nat /\ MaxClears \in Nat
    /\ Lengths \subseteq Nat \ {0}
    /\ Unknown \in 0 .. Unknown
    /\ Bytes \subseteq 0 .. MaxBytes /\ 0 .. MaxBytes \subseteq 0 .. Unknown
    /\ \A n \in 0 .. MaxBytes : n < MaxBytes => n + 1 \in Bytes
    /\ 0 \in 0 .. MaxBytes
BY UartRxAssumption DEF Bytes, Unknown

(* The initial state satisfies the invariant. *)
LEMMA Init_IInv == Init => IInv
<1> SUFFICES ASSUME Init PROVE IInv
  OBVIOUS
<1> USE Constants DEF Init
<1>1. HardwareType
  <2>1. <<>> \in Seq(Bytes)
    OBVIOUS
  <2> QED
    BY <2>1 DEF HardwareType
<1>2. RingType
  BY UartRxAssumption DEF RingType
<1>3. TransferType
  <2>1. <<>> \in Seq(Bytes)
    OBVIOUS
  <2> QED
    BY <2>1 DEF TransferType
<1>4. ThreadType
  <2>1. 0 \in 0 .. MaxClears
    BY Constants
  <2> QED
    BY <2>1 DEF ThreadType, Labels, Calls
<1>5. CallOK /\ ClosedOK /\ SetUpOK /\ CountsOK
  BY DEF CallOK, ClosedOK, Closed, SetUpOK, SetUp, CountsOK
<1>6. ReaderIsSafe /\ TransferFits /\ CompleteMeansFull
  BY DEF ReaderIsSafe, TransferFits, CompleteMeansFull
<1> QED
  BY <1>1, <1>2, <1>3, <1>4, <1>5, <1>6 DEF IInv, TypeOK

(* The hardware's variables keep their types. *)
LEMMA HardwareStep ==
    ASSUME HardwareType, ThreadType, [Next]_vars
    PROVE  HardwareType'
<1> USE DEF HardwareType, ThreadType, hardware
<1>1. CASE Arrive
  <2>1. arrived' \in Bytes /\ arrived' \in 0 .. MaxBytes
    BY <1>1, Constants DEF Arrive
  <2>2. Append(fifo, arrived') \in Seq(Bytes)
    BY <2>1, AppendByte
  <2>3. fifo' \in Seq(Bytes)
    BY <1>1, <2>2 DEF Arrive
  <2>4. lost' \subseteq Bytes
    BY <1>1, <2>1 DEF Arrive
  <2> QED
    BY <1>1, <2>1, <2>3, <2>4 DEF Arrive
<1>2. CASE Enter
  BY <1>2 DEF Enter
<1>3. CASE Drain
  BY <1>3 DEF Drain
<1>4. CASE Drained
  BY <1>4 DEF Drained
<1>5. CASE Leave
  BY <1>5 DEF Leave
<1>6. CASE ReadByte
  BY <1>6 DEF ReadByte
<1>7. CASE Flush
  BY <1>7 DEF Flush
<1>8. CASE RxStart
  BY <1>8 DEF RxStart
<1>9. CASE RxStartClean
  BY <1>9 DEF RxStartClean
<1>10. CASE RxAbort
  BY <1>10 DEF RxAbort
<1>11. CASE StatusGet
  BY <1>11 DEF StatusGet
<1>12. CASE StatusClear
  BY <1>12 DEF StatusClear
<1>13. CASE Copy
  BY <1>13 DEF Copy
<1>14. CASE Advance
  BY <1>14 DEF Advance
<1>15. CASE FlushInner
  BY <1>15 DEF FlushInner
<1>16. CASE DropRing
  BY <1>16 DEF DropRing
<1>17. CASE DrainFifo
  BY <1>17 DEF DrainFifo
<1>18. CASE FifoEmpty
  BY <1>18 DEF FifoEmpty
<1>19. CASE Restore
  BY <1>19 DEF Restore
<1>20. CASE ArmBuffer
  BY <1>20 DEF ArmBuffer
<1>21. CASE ArmCount
  BY <1>21 DEF ArmCount
<1>22. CASE ArmBusy
  BY <1>22 DEF ArmBusy
<1>23. CASE Reopen
  BY <1>23 DEF Reopen
<1>24. CASE ReadCount
  BY <1>24 DEF ReadCount
<1>25. CASE ReadDrops
  BY <1>25 DEF ReadDrops
<1>26. CASE Zero
  BY <1>26 DEF Zero
<1>27. CASE UNCHANGED vars
  BY <1>27 DEF vars
<1> QED
  BY <1>1, <1>2, <1>3, <1>4, <1>5, <1>6, <1>7, <1>8, <1>9, <1>10, <1>11, <1>12, <1>13, <1>14, <1>15, <1>16, <1>17, <1>18, <1>19, <1>20, <1>21, <1>22, <1>23, <1>24, <1>25, <1>26, <1>27 DEF Next, Isr, Begin, Continue

(* The ring keeps its shape, and its indices stay inside it. *)
LEMMA RingStep ==
    ASSUME HardwareType, RingType, [Next]_vars
    PROVE  RingType'
<1> USE DEF RingType, rings
<1>1. CASE Arrive
  BY <1>1 DEF Arrive
<1>2. CASE Enter
  BY <1>2 DEF Enter
<1>3. CASE Drain
  <2>1. wr' = NextIdx(wr) \/ wr' = wr
    BY <1>3 DEF Drain, RingPush
  <2>2. wr' \in 0 .. Size - 1
    BY <2>1, NextIdxRange
  <2>3. Head(fifo) \in Bytes
    BY <1>3 DEF Drain, HardwareType
  <2>4. ring' \in [0 .. Size - 1 -> 0 .. MaxBytes]
    BY <1>3, <2>3, Constants DEF Drain, RingPush
  <2> QED
    BY <1>3, <2>2, <2>4 DEF Drain, RingPush
<1>4. CASE Drained
  BY <1>4 DEF Drained
<1>5. CASE Leave
  BY <1>5 DEF Leave
<1>6. CASE ReadByte
  BY <1>6 DEF ReadByte
<1>7. CASE Flush
  BY <1>7 DEF Flush
<1>8. CASE RxStart
  BY <1>8 DEF RxStart
<1>9. CASE RxStartClean
  BY <1>9 DEF RxStartClean
<1>10. CASE RxAbort
  BY <1>10 DEF RxAbort
<1>11. CASE StatusGet
  BY <1>11 DEF StatusGet
<1>12. CASE StatusClear
  BY <1>12 DEF StatusClear
<1>13. CASE Copy
  BY <1>13 DEF Copy
<1>14. CASE Advance
  BY <1>14, NextIdxRange DEF Advance
<1>15. CASE FlushInner
  BY <1>15 DEF FlushInner
<1>16. CASE DropRing
  BY <1>16 DEF DropRing
<1>17. CASE DrainFifo
  BY <1>17 DEF DrainFifo
<1>18. CASE FifoEmpty
  BY <1>18 DEF FifoEmpty
<1>19. CASE Restore
  BY <1>19 DEF Restore
<1>20. CASE ArmBuffer
  BY <1>20 DEF ArmBuffer
<1>21. CASE ArmCount
  BY <1>21 DEF ArmCount
<1>22. CASE ArmBusy
  BY <1>22 DEF ArmBusy
<1>23. CASE Reopen
  BY <1>23 DEF Reopen
<1>24. CASE ReadCount
  BY <1>24 DEF ReadCount
<1>25. CASE ReadDrops
  BY <1>25 DEF ReadDrops
<1>26. CASE Zero
  BY <1>26 DEF Zero
<1>27. CASE UNCHANGED vars
  BY <1>27 DEF vars
<1> QED
  BY <1>1, <1>2, <1>3, <1>4, <1>5, <1>6, <1>7, <1>8, <1>9, <1>10, <1>11, <1>12, <1>13, <1>14, <1>15, <1>16, <1>17, <1>18, <1>19, <1>20, <1>21, <1>22, <1>23, <1>24, <1>25, <1>26, <1>27 DEF Next, Isr, Begin, Continue

(* The transfer's variables keep their types. *)
LEMMA TransferStep ==
    ASSUME HardwareType, TransferType, ThreadType, [Next]_vars
    PROVE  TransferType'
<1> USE DEF TransferType, transfer
<1>1. CASE Arrive
  BY <1>1 DEF Arrive
<1>2. CASE Enter
  BY <1>2 DEF Enter
<1>3. CASE Drain
  <2>1. Head(fifo) \in Bytes
    BY <1>3 DEF Drain, HardwareType
  <2>2. CASE busy
    <3>1. Feed(Head(fifo))
      BY <1>3, <2>2 DEF Drain
    <3>2. from' \in 0 .. Unknown
      BY <2>1, <3>1, Constants DEF Feed
    <3>3. buf' \in Seq(Bytes)
      <4>1. <<>> \in Seq(Bytes) /\ Append(buf, Head(fifo)) \in Seq(Bytes)
        BY <2>1, AppendByte
      <4> QED
        BY <3>1, <4>1 DEF Feed
    <3>4. alen' \in Nat /\ acount' \in Nat
      BY <3>1, Constants DEF Feed
    <3>5. busy' \in BOOLEAN /\ event' \in BOOLEAN
      BY <3>1 DEF Feed
    <3> QED
      BY <3>2, <3>3, <3>4, <3>5
  <2>3. CASE ~busy
    BY <1>3, <2>3 DEF Drain
  <2> QED
    BY <2>2, <2>3
<1>4. CASE Drained
  BY <1>4 DEF Drained
<1>5. CASE Leave
  BY <1>5 DEF Leave
<1>6. CASE ReadByte
  BY <1>6 DEF ReadByte
<1>7. CASE Flush
  BY <1>7 DEF Flush
<1>8. CASE RxStart
  BY <1>8, Constants DEF RxStart
<1>9. CASE RxStartClean
  BY <1>9, Constants DEF RxStartClean
<1>10. CASE RxAbort
  BY <1>10 DEF RxAbort
<1>11. CASE StatusGet
  BY <1>11 DEF StatusGet
<1>12. CASE StatusClear
  BY <1>12 DEF StatusClear
<1>13. CASE Copy
  BY <1>13 DEF Copy
<1>14. CASE Advance
  BY <1>14 DEF Advance
<1>15. CASE FlushInner
  BY <1>15 DEF FlushInner
<1>16. CASE DropRing
  BY <1>16 DEF DropRing
<1>17. CASE DrainFifo
  BY <1>17, Constants DEF DrainFifo
<1>18. CASE FifoEmpty
  BY <1>18, Constants DEF FifoEmpty, HardwareType
<1>19. CASE Restore
  BY <1>19 DEF Restore
<1>20. CASE ArmBuffer
  BY <1>20, Constants DEF ArmBuffer, ThreadType
<1>21. CASE ArmCount
  BY <1>21 DEF ArmCount
<1>22. CASE ArmBusy
  BY <1>22 DEF ArmBusy
<1>23. CASE Reopen
  BY <1>23 DEF Reopen
<1>24. CASE ReadCount
  BY <1>24 DEF ReadCount
<1>25. CASE ReadDrops
  BY <1>25 DEF ReadDrops
<1>26. CASE Zero
  BY <1>26 DEF Zero
<1>27. CASE UNCHANGED vars
  BY <1>27 DEF vars
<1> QED
  BY <1>1, <1>2, <1>3, <1>4, <1>5, <1>6, <1>7, <1>8, <1>9, <1>10, <1>11, <1>12, <1>13, <1>14, <1>15, <1>16, <1>17, <1>18, <1>19, <1>20, <1>21, <1>22, <1>23, <1>24, <1>25, <1>26, <1>27 DEF Next, Isr, Begin, Continue

(* The thread's variables keep their types. *)
LEMMA ThreadStep ==
    ASSUME HardwareType, RingType, ThreadType, [Next]_vars
    PROVE  ThreadType'
<1> USE DEF ThreadType, thread, At, Goto, Return, Labels, Calls
<1>1. CASE Arrive
  BY <1>1 DEF Arrive
<1>2. CASE Enter
  BY <1>2 DEF Enter
<1>3. CASE Drain
  BY <1>3 DEF Drain
<1>4. CASE Drained
  BY <1>4 DEF Drained
<1>5. CASE Leave
  BY <1>5 DEF Leave
<1>6. CASE ReadByte
  BY <1>6 DEF ReadByte
<1>7. CASE Flush
  BY <1>7 DEF Flush, HardwareType
<1>8. CASE RxStart
  BY <1>8 DEF RxStart
<1>9. CASE RxStartClean
  BY <1>9 DEF RxStartClean
<1>10. CASE RxAbort
  BY <1>10 DEF RxAbort
<1>11. CASE StatusGet
  BY <1>11, Constants DEF StatusGet, HardwareType
<1>12. CASE StatusClear
  BY <1>12, Constants DEF StatusClear, HardwareType
<1>13. CASE Copy
  BY <1>13 DEF Copy, RingType
<1>14. CASE Advance
  BY <1>14 DEF Advance
<1>15. CASE FlushInner
  BY <1>15 DEF FlushInner, HardwareType
<1>16. CASE DropRing
  BY <1>16 DEF DropRing
<1>17. CASE DrainFifo
  BY <1>17 DEF DrainFifo
<1>18. CASE FifoEmpty
  BY <1>18 DEF FifoEmpty
<1>19. CASE Restore
  BY <1>19 DEF Restore, HardwareType
<1>20. CASE ArmBuffer
  BY <1>20 DEF ArmBuffer
<1>21. CASE ArmCount
  BY <1>21 DEF ArmCount
<1>22. CASE ArmBusy
  BY <1>22 DEF ArmBusy
<1>23. CASE Reopen
  BY <1>23 DEF Reopen
<1>24. CASE ReadCount
  BY <1>24 DEF ReadCount, RingType
<1>25. CASE ReadDrops
  BY <1>25 DEF ReadDrops, RingType
<1>26. CASE Zero
  BY <1>26 DEF Zero
<1>27. CASE UNCHANGED vars
  BY <1>27 DEF vars
<1> QED
  BY <1>1, <1>2, <1>3, <1>4, <1>5, <1>6, <1>7, <1>8, <1>9, <1>10, <1>11, <1>12, <1>13, <1>14, <1>15, <1>16, <1>17, <1>18, <1>19, <1>20, <1>21, <1>22, <1>23, <1>24, <1>25, <1>26, <1>27 DEF Next, Isr, Begin, Continue

(* The thread's place, its call and the interrupt enable stay in step. *)
LEMMA ControlStep ==
    ASSUME HardwareType, ThreadType, CallOK, ClosedOK, [Next]_vars
    PROVE  (CallOK /\ ClosedOK)'
<1> USE DEF CallOK, ClosedOK, Closed, hardware, thread, At, Goto, Return, HardwareType
<1>1. CASE Arrive
  BY <1>1 DEF Arrive
<1>2. CASE Enter
  BY <1>2 DEF Enter
<1>3. CASE Drain
  BY <1>3 DEF Drain
<1>4. CASE Drained
  BY <1>4 DEF Drained
<1>5. CASE Leave
  BY <1>5 DEF Leave
<1>6. CASE ReadByte
  BY <1>6 DEF ReadByte
<1>7. CASE Flush
  BY <1>7 DEF Flush
<1>8. CASE RxStart
  BY <1>8 DEF RxStart
<1>9. CASE RxStartClean
  BY <1>9 DEF RxStartClean
<1>10. CASE RxAbort
  BY <1>10 DEF RxAbort
<1>11. CASE StatusGet
  BY <1>11 DEF StatusGet
<1>12. CASE StatusClear
  BY <1>12 DEF StatusClear
<1>13. CASE Copy
  BY <1>13 DEF Copy
<1>14. CASE Advance
  BY <1>14 DEF Advance
<1>15. CASE FlushInner
  BY <1>15 DEF FlushInner
<1>16. CASE DropRing
  BY <1>16 DEF DropRing
<1>17. CASE DrainFifo
  BY <1>17 DEF DrainFifo
<1>18. CASE FifoEmpty
  BY <1>18 DEF FifoEmpty
<1>19. CASE Restore
  BY <1>19 DEF Restore
<1>20. CASE ArmBuffer
  BY <1>20 DEF ArmBuffer
<1>21. CASE ArmCount
  BY <1>21 DEF ArmCount
<1>22. CASE ArmBusy
  BY <1>22 DEF ArmBusy
<1>23. CASE Reopen
  BY <1>23 DEF Reopen
<1>24. CASE ReadCount
  BY <1>24 DEF ReadCount
<1>25. CASE ReadDrops
  BY <1>25 DEF ReadDrops
<1>26. CASE Zero
  BY <1>26 DEF Zero
<1>27. CASE UNCHANGED vars
  BY <1>27 DEF vars
<1> QED
  BY <1>1, <1>2, <1>3, <1>4, <1>5, <1>6, <1>7, <1>8, <1>9, <1>10, <1>11, <1>12, <1>13, <1>14, <1>15, <1>16, <1>17, <1>18, <1>19, <1>20, <1>21, <1>22, <1>23, <1>24, <1>25, <1>26, <1>27 DEF Next, Isr, Begin, Continue

(* A transfer is set up whole before it is active. *)
LEMMA SetUpStep ==
    ASSUME ThreadType, TransferType, CallOK, ClosedOK, SetUpOK, [Next]_vars
    PROVE  SetUpOK'
<1> USE DEF CallOK, ClosedOK, Closed, SetUpOK, SetUp, transfer, thread, At, Goto, Return, TransferType
<1>1. CASE Arrive
  BY <1>1 DEF Arrive
<1>2. CASE Enter
  BY <1>2 DEF Enter
<1>3. CASE Drain
  <2>1. CASE busy
    <3>1. ~SetUp /\ isr = "drain"
      BY <1>3, <2>1 DEF Drain
    <3> QED
      BY <1>3, <3>1 DEF Drain, ThreadType, Labels
  <2>2. CASE ~busy
    BY <1>3, <2>2 DEF Drain
  <2> QED
    BY <2>1, <2>2
<1>4. CASE Drained
  BY <1>4 DEF Drained
<1>5. CASE Leave
  BY <1>5 DEF Leave
<1>6. CASE ReadByte
  BY <1>6 DEF ReadByte
<1>7. CASE Flush
  BY <1>7 DEF Flush
<1>8. CASE RxStart
  BY <1>8 DEF RxStart
<1>9. CASE RxStartClean
  BY <1>9 DEF RxStartClean
<1>10. CASE RxAbort
  BY <1>10 DEF RxAbort
<1>11. CASE StatusGet
  BY <1>11 DEF StatusGet
<1>12. CASE StatusClear
  BY <1>12 DEF StatusClear
<1>13. CASE Copy
  BY <1>13 DEF Copy
<1>14. CASE Advance
  BY <1>14 DEF Advance
<1>15. CASE FlushInner
  BY <1>15 DEF FlushInner
<1>16. CASE DropRing
  BY <1>16 DEF DropRing
<1>17. CASE DrainFifo
  BY <1>17 DEF DrainFifo
<1>18. CASE FifoEmpty
  BY <1>18 DEF FifoEmpty
<1>19. CASE Restore
  BY <1>19 DEF Restore
<1>20. CASE ArmBuffer
  BY <1>20 DEF ArmBuffer
<1>21. CASE ArmCount
  BY <1>21 DEF ArmCount
<1>22. CASE ArmBusy
  BY <1>22 DEF ArmBusy
<1>23. CASE Reopen
  BY <1>23 DEF Reopen
<1>24. CASE ReadCount
  BY <1>24 DEF ReadCount
<1>25. CASE ReadDrops
  BY <1>25 DEF ReadDrops
<1>26. CASE Zero
  BY <1>26 DEF Zero
<1>27. CASE UNCHANGED vars
  BY <1>27 DEF vars
<1> QED
  BY <1>1, <1>2, <1>3, <1>4, <1>5, <1>6, <1>7, <1>8, <1>9, <1>10, <1>11, <1>12, <1>13, <1>14, <1>15, <1>16, <1>17, <1>18, <1>19, <1>20, <1>21, <1>22, <1>23, <1>24, <1>25, <1>26, <1>27 DEF Next, Isr, Begin, Continue

(* No more bytes are dropped than counted, now and in a snapshot. *)
LEMMA CountsStep ==
    ASSUME HardwareType, RingType, ThreadType, CallOK, ClosedOK, CountsOK, [Next]_vars
    PROVE  CountsOK'
<1> USE DEF CountsOK, CallOK, ClosedOK, Closed, RingType, ThreadType, rings, thread, At, Goto, Return
<1>1. CASE Arrive
  BY <1>1 DEF Arrive
<1>2. CASE Enter
  BY <1>2 DEF Enter
<1>3. CASE Drain
  BY <1>3 DEF Drain, RingPush
<1>4. CASE Drained
  BY <1>4 DEF Drained
<1>5. CASE Leave
  BY <1>5 DEF Leave
<1>6. CASE ReadByte
  BY <1>6 DEF ReadByte
<1>7. CASE Flush
  BY <1>7 DEF Flush
<1>8. CASE RxStart
  BY <1>8 DEF RxStart
<1>9. CASE RxStartClean
  BY <1>9 DEF RxStartClean
<1>10. CASE RxAbort
  BY <1>10 DEF RxAbort
<1>11. CASE StatusGet
  BY <1>11 DEF StatusGet
<1>12. CASE StatusClear
  BY <1>12 DEF StatusClear
<1>13. CASE Copy
  BY <1>13 DEF Copy
<1>14. CASE Advance
  BY <1>14 DEF Advance
<1>15. CASE FlushInner
  BY <1>15 DEF FlushInner
<1>16. CASE DropRing
  BY <1>16 DEF DropRing
<1>17. CASE DrainFifo
  BY <1>17 DEF DrainFifo
<1>18. CASE FifoEmpty
  BY <1>18 DEF FifoEmpty
<1>19. CASE Restore
  BY <1>19 DEF Restore
<1>20. CASE ArmBuffer
  BY <1>20 DEF ArmBuffer
<1>21. CASE ArmCount
  BY <1>21 DEF ArmCount
<1>22. CASE ArmBusy
  BY <1>22 DEF ArmBusy
<1>23. CASE Reopen
  BY <1>23 DEF Reopen
<1>24. CASE ReadCount
  BY <1>24 DEF ReadCount
<1>25. CASE ReadDrops
  BY <1>25 DEF ReadDrops
<1>26. CASE Zero
  BY <1>26 DEF Zero
<1>27. CASE UNCHANGED vars
  BY <1>27 DEF vars
<1> QED
  BY <1>1, <1>2, <1>3, <1>4, <1>5, <1>6, <1>7, <1>8, <1>9, <1>10, <1>11, <1>12, <1>13, <1>14, <1>15, <1>16, <1>17, <1>18, <1>19, <1>20, <1>21, <1>22, <1>23, <1>24, <1>25, <1>26, <1>27 DEF Next, Isr, Begin, Continue

(* The slot under the reader is not written, and the ring not emptied. *)
LEMMA ReaderStep ==
    ASSUME RingType, CallOK, ReaderIsSafe, [Next]_vars
    PROVE  ReaderIsSafe'
<1> USE DEF ReaderIsSafe, CallOK, RingType, rings, thread, At, Goto, Return
<1>1. CASE Arrive
  BY <1>1 DEF Arrive
<1>2. CASE Enter
  BY <1>2 DEF Enter
<1>3. CASE Drain
  BY <1>3 DEF Drain, RingPush
<1>4. CASE Drained
  BY <1>4 DEF Drained
<1>5. CASE Leave
  BY <1>5 DEF Leave
<1>6. CASE ReadByte
  BY <1>6 DEF ReadByte
<1>7. CASE Flush
  BY <1>7 DEF Flush
<1>8. CASE RxStart
  BY <1>8 DEF RxStart
<1>9. CASE RxStartClean
  BY <1>9 DEF RxStartClean
<1>10. CASE RxAbort
  BY <1>10 DEF RxAbort
<1>11. CASE StatusGet
  BY <1>11 DEF StatusGet
<1>12. CASE StatusClear
  BY <1>12 DEF StatusClear
<1>13. CASE Copy
  BY <1>13 DEF Copy
<1>14. CASE Advance
  BY <1>14 DEF Advance
<1>15. CASE FlushInner
  BY <1>15 DEF FlushInner
<1>16. CASE DropRing
  BY <1>16 DEF DropRing
<1>17. CASE DrainFifo
  BY <1>17 DEF DrainFifo
<1>18. CASE FifoEmpty
  BY <1>18 DEF FifoEmpty
<1>19. CASE Restore
  BY <1>19 DEF Restore
<1>20. CASE ArmBuffer
  BY <1>20 DEF ArmBuffer
<1>21. CASE ArmCount
  BY <1>21 DEF ArmCount
<1>22. CASE ArmBusy
  BY <1>22 DEF ArmBusy
<1>23. CASE Reopen
  BY <1>23 DEF Reopen
<1>24. CASE ReadCount
  BY <1>24 DEF ReadCount
<1>25. CASE ReadDrops
  BY <1>25 DEF ReadDrops
<1>26. CASE Zero
  BY <1>26 DEF Zero
<1>27. CASE UNCHANGED vars
  BY <1>27 DEF vars
<1> QED
  BY <1>1, <1>2, <1>3, <1>4, <1>5, <1>6, <1>7, <1>8, <1>9, <1>10, <1>11, <1>12, <1>13, <1>14, <1>15, <1>16, <1>17, <1>18, <1>19, <1>20, <1>21, <1>22, <1>23, <1>24, <1>25, <1>26, <1>27 DEF Next, Isr, Begin, Continue

(* A transfer stays inside its buffer, and is over when that is full. *)
LEMMA FitsStep ==
    ASSUME HardwareType, ThreadType, TransferType, CallOK, ClosedOK, SetUpOK, TransferFits, CompleteMeansFull, [Next]_vars
    PROVE  (TransferFits /\ CompleteMeansFull)'
<1> USE DEF TransferFits, CompleteMeansFull, SetUpOK, SetUp, CallOK, TransferType, transfer, thread, At, Goto, Return
<1>1. CASE Arrive
  BY <1>1 DEF Arrive
<1>2. CASE Enter
  BY <1>2 DEF Enter
<1>3. CASE Drain
  <2>1. CASE busy
    <3>1. Feed(Head(fifo))
      BY <1>3, <2>1 DEF Drain
    <3>2. Head(fifo) \in Bytes
      BY <1>3 DEF Drain, HardwareType
    <3>3. Len(Append(buf, Head(fifo))) = Len(buf) + 1 /\ Len(buf) \in Nat /\ Len(<<>>) = 0
      BY <3>2, AppendByte
    <3>4. ~SetUp /\ acount = Len(buf) /\ acount < alen /\ ~event
      BY <1>3, <2>1 DEF Drain
    <3>5. CASE acount + 1 < alen
      BY <2>1, <3>1, <3>3, <3>4, <3>5 DEF Feed
    <3>6. CASE acount + 1 >= alen
      <4>1. alen = acount + 1
        BY <3>3, <3>4, <3>6
      <4>2. ~(acount + 1 < alen)
        BY <3>3, <3>4, <4>1
      <4>3. \/ /\ buf' = Append(buf, Head(fifo)) /\ acount' = acount + 1
               /\ busy' = FALSE /\ alen' = alen
            \/ \E n \in Lengths : alen' = n /\ buf' = <<>> /\ acount' = 0 /\ event' = FALSE
        BY <3>1, <4>2 DEF Feed
      <4>4. ASSUME NEW n \in Lengths, alen' = n, buf' = <<>>, acount' = 0, event' = FALSE
            PROVE  (TransferFits /\ CompleteMeansFull)'
        <5>1. n \in Nat /\ n > 0
          BY Constants
        <5> QED
          BY <3>3, <4>4, <5>1
      <4>5. ASSUME buf' = Append(buf, Head(fifo)), acount' = acount + 1, busy' = FALSE, alen' = alen
            PROVE  (TransferFits /\ CompleteMeansFull)'
        BY <3>3, <3>4, <4>1, <4>5
      <4> QED
        BY <4>3, <4>4, <4>5
    <3> QED
      BY <3>5, <3>6, <3>3, <3>4
  <2>2. CASE ~busy
    BY <1>3, <2>2 DEF Drain
  <2> QED
    BY <2>1, <2>2
<1>4. CASE Drained
  BY <1>4 DEF Drained
<1>5. CASE Leave
  BY <1>5 DEF Leave
<1>6. CASE ReadByte
  BY <1>6 DEF ReadByte
<1>7. CASE Flush
  BY <1>7 DEF Flush
<1>8. CASE RxStart
  BY <1>8 DEF RxStart
<1>9. CASE RxStartClean
  BY <1>9 DEF RxStartClean
<1>10. CASE RxAbort
  BY <1>10 DEF RxAbort
<1>11. CASE StatusGet
  BY <1>11 DEF StatusGet
<1>12. CASE StatusClear
  BY <1>12 DEF StatusClear
<1>13. CASE Copy
  BY <1>13 DEF Copy
<1>14. CASE Advance
  BY <1>14 DEF Advance
<1>15. CASE FlushInner
  BY <1>15 DEF FlushInner
<1>16. CASE DropRing
  BY <1>16 DEF DropRing
<1>17. CASE DrainFifo
  BY <1>17 DEF DrainFifo
<1>18. CASE FifoEmpty
  BY <1>18 DEF FifoEmpty
<1>19. CASE Restore
  BY <1>19 DEF Restore
<1>20. CASE ArmBuffer
  <2>1. Len(buf') = 0 /\ alen' \in Nat \ {0}
    BY <1>20, Constants DEF ArmBuffer
  <2> QED
    BY <1>20, <2>1 DEF ArmBuffer
<1>21. CASE ArmCount
  BY <1>21 DEF ArmCount
<1>22. CASE ArmBusy
  BY <1>22, Constants DEF ArmBusy
<1>23. CASE Reopen
  BY <1>23 DEF Reopen
<1>24. CASE ReadCount
  BY <1>24 DEF ReadCount
<1>25. CASE ReadDrops
  BY <1>25 DEF ReadDrops
<1>26. CASE Zero
  BY <1>26 DEF Zero
<1>27. CASE UNCHANGED vars
  BY <1>27 DEF vars
<1> QED
  BY <1>1, <1>2, <1>3, <1>4, <1>5, <1>6, <1>7, <1>8, <1>9, <1>10, <1>11, <1>12, <1>13, <1>14, <1>15, <1>16, <1>17, <1>18, <1>19, <1>20, <1>21, <1>22, <1>23, <1>24, <1>25, <1>26, <1>27 DEF Next, Isr, Begin, Continue

-----------------------------------------------------------------------------
(* The invariant is inductive. *)
LEMMA Invariant == Spec => []IInv
<1>1. IInv /\ [Next]_vars => IInv'
  BY HardwareStep, RingStep, TransferStep, ThreadStep, ControlStep, SetUpStep,
     CountsStep, ReaderStep, FitsStep DEF IInv, TypeOK
<1> QED
  BY Init_IInv, <1>1, PTL DEF Spec

(* The variables keep their types and the indices stay inside the ring,     *)
(* whatever its size.                                                       *)
THEOREM TypeCorrect == Spec => []TypeOK
<1>1. IInv => TypeOK
  BY DEF IInv
<1> QED
  BY Invariant, <1>1, PTL

(* However the handler and a read interleave, the byte about to be returned *)
(* is in the ring and unchanged until the index has moved past it.          *)
THEOREM ReadsAreSafe == Spec => []ReaderIsSafe
<1>1. IInv => ReaderIsSafe
  BY DEF IInv
<1> QED
  BY Invariant, <1>1, PTL

(* However rx_start, rx_abort, the handler and the callback interleave, no  *)
(* byte is stored past the end of a caller's buffer.                       *)
THEOREM TransfersFit == Spec => []TransferFits
<1>1. IInv => TransferFits
  BY DEF IInv
<1> QED
  BY Invariant, <1>1, PTL

(* RX_COMPLETE is only ever seen with the buffer full and let go of.        *)
THEOREM CompletionsAreFull == Spec => []CompleteMeansFull
<1>1. IInv => CompleteMeansFull
  BY DEF IInv
<1> QED
  BY Invariant, <1>1, PTL

(* status_get never returns more drops than bytes.                          *)
THEOREM SnapshotsAgree == Spec => []SnapshotConsistent
<1>1. IInv => SnapshotConsistent
  BY DEF IInv, CountsOK, SnapshotConsistent
<1> QED
  BY Invariant, <1>1, PTL

-----------------------------------------------------------------------------
(* The ring as a queue: its arithmetic, once.                               *)

Queued(rg, r, w) == [i \in 1 .. (w + Size - r) % Size |-> rg[(r + i - 1) % Size]]

(* The remainder of a number that the modulus fits into at most once. *)
LEMMA ModOnce ==
    ASSUME NEW n \in Nat \ {0}, NEW a \in Nat, a < 2 * n
    PROVE  a % n = IF a < n THEN a ELSE a - n
<1>1. CASE a < n
  BY <1>1, Z3
<1>2. CASE n <= a
  <2>1. a - n \in Nat /\ a - n < n /\ a = n + (a - n)
    BY <1>2
  <2>2. (n + (a - n)) % n = a - n
    BY <2>1, Z3
  <2> QED BY <1>2, <2>1, <2>2
<1> QED BY <1>1, <1>2

Ring == [0 .. Size - 1 -> 0 .. MaxBytes]
Idx  == 0 .. Size - 1

LEMMA SizeFacts == Size \in Nat /\ Size >= 2 /\ Size \in Nat \ {0} /\ Idx \subseteq Nat
BY UartRxAssumption DEF Idx

(* How many bytes are queued, and where the i-th one is. *)
LEMMA QueuedFacts ==
    ASSUME NEW rg \in Ring, NEW r \in Idx, NEW w \in Idx
    PROVE  /\ (w + Size - r) % Size = IF r <= w THEN w - r ELSE w + Size - r
           /\ (w + Size - r) % Size \in 0 .. Size - 1
           /\ Queued(rg, r, w) \in Seq(0 .. MaxBytes)
           /\ Len(Queued(rg, r, w)) = (w + Size - r) % Size
           /\ \A i \in 1 .. Size :
                  (r + i - 1) % Size = IF r + i - 1 < Size THEN r + i - 1 ELSE r + i - 1 - Size
           /\ \A i \in 1 .. (w + Size - r) % Size : (r + i - 1) % Size \in Idx
           /\ \A i \in 1 .. (w + Size - r) % Size :
                  Queued(rg, r, w)[i] = rg[(r + i - 1) % Size]
<1> DEFINE n == (w + Size - r) % Size
<1>1. n = IF r <= w THEN w - r ELSE w + Size - r
  <2> DEFINE a == w + Size - r
  <2>1. a \in Nat /\ a < 2 * Size
    BY SizeFacts DEF Idx
  <2>2. a % Size = IF a < Size THEN a ELSE a - Size
    <3> HIDE DEF a
    <3> QED BY <2>1, SizeFacts, ModOnce
  <2> QED BY <2>2, SizeFacts DEF Idx
<1>2. n \in 0 .. Size - 1
  BY <1>1, SizeFacts DEF Idx
<1>3. ASSUME NEW i \in 1 .. Size
      PROVE  (r + i - 1) % Size = IF r + i - 1 < Size THEN r + i - 1 ELSE r + i - 1 - Size
  <2> DEFINE a == r + i - 1
  <2>1. a \in Nat /\ a < 2 * Size
    BY SizeFacts DEF Idx
  <2>2. a % Size = IF a < Size THEN a ELSE a - Size
    <3> HIDE DEF a
    <3> QED BY <2>1, SizeFacts, ModOnce
  <2> QED BY <2>2, SizeFacts DEF Idx
<1>4. ASSUME NEW i \in 1 .. n PROVE (r + i - 1) % Size \in Idx
  <2>1. i \in 1 .. Size
    BY <1>2, SizeFacts
  <2> QED BY <1>3, <2>1, SizeFacts DEF Idx
<1> HIDE DEF n
<1>5. Queued(rg, r, w) = [i \in 1 .. n |-> rg[(r + i - 1) % Size]]
  BY DEF Queued, n
<1>6. ASSUME NEW i \in 1 .. n PROVE rg[(r + i - 1) % Size] \in 0 .. MaxBytes
  <2>1. (r + i - 1) % Size \in Idx
    BY <1>4
  <2> QED BY <2>1 DEF Ring, Idx
<1>7. n \in Nat
  BY <1>2, SizeFacts
<1>8. Queued(rg, r, w) \in Seq(0 .. MaxBytes) /\ Len(Queued(rg, r, w)) = n
  BY <1>5, <1>6, <1>7
<1>9. \A i \in 1 .. n : Queued(rg, r, w)[i] = rg[(r + i - 1) % Size]
  BY <1>5
<1> QED BY <1>1, <1>2, <1>3, <1>4, <1>8, <1>9 DEF n

(* An empty ring. *)
LEMMA QueuedNone ==
    ASSUME NEW rg \in Ring, NEW w \in Idx
    PROVE  Queued(rg, w, w) = <<>>
<1>1. Len(Queued(rg, w, w)) = 0 /\ Queued(rg, w, w) \in Seq(0 .. MaxBytes)
  <2>1. w \in Nat
    BY SizeFacts
  <2> QED BY <2>1, QueuedFacts
<1> QED BY <1>1

(* A byte written behind the last one is queued. *)
LEMMA QueuedPut ==
    ASSUME NEW rg \in Ring, NEW r \in Idx, NEW w \in Idx, NEW b \in 0 .. MaxBytes,
           NextIdx(w) # r
    PROVE  /\ Queued([rg EXCEPT ![w] = b], r, NextIdx(w)) = Append(Queued(rg, r, w), b)
           /\ Len(Queued(rg, r, w)) < Size - 1
<1> DEFINE n == (w + Size - r) % Size
           m == (NextIdx(w) + Size - r) % Size
           to == [rg EXCEPT ![w] = b]
           old == Queued(rg, r, w)
           new == Queued(to, r, NextIdx(w))
<1>0. w \in Nat /\ r \in Nat /\ w < Size /\ r < Size
  BY SizeFacts DEF Idx
<1>1. NextIdx(w) \in Idx /\ to \in Ring
  BY NextIdxRange DEF Idx, Ring
<1>2. n = IF r <= w THEN w - r ELSE w + Size - r
  BY QueuedFacts
<1>3. m = IF r <= NextIdx(w) THEN NextIdx(w) - r ELSE NextIdx(w) + Size - r
  BY <1>1, QueuedFacts
<1>4. NextIdx(w) = IF w + 1 >= Size THEN 0 ELSE w + 1
  BY DEF NextIdx
<1> HIDE DEF n, m
<1>5. m = n + 1 /\ n < Size - 1 /\ n \in Nat
  BY <1>0, <1>2, <1>3, <1>4, SizeFacts
<1>6. old \in Seq(0 .. MaxBytes) /\ Len(old) = n /\ \A i \in 1 .. n : old[i] = rg[(r + i - 1) % Size]
  BY QueuedFacts DEF n
<1>7. new \in Seq(0 .. MaxBytes) /\ Len(new) = m /\ \A i \in 1 .. m : new[i] = to[(r + i - 1) % Size]
  BY <1>1, QueuedFacts DEF m
<1>8. \A i \in 1 .. Size :
         (r + i - 1) % Size = IF r + i - 1 < Size THEN r + i - 1 ELSE r + i - 1 - Size
  BY QueuedFacts
<1> HIDE DEF old, new
<1>9. ASSUME NEW i \in 1 .. n PROVE new[i] = old[i]
  <2>1. i \in 1 .. m /\ i \in 1 .. Size /\ i \in Nat
    BY <1>5, SizeFacts
  <2>2. (r + i - 1) % Size = IF r + i - 1 < Size THEN r + i - 1 ELSE r + i - 1 - Size
    BY <1>8, <2>1
  <2>3. (r + i - 1) % Size # w /\ (r + i - 1) % Size \in Idx
    BY <1>0, <1>2, <1>5, <2>1, <2>2, SizeFacts DEF Idx
  <2>4. to[(r + i - 1) % Size] = rg[(r + i - 1) % Size]
    BY <2>3 DEF Ring, Idx
  <2> QED BY <1>6, <1>7, <2>1, <2>4
<1>10. new[m] = b
  <2>1. m \in 1 .. m /\ m \in 1 .. Size
    BY <1>5, SizeFacts
  <2>2. (r + m - 1) % Size = IF r + m - 1 < Size THEN r + m - 1 ELSE r + m - 1 - Size
    BY <1>8, <2>1
  <2>3. (r + m - 1) % Size = w
    BY <1>0, <1>2, <1>5, <2>2, SizeFacts
  <2>4. to[w] = b
    BY DEF Ring, Idx
  <2> QED BY <1>7, <2>1, <2>3, <2>4
<1>11. Append(old, b) \in Seq(0 .. MaxBytes) /\ Len(Append(old, b)) = n + 1
       /\ \A i \in 1 .. n + 1 : Append(old, b)[i] = IF i <= n THEN old[i] ELSE b
  BY <1>5, <1>6
<1>12. \A i \in 1 .. n + 1 : new[i] = Append(old, b)[i]
  BY <1>5, <1>9, <1>10, <1>11
<1>13. new = Append(old, b)
  BY <1>5, <1>7, <1>11, <1>12
<1> QED BY <1>5, <1>6, <1>13 DEF old, new

(* A ring whose next slot is the reader's is full. *)
LEMMA QueuedFull ==
    ASSUME NEW rg \in Ring, NEW w \in Idx
    PROVE  Len(Queued(rg, NextIdx(w), w)) = Size - 1
<1>0. w \in Nat /\ w < Size
  BY SizeFacts DEF Idx
<1>1. NextIdx(w) \in Idx
  BY NextIdxRange DEF Idx
<1>2. Len(Queued(rg, NextIdx(w), w))
        = IF NextIdx(w) <= w THEN w - NextIdx(w) ELSE w + Size - NextIdx(w)
  BY <1>1, QueuedFacts
<1>3. NextIdx(w) = IF w + 1 >= Size THEN 0 ELSE w + 1
  BY DEF NextIdx
<1> QED BY <1>0, <1>2, <1>3, SizeFacts

(* The reader takes the head. *)
LEMMA QueuedGet ==
    ASSUME NEW rg \in Ring, NEW r \in Idx, NEW w \in Idx, r # w
    PROVE  /\ Queued(rg, r, w) # <<>>
           /\ Head(Queued(rg, r, w)) = rg[r]
           /\ Queued(rg, NextIdx(r), w) = Tail(Queued(rg, r, w))
<1> DEFINE n == (w + Size - r) % Size
           m == (w + Size - NextIdx(r)) % Size
           old == Queued(rg, r, w)
           new == Queued(rg, NextIdx(r), w)
<1>0. w \in Nat /\ r \in Nat /\ w < Size /\ r < Size
  BY SizeFacts DEF Idx
<1>1. NextIdx(r) \in Idx
  BY NextIdxRange DEF Idx
<1>2. n = IF r <= w THEN w - r ELSE w + Size - r
  BY QueuedFacts
<1>3. m = IF NextIdx(r) <= w THEN w - NextIdx(r) ELSE w + Size - NextIdx(r)
  BY <1>1, QueuedFacts
<1>4. NextIdx(r) = IF r + 1 >= Size THEN 0 ELSE r + 1
  BY DEF NextIdx
<1> HIDE DEF n, m
<1>5. n = m + 1 /\ m \in Nat /\ n <= Size - 1
  BY <1>0, <1>2, <1>3, <1>4, SizeFacts
<1>6. old \in Seq(0 .. MaxBytes) /\ Len(old) = n /\ \A i \in 1 .. n : old[i] = rg[(r + i - 1) % Size]
  BY QueuedFacts DEF n
<1>7. /\ new \in Seq(0 .. MaxBytes) /\ Len(new) = m
      /\ \A i \in 1 .. m : new[i] = rg[(NextIdx(r) + i - 1) % Size]
  BY <1>1, QueuedFacts DEF m
<1>8. /\ \A i \in 1 .. Size :
           (r + i - 1) % Size = IF r + i - 1 < Size THEN r + i - 1 ELSE r + i - 1 - Size
      /\ \A i \in 1 .. Size :
           (NextIdx(r) + i - 1) % Size
              = IF NextIdx(r) + i - 1 < Size THEN NextIdx(r) + i - 1 ELSE NextIdx(r) + i - 1 - Size
  BY <1>1, QueuedFacts
<1> HIDE DEF old, new
<1>9. ASSUME NEW i \in 1 .. m PROVE new[i] = old[i + 1]
  <2>1. i + 1 \in 1 .. n /\ i \in 1 .. Size /\ i + 1 \in 1 .. Size /\ i \in Nat
    BY <1>5, SizeFacts
  <2>2. /\ (r + (i + 1) - 1) % Size
              = IF r + (i + 1) - 1 < Size THEN r + (i + 1) - 1 ELSE r + (i + 1) - 1 - Size
        /\ (NextIdx(r) + i - 1) % Size
              = IF NextIdx(r) + i - 1 < Size THEN NextIdx(r) + i - 1 ELSE NextIdx(r) + i - 1 - Size
    BY <1>8, <2>1
  <2>3. (r + (i + 1) - 1) % Size = (NextIdx(r) + i - 1) % Size
    BY <1>0, <1>4, <1>5, <2>1, <2>2, SizeFacts
  <2> QED BY <1>6, <1>7, <2>1, <2>3
<1>10. old[1] = rg[r]
  <2>1. 1 \in 1 .. n /\ 1 \in 1 .. Size
    BY <1>5, SizeFacts
  <2>2. (r + 1 - 1) % Size = r
    BY <1>0, <1>8, <2>1
  <2> QED BY <1>6, <2>1, <2>2
<1>11. old # <<>> /\ Head(old) = old[1]
  BY <1>5, <1>6
<1>12. Tail(old) \in Seq(0 .. MaxBytes) /\ Len(Tail(old)) = m
       /\ \A i \in 1 .. m : Tail(old)[i] = old[i + 1]
  BY <1>5, <1>6, <1>11
<1>13. \A i \in 1 .. m : new[i] = Tail(old)[i]
  BY <1>9, <1>12
<1>14. new = Tail(old)
  BY <1>7, <1>12, <1>13
<1> QED BY <1>10, <1>11, <1>14 DEF old, new
-----------------------------------------------------------------------------
(* Every step of the ring, its reader and its handler is a step of the      *)
(* queue or changes nothing a reader sees.                                  *)
LEMMA QueueStep ==
    ASSUME IInv, [Next]_vars
    PROVE  [Queue!Next]_<<Queued(ring, rd, wr), got, drops>>
<1>0. /\ ring \in Ring /\ rd \in Idx /\ wr \in Idx /\ drops \in Nat
      /\ fifo \in Seq(Bytes) /\ Bytes \subseteq 0 .. MaxBytes
  BY Constants DEF IInv, TypeOK, RingType, HardwareType, Ring, Idx
<1>u. ASSUME UNCHANGED <<ring, rd, wr, got, drops>>
      PROVE  UNCHANGED <<Queued(ring, rd, wr), got, drops>>
  BY <1>u DEF Queued
<1>b. Buffered = (wr + Size - rd) % Size /\ Len(Queued(ring, rd, wr)) \in Nat
  BY <1>0, QueuedFacts DEF Buffered
<1>d. CASE Drain
  <2>1. CASE busy
    BY <1>d, <2>1, <1>u DEF Drain, thread
  <2>2. CASE ~busy
    <3> DEFINE b == Head(fifo)
    <3>1. b \in Bytes /\ rd' = rd /\ got' = got /\ RingPush(b)
      BY <1>0, <1>d, <2>2 DEF Drain, thread
    <3>2. CASE NextIdx(wr) = rd
      <4>1. drops' = drops + 1 /\ UNCHANGED <<ring, rd, wr, got>>
        BY <3>1, <3>2 DEF RingPush
      <4>2. Len(Queued(ring, rd, wr)) = Size - 1
        BY <1>0, <3>2, QueuedFull
      <4>3. UNCHANGED Queued(ring, rd, wr)
        BY <4>1 DEF Queued
      <4> QED BY <4>1, <4>2, <4>3 DEF Queue!Next, Queue!Drop, Buffered, Queued
    <3>3. CASE NextIdx(wr) # rd
      <4>1. ring' = [ring EXCEPT ![wr] = b] /\ wr' = NextIdx(wr) /\ UNCHANGED <<rd, got, drops>>
        BY <3>1, <3>3 DEF RingPush
      <4>2. /\ Queued([ring EXCEPT ![wr] = b], rd, NextIdx(wr)) = Append(Queued(ring, rd, wr), b)
            /\ Len(Queued(ring, rd, wr)) < Size - 1
        BY <1>0, <3>1, <3>3, QueuedPut
      <4>3. Queued(ring, rd, wr)' = Append(Queued(ring, rd, wr), b)
        BY <4>1, <4>2 DEF Queued
      <4>4. Queue!Put(b)
        BY <4>1, <4>2, <4>3 DEF Queue!Put, Buffered, Queued
      <4>5. b \in Bytes
        BY <3>1
      <4> HIDE DEF b
      <4>6. \E x \in Bytes : Queue!Put(x)
        BY <4>4, <4>5 DEF Queue!Put
      <4> QED BY <4>6 DEF Queue!Next, Queue!Put
    <3> QED BY <3>2, <3>3
  <2> QED BY <2>1, <2>2
<1>a. CASE Advance
  <2>1. /\ rd' = NextIdx(rd) /\ got' = data /\ UNCHANGED <<ring, wr, drops>>
        /\ rd # wr /\ data = ring[rd]
    BY <1>a DEF Advance, At, IInv, ReaderIsSafe
  <2>2. /\ Queued(ring, rd, wr) # <<>>
        /\ Head(Queued(ring, rd, wr)) = ring[rd]
        /\ Queued(ring, NextIdx(rd), wr) = Tail(Queued(ring, rd, wr))
    BY <1>0, <2>1, QueuedGet
  <2>3. Queued(ring, rd, wr)' = Tail(Queued(ring, rd, wr))
    BY <2>1, <2>2 DEF Queued
  <2> QED BY <2>1, <2>2, <2>3 DEF Queue!Next, Queue!Get, Buffered, Queued
<1>r. CASE DropRing
  <2>1. rd' = wr /\ UNCHANGED <<ring, wr, drops, got>>
    BY <1>r DEF DropRing
  <2>2. Queued(ring, rd, wr)' = <<>>
    <3>1. Queued(ring, wr, wr) = <<>>
      BY <1>0, QueuedNone
    <3> QED BY <2>1, <3>1 DEF Queued
  <2> QED BY <2>1, <2>2 DEF Queue!Next, Queue!Discard, Buffered, Queued
<1>z. CASE Zero
  <2>1. drops' = 0 /\ UNCHANGED <<ring, rd, wr, got>>
    BY <1>z DEF Zero
  <2>2. UNCHANGED Queued(ring, rd, wr)
    BY <2>1 DEF Queued
  <2> QED BY <2>1, <2>2 DEF Queue!Next, Queue!ClearCount, Buffered, Queued
<1>o. CASE Arrive \/ Enter \/ Drained \/ Leave \/ Begin \/ UNCHANGED vars
  BY <1>o, <1>u
     DEF Arrive, Enter, Drained, Leave, Begin, ReadByte, Flush, RxStart, RxStartClean,
         RxAbort, StatusGet, StatusClear, rings, thread, vars
<1>c. CASE \/ Copy \/ FlushInner \/ DrainFifo \/ FifoEmpty \/ Restore \/ ArmBuffer \/ ArmCount
           \/ ArmBusy \/ Reopen \/ ReadCount \/ ReadDrops
  BY <1>c, <1>u
     DEF Copy, FlushInner, DrainFifo, FifoEmpty, Restore, ArmBuffer, ArmCount, ArmBusy,
         Reopen, ReadCount, ReadDrops, rings, thread
<1> QED BY <1>d, <1>a, <1>r, <1>z, <1>o, <1>c DEF Next, Isr, Continue

(* The ring is a bounded queue to its reader: nothing is lost but by a full *)
(* ring or a flush, and nothing doubled or overtaken, whatever the handler  *)
(* does between two instructions of nora_uart_dspic33ak_rx_isr_read_byte,   *)
(* a flush or a status call.                                                *)
THEOREM RingRefinesQueue == Spec => RingIsQueue
<1>1. Init => Queue!Init
  <2> SUFFICES ASSUME Init PROVE Queue!Init
    OBVIOUS
  <2>1. ring \in Ring /\ rd = 0 /\ wr = 0 /\ 0 \in Idx /\ got = 0 /\ drops = 0
    BY Init_IInv, UartRxAssumption DEF Init, IInv, TypeOK, RingType, Ring, Idx
  <2>2. Queued(ring, rd, wr) = <<>>
    BY <2>1, QueuedNone
  <2> QED BY <2>1, <2>2 DEF Queue!Init, Buffered, Queued
<1>2. IInv /\ [Next]_vars
        => [Queue!Next]_<<[i \in 1 .. Buffered |-> ring[(rd + i - 1) % Size]], got, drops>>
  BY QueueStep DEF Buffered, Queued
<1> QED BY <1>1, <1>2, Invariant, PTL DEF Spec, RingIsQueue, Queue!Spec

-----------------------------------------------------------------------------
(* Where the bytes are.  The FIFO holds them in the order they came, each   *)
(* after all that a transfer has stored; from the FIFO's head on every byte *)
(* is in it or was lost.                                                    *)
Ordered ==
    /\ \A i, j \in 1 .. Len(fifo) : i < j => fifo[i] < fifo[j]
    /\ \A i \in 1 .. Len(fifo) : fifo[i] <= arrived
    /\ fifo # <<>> => Head(fifo) .. arrived \subseteq ToSet(fifo) \cup lost

Stored ==
    \A y \in ToSet(buf) : y <= arrived /\ \A x \in ToSet(fifo) : y < x

(* Since its beginning, from on, a transfer that is set up, or at work, has *)
(* lost no byte that the FIFO does not hold.                                *)
FromOK ==
    /\ call = "start" => from = Unknown
    /\ call = "start_clean" /\ pc \in {"inner", "drop", "empty"} => from = Unknown
    /\ call = "start_clean" /\ pc \in {"restore", "arm", "armcount", "armbusy"}
          /\ from # Unknown
       => from + 1 .. arrived \subseteq lost \cup ToSet(fifo)
    /\ busy /\ from # Unknown
       => from + 1 .. arrived \subseteq ToSet(buf) \cup lost \cup ToSet(fifo)

BytesOK == Ordered /\ Stored /\ FromOK

(* The elements of a sequence that grows at its end or loses its head. *)
LEMMA ToSetAppend ==
    ASSUME NEW S, NEW s \in Seq(S), NEW b \in S
    PROVE  ToSet(Append(s, b)) = ToSet(s) \cup {b}
<1> DEFINE t == Append(s, b)
<1>1. /\ t \in Seq(S) /\ Len(t) = Len(s) + 1 /\ Len(s) \in Nat
      /\ \A i \in 1 .. Len(s) : t[i] = s[i]
      /\ t[Len(s) + 1] = b
  OBVIOUS
<1>2. DOMAIN t = 1 .. Len(s) + 1 /\ DOMAIN s = 1 .. Len(s)
  BY <1>1
<1> HIDE DEF t
<1>3. ASSUME NEW i \in 1 .. Len(s) + 1 PROVE t[i] \in ToSet(s) \cup {b}
  <2>1. i \in 1 .. Len(s) \/ i = Len(s) + 1
    BY <1>1
  <2> QED BY <1>1, <1>2, <2>1 DEF ToSet
<1>4. ASSUME NEW i \in 1 .. Len(s) PROVE s[i] \in ToSet(t)
  <2>1. i \in 1 .. Len(s) + 1 /\ t[i] = s[i]
    BY <1>1
  <2> QED BY <1>2, <2>1 DEF ToSet
<1>5. b \in ToSet(t)
  <2>1. Len(s) + 1 \in 1 .. Len(s) + 1
    BY <1>1
  <2> QED BY <1>1, <1>2, <2>1 DEF ToSet
<1>6. ToSet(t) \subseteq ToSet(s) \cup {b}
  BY <1>2, <1>3 DEF ToSet
<1>7. ToSet(s) \subseteq ToSet(t)
  BY <1>2, <1>4 DEF ToSet
<1> QED BY <1>5, <1>6, <1>7 DEF t

LEMMA ToSetFacts ==
    ASSUME NEW S, NEW s \in Seq(S)
    PROVE  /\ \A i \in 1 .. Len(s) : s[i] \in S
           /\ ToSet(s) \subseteq S
           /\ s # <<>> =>
                 /\ ToSet(s) = {Head(s)} \cup ToSet(Tail(s))
                 /\ Last(s) \in ToSet(s) /\ Head(s) \in ToSet(s)
<1>0. DOMAIN s = 1 .. Len(s) /\ Len(s) \in Nat /\ \A i \in 1 .. Len(s) : s[i] \in S
  OBVIOUS
<1>1. ToSet(s) \subseteq S
  BY <1>0 DEF ToSet
<1>2. ASSUME s # <<>> PROVE ToSet(s) = {Head(s)} \cup ToSet(Tail(s)) /\ Head(s) \in ToSet(s)
  <2> DEFINE t == Tail(s)
  <2>1. /\ t \in Seq(S) /\ Len(t) = Len(s) - 1 /\ Len(s) >= 1
        /\ \A i \in 1 .. Len(s) - 1 : t[i] = s[i + 1]
        /\ Head(s) = s[1]
    BY <1>2
  <2>2. DOMAIN t = 1 .. Len(s) - 1
    BY <2>1
  <2> HIDE DEF t
  <2>3. ASSUME NEW i \in 1 .. Len(s) PROVE s[i] \in {s[1]} \cup ToSet(t)
    <3>1. CASE i = 1
      BY <3>1
    <3>2. CASE i # 1
      <4>1. i - 1 \in 1 .. Len(s) - 1 /\ i - 1 + 1 = i
        BY <1>0, <3>2
      <4>2. t[i - 1] = s[i]
        BY <2>1, <4>1
      <4> QED BY <2>2, <4>1, <4>2 DEF ToSet
    <3> QED BY <3>1, <3>2
  <2>4. ASSUME NEW i \in 1 .. Len(s) - 1 PROVE t[i] \in ToSet(s)
    <3>1. i + 1 \in 1 .. Len(s) /\ t[i] = s[i + 1]
      BY <1>0, <2>1
    <3> QED BY <1>0, <3>1 DEF ToSet
  <2>5. s[1] \in ToSet(s)
    <3>1. 1 \in 1 .. Len(s)
      BY <1>0, <2>1
    <3> QED BY <1>0, <3>1 DEF ToSet
  <2>6. ToSet(s) \subseteq {s[1]} \cup ToSet(t)
    BY <1>0, <2>3 DEF ToSet
  <2>7. ToSet(t) \subseteq ToSet(s)
    BY <2>2, <2>4 DEF ToSet
  <2> QED BY <2>1, <2>5, <2>6, <2>7 DEF t
<1>3. ASSUME s # <<>> PROVE Last(s) \in ToSet(s)
  <2>1. Len(s) \in 1 .. Len(s)
    BY <1>0, <1>3
  <2> QED BY <1>0, <2>1 DEF ToSet, Last
<1> QED BY <1>0, <1>1, <1>2, <1>3

(* A FIFO that gives up its head stays in order. *)
LEMMA TailOrdered ==
    ASSUME HardwareType, Ordered, fifo # <<>>, fifo' = Tail(fifo),
           UNCHANGED <<arrived, lost>>
    PROVE  /\ Ordered'
           /\ ToSet(fifo) = {Head(fifo)} \cup ToSet(fifo')
           /\ \A x \in ToSet(fifo') : Head(fifo) < x
           /\ Head(fifo) \in Bytes /\ Head(fifo) <= arrived
           /\ Head(fifo) + 1 .. arrived \subseteq ToSet(fifo') \cup lost
<1>0. fifo \in Seq(Bytes) /\ arrived \in Nat /\ Bytes \subseteq Nat /\ lost \subseteq Bytes
  BY DEF HardwareType, Bytes
<1>1. /\ Len(fifo) >= 1 /\ Len(fifo') = Len(fifo) - 1 /\ fifo' \in Seq(Bytes)
      /\ \A i \in 1 .. Len(fifo') : fifo'[i] = fifo[i + 1]
      /\ Head(fifo) = fifo[1] /\ Head(fifo) \in Bytes
  BY <1>0
<1>2. ToSet(fifo) = {Head(fifo)} \cup ToSet(fifo')
  BY <1>0, <1>1, ToSetFacts
<1>3. \A i, j \in 1 .. Len(fifo') : i < j => fifo'[i] < fifo'[j]
  <2> SUFFICES ASSUME NEW i \in 1 .. Len(fifo'), NEW j \in 1 .. Len(fifo'), i < j
               PROVE  fifo'[i] < fifo'[j]
    OBVIOUS
  <2>1. i + 1 \in 1 .. Len(fifo) /\ j + 1 \in 1 .. Len(fifo) /\ i + 1 < j + 1
    BY <1>1
  <2>2. fifo[i + 1] < fifo[j + 1]
    BY <2>1 DEF Ordered
  <2> QED BY <1>1, <2>2
<1>4. \A i \in 1 .. Len(fifo') : fifo'[i] <= arrived /\ Head(fifo) < fifo'[i]
  <2> SUFFICES ASSUME NEW i \in 1 .. Len(fifo')
               PROVE  fifo'[i] <= arrived /\ Head(fifo) < fifo'[i]
    OBVIOUS
  <2>1. i + 1 \in 1 .. Len(fifo) /\ 1 \in 1 .. Len(fifo) /\ 1 < i + 1
    BY <1>1
  <2>2. fifo[i + 1] <= arrived /\ fifo[1] < fifo[i + 1]
    BY <2>1 DEF Ordered
  <2> QED BY <1>1, <2>2
<1>5. \A x \in ToSet(fifo') : Head(fifo) < x
  <2>1. DOMAIN fifo' = 1 .. Len(fifo')
    BY <1>1
  <2> QED BY <1>4, <2>1 DEF ToSet
<1>6. Head(fifo) <= arrived
  <2>1. 1 \in 1 .. Len(fifo)
    BY <1>1
  <2> QED BY <1>1, <2>1 DEF Ordered
<1>7. Head(fifo) + 1 .. arrived \subseteq ToSet(fifo') \cup lost
  <2> SUFFICES ASSUME NEW x \in Head(fifo) + 1 .. arrived
               PROVE  x \in ToSet(fifo') \cup lost
    OBVIOUS
  <2>0. Head(fifo) \in Nat
    BY <1>0, <1>1
  <2>1. x \in Head(fifo) .. arrived /\ x # Head(fifo)
    BY <1>0, <2>0
  <2> QED BY <1>0, <1>2, <2>1 DEF Ordered
<1>8. fifo' # <<>> => Head(fifo') .. arrived \subseteq ToSet(fifo') \cup lost
  <2> SUFFICES ASSUME fifo' # <<>>, NEW x \in Head(fifo') .. arrived
               PROVE  x \in ToSet(fifo') \cup lost
    OBVIOUS
  <2>1. Head(fifo') \in ToSet(fifo') /\ Head(fifo') \in Bytes
    <3>1. fifo' \in Seq(Bytes)
      BY <1>1
    <3> QED BY <3>1, ToSetFacts
  <2>2. Head(fifo) \in Nat /\ Head(fifo') \in Nat /\ Head(fifo) < Head(fifo')
    BY <1>0, <1>1, <1>5, <2>1
  <2>3. x \in Head(fifo) + 1 .. arrived
    BY <1>0, <2>2
  <2> QED BY <1>7, <2>3
<1> QED BY <1>0, <1>1, <1>2, <1>3, <1>4, <1>5, <1>6, <1>7, <1>8 DEF Ordered

(* A byte that arrives is behind all others, or lost. *)
LEMMA ArriveOrdered ==
    ASSUME HardwareType, TransferType, Ordered, Stored, Arrive
    PROVE  /\ Ordered' /\ Stored'
           /\ arrived' = arrived + 1
           /\ ToSet(fifo) \cup lost \cup {arrived + 1} \subseteq ToSet(fifo') \cup lost'
<1>0. /\ fifo \in Seq(Bytes) /\ arrived \in Nat /\ Bytes \subseteq Nat /\ lost \subseteq Bytes
      /\ buf \in Seq(Bytes) /\ buf' = buf /\ arrived' = arrived + 1
      /\ arrived + 1 \in Bytes
  BY Constants DEF Arrive, transfer, HardwareType, TransferType, Bytes
<1>1. CASE Len(fifo) < FifoDepth
  <2>1. fifo' = Append(fifo, arrived + 1) /\ lost' = lost
    BY <1>0, <1>1 DEF Arrive
  <2>2. /\ ToSet(fifo') = ToSet(fifo) \cup {arrived + 1}
        /\ Len(fifo') = Len(fifo) + 1 /\ Len(fifo) \in Nat /\ fifo' \in Seq(Bytes)
        /\ \A i \in 1 .. Len(fifo) : fifo'[i] = fifo[i]
        /\ fifo'[Len(fifo) + 1] = arrived + 1
    BY <1>0, <2>1, ToSetAppend
  <2>3. \A i \in 1 .. Len(fifo) : fifo[i] \in Nat /\ fifo[i] <= arrived
    BY <1>0, ToSetFacts DEF Ordered
  <2>4. \A i, j \in 1 .. Len(fifo') : i < j => fifo'[i] < fifo'[j]
    <3> SUFFICES ASSUME NEW i \in 1 .. Len(fifo'), NEW j \in 1 .. Len(fifo'), i < j
                 PROVE  fifo'[i] < fifo'[j]
      OBVIOUS
    <3>1. i \in 1 .. Len(fifo)
      BY <2>2
    <3>2. CASE j \in 1 .. Len(fifo)
      BY <2>2, <3>1, <3>2 DEF Ordered
    <3>3. CASE j = Len(fifo) + 1
      BY <1>0, <2>2, <2>3, <3>1, <3>3
    <3> QED BY <2>2, <3>2, <3>3
  <2>5. \A i \in 1 .. Len(fifo') : fifo'[i] <= arrived'
    <3> SUFFICES ASSUME NEW i \in 1 .. Len(fifo') PROVE fifo'[i] <= arrived'
      OBVIOUS
    <3>1. i \in 1 .. Len(fifo) \/ i = Len(fifo) + 1
      BY <2>2
    <3> QED BY <1>0, <2>2, <2>3, <3>1
  <2>6. Head(fifo') .. arrived' \subseteq ToSet(fifo') \cup lost'
    <3> SUFFICES ASSUME NEW x \in Head(fifo') .. arrived'
                 PROVE  x \in ToSet(fifo') \cup lost'
      OBVIOUS
    <3>1. CASE fifo = <<>>
      <4>1. Head(fifo') = arrived + 1
        BY <2>1, <3>1
      <4>2. x = arrived + 1
        BY <1>0, <4>1
      <4> QED BY <2>2, <4>2
    <3>2. CASE fifo # <<>>
      <4>1. Head(fifo') = Head(fifo) /\ Head(fifo) \in Nat
        <5>1. 1 \in 1 .. Len(fifo) /\ Head(fifo) = fifo[1] /\ Head(fifo') = fifo'[1]
          BY <1>0, <2>2, <3>2
        <5> QED BY <2>2, <2>3, <5>1
      <4>2. x \in Head(fifo) .. arrived \/ x = arrived + 1
        BY <1>0, <4>1
      <4> QED BY <2>1, <2>2, <3>2, <4>2 DEF Ordered
    <3> QED BY <3>1, <3>2
  <2>7. Stored'
    <3> SUFFICES ASSUME NEW y \in ToSet(buf)
                 PROVE  y <= arrived + 1 /\ \A x \in ToSet(fifo) \cup {arrived + 1} : y < x
      BY <1>0, <2>2 DEF Stored
    <3>1. y \in Nat /\ y <= arrived /\ \A x \in ToSet(fifo) : y < x
      BY <1>0, ToSetFacts DEF Stored
    <3> QED BY <1>0, <3>1
  <2> QED BY <1>0, <2>1, <2>2, <2>4, <2>5, <2>6, <2>7 DEF Ordered
<1>2. CASE ~(Len(fifo) < FifoDepth)
  <2>1. fifo' = fifo /\ lost' = lost \cup {arrived + 1}
    BY <1>0, <1>2 DEF Arrive
  <2>2. \A i \in 1 .. Len(fifo) : fifo[i] \in Nat /\ fifo[i] <= arrived
    BY <1>0, ToSetFacts DEF Ordered
  <2>3. fifo # <<>> => Head(fifo) .. arrived' \subseteq ToSet(fifo) \cup lost'
    <3> SUFFICES ASSUME fifo # <<>>, NEW x \in Head(fifo) .. arrived'
                 PROVE  x \in ToSet(fifo) \cup lost'
      OBVIOUS
    <3>1. Head(fifo) \in Nat
      BY <1>0, ToSetFacts
    <3>2. x \in Head(fifo) .. arrived \/ x = arrived + 1
      BY <1>0, <3>1
    <3> QED BY <2>1, <3>2 DEF Ordered
  <2>4. Stored'
    <3> SUFFICES ASSUME NEW y \in ToSet(buf)
                 PROVE  y <= arrived + 1 /\ \A x \in ToSet(fifo) : y < x
      BY <1>0, <2>1 DEF Stored
    <3>1. y \in Nat /\ y <= arrived /\ \A x \in ToSet(fifo) : y < x
      BY <1>0, ToSetFacts DEF Stored
    <3> QED BY <1>0, <3>1
  <2>5. \A i \in 1 .. Len(fifo) : fifo[i] <= arrived + 1
    BY <1>0, <2>2
  <2> QED BY <1>0, <2>1, <2>3, <2>4, <2>5 DEF Ordered
<1> QED BY <1>1, <1>2

(* The handler stores a byte, or begins the next transfer after it.         *)
LEMMA DrainStored ==
    ASSUME IInv, BytesOK, Drain
    PROVE  BytesOK'
<1>0. /\ HardwareType /\ TransferType /\ Ordered /\ Stored /\ FromOK /\ CallOK
      /\ fifo # <<>> /\ fifo' = Tail(fifo) /\ isr = "drain"
      /\ UNCHANGED <<arrived, lost, pc, call>>
      /\ buf \in Seq(Bytes) /\ fifo \in Seq(Bytes) /\ Bytes \subseteq Nat
      /\ lost \subseteq Bytes /\ arrived \in Nat /\ from \in Nat /\ busy \in BOOLEAN
  BY DEF Drain, hardware, thread, IInv, BytesOK, TypeOK, HardwareType, TransferType, Bytes,
         Unknown
<1> DEFINE b == Head(fifo)
<1>1. /\ Ordered'
      /\ ToSet(fifo) = {b} \cup ToSet(fifo')
      /\ \A x \in ToSet(fifo') : b < x
      /\ b \in Bytes /\ b <= arrived
      /\ b + 1 .. arrived \subseteq ToSet(fifo') \cup lost
  BY <1>0, TailOrdered
<1> HIDE DEF b
<1>2. ~Closed /\ call # "start_clean"
  BY <1>0 DEF IInv, ClosedOK, Closed
<1>3. CASE ~busy
  <2>1. UNCHANGED <<buf, busy, from>>
    BY <1>0, <1>3 DEF Drain, transfer
  <2>2. Stored'
    BY <1>0, <1>1, <2>1 DEF Stored
  <2>3. FromOK'
    BY <1>0, <1>2, <1>3, <2>1 DEF FromOK
  <2> QED BY <1>1, <2>2, <2>3 DEF BytesOK
<1>4. CASE busy
  <2>1. Feed(b) /\ call # "start"
    BY <1>0, <1>2, <1>4 DEF Drain, IInv, SetUpOK, SetUp, CallOK, b
  <2>2. ASSUME buf' = Append(buf, b), from' = from PROVE BytesOK'
    <3>1. ToSet(buf') = ToSet(buf) \cup {b}
      BY <1>0, <1>1, <2>2, ToSetAppend
    <3>2. Stored'
      BY <1>0, <1>1, <3>1 DEF Stored
    <3>3. FromOK'
      BY <1>0, <1>1, <1>2, <1>4, <2>1, <2>2, <3>1 DEF FromOK
    <3> QED BY <1>1, <3>2, <3>3 DEF BytesOK
  <2>3. ASSUME buf' = <<>>, from' = b PROVE BytesOK'
    <3>1. ToSet(buf') = {}
      BY <2>3 DEF ToSet
    <3>2. Stored'
      BY <3>1 DEF Stored
    <3>3. FromOK'
      BY <1>0, <1>1, <1>2, <2>1, <2>3 DEF FromOK
    <3> QED BY <1>1, <3>2, <3>3 DEF BytesOK
  <2> QED BY <2>1, <2>2, <2>3 DEF Feed
<1> QED BY <1>0, <1>3, <1>4

LEMMA BytesStep ==
    ASSUME IInv, BytesOK, [Next]_vars
    PROVE  BytesOK'
<1>0. /\ HardwareType /\ TransferType /\ Ordered /\ Stored /\ FromOK /\ CallOK
      /\ ClosedOK /\ SetUpOK
      /\ buf \in Seq(Bytes) /\ fifo \in Seq(Bytes) /\ Bytes \subseteq Nat
      /\ lost \subseteq Bytes /\ arrived \in Nat /\ from \in Nat
  BY DEF IInv, BytesOK, TypeOK, HardwareType, TransferType, Bytes, Unknown
<1>q. ASSUME UNCHANGED <<fifo, arrived, lost, buf>> PROVE (Ordered /\ Stored)'
  BY <1>0, <1>q DEF Ordered, Stored
<1>a. CASE Arrive
  <2>1. /\ Ordered' /\ Stored' /\ arrived' = arrived + 1
        /\ ToSet(fifo) \cup lost \cup {arrived + 1} \subseteq ToSet(fifo') \cup lost'
    BY <1>0, <1>a, ArriveOrdered
  <2>2. UNCHANGED <<pc, call, from, busy, buf>>
    BY <1>a DEF Arrive, transfer, thread
  <2>3. \A x \in from + 1 .. arrived' : x \in from + 1 .. arrived \/ x = arrived + 1
    BY <1>0, <2>1
  <2>4. FromOK'
    BY <1>0, <2>1, <2>2, <2>3 DEF FromOK
  <2> QED BY <2>1, <2>4 DEF BytesOK
<1>d. CASE Drain
  BY <1>d, DrainStored
<1>e. CASE DrainFifo
  <2>1. /\ fifo # <<>> /\ fifo' = Tail(fifo) /\ from' = Unknown
        /\ UNCHANGED <<arrived, lost, buf, busy, pc, call>>
    BY <1>e DEF DrainFifo, At, thread
  <2>2. Ordered' /\ ToSet(fifo) = {Head(fifo)} \cup ToSet(fifo')
    BY <1>0, <2>1, TailOrdered
  <2>3. Stored'
    BY <1>0, <2>1, <2>2 DEF Stored
  <2>4. FromOK'
    BY <2>1 DEF FromOK, Unknown
  <2> QED BY <2>2, <2>3, <2>4 DEF BytesOK
<1>f. CASE FifoEmpty
  <2>1. /\ pc = "empty" /\ pc' = "restore"
        /\ from' = IF call = "start_clean" THEN arrived ELSE from
        /\ UNCHANGED <<fifo, arrived, lost, buf, busy, call>>
    BY <1>f DEF FifoEmpty, At, Goto, hardware
  <2>2. arrived + 1 .. arrived = {}
    BY <1>0
  <2>3. FromOK'
    BY <1>0, <2>1, <2>2 DEF FromOK, Unknown
  <2> QED BY <1>q, <2>1, <2>3 DEF BytesOK
<1>b. CASE ArmBuffer
  <2>1. /\ pc = "arm" /\ pc' = "armcount" /\ buf' = <<>>
        /\ UNCHANGED <<fifo, arrived, lost, from, busy, call>>
    BY <1>b DEF ArmBuffer, At, Goto, hardware
  <2>2. ToSet(buf') = {}
    BY <2>1 DEF ToSet
  <2>3. Stored' /\ Ordered'
    BY <1>0, <2>1, <2>2 DEF Stored, Ordered
  <2>4. ~busy
    BY <1>0, <2>1 DEF CallOK, SetUpOK, SetUp
  <2>5. FromOK'
    BY <1>0, <2>1, <2>4 DEF FromOK, Unknown
  <2> QED BY <2>3, <2>5 DEF BytesOK
<1>u. CASE ArmBusy
  <2>1. /\ pc = "armbusy" /\ buf = <<>> /\ call \in {"start", "start_clean"}
        /\ UNCHANGED <<fifo, arrived, lost, from, buf>>
        /\ \/ call = "start_clean" /\ call' = call /\ pc' = "reopen"
           \/ call = "start" /\ call' = "none" /\ pc' = "idle"
    BY <1>0, <1>u DEF ArmBusy, At, Goto, Return, hardware, CallOK, SetUpOK
  <2>2. FromOK'
    BY <1>0, <2>1 DEF FromOK, Unknown
  <2> QED BY <1>q, <2>1, <2>2 DEF BytesOK
<1>s. CASE RxStart \/ RxStartClean
  <2>1. /\ from' = Unknown
        /\ UNCHANGED <<fifo, arrived, lost, busy, buf>>
    BY <1>s DEF RxStart, RxStartClean, hardware
  <2>2. FromOK'
    BY <2>1 DEF FromOK, Unknown
  <2> QED BY <1>q, <2>1, <2>2 DEF BytesOK
<1>x. ASSUME UNCHANGED <<fifo, arrived, lost, buf, from>>, busy' => busy,
             \/ UNCHANGED <<pc, call>>
             \/ call' \notin {"start", "start_clean"}
             \/ call' = call /\ call # "start_clean"
             \/ call' = call /\ pc \in {"inner", "drop"} /\ pc' \in {"drop", "empty"}
             \/ call' = call /\ pc \in {"restore", "arm", "armcount"}
                   /\ pc' \in {"arm", "armcount", "armbusy"}
      PROVE  BytesOK'
  <2>1. FromOK'
    BY <1>0, <1>x DEF FromOK, Unknown
  <2> QED BY <1>q, <1>x, <2>1 DEF BytesOK
<1>1. CASE Enter \/ Drained \/ Leave
  BY <1>1, <1>x DEF Enter, Drained, Leave, hardware, transfer, thread
<1>2. CASE ReadByte \/ Flush \/ StatusGet \/ StatusClear \/ RxAbort
  BY <1>2, <1>x DEF ReadByte, Flush, StatusGet, StatusClear, RxAbort, hardware, transfer, thread
<1>3. CASE Copy \/ Advance \/ Reopen \/ ReadCount \/ ReadDrops \/ Zero
  BY <1>0, <1>3, <1>x
     DEF Copy, Advance, Reopen, ReadCount, ReadDrops, Zero, hardware, transfer, Return, At,
         Goto, CallOK
<1>4. CASE FlushInner
  BY <1>4, <1>x DEF FlushInner, hardware, transfer, At, Goto
<1>5. CASE DropRing
  BY <1>5, <1>x DEF DropRing, hardware, transfer, At, Goto
<1>6. CASE Restore
  BY <1>6, <1>x DEF Restore, hardware, transfer, At, Goto, Return
<1>7. CASE ArmCount
  BY <1>7, <1>x DEF ArmCount, hardware, At, Goto
<1>8. CASE UNCHANGED vars
  BY <1>8, <1>x DEF vars, hardware, transfer, thread
<1> QED BY <1>a, <1>d, <1>e, <1>f, <1>b, <1>u, <1>s, <1>1, <1>2, <1>3, <1>4, <1>5, <1>6,
           <1>7, <1>8 DEF Next, Isr, Begin, Continue

(* A transfer that nora_uart_rx_start_clean began, or the callback of the   *)
(* one before, has every byte since its beginning: none slips into the ring *)
(* between the inner flush and the arming, whatever arrives meanwhile.      *)
THEOREM CleanTransfersAreWhole == Spec => []CleanTransferIsWhole
<1>1. Init => BytesOK
  <2> SUFFICES ASSUME Init PROVE BytesOK
    OBVIOUS
  <2>1. fifo = <<>> /\ buf = <<>> /\ from = Unknown /\ ToSet(buf) = {}
    BY DEF Init, ToSet
  <2>2. ~ \E i \in 1 .. Len(fifo) : TRUE
    BY <2>1
  <2> QED BY <2>1, <2>2 DEF BytesOK, Ordered, Stored, FromOK
<1>2. IInv /\ BytesOK /\ [Next]_vars => BytesOK'
  BY BytesStep
<1>3. IInv /\ BytesOK => CleanTransferIsWhole
  <2> SUFFICES ASSUME IInv, BytesOK, busy, from # Unknown, buf # <<>>,
                      NEW x \in from + 1 .. Last(buf)
               PROVE  x \in ToSet(buf) \cup lost
    BY DEF CleanTransferIsWhole
  <2>1. buf \in Seq(Bytes) /\ Bytes \subseteq Nat /\ from \in Nat /\ arrived \in Nat
    BY DEF IInv, TypeOK, TransferType, HardwareType, Bytes, Unknown
  <2>2. Last(buf) \in ToSet(buf) /\ Last(buf) \in Nat
    BY <2>1, ToSetFacts
  <2>3. Last(buf) <= arrived /\ \A y \in ToSet(fifo) : Last(buf) < y
    BY <2>2 DEF BytesOK, Stored
  <2>4. x \in from + 1 .. arrived /\ x <= Last(buf) /\ x \in Nat
    BY <2>1, <2>2, <2>3
  <2>5. x \in ToSet(buf) \cup lost \cup ToSet(fifo)
    BY <2>4 DEF BytesOK, FromOK
  <2>6. x \notin ToSet(fifo)
    BY <2>2, <2>3, <2>4
  <2> QED BY <2>5, <2>6
<1> QED BY <1>1, <1>2, <1>3, Invariant, PTL DEF Spec
=============================================================================
