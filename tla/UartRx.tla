-------------------------------- MODULE UartRx --------------------------------
(***************************************************************************)
(* The receive side of one UART in ISR-ring mode: the hardware FIFO and its *)
(* interrupt, the receive interrupt handler, the software ring it fills,    *)
(* the asynchronous receive transfer it feeds first, and the thread that    *)
(* reads, flushes, starts and aborts.                                       *)
(*                                                                          *)
(* The handler runs to completion as far as the thread is concerned, and    *)
(* between any two of its instructions; bytes arrive at any time.  A byte   *)
(* is its place in the order of arrival, so that what becomes of each can   *)
(* be told.  The interrupt flag is set by an arrival, not held by a FIFO    *)
(* that is not empty: the weaker of what the hardware may do.               *)
(***************************************************************************)
EXTENDS Naturals, Sequences, SequencesExt

CONSTANTS
    Size,       \* rx_ring_buffer_size, in bytes
    FifoDepth,  \* bytes the hardware FIFO holds
    Lengths,    \* lengths of asynchronous transfers
    MaxBytes,   \* bound on the bytes that arrive
    MaxClears   \* bound on status_clear and status_get calls

ASSUME UartRxAssumption ==
    /\ Size \in Nat /\ Size >= 2
    /\ FifoDepth \in Nat /\ MaxBytes \in Nat /\ MaxClears \in Nat
    /\ Lengths \subseteq Nat \ {0}

VARIABLES
    fifo,    \* the receive FIFO
    rxif,    \* _UxRXIF
    rxie,    \* _UxRXIE
    arrived, \* bytes that have arrived
    lost,    \* those that found the FIFO full
    isr,     \* where nora_uart_rx_irq_handler is
    ring,    \* g_rx_ring
    rd,      \* g_rx_read_idx
    wr,      \* g_rx_write_idx
    count,   \* g_rx_status.rx_byte_count, with drain_count added as it goes: nobody
             \* reads it before the handler has left
    drops,   \* g_rx_status.rx_ring_overflow_count
    buf,     \* what the transfer stored in the caller's buffer
    alen,    \* g_rx_len
    acount,  \* g_rx_count
    busy,    \* g_rx_busy
    event,   \* RX_COMPLETE seen by the callback since the last start
    from,    \* the byte after which the transfer's bytes begin, if known
             \* and not flushed since
    pc,      \* where the thread is
    call,    \* the call it is in
    arg,     \* the length it was given
    data,    \* the byte read_byte copied
    got,     \* the last byte it returned
    saved,   \* flush's and status_get's ie
    snap,    \* status_get's snapshot
    clears   \* status calls made

hardware == <<fifo, rxif, arrived, lost>>
rings    == <<ring, rd, wr, count, drops>>
transfer == <<buf, alen, acount, busy, event, from>>
thread   == <<pc, call, arg, data, got, saved, snap, clears>>
vars     == <<hardware, rxie, isr, rings, transfer, thread>>

Bytes   == 1 .. MaxBytes
Unknown == MaxBytes + 1

Init ==
    /\ fifo = <<>> /\ rxif = FALSE /\ rxie = TRUE /\ arrived = 0 /\ lost = {}
    /\ isr = "off"
    /\ ring = [i \in 0 .. Size - 1 |-> 0] /\ rd = 0 /\ wr = 0
    /\ count = 0 /\ drops = 0
    /\ buf = <<>> /\ alen = 0 /\ acount = 0 /\ busy = FALSE
    /\ event = FALSE /\ from = Unknown
    /\ pc = "idle" /\ call = "none" /\ arg = 0 /\ data = 0 /\ got = 0
    /\ saved = FALSE /\ snap = [count |-> 0, drops |-> 0] /\ clears = 0

-----------------------------------------------------------------------------
(* The hardware: a byte arrives, and is lost when the FIFO is full. *)
Arrive ==
    /\ arrived < MaxBytes
    /\ arrived' = arrived + 1
    /\ rxif' = TRUE
    /\ IF Len(fifo) < FifoDepth
       THEN fifo' = Append(fifo, arrived') /\ UNCHANGED lost
       ELSE lost' = lost \cup {arrived'} /\ UNCHANGED fifo
    /\ UNCHANGED <<rxie, isr, rings, transfer, thread>>

-----------------------------------------------------------------------------
(* The handler. *)

(* Mutant of NextIdx: the index does not wrap in time. *)
NextIdxLate(i) == IF i + 1 > Size THEN 0 ELSE i + 1

NextIdx(i) == IF i + 1 >= Size THEN 0 ELSE i + 1

(* The flag is cleared first, so that a byte arriving from here on sets it. *)
Enter ==
    /\ isr = "off" /\ rxif /\ rxie
    /\ isr' = "drain"
    /\ rxif' = FALSE
    /\ UNCHANGED <<fifo, arrived, lost, rxie, rings, transfer, thread>>

(* Mutant of RingPush: a full ring is written all the same. *)
RingPushOver(b) ==
    /\ ring' = [ring EXCEPT ![wr] = b] /\ wr' = NextIdx(wr)
    /\ UNCHANGED drops

(* Mutant of RingPush: one more slot is kept free. *)
RingPushEarlyFull(b) ==
    IF rd \in {NextIdx(wr), NextIdx(NextIdx(wr))}
    THEN drops' = drops + 1 /\ UNCHANGED <<ring, wr>>
    ELSE /\ ring' = [ring EXCEPT ![wr] = b] /\ wr' = NextIdx(wr)
         /\ UNCHANGED drops

(* A byte goes in the ring, or is dropped and counted when that is full. *)
RingPush(b) ==
    IF NextIdx(wr) = rd
    THEN drops' = drops + 1 /\ UNCHANGED <<ring, wr>>
    ELSE /\ ring' = [ring EXCEPT ![wr] = b] /\ wr' = NextIdx(wr)
         /\ UNCHANGED drops

(* Mutant of Feed: the transfer ends one byte late. *)
FeedLate(b) ==
    /\ buf' = Append(buf, b) /\ acount' = acount + 1
    /\ busy' = (acount < alen) /\ event' = ~busy'
    /\ UNCHANGED <<alen, from>>

(* A byte goes to the transfer; the last one ends it, and the callback may  *)
(* start the next transfer before it returns.                               *)
Feed(b) ==
    IF acount + 1 < alen
    THEN /\ buf' = Append(buf, b) /\ acount' = acount + 1
         /\ UNCHANGED <<alen, busy, event, from>>
    ELSE \/ /\ buf' = Append(buf, b) /\ acount' = acount + 1
            /\ busy' = FALSE /\ event' = TRUE
            /\ UNCHANGED <<alen, from>>
         \/ \E n \in Lengths :
              /\ buf' = <<>> /\ alen' = n /\ acount' = 0 /\ busy' = TRUE
              /\ event' = FALSE /\ from' = b

Drain ==
    /\ isr = "drain" /\ fifo # <<>>
    /\ fifo' = Tail(fifo)
    /\ count' = count + 1
    /\ IF busy
       THEN Feed(Head(fifo)) /\ UNCHANGED <<ring, wr, drops>>
       ELSE RingPush(Head(fifo)) /\ UNCHANGED transfer
    /\ UNCHANGED <<rxif, arrived, lost, rxie, isr, rd, thread>>

(* The FIFO is found empty; the error flags and the callback follow. *)
Drained ==
    /\ isr = "drain" /\ fifo = <<>>
    /\ isr' = "report"
    /\ UNCHANGED <<hardware, rxie, rings, transfer, thread>>

(* Mutant of Leave: the flag is cleared on the way out, over an arrival. *)
LeaveClearsFlag ==
    /\ isr = "report"
    /\ isr' = "off"
    /\ rxif' = FALSE
    /\ UNCHANGED <<fifo, arrived, lost, rxie, rings, transfer, thread>>

Leave ==
    /\ isr = "report"
    /\ isr' = "off"
    /\ UNCHANGED <<hardware, rxie, rings, transfer, thread>>

Isr == Enter \/ Drain \/ Drained \/ Leave
-----------------------------------------------------------------------------
(* The thread moves only while the handler does not run. *)
At(label) == pc = label /\ isr = "off"

Goto(label) == pc' = label

Return == Goto("idle") /\ call' = "none"

(* nora_uart_dspic33ak_rx_isr_read_byte: found empty, it changes nothing. *)
ReadByte ==
    /\ At("idle") /\ rd # wr
    /\ Goto("copy") /\ call' = "read_byte"
    /\ UNCHANGED <<hardware, rxie, isr, rings, transfer, arg, data, got, saved, snap, clears>>

Copy ==
    /\ At("copy")
    /\ data' = ring[rd]
    /\ Goto("advance")
    /\ UNCHANGED <<hardware, rxie, isr, rings, transfer, call, arg, got, saved, snap, clears>>

Advance ==
    /\ At("advance")
    /\ rd' = NextIdx(rd)
    /\ got' = data
    /\ Return
    /\ UNCHANGED <<hardware, rxie, isr, ring, wr, count, drops, transfer, arg, data,
                   saved, snap, clears>>

(* nora_uart_dspic33ak_rx_isr_flush, alone or called by rx_start_clean:     *)
(* close the interrupt, drop the ring, drain the FIFO, put the enable back. *)
Flush ==
    /\ At("idle")
    /\ Goto("drop") /\ call' = "flush"
    /\ saved' = rxie /\ rxie' = FALSE
    /\ UNCHANGED <<hardware, isr, rings, transfer, arg, data, got, snap, clears>>

FlushInner ==
    /\ At("inner")
    /\ Goto("drop")
    /\ saved' = rxie /\ rxie' = FALSE
    /\ UNCHANGED <<hardware, isr, rings, transfer, call, arg, data, got, snap, clears>>

DropRing ==
    /\ At("drop")
    /\ rd' = wr
    /\ Goto("empty")
    /\ UNCHANGED <<hardware, rxie, isr, ring, wr, count, drops, transfer, call,
                   arg, data, got, saved, snap, clears>>

DrainFifo ==
    /\ At("empty") /\ fifo # <<>>
    /\ fifo' = Tail(fifo)
    /\ from' = Unknown
    /\ UNCHANGED <<rxif, arrived, lost, rxie, isr, rings, buf, alen, acount,
                   busy, event, thread>>

FifoEmpty ==
    /\ At("empty") /\ fifo = <<>>
    /\ Goto("restore")
    /\ from' = IF call = "start_clean" THEN arrived ELSE from
    /\ UNCHANGED <<hardware, rxie, isr, rings, buf, alen, acount, busy, event,
                   call, arg, data, got, saved, snap, clears>>

(* Mutant of Restore: the interrupt is opened, whatever it was. *)
RestoreOpens ==
    /\ At("restore")
    /\ rxie' = TRUE
    /\ IF call = "start_clean" THEN Goto("arm") /\ UNCHANGED call ELSE Return
    /\ UNCHANGED <<hardware, isr, rings, transfer, arg, data, got, saved, snap, clears>>

Restore ==
    /\ At("restore")
    /\ rxie' = saved
    /\ IF call = "start_clean" THEN Goto("arm") /\ UNCHANGED call ELSE Return
    /\ UNCHANGED <<hardware, isr, rings, transfer, arg, data, got, saved, snap, clears>>

(* nora_uart_rx_start and _start_clean, once they find no transfer active;  *)
(* the latter closes the interrupt before it flushes.  The caller cleared   *)
(* its event before.                                                        *)
RxStart ==
    /\ At("idle") /\ ~busy
    /\ Goto("arm") /\ call' = "start" /\ arg' \in Lengths
    /\ event' = FALSE /\ from' = Unknown
    /\ UNCHANGED <<hardware, rxie, isr, rings, buf, alen, acount, busy, data,
                   got, saved, snap, clears>>

RxStartClean ==
    /\ At("idle") /\ ~busy
    /\ rxie
    /\ Goto("inner") /\ call' = "start_clean" /\ arg' \in Lengths
    /\ rxie' = FALSE
    /\ event' = FALSE /\ from' = Unknown
    /\ UNCHANGED <<hardware, isr, rings, buf, alen, acount, busy, data, got,
                   saved, snap, clears>>

(* Mutant of ArmBuffer: the transfer is active before its count is reset. *)
ArmBufferBusy ==
    /\ At("arm")
    /\ alen' = arg
    /\ buf' = <<>>
    /\ busy' = TRUE
    /\ Goto("armcount")
    /\ UNCHANGED <<hardware, rxie, isr, rings, acount, event, from, call, arg, data,
                   got, saved, snap, clears>>

(* uart_rx_arm: buffer and length, then the count, and the flag last. *)
ArmBuffer ==
    /\ At("arm")
    /\ alen' = arg
    /\ buf' = <<>>
    /\ Goto("armcount")
    /\ UNCHANGED <<hardware, rxie, isr, rings, acount, busy, event, from, call,
                   arg, data, got, saved, snap, clears>>

ArmCount ==
    /\ At("armcount")
    /\ acount' = 0
    /\ Goto("armbusy")
    /\ UNCHANGED <<hardware, rxie, isr, rings, buf, alen, busy, event, from, call,
                   arg, data, got, saved, snap, clears>>

ArmBusy ==
    /\ At("armbusy")
    /\ busy' = TRUE
    /\ IF call = "start_clean" THEN Goto("reopen") /\ UNCHANGED call ELSE Return
    /\ UNCHANGED <<hardware, rxie, isr, rings, buf, alen, acount, event, from,
                   arg, data, got, saved, snap, clears>>

Reopen ==
    /\ At("reopen")
    /\ rxie' = TRUE
    /\ Return
    /\ UNCHANGED <<hardware, isr, rings, transfer, arg, data, got, saved, snap, clears>>

RxAbort ==
    /\ At("idle") /\ busy
    /\ busy' = FALSE
    /\ UNCHANGED <<hardware, rxie, isr, rings, buf, alen, acount, event, from, thread>>

(* Mutant of StatusGet: the counters are read with the interrupt open. *)
StatusGetOpen ==
    /\ At("idle") /\ clears < MaxClears
    /\ clears' = clears + 1
    /\ Goto("readcount") /\ call' = "status_get"
    /\ saved' = rxie
    /\ UNCHANGED <<hardware, rxie, isr, rings, transfer, arg, data, got, snap>>

(* nora_uart_dspic33ak_rx_isr_status_get: the counters are read one by one. *)
StatusGet ==
    /\ At("idle") /\ clears < MaxClears
    /\ clears' = clears + 1
    /\ Goto("readcount") /\ call' = "status_get"
    /\ saved' = rxie /\ rxie' = FALSE
    /\ UNCHANGED <<hardware, isr, rings, transfer, arg, data, got, snap>>

ReadCount ==
    /\ At("readcount")
    /\ snap' = [snap EXCEPT !.count = count]
    /\ Goto("readdrops")
    /\ UNCHANGED <<hardware, rxie, isr, rings, transfer, call, arg, data, got, saved, clears>>

ReadDrops ==
    /\ At("readdrops")
    /\ snap' = [snap EXCEPT !.drops = drops]
    /\ Goto("restore")
    /\ UNCHANGED <<hardware, rxie, isr, rings, transfer, call, arg, data, got, saved, clears>>

(* nora_uart_dspic33ak_rx_isr_status_clear. *)
StatusClear ==
    /\ At("idle") /\ clears < MaxClears
    /\ clears' = clears + 1
    /\ Goto("zero") /\ call' = "status_clear"
    /\ saved' = rxie /\ rxie' = FALSE
    /\ UNCHANGED <<hardware, isr, rings, transfer, arg, data, got, snap>>

Zero ==
    /\ At("zero")
    /\ count' = 0 /\ drops' = 0
    /\ Goto("restore")
    /\ UNCHANGED <<hardware, rxie, isr, ring, rd, wr, transfer, call, arg, data, got,
                   saved, snap, clears>>

(* Calls begin, and the steps inside a call. *)
Begin ==
    \/ ReadByte \/ Flush \/ RxStart \/ RxStartClean \/ RxAbort
    \/ StatusGet \/ StatusClear

Continue ==
    \/ Copy \/ Advance
    \/ FlushInner \/ DropRing \/ DrainFifo \/ FifoEmpty \/ Restore
    \/ ArmBuffer \/ ArmCount \/ ArmBusy \/ Reopen
    \/ ReadCount \/ ReadDrops \/ Zero

Next == Arrive \/ Isr \/ Begin \/ Continue

(* The processor takes a pending interrupt, and a call that has begun goes  *)
(* on; nothing makes the thread call.                                       *)
Spec == Init /\ [][Next]_vars /\ WF_vars(Isr) /\ WF_vars(Continue)
-----------------------------------------------------------------------------
(* Properties. *)

Labels == {"idle", "copy", "advance", "inner", "drop", "empty", "restore",
           "arm", "armcount", "armbusy", "reopen", "readcount", "readdrops", "zero"}

Calls == {"none", "read_byte", "flush", "start", "start_clean", "status_get",
          "status_clear"}

HardwareType ==
    /\ fifo \in Seq(Bytes)
    /\ rxif \in BOOLEAN /\ rxie \in BOOLEAN
    /\ arrived \in 0 .. MaxBytes /\ lost \subseteq Bytes
    /\ isr \in {"off", "drain", "report"}

RingType ==
    /\ ring \in [0 .. Size - 1 -> 0 .. MaxBytes]
    /\ rd \in 0 .. Size - 1 /\ wr \in 0 .. Size - 1
    /\ count \in Nat /\ drops \in Nat

TransferType ==
    /\ buf \in Seq(Bytes)
    /\ alen \in Nat /\ acount \in Nat
    /\ busy \in BOOLEAN /\ event \in BOOLEAN
    /\ from \in 0 .. Unknown

ThreadType ==
    /\ pc \in Labels /\ call \in Calls /\ arg \in Lengths \cup {0}
    /\ data \in 0 .. MaxBytes /\ got \in 0 .. MaxBytes
    /\ saved \in BOOLEAN
    /\ snap \in [count : Nat, drops : Nat]
    /\ clears \in 0 .. MaxClears

(* Every variable has its type, the ring's indices stay inside the ring. *)
TypeOK == HardwareType /\ RingType /\ TransferType /\ ThreadType

Buffered == (wr + Size - rd) % Size

Queue == INSTANCE ByteQueue WITH
            Byte <- Bytes,
            Capacity <- Size - 1,
            queue <- [i \in 1 .. Buffered |-> ring[(rd + i - 1) % Size]]

(* The ring is a queue of Size - 1 bytes, whatever the handler does between *)
(* two instructions of a read, a flush or a status call: what is read is    *)
(* what was received, in that order, and only a full ring drops.            *)
RingIsQueue == Queue!Spec

(* The byte a reader is about to take is in the ring and stays as it is.    *)
ReaderIsSafe ==
    /\ pc \in {"copy", "advance"} => rd # wr
    /\ pc = "advance" => data = ring[rd]

(* A transfer never stores past its buffer, and an active one has room.     *)
TransferFits ==
    /\ Len(buf) <= alen
    /\ busy => acount = Len(buf) /\ acount < alen

(* RX_COMPLETE means the buffer is full and the engine has let go of it     *)
(* (uart_async_selftest.c relies on it).                                    *)
CompleteMeansFull == event => ~busy /\ acount = alen /\ Len(buf) = alen

(* A transfer begun by rx_start_clean, or from the callback of the one      *)
(* before, takes every byte from its beginning on: none of them slips into  *)
(* the ring, and none is lost but by the hardware, or by a flush the caller *)
(* asks for meanwhile.                                                      *)
CleanTransferIsWhole ==
    busy /\ from # Unknown /\ buf # <<>> =>
        from + 1 .. Last(buf) \subseteq ToSet(buf) \cup lost

(* The snapshot is of one moment: no more drops than bytes. *)
SnapshotConsistent == pc = "restore" => snap.drops <= snap.count

(* No byte waits in the FIFO for another one to arrive and wake the         *)
(* handler.                                                                 *)
ByteTaken == fifo # <<>> ~> fifo = <<>>
=============================================================================
