-------------------------------- MODULE UartTx --------------------------------
(***************************************************************************)
(* The asynchronous transmit engine of one UART: nora_uart_tx_start and     *)
(* nora_uart_tx_abort called by the thread, the transmit interrupt handler, *)
(* the event callback, which may start the next transfer from inside the    *)
(* handler, and the transmit FIFO, which shifts bytes out at its own pace.  *)
(*                                                                          *)
(* Transfers are numbered as they are accepted, and a byte is known by its  *)
(* transfer and its place in it.  The interrupt flag is set when a byte     *)
(* leaves the FIFO, and not because there is room in it.                    *)
(***************************************************************************)
EXTENDS Naturals, Sequences

CONSTANTS
    FifoDepth,     \* bytes the transmit FIFO holds
    Lengths,       \* lengths of transfers
    MaxTransfers   \* bound on the transfers accepted

ASSUME UartTxAssumption ==
    /\ FifoDepth \in Nat \ {0}
    /\ Lengths \subseteq Nat \ {0}
    /\ MaxTransfers \in Nat

VARIABLES
    fifo,      \* the transmit FIFO
    line,      \* bytes shifted out
    txif,      \* _UxTXIF
    txie,      \* _UxTXIE
    isr,       \* where nora_uart_tx_irq_handler is
    tbuf,      \* g_tx_buf: the transfer whose bytes it holds
    tlen,      \* g_tx_len
    tcount,    \* g_tx_count
    busy,      \* g_tx_busy
    pc,        \* where the thread is
    length,    \* accepted transfers' lengths
    complete,  \* transfers whose SEND_COMPLETE the callback saw
    aborted    \* transfers aborted

hardware == <<fifo, line, txif>>
transfer == <<tbuf, tlen, tcount, busy>>
history  == <<length, complete, aborted>>
vars     == <<hardware, txie, isr, transfer, pc, history>>

Init ==
    /\ fifo = <<>> /\ line = <<>> /\ txif = FALSE /\ txie = FALSE
    /\ isr = "off"
    /\ tbuf = 0 /\ tlen = 0 /\ tcount = 0 /\ busy = FALSE
    /\ pc = "idle"
    /\ length = <<>> /\ complete = {} /\ aborted = {}

-----------------------------------------------------------------------------
(* The hardware shifts a byte out, which leaves room for another. *)
Shift ==
    /\ fifo # <<>>
    /\ line' = Append(line, Head(fifo))
    /\ fifo' = Tail(fifo)
    /\ txif' = TRUE
    /\ UNCHANGED <<txie, isr, transfer, pc, history>>

-----------------------------------------------------------------------------
(* The thread moves only while the handler does not run. *)
At(label) == pc = label /\ isr = "off"

(* No transfer is active: tx_start does not return BUSY. *)
CanStart == ~busy /\ Len(length) < MaxTransfers

(* tx_start accepts a transfer: the descriptor, then the flag. *)
Accept(n) ==
    /\ length' = Append(length, n)
    /\ tbuf' = Len(length) + 1 /\ tlen' = n /\ tcount' = 0 /\ busy' = TRUE
    /\ UNCHANGED <<complete, aborted>>

TxStart ==
    /\ At("idle") /\ CanStart
    /\ \E n \in Lengths : Accept(n)
    /\ pc' = "clear"
    /\ UNCHANGED <<hardware, txie, isr>>

ClearFlag ==
    /\ At("clear")
    /\ txif' = FALSE
    /\ pc' = "enable"
    /\ UNCHANGED <<fifo, line, txie, isr, transfer, history>>

EnableIrq ==
    /\ At("enable")
    /\ txie' = TRUE
    /\ pc' = "raise"
    /\ UNCHANGED <<hardware, isr, transfer, history>>

(* Mutant of RaiseFlag: the engine waits for the hardware to set the flag. *)
RaiseFlagNot ==
    /\ At("raise")
    /\ pc' = "idle"
    /\ UNCHANGED <<hardware, txie, isr, transfer, history>>

(* By now the handler may have sent it all and the callback begun another. *)
RaiseFlag ==
    /\ At("raise")
    /\ txif' = TRUE
    /\ pc' = "idle"
    /\ UNCHANGED <<fifo, line, txie, isr, transfer, history>>

TxAbort ==
    /\ At("idle")
    /\ txie' = FALSE
    /\ pc' = "abortclear"
    /\ UNCHANGED <<hardware, isr, transfer, history>>

AbortClear ==
    /\ At("abortclear")
    /\ txif' = FALSE
    /\ pc' = "abortend"
    /\ UNCHANGED <<fifo, line, txie, isr, transfer, history>>

AbortEnd ==
    /\ At("abortend")
    /\ busy' = FALSE
    /\ aborted' = IF busy THEN aborted \cup {tbuf} ELSE aborted
    /\ pc' = "idle"
    /\ UNCHANGED <<hardware, txie, isr, tbuf, tlen, tcount, length, complete>>

Continue == ClearFlag \/ EnableIrq \/ RaiseFlag \/ AbortClear \/ AbortEnd
-----------------------------------------------------------------------------
(* The handler.  Its first test, for a transfer that is not active, never   *)
(* succeeds (HandlerHasWork), so it is not an action.                       *)
Enter ==
    /\ isr = "off" /\ txif /\ txie
    /\ txif' = FALSE
    /\ isr' = "push"
    /\ UNCHANGED <<fifo, line, txie, transfer, pc, history>>

(* Mutant of Push: the end of the data is not looked at. *)
PushOn ==
    /\ isr = "push" /\ busy
    /\ Len(fifo) < FifoDepth
    /\ fifo' = Append(fifo, <<tbuf, tcount + 1>>)
    /\ tcount' = tcount + 1
    /\ UNCHANGED <<line, txif, txie, isr, tbuf, tlen, busy, pc, history>>

(* Bytes go into the FIFO while it has room. *)
Push ==
    /\ isr = "push" /\ busy
    /\ tcount < tlen /\ Len(fifo) < FifoDepth
    /\ fifo' = Append(fifo, <<tbuf, tcount + 1>>)
    /\ tcount' = tcount + 1
    /\ UNCHANGED <<line, txif, txie, isr, tbuf, tlen, busy, pc, history>>

(* The FIFO is full: the rest waits for the next interrupt. *)
Pause ==
    /\ isr = "push" /\ busy
    /\ tcount < tlen /\ Len(fifo) = FifoDepth
    /\ isr' = "off"
    /\ UNCHANGED <<hardware, txie, transfer, pc, history>>

(* Mutant of Submitted: the last byte is not waited for. *)
SubmittedEarly == tcount + 1 >= tlen

Submitted == tcount >= tlen

(* All submitted: SEND_COMPLETE.  The callback may call tx_start, which     *)
(* runs through before the handler returns.                                 *)
Finish ==
    /\ isr = "push" /\ busy
    /\ Submitted
    /\ complete' = complete \cup {tbuf}
    /\ isr' = "off"
    /\ \/ busy' = FALSE /\ txie' = FALSE
          /\ UNCHANGED <<txif, tbuf, tlen, tcount, length>>
       \/ /\ Len(length) < MaxTransfers
          /\ \E n \in Lengths :
               /\ length' = Append(length, n)
               /\ tbuf' = Len(length) + 1 /\ tlen' = n /\ tcount' = 0
          /\ busy' = TRUE /\ txie' = TRUE /\ txif' = TRUE
    /\ UNCHANGED <<fifo, line, pc, aborted>>

Isr == Enter \/ Push \/ Pause \/ Finish

Next == Shift \/ TxStart \/ TxAbort \/ Continue \/ Isr

(* The hardware shifts, a pending interrupt is taken, and a call that has   *)
(* begun goes on; nothing makes the thread call.                            *)
Spec == Init /\ [][Next]_vars /\ WF_vars(Shift) /\ WF_vars(Isr) /\ WF_vars(Continue)
-----------------------------------------------------------------------------
(* Properties. *)

Transfers == 1 .. Len(length)

(* Every variable has its type. *)
TypeOK ==
    /\ length \in Seq(Lengths) /\ Len(length) <= MaxTransfers
    /\ {fifo, line} \subseteq Seq(Transfers \X Nat) /\ Len(fifo) <= FifoDepth
    /\ {txif, txie, busy} \subseteq BOOLEAN
    /\ isr \in {"off", "push"}
    /\ tbuf \in 0 .. Len(length) /\ tlen \in Lengths \cup {0} /\ tcount \in 0 .. tlen
    /\ pc \in {"idle", "clear", "enable", "raise", "abortclear", "abortend"}
    /\ complete \subseteq Transfers /\ aborted \subseteq Transfers

Submissions == line \o fifo

(* b follows a on the line: the next byte of the same transfer, or the      *)
(* first of a later one once a's transfer is all there or aborted.          *)
Follows(a, b) ==
    \/ b = <<a[1], a[2] + 1>>
    \/ /\ b[1] > a[1] /\ b[2] = 1
       /\ a[2] = length[a[1]] \/ a[1] \in aborted

(* The line carries the accepted transfers one after the other, no byte     *)
(* skipped or repeated, and none cut short unless it was aborted, whichever *)
(* of the thread and the callback starts the next.                          *)
WholeTransfers ==
    /\ \A i \in 1 .. Len(Submissions) - 1 : Follows(Submissions[i], Submissions[i + 1])
    /\ Submissions # <<>> => Submissions[1][2] = 1

(* SEND_COMPLETE means every byte was submitted, and is never reported of a *)
(* transfer that was aborted.                                               *)
CompleteMeansSubmitted ==
    \A t \in complete :
        /\ t \notin aborted
        /\ \E i \in 1 .. Len(Submissions) : Submissions[i] = <<t, length[t]>>

(* No interrupt is taken once a transfer is over: neither an abort nor a    *)
(* late raise_flag of tx_start leaves one behind for the handler to find no *)
(* transfer by.                                                             *)
HandlerHasWork == isr = "push" => busy

(* An active transfer ends by itself: the first interrupt does not depend   *)
(* on the hardware, and none is lost afterwards.                            *)
TransfersEnd == busy ~> ~busy
=============================================================================
