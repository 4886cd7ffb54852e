-------------------------------- MODULE Xmodem --------------------------------
(***************************************************************************)
(* The blocking XMODEM-CRC receiver of xmodem.c, the sender at the other    *)
(* end of the serial line, and the line between them, which loses and       *)
(* corrupts a bounded number of bytes in either direction.                  *)
(*                                                                          *)
(* Data abstractions.  The wire carries tokens: a control byte, the body of *)
(* a block (its number and complement, payload and CRC), or a stretch of    *)
(* bytes that belongs to no block.  A CRC agrees exactly when the payload   *)
(* is undamaged.  A timeout may strike whenever no byte is waiting and no     *)
(* block is under way, for the sender may be arbitrarily slow; a gap inside *)
(* a block is a fault of the line.                                          *)
(***************************************************************************)
EXTENDS Naturals, Sequences

CONSTANTS
    Blocks,         \* blocks in the file
    LongBlocks,     \* those sent as 1024-byte blocks (STX)
    Wrap,           \* block numbers are modulo Wrap (256)
    HandshakeTries, \* XM_HANDSHAKE_TRIES
    MaxErrors,      \* XM_MAX_ERRORS
    MaxFaults,      \* bound on tokens and replies the line loses or corrupts
    MaxResends      \* bound on blocks the sender repeats of its own accord

ASSUME XmodemAssumption ==
    /\ Blocks \in Nat \ {0}
    /\ LongBlocks \subseteq 1 .. Blocks
    /\ Wrap \in Nat /\ Wrap > 2
    /\ {HandshakeTries, MaxErrors, MaxFaults, MaxResends} \subseteq Nat

VARIABLES
    pc,         \* where xmodem_receive is
    tries,      \* handshake kicks sent
    expected,   \* the next in-order block number
    errors,     \* consecutive errors
    started,    \* a block has been accepted
    hs,         \* the header token just read
    long,       \* the block being read is a long one
    blk,        \* s_blk and the numbers around it
    delivered,  \* the blocks the sink took, 0 for a damaged one
    status,     \* what xmodem_receive returned
    wire,       \* bytes on their way to the board
    replies,    \* bytes on their way to the sender
    sender,     \* "ready", "header" (a header is out), "stalled" (and no
                \* more for a while), "wait", "gone"
    sent,       \* the block the sender is at; Blocks + 1 is the EOT
    faults,     \* tokens and replies damaged so far
    resends     \* blocks repeated after a timeout of the sender's

receiver == <<pc, tries, expected, errors, started, hs, long, blk, delivered, status>>
source   == <<sender, sent, resends>>
vars     == <<receiver, wire, replies, source, faults>>

Controls == {"SOH", "STX", "EOT", "CAN", "junk"}
Byte(b)  == [is |-> b, block |-> 0, sound |-> TRUE]
Body(i)  == [is |-> "body", block |-> i, sound |-> TRUE]
Rest     == [is |-> "rest", block |-> 0, sound |-> FALSE]
Tokens   == [is : Controls \cup {"body", "rest"}, block : 0 .. Blocks, sound : BOOLEAN]
Replies  == {"C", "ACK", "NAK", "CAN", "junk"}

Header(i) == IF i > Blocks THEN Byte("EOT")
             ELSE IF i \in LongBlocks THEN Byte("STX") ELSE Byte("SOH")

Reply(b) == replies' = Append(replies, b)

(* Bytes left over on the wire from before the transfer. *)
StaleWires == {<<>>, <<Byte("EOT")>>, <<Byte("CAN"), Byte("CAN")>>}

Init ==
    /\ pc = "flush" /\ tries = 0 /\ expected = 1 /\ errors = 0
    /\ started = FALSE /\ hs = Byte("junk") /\ long = FALSE /\ blk = Rest
    /\ delivered = <<>> /\ status = "RUNNING"
    /\ wire \in StaleWires
    /\ replies = <<>>
    /\ sender = "ready" /\ sent = 0 /\ resends = 0 /\ faults = 0

-----------------------------------------------------------------------------
(* xm_read finds nothing for as long as it waits. *)
Silence == wire = <<>> /\ sender # "header"

(* xmodem_receive returns. *)
Ends(s) ==
    /\ pc' = "done" /\ status' = s
    /\ UNCHANGED <<tries, expected, errors, started, hs, long, blk, delivered>>

(* xm_cancel sends three CANs; the sender stops at the first it sees. *)
Cancels(s) == Ends(s) /\ Reply("CAN")

(* A bad block: count it, give up or drain the line and ask again. *)
Retry(s) ==
    IF errors + 1 > MaxErrors
    THEN Cancels(s)
    ELSE /\ errors' = errors + 1
         /\ pc' = "purge"
         /\ UNCHANGED <<tries, expected, started, hs, long, blk, delivered,
                        status, replies>>

(* nora_uart_rx_flush, then the handshake: kick the sender with C. *)
Flush ==
    /\ pc = "flush"
    /\ wire' = <<>>
    /\ pc' = "kick"
    /\ UNCHANGED <<tries, expected, errors, started, hs, long, blk, delivered,
                   status, replies, source, faults>>

Kick ==
    /\ pc = "kick"
    /\ IF tries < HandshakeTries
       THEN /\ Reply("C")
            /\ tries' = tries + 1
            /\ pc' = "handshake"
            /\ UNCHANGED <<expected, errors, started, hs, long, blk, delivered, status>>
       ELSE Ends("TIMEOUT") /\ UNCHANGED replies
    /\ UNCHANGED <<wire, source, faults>>

HandshakeTimeout ==
    /\ pc = "handshake" /\ Silence
    /\ pc' = "kick"
    /\ UNCHANGED <<tries, expected, errors, started, hs, long, blk, delivered,
                   status, wire, replies, source, faults>>

(* A header byte, read in the handshake or between two blocks.  Of a body   *)
(* that lost its header the first byte is read, and the rest stays.         *)
ReadHeader ==
    /\ pc \in {"handshake", "header"} /\ wire # <<>>
    /\ hs' = Head(wire)
    /\ wire' = IF hs'.is = "body" THEN <<Rest>> \o Tail(wire) ELSE Tail(wire)
    /\ pc' = "decide"
    /\ UNCHANGED <<tries, expected, errors, started, long, blk, delivered, status,
                   replies, source, faults>>

HeaderTimeout ==
    /\ pc = "header" /\ Silence
    /\ IF errors + 1 > MaxErrors
       THEN Cancels("TIMEOUT")
       ELSE /\ errors' = errors + 1
            /\ Reply("NAK")
            /\ UNCHANGED <<pc, tries, expected, started, hs, long, blk, delivered, status>>
    /\ UNCHANGED <<wire, source, faults>>

(* The control byte a token begins with: a body begins with its block       *)
(* number, which may equal any of them.                                     *)
Looks(t) == IF t.is \in {"body", "rest"} THEN Controls ELSE {t.is}

Decide ==
    /\ pc = "decide"
    /\ \E b \in Looks(hs) :
         \/ /\ b = "EOT"
            /\ Reply("ACK")
            /\ Ends(IF started THEN "OK" ELSE "TIMEOUT")
         \/ /\ b = "CAN"
            /\ pc' = "second"
            /\ UNCHANGED <<tries, expected, errors, started, hs, long, blk,
                           delivered, status, replies>>
         \/ /\ b \in {"SOH", "STX"}
            /\ pc' = "body" /\ long' = (b = "STX") /\ blk' = hs
            /\ UNCHANGED <<tries, expected, errors, started, hs, delivered,
                           status, replies>>
         \/ b = "junk" /\ Retry("SYNC")
    /\ UNCHANGED <<wire, source, faults>>

(* Mutant of SecondCancel: the byte after a CAN is waited for without end. *)
SecondCancelWaits ==
    /\ pc = "second"
    /\ wire # <<>>
    /\ IF Head(wire).is = "CAN"
       THEN Ends("CANCELLED") /\ UNCHANGED replies
       ELSE Retry("CANCELLED")
    /\ wire' = Tail(wire)
    /\ UNCHANGED <<source, faults>>

(* The byte after a CAN: a second CAN, anything else, or none in time. *)
SecondCancel ==
    /\ pc = "second"
    /\ wire # <<>> \/ Silence
    /\ IF wire # <<>> /\ Head(wire).is = "CAN"
       THEN Ends("CANCELLED") /\ UNCHANGED replies
       ELSE Retry("CANCELLED")
    /\ wire' = IF wire = <<>> THEN wire ELSE Tail(wire)
    /\ UNCHANGED <<source, faults>>

(* The rest of the block; blk is Rest once bytes that are not the body this *)
(* header announces are in it.  They fill it wholly or in part, and may     *)
(* overrun its end.                                                         *)
WholeBody ==
    /\ Head(wire).is = "body"
    /\ Head(wire).block \in LongBlocks <=> long
    /\ blk # Rest

ReadBody ==
    /\ pc = "body" /\ wire # <<>>
    /\ IF WholeBody
       THEN blk' = Head(wire) /\ wire' = Tail(wire) /\ pc' = "check"
       ELSE /\ blk' = Rest
            /\ \/ wire' = Tail(wire) /\ pc' \in {"body", "check"}
               \/ wire' = <<Rest>> \o Tail(wire) /\ pc' = "check"
    /\ UNCHANGED <<tries, expected, errors, started, hs, long, delivered, status,
                   replies, source, faults>>

BodyTimeout ==
    /\ pc = "body" /\ Silence
    /\ Retry("TIMEOUT")
    /\ UNCHANGED <<wire, source, faults>>

(* xm_purge: drain the line until it has been idle, then ask again. *)
Purge ==
    /\ pc = "purge"
    /\ wire # <<>> \/ Silence
    /\ IF wire # <<>>
       THEN wire' = Tail(wire) /\ UNCHANGED <<pc, replies>>
       ELSE Reply("NAK") /\ pc' = "header" /\ UNCHANGED wire
    /\ UNCHANGED <<tries, expected, errors, started, hs, long, blk, delivered,
                   status, source, faults>>

Number(t) == t.block % Wrap
Payload(t) == IF t.sound THEN t.block ELSE 0
Previous  == (expected + Wrap - 1) % Wrap

Duplicate == Number(blk) = Previous

(* Mutant of Damaged: the CRC is not compared. *)
DamagedNever == FALSE

Damaged == ~blk.sound

Accept ==
    /\ delivered' = Append(delivered, Payload(blk))
    /\ expected' = (expected + 1) % Wrap
    /\ started' = TRUE /\ errors' = 0
    /\ Reply("ACK")
    /\ pc' = "header"
    /\ UNCHANGED <<tries, hs, long, blk, status>>

(* Mutant of Check: what the sink returns is ignored. *)
CheckIgnoresSink ==
    /\ pc = "check"
    /\ IF Damaged THEN Retry("SYNC")
       ELSE IF Duplicate
       THEN /\ Reply("ACK") /\ errors' = 0 /\ pc' = "header"
            /\ UNCHANGED <<tries, expected, started, hs, long, blk, delivered, status>>
       ELSE IF Number(blk) # expected
       THEN Cancels("SYNC")
       ELSE \/ Accept
            \/ /\ expected' = (expected + 1) % Wrap
               /\ started' = TRUE /\ errors' = 0
               /\ Reply("ACK")
               /\ pc' = "header"
               /\ UNCHANGED <<tries, hs, long, blk, delivered, status>>
    /\ UNCHANGED <<wire, source, faults>>

(* Damaged, repeated, out of sequence, refused by the sink, or accepted. *)
Check ==
    /\ pc = "check"
    /\ IF Damaged THEN Retry("SYNC")
       ELSE IF Duplicate
       THEN /\ Reply("ACK") /\ errors' = 0 /\ pc' = "header"
            /\ UNCHANGED <<tries, expected, started, hs, long, blk, delivered, status>>
       ELSE IF Number(blk) # expected
       THEN Cancels("SYNC")
       ELSE Accept \/ Cancels("SINK")
    /\ UNCHANGED <<wire, source, faults>>

-----------------------------------------------------------------------------
(* The sender (a terminal program).  It answers the replies one at a time:  *)
(* an ACK moves it on, a NAK makes it repeat, a CAN stops it.  It may also  *)
(* repeat a block by itself, abort, or stop for good anywhere.              *)
Send(i, repeated) ==
    /\ wire' = Append(wire, Header(i))
    /\ sent' = i
    /\ sender' = IF i > Blocks THEN "wait" ELSE "header"
    /\ resends' = resends + repeated

SendBody ==
    /\ sender \in {"header", "stalled"}
    /\ wire' = Append(wire, Body(sent))
    /\ sender' = "wait"
    /\ UNCHANGED <<receiver, replies, sent, resends, faults>>

Quiet == UNCHANGED <<wire, sender, sent, resends>>
Leave == sender' = "gone" /\ UNCHANGED <<wire, sent, resends>>

Listen ==
    /\ sender \in {"ready", "wait"} /\ replies # <<>>
    /\ replies' = Tail(replies)
    /\ CASE Head(replies) = "CAN" -> Leave
         [] Head(replies) = "C" ->
                IF sender = "ready" THEN Send(1, 0)
                ELSE Quiet \/ (sent = 1 /\ Send(1, 0))
         [] Head(replies) = "NAK" -> IF sender = "ready" THEN Quiet ELSE Send(sent, 0)
         [] Head(replies) = "ACK" ->
                IF sender = "ready" THEN Quiet
                ELSE IF sent > Blocks THEN Leave ELSE Send(sent + 1, 0)
         [] OTHER -> Quiet
    /\ UNCHANGED <<receiver, faults>>

SenderTimeout ==
    /\ sender = "wait" /\ resends < MaxResends
    /\ Send(sent, 1)
    /\ UNCHANGED <<receiver, replies, faults>>

SenderAborts ==
    /\ sender = "wait"
    /\ wire' = wire \o <<Byte("CAN"), Byte("CAN")>>
    /\ sender' = "gone"
    /\ UNCHANGED <<receiver, replies, sent, resends, faults>>

(* The line loses a token, damages a control byte into another one, damages *)
(* a body or loses a part of it; and does the same to a reply.              *)
Without(s, i) == SubSeq(s, 1, i - 1) \o SubSeq(s, i + 1, Len(s))

Damage(t) ==
    IF t.is = "body" THEN {[t EXCEPT !.sound = FALSE], Rest}
    ELSE {Byte(b) : b \in Controls}

LineFault ==
    /\ faults < MaxFaults
    /\ faults' = faults + 1
    /\ \/ \E i \in 1 .. Len(wire) :
            /\ \/ wire' = Without(wire, i)
               \/ \E t \in Damage(wire[i]) : wire' = [wire EXCEPT ![i] = t]
            /\ UNCHANGED replies
       \/ \E i \in 1 .. Len(replies) :
            /\ \/ replies' = Without(replies, i)
               \/ \E b \in Replies : replies' = [replies EXCEPT ![i] = b]
            /\ UNCHANGED wire
    /\ UNCHANGED <<receiver, source>>

(* A gap inside a block, longer than the receiver waits. *)
Stall ==
    /\ sender = "header" /\ faults < MaxFaults
    /\ sender' = "stalled"
    /\ faults' = faults + 1
    /\ UNCHANGED <<receiver, wire, replies, sent, resends>>

Receive ==
    \/ Flush \/ Kick \/ HandshakeTimeout \/ ReadHeader \/ HeaderTimeout
    \/ Decide \/ SecondCancel \/ ReadBody \/ BodyTimeout \/ Purge \/ Check

Next ==
    \/ Receive
    \/ SendBody \/ Listen \/ SenderTimeout \/ SenderAborts
    \/ LineFault \/ Stall

(* The receiver is a polling loop over a running tick timer, so it always   *)
(* goes on.  A block that is under way gets through, or stalls; nothing     *)
(* else is assumed of the sender.                                           *)
Spec == Init /\ [][Next]_vars /\ WF_vars(Receive) /\ WF_vars(SendBody)
-----------------------------------------------------------------------------
(* Properties. *)

(* Every variable has its type; the error count stays within its budget. *)
TypeOK ==
    /\ pc \in {"flush", "kick", "handshake", "header", "decide", "second",
               "body", "purge", "check", "done"}
    /\ tries \in 0 .. HandshakeTries
    /\ expected \in 0 .. Wrap - 1
    /\ errors \in 0 .. MaxErrors
    /\ {started, long} \subseteq BOOLEAN
    /\ {hs, blk} \subseteq Tokens
    /\ delivered \in Seq(0 .. Blocks)
    /\ status \in {"RUNNING", "OK", "TIMEOUT", "CANCELLED", "SYNC", "SINK"}
    /\ wire \in Seq(Tokens)
    /\ replies \in Seq(Replies)
    /\ sender \in {"ready", "header", "stalled", "wait", "gone"}
    /\ sent \in 0 .. Blocks + 1
    /\ faults \in 0 .. MaxFaults
    /\ resends \in 0 .. MaxResends

Result == IF status \in {"RUNNING", "OK"} THEN status ELSE "ERROR"

Stream == INSTANCE BlockStream WITH result <- Result

(* The sink gets the blocks of the file, in order and each once, whatever   *)
(* the line loses or damages and however often a block is repeated.         *)
StreamsFile == Stream!Spec

Complete == Len(delivered) = Blocks

(* On a line that damages nothing, XMODEM_OK means the whole file, however  *)
(* slow the sender and however many of its blocks and the receiver's NAKs   *)
(* cross on the way; and no count of the receiver passes its limit.         *)
OKMeansComplete ==
    /\ TypeOK
    /\ status = "OK" /\ faults = 0 => Complete

(* xmodem.h says it of every line (xmodem.h:34). *)
OKMeansEveryBlock == status = "OK" => Complete

(* The transfer ends, whatever becomes of the sender: the console that      *)
(* called xmodem_receive gets its loop back.                                *)
Terminates == <>(pc = "done")
=============================================================================
