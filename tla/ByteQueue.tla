------------------------------ MODULE ByteQueue ------------------------------
(***************************************************************************)
(* What a receive ring promises its reader: a bounded queue.  A byte that   *)
(* finds the queue full is dropped and counted; no other byte is lost,      *)
(* doubled, changed or overtaken, unless the reader throws the queue away.  *)
(***************************************************************************)
EXTENDS Naturals, Sequences

CONSTANTS Byte, Capacity

VARIABLES
    queue,  \* bytes received and not read yet
    got,    \* the last byte read
    drops   \* bytes dropped since the count was cleared

Init == queue = <<>> /\ got \in Byte \cup {0} /\ drops = 0

Put(b) == Len(queue) < Capacity /\ queue' = Append(queue, b) /\ UNCHANGED <<got, drops>>

Drop == Len(queue) = Capacity /\ drops' = drops + 1 /\ UNCHANGED <<queue, got>>

Get == queue # <<>> /\ got' = Head(queue) /\ queue' = Tail(queue) /\ UNCHANGED drops

Discard == queue' = <<>> /\ UNCHANGED <<got, drops>>

ClearCount == drops' = 0 /\ UNCHANGED <<queue, got>>

Next == (\E b \in Byte : Put(b)) \/ Drop \/ Get \/ Discard \/ ClearCount

Spec == Init /\ [][Next]_<<queue, got, drops>>
=============================================================================
