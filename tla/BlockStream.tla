----------------------------- MODULE BlockStream -----------------------------
(* What a transport promises its sink (xmodem.h): the blocks of one file,   *)
(* in order and each once, until it ends for good; it ends well only with a *)
(* block delivered.                                                         *)
EXTENDS Naturals, Sequences

CONSTANT Blocks     \* how many blocks the file has

VARIABLES delivered,    \* the blocks the sink took
          result        \* "RUNNING", and then "OK" or "ERROR"

Init == delivered = <<>> /\ result = "RUNNING"

Deliver ==
    /\ result = "RUNNING"
    /\ Len(delivered) < Blocks
    /\ delivered' = Append(delivered, Len(delivered) + 1)
    /\ UNCHANGED result

End ==
    /\ result = "RUNNING"
    /\ result' \in {"OK", "ERROR"}
    /\ result' = "OK" => delivered # <<>>
    /\ UNCHANGED delivered

Next == Deliver \/ End

Spec == Init /\ [][Next]_<<delivered, result>>
=============================================================================
