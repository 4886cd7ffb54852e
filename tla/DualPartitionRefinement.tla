----------------------- MODULE DualPartitionRefinement -----------------------
(* DualPartition implements ABUpdate while no flash operation misbehaves:   *)
(* power may still be lost anywhere, so the switch is atomic although it    *)
(* takes an erase, a program, a read-back and a reset.                      *)
EXTENDS DualPartition

NoImage == <<>>

(* The image that cells c hold; the longest, should one begin another. *)
ImageOf(c) ==
    LET held == {k \in Images : \A i \in 1 .. Len(k) : c[i - 1] = k[i]}
    IN  IF held = {} THEN NoImage
        ELSE CHOOSE k \in held : \A o \in held : Len(o) <= Len(k)

ImageIn(p) == ImageOf(cells[p])

(* An image is staged while the gate is armed and until its stamp is on. *)
Staged ==
    IF verified \/ pc \in {"commitErase", "commitProgram"}
    THEN ImageIn(Inactive) ELSE NoImage

AB == INSTANCE ABUpdate WITH boot <- ImageIn(Selected(btseq)), staged <- Staged

(* The update is an atomic A/B update: what a reset boots changes only to   *)
(* an image that was staged in full, and from one intact image to the next. *)
UpdateIsAtomic == AB!Spec
==============================================================================
