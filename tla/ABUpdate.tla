------------------------------ MODULE ABUpdate ------------------------------
(* What an A/B update promises: a board boots one image; another may be     *)
(* staged next to it, replaced or dropped at any time; the staged image     *)
(* becomes the booted one in a single step.                                 *)
CONSTANTS
    Images,
    NoImage     \* not one of Images

VARIABLES boot,     \* the image a reset boots
          staged    \* the image a commit would install, or NoImage

Init == boot \in Images /\ staged = NoImage

Stage ==
    /\ staged' \in Images \cup {NoImage}
    /\ UNCHANGED boot

Commit ==
    /\ staged \in Images
    /\ boot' = staged
    /\ staged' = NoImage

Next == Stage \/ Commit

Spec == Init /\ [][Next]_<<boot, staged>>
=============================================================================
