------------------------------- MODULE MCXmodem -------------------------------
(* A file of a long block and two short ones, over a line with faults. *)
EXTENDS Xmodem

MCLongBlocks == {1}
=============================================================================
