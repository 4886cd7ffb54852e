------------------------------- MODULE Btseq -------------------------------
(***************************************************************************)
(* The BTSEQ flash word of one partition (fw_btseq.c, fw_btseq.h): a 12-bit *)
(* boot sequence number next to its one's complement.  The boot logic       *)
(* selects the partition with the lower valid number.                       *)
(*                                                                          *)
(* A word is [v, ic, rest]: bits 11:0, bits 23:12, and what the reserved    *)
(* bits 127:24 are.  The one's complement of a field x is SeqMax - x.       *)
(*                                                                          *)
(* An interrupted flash operation leaves a word between its old and its new *)
(* value: programming only clears bits and erasing only sets them, so each  *)
(* field moves in one numeric direction.  The partial words below are all   *)
(* the words that order allows, a superset of what the bits allow.          *)
(***************************************************************************)
EXTENDS Integers

CONSTANT SeqMax     \* FW_BTSEQ_MASK and FW_BTSEQ_BLANK: the largest number

ASSUME SeqMaxAssumption == SeqMax \in Nat \ {0}

Seqs == 0 .. SeqMax

Words == [v : Seqs, ic : Seqs, rest : {"ones", "zeros", "mixed"}]

(* The erased word: every bit set. *)
BlankWord == [v |-> SeqMax, ic |-> SeqMax, rest |-> "ones"]

(* fw_btseq_encode: the number, its complement, reserved bits zero. *)
Encode(seq) == [v |-> seq, ic |-> SeqMax - seq, rest |-> "zeros"]

(* fw_btseq_decode_valid: [11:0] = ~[23:12]; the reserved bits do not matter. *)
Valid(w) == w.v = SeqMax - w.ic

(* fw_btseq_read_seq: an invalid word evaluates to the highest number. *)
SeqOf(w) == IF Valid(w) THEN w.v ELSE SeqMax

(* The number fw_commit stamps: (active - 1) & FW_BTSEQ_MASK. *)
NextSeq(active) == (active - 1) % (SeqMax + 1)

(* Every field of w is at least that of u: w holds at least u's set bits. *)
AtLeast(w, u) == w.v >= u.v /\ w.ic >= u.ic

(* What a completed word program leaves.  A word that was not virgin keeps  *)
(* only the bits both values have, and its ECC may change any of them.      *)
Programmed(old, new) ==
    IF old = BlankWord THEN {new} ELSE {w \in Words : AtLeast(old, w)}

(* What a word program that failed or was cut short may leave. *)
PartlyProgrammed(old, new) ==
    {w \in Words : AtLeast(old, w) /\ (old = BlankWord => AtLeast(w, new))}

(* What an erase that failed or was cut short may leave. *)
PartlyErased(old) == {w \in Words : AtLeast(w, old)}
============================================================================
