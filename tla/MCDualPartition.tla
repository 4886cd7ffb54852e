--------------------------- MODULE MCDualPartition ---------------------------
(* A partition of two pages of two one-cell rows: the final page starts at  *)
(* cell 2 and its last row holds the BTSEQ word.  One image ends in the     *)
(* first page, one fills everything up to the last row.                     *)
EXTENDS DualPartitionRefinement

Short == <<"s1">>
Long  == <<"l1", "l2", "l3">>
MCImages == {Short, Long}

Package(k) == [format |-> TRUE, len |-> Len(k), crc |-> k,
               complement |-> TRUE, data |-> k]

(* Good packages, and every way a package can be wrong. *)
MCFiles ==
    {Package(k) : k \in MCImages}
    \cup {[Package(Short) EXCEPT !.format = FALSE],
          [Package(Short) EXCEPT !.complement = FALSE],
          [Package(Short) EXCEPT !.len = 0],
          [Package(Short) EXCEPT !.data = <<Fill>>],
          [Package(Long) EXCEPT !.len = 2],
          [Package(Long) EXCEPT !.len = 4, !.data = Append(@, "s1")]}

Good == [alti2c2 |-> TRUE, bootswp |-> TRUE, erased |-> TRUE, backup |-> TRUE]
MCUca == {Good, [Good EXCEPT !.backup = FALSE]}

(* With faults, one good package of each length and one spoiled one do. *)
MCFewFiles == {Package(Short), Package(Long), [Package(Short) EXCEPT !.data = <<Fill>>]}
MCOneUca == {Good}
=============================================================================
