------------------------- MODULE MCDualPartitionRows -------------------------
(* Two-cell rows: a last row may be partial, and a row may mix the payload  *)
(* of two XMODEM blocks.                                                    *)
EXTENDS DualPartition

Short == <<"s1", "s2", "s3">>
Long  == <<"l1", "l2", "l3", "l4", "l5">>
MCImages == {Short, Long}

Package(k) == [format |-> TRUE, len |-> Len(k), crc |-> k,
               complement |-> TRUE, data |-> k]
MCFiles == {Package(Short), Package(Long), [Package(Long) EXCEPT !.data[3] = Fill]}
MCUca == {[alti2c2 |-> TRUE, bootswp |-> TRUE, erased |-> TRUE, backup |-> TRUE]}
=============================================================================
