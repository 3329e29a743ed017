---------------------------- MODULE MCPageAlloc ----------------------------
(* Two zones of 4 and 8 frames, orders 0 to 3, for TLC: allocations come from *)
(* the second zone, which is too small for MaxLive blocks of every order, so *)
(* that __alloc_pages also fails.                                            *)
EXTENDS PageAlloc

MCSize == [k \in 0 .. MaxOrder - 1 |-> 2 ^ k]
MCZone == 0 .. 1
MCBase == [z \in MCZone |-> 4 * z]
MCSpanned == [z \in MCZone |-> IF z = 0 THEN 4 ELSE 8]
MCZoneOf == [p \in 0 .. MaxPfn - 1 |-> IF p < 4 THEN 0 ELSE 1]
MCLayouts == [kernelEnd : {2}, pageTables : {4, 10}, tablesEnd : {9, 11}]
MCZeroed == {None}
=============================================================================
