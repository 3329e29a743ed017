--------------------------- MODULE MCPageClients ---------------------------
(* The zones of MCPageAlloc, with one layout, for the runs of PageClients.   *)
EXTENDS PageClients

MCSize == [k \in 0 .. MaxOrder - 1 |-> 2 ^ k]
MCZone == 0 .. 1
MCBase == [z \in MCZone |-> 4 * z]
MCSpanned == [z \in MCZone |-> IF z = 0 THEN 4 ELSE 8]
MCZoneOf == [p \in 0 .. MaxPfn - 1 |-> IF p < 4 THEN 0 ELSE 1]
MCLayouts == [kernelEnd : {1}, pageTables : {3}, tablesEnd : {3}]
MCZeroed == {None}
=============================================================================
