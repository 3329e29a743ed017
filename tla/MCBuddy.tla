------------------------------ MODULE MCBuddy ------------------------------
(* A node of three small zones for TLC.  Bounds: 22 frames, orders 0 to 3,   *)
(* zones of 8, 9 and 7 frames (the last two are no multiple of the greatest  *)
(* block), and boots whose kernel and page tables lie in different places;   *)
(* one leaves free the last page of a zone and, alone, the one after it.     *)
EXTENDS Buddy

MCSize == [k \in 0 .. MaxOrder - 1 |-> 2 ^ k]
MCZone == 0 .. 2
MCBase == [z \in MCZone |-> CASE z = 0 -> 0 [] z = 1 -> 8 [] z = 2 -> 17]
MCSpanned == [z \in MCZone |-> CASE z = 0 -> 8 [] z = 1 -> 9 [] z = 2 -> 7]
MCZoneOf == [p \in 0 .. MaxPfn - 1 |-> IF p < 8 THEN 0 ELSE IF p < 17 THEN 1 ELSE 2]
MCLayouts ==
  [kernelEnd : {2, 3}, pageTables : {7, 9}, tablesEnd : {9, 10, 12}]
    \cup {[kernelEnd |-> 3, pageTables |-> 17, tablesEnd |-> 18]}
MCZeroed == {None}
=============================================================================
