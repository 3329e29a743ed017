------------------------------- MODULE MCSlub -------------------------------
(* A cache of two slabs of four objects: the least with which a slab waits   *)
(* behind another, an object is freed between two others, and three objects  *)
(* of a slab are allocated anew after they have been freed, which is what it *)
(* takes for a stale free list to become a ring.  The slabs are alike.       *)
EXTENDS Slub, TLC

CONSTANTS s1, s2

MCSlab == {s1, s2}
Alike == Permutations(MCSlab)

(* The word at address 0, the real mode vector of interrupt 0, is not zero   *)
(* where a BIOS has run; it is where the vector has been cleared.            *)
MCAny == BOOLEAN
=============================================================================
