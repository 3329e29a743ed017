---------------------------- MODULE PageClients ----------------------------
(* The page allocator with a client that gives its blocks back, as kfree and *)
(* kmem_freepages do.  Steps whose first list entry is no page are left out: *)
(* the run stops there.                                                      *)
EXTENDS PageAlloc

(* A client gives back one of its blocks, once, with its order.              *)
Release ==
  /\ Ready
  /\ \E i \in DOMAIN live :
       /\ merging' = {live[i]}
       /\ live' = RemoveAt(live, i)
  /\ UNCHANGED <<boot, private, lists>>

FreeingNext == Next \/ Release
FreeingSpec == Init /\ [][FreeingNext]_vars

-----------------------------------------------------------------------------
(* "buddy not in buddy" (page_alloc.c:162): what passes page_is_buddy is a   *)
(* free block of that order.                                                 *)
MergesOnlyFree ==
  \A p \in Page, k \in Order :
    merging = {<<p, k>>} /\ B!CanMerge(p, k) => <<B!BuddyOf(p, k), k>> \in FreeBlocks
=============================================================================
