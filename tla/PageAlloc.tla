----------------------------- MODULE PageAlloc -----------------------------
(* The page allocator as the code keeps it: free lists linked through the    *)
(* lru field of struct page, their counters, the boot loop, __alloc_pages    *)
(* and __free_pages.  Module Buddy states what this implements.              *)
EXTENDS Integers, FiniteSets, SequencesExt

CONSTANTS MaxPfn, Described, MaxOrder, Size, Zone, Base, Spanned, ZoneOf, AllocZone,
          Layouts, Junk,   \* as in Buddy
          MaxLive          \* bound: blocks that clients hold at the same time

Page  == 0 .. MaxPfn - 1
Order == 0 .. MaxOrder - 1
List  == -1 .. MaxOrder - 1   \* -1: the words before free_area[0]
None  == -1

ASSUME LiveAssumption == MaxLive \in Nat \ {0}

VARIABLES
  layout, pfn, reserved, private, merging,   \* as in Buddy
  links,      \* what next and prev of every list node hold
  nrFree,     \* free_area[k].nr_free of every zone; pages_high for k = -1
  freePages,  \* zone->free_pages (written, never read: no width is kept)
  live        \* the blocks clients hold, oldest first

lists == <<links, nrFree, freePages>>
boot  == <<layout, pfn, reserved>>
vars  == <<boot, private, merging, lists, live>>

-----------------------------------------------------------------------------
(* Nodes: &page->lru, &zone->free_area[k].head, and a null pointer.          *)
Lru(p)     == <<"lru", p, 0>>
AreaHead(z, k) == <<"head", z, k>>
Null       == <<"null", 0, 0>>
Node == {Null} \cup {Lru(p) : p \in Page}
        \cup {AreaHead(z, k) : z \in Zone, k \in List}

(* __list_add(new, prev, next), in the order of its four stores.             *)
ListAdd(L, new, p, n) ==
  [next |-> [L.next EXCEPT ![p] = new, ![new] = n],
   prev |-> [L.prev EXCEPT ![n] = new, ![new] = p]]
AddHead(L, head, new) == ListAdd(L, new, head, L.next[head])
AddTail(L, head, new) == ListAdd(L, new, L.prev[head], head)
(* Mutant: list_del leaves the prev of the next entry alone.                 *)
ListDelOneWay(L, it) ==
  [L EXCEPT !.next = [L.next EXCEPT ![L.prev[it]] = L.next[it]]]
ListDel(L, it) ==
  [next |-> [L.next EXCEPT ![L.prev[it]] = L.next[it]],
   prev |-> [L.prev EXCEPT ![L.next[it]] = L.prev[it]]]
Empty(L, head) == L.prev[head] = head /\ L.next[head] = head

(* The nodes a walk along next meets before it is back at the head.          *)
Entries(L, head) ==
  LET walk[i \in 0 .. MaxPfn] ==
        IF i = 0 THEN L.next[head]
        ELSE IF walk[i - 1] = head THEN head ELSE L.next[walk[i - 1]]
  IN  {walk[i] : i \in 0 .. MaxPfn} \ {head}
OnList(z, k) == Entries(links, AreaHead(z, k))

FreeBlocks == {b \in Page \X Order : Lru(b[1]) \in OnList(ZoneOf[b[1]], b[2])}

B == INSTANCE Buddy WITH free <- FreeBlocks, allocated <- ToSet(live)

ASSUME BuddyAssumption == B!SizeAssumption /\ B!ZoneAssumption /\ B!LayoutAssumption

-----------------------------------------------------------------------------
(* zone_init_free_lists gives every list of the array an empty head; all     *)
(* other memory is zero.                                                     *)
Init ==
  /\ layout \in Layouts
  /\ pfn = 0
  /\ reserved = {}
  /\ \E junk \in Junk :
       private = [p \in 0 .. Described |-> IF p = Described THEN junk ELSE None]
  /\ merging = {}
  /\ LET zero == [n \in Node |-> IF n[1] = "head" /\ n[3] \in Order THEN n ELSE Null]
     IN  links = [next |-> zero, prev |-> zero]
  /\ nrFree = [z \in Zone |-> [k \in List |-> 0]]
  /\ freePages = [z \in Zone |-> 0]
  /\ live = <<>>

Reserve ==
  /\ merging = {} /\ pfn \in Page /\ B!MustReserve(pfn)
  /\ reserved' = reserved \cup {pfn}
  /\ pfn' = pfn + 1
  /\ UNCHANGED <<layout, private, merging, lists, live>>

FreePage ==
  /\ merging = {} /\ pfn \in Page /\ ~B!MustReserve(pfn)
  /\ merging' = {<<pfn, 0>>}
  /\ pfn' = pfn + 1
  /\ UNCHANGED <<layout, reserved, private, lists, live>>

-----------------------------------------------------------------------------
(* __free_pages.                                                             *)

Merge ==
  /\ \E p \in Page, k \in Order :
       /\ merging = {<<p, k>>}
       /\ B!CanMerge(p, k)
       /\ LET q == B!BuddyOf(p, k) IN
            /\ links' = ListDel(links, Lru(q))
            /\ nrFree' = [nrFree EXCEPT ![ZoneOf[p]][k] = @ - 1]
            /\ merging' = {<<IF p < q THEN p ELSE q, k + 1>>}
  /\ UNCHANGED <<boot, private, freePages, live>>

Settle ==
  /\ \E p \in Page, k \in Order :
       /\ merging = {<<p, k>>}
       /\ ~B!CanMerge(p, k)
       /\ private' = [private EXCEPT ![p] = k]
       /\ links' = AddHead(links, AreaHead(ZoneOf[p], k), Lru(p))
       /\ nrFree' = [nrFree EXCEPT ![ZoneOf[p]][k] = @ + 1]
  /\ merging' = {}
  /\ UNCHANGED <<boot, freePages, live>>

-----------------------------------------------------------------------------
(* __alloc_pages.  Page order 0 first asks the per-cpu list, whose count,    *)
(* low and batch are never set: it stays empty and __rmqueue serves it.      *)

Ready == pfn = MaxPfn /\ merging = {}

HasBlock(o) == ~Empty(links, AreaHead(AllocZone, o))

(* expand works on the orders from the one below the block taken (o) down    *)
(* to n - 1; the second half of such an order goes on the tail of its list.  *)
HalfSize(j) == IF j = -1 THEN 0 ELSE Size[j]

Expand(L, p, n, o) ==
  LET after[j \in n - 1 .. o] ==
        IF j = o THEN L
        ELSE AddTail(after[j + 1], AreaHead(AllocZone, j), Lru(p + HalfSize(j)))
  IN  after[n - 1]

(* Mutant: the search starts from the greatest order.                        *)
LastUsed(n, o) == HasBlock(o) /\ \A j \in o + 1 .. MaxOrder - 1 : ~HasBlock(j)
(* __rmqueue(zone, n) finds the first list in use at or above n, and takes   *)
(* its first entry; expand gives the rest of it back.                        *)
FirstUsed(n, o) == HasBlock(o) /\ \A j \in n .. o - 1 : ~HasBlock(j)

Rmqueue(n, o, p) ==
  LET turns == n - 1 .. o - 1 IN
    /\ nrFree' = [nrFree EXCEPT ![AllocZone] = [k \in List |->
         @[k] + (IF k \in turns THEN 1 ELSE 0) - (IF k = o THEN 1 ELSE 0)]]
    /\ freePages' = [freePages EXCEPT ![AllocZone] =
         @ - Size[n] + MapThenSumSet(HalfSize, turns)]
    /\ private' = [q \in 0 .. Described |->
         IF \E j \in turns : q = p + HalfSize(j) THEN q - p ELSE private[q]]

LinksAfter(n, o, p) == Expand(ListDel(links, Lru(p)), p, n, o)

(* A client that keeps whole pages, as kmalloc does.                         *)
AllocPages(n) ==
  /\ Ready /\ Len(live) < MaxLive
  /\ \E o \in n .. MaxOrder - 1, p \in Page :
       /\ FirstUsed(n, o) /\ links.next[AreaHead(AllocZone, o)] = Lru(p)
       /\ Rmqueue(n, o, p)
       /\ links' = LinksAfter(n, o, p)
       /\ live' = Append(live, <<p, n>>)
  /\ UNCHANGED <<boot, merging>>

(* No list has a block: __alloc_pages returns -1.                            *)
AllocFails(n) ==
  /\ Ready
  /\ \A o \in n .. MaxOrder - 1 : ~HasBlock(o)
  /\ UNCHANGED vars

Next == \/ Reserve \/ FreePage \/ Merge \/ Settle
        \/ \E n \in Order : AllocPages(n) \/ AllocFails(n)

Spec == Init /\ [][Next]_vars

-----------------------------------------------------------------------------
(* Every free list is a ring through its head: a walk along next comes back, *)
(* prev is the inverse of next, no page is on two lists, and nr_free counts  *)
(* the entries.  (list_del and list_add of __free_pages, __rmqueue, expand.) *)
ListsSound ==
  \A z \in Zone, k \in Order :
    LET on == OnList(z, k) IN
      /\ on \subseteq {Lru(p) : p \in Page}
      /\ \A n \in on \cup {AreaHead(z, k)} : links.prev[links.next[n]] = n
      /\ nrFree[z][k] = Cardinality(on)
      /\ \A y \in Zone, j \in Order : <<y, j>> # <<z, k>> => on \cap OnList(y, j) = {}

(* The lists implement the sets of blocks of module Buddy.                   *)
ImplementsBuddy == B!Spec
=============================================================================
