------------------------------- MODULE Buddy -------------------------------
(* The buddy page allocator as sets of blocks: what the boot loop            *)
(* (node_alloc_mem_map) leaves free, and what __alloc_pages then hands out.  *)
(* A block is <<first page, order>>.  The list links that implement the free *)
(* sets are in PageAlloc, which refines this module.                         *)
EXTENDS Integers

CONSTANTS
  MaxPfn,     \* max_pfn: number of page frames
  Described,  \* descriptors that are cleared: the frames up to the end of the zones
  MaxOrder,   \* MAX_ORDER: orders are 0 .. MaxOrder - 1
  Size,       \* Size[k] = 1 << k, the pages of a block of order k
  Zone,       \* the zones of the node
  Base,       \* Base[z]: index in mem_map of zone_mem_map
  Spanned,    \* Spanned[z]: spanned_pages
  ZoneOf,     \* ZoneOf[p]: the zone number stored in the flags of page p
  AllocZone,  \* the one zone of zonelist 0, which every caller passes
  Layouts,    \* the kernel images and page tables a boot may find
  Junk        \* what the descriptor after the last one may read as (private)

Page  == 0 .. MaxPfn - 1
Order == 0 .. MaxOrder - 1
None  == -1   \* private of a page whose PagePrivate flag is clear

ASSUME SizeAssumption ==
  /\ MaxPfn \in Nat \ {0} /\ Described \in Nat /\ MaxPfn <= Described
  /\ MaxOrder \in Nat \ {0}
  /\ Size \in [Order -> Nat \ {0}]
  /\ Size[0] = 1
  /\ \A j, k \in Order : k = j + 1 => Size[k] = 2 * Size[j]
  /\ \A j, k \in Order : j < k => 2 * Size[j] <= Size[k]

ASSUME ZoneAssumption ==
  /\ Base \in [Zone -> Nat]
  /\ Spanned \in [Zone -> Nat]
  /\ ZoneOf \in [Page -> Zone]
  /\ \A p \in Page, z \in Zone :
       ZoneOf[p] = z <=> Base[z] <= p /\ p < Base[z] + Spanned[z]
  /\ \A p \in Page : Base[ZoneOf[p]] + Spanned[ZoneOf[p]] <= Described
  /\ AllocZone \in Zone

ASSUME LayoutAssumption ==
  /\ Layouts \subseteq [kernelEnd : Nat, pageTables : Nat, tablesEnd : Nat]
  /\ Junk \subseteq Int

VARIABLES
  layout,     \* what the linker script and the memory map fixed for this boot
  pfn,        \* i of the boot loop: the next frame to look at
  reserved,   \* the pages with PG_reserved
  private,    \* page->private where PagePrivate is set, None where it is clear
  free,       \* the blocks on the free lists
  merging,    \* the block __free_pages is growing (at most one)
  allocated   \* the blocks handed out by __alloc_pages

vars == <<layout, pfn, reserved, private, free, merging, allocated>>

-----------------------------------------------------------------------------
(* The pages of a block.                                                     *)
Pages(b) == b[1] .. b[1] + Size[b[2]] - 1

(* pg_idx ^ (1 << order), taken relative to the zone's first page.           *)
Flip(i, k) == IF (i \div Size[k]) % 2 = 0 THEN i + Size[k] ELSE i - Size[k]
BuddyOf(p, k) == Base[ZoneOf[p]] + Flip(p - Base[ZoneOf[p]], k)

NotInZone(z, q) == q < Base[z] \/ q > Base[z] + Spanned[z]

(* page_count(q) == 0 says _count = -1, which the boot loop gives exactly to *)
(* the pages it does not reserve.                                            *)
IsBuddy(q, k) == private[q] = k /\ q \notin reserved

MustReserve(p) ==
  \/ p <= layout.tablesEnd /\ p > layout.pageTables
  \/ p < layout.kernelEnd

-----------------------------------------------------------------------------
Init ==
  /\ layout \in Layouts
  /\ pfn = 0
  /\ reserved = {}
  /\ \E junk \in Junk :
       private = [p \in 0 .. Described |-> IF p = Described THEN junk ELSE None]
  /\ free = {}
  /\ merging = {}
  /\ allocated = {}

(* The boot loop finds a frame of the kernel, and reserves it.               *)
Reserve ==
  /\ merging = {}
  /\ pfn \in Page
  /\ MustReserve(pfn)
  /\ reserved' = reserved \cup {pfn}
  /\ pfn' = pfn + 1
  /\ UNCHANGED <<layout, private, free, merging, allocated>>

(* Mutant: the boot loop runs to i <= max_pfn.                               *)
FreePageToMax ==
  /\ merging = {}
  /\ pfn \in 0 .. MaxPfn
  /\ ~MustReserve(pfn)
  /\ merging' = {<<pfn, 0>>}
  /\ pfn' = pfn + 1
  /\ UNCHANGED <<layout, reserved, private, free, allocated>>

(* The boot loop calls free_page for any other frame.                        *)
FreePage ==
  /\ merging = {}
  /\ pfn \in Page
  /\ ~MustReserve(pfn)
  /\ merging' = {<<pfn, 0>>}
  /\ pfn' = pfn + 1
  /\ UNCHANGED <<layout, reserved, private, free, allocated>>

(* Mutant: the loop stops one order early.                                   *)
CanMergeBelowTop(p, k) ==
  /\ k < MaxOrder - 2
  /\ ~NotInZone(ZoneOf[p], BuddyOf(p, k))
  /\ IsBuddy(BuddyOf(p, k), k)

CanMerge(p, k) ==
  /\ k < MaxOrder - 1
  /\ ~NotInZone(ZoneOf[p], BuddyOf(p, k))
  /\ IsBuddy(BuddyOf(p, k), k)

(* Mutants: list_del of the buddy, or pg_idx &= buddy_idx, is forgotten.     *)
MergeKeepsBuddy ==
  /\ \E p \in Page, k \in Order :
       /\ merging = {<<p, k>>}
       /\ CanMerge(p, k)
       /\ LET q == BuddyOf(p, k) IN
            merging' = {<<IF p < q THEN p ELSE q, k + 1>>}
  /\ UNCHANGED <<layout, pfn, reserved, private, free, allocated>>
MergeKeepsIndex ==
  /\ \E p \in Page, k \in Order :
       /\ merging = {<<p, k>>}
       /\ CanMerge(p, k)
       /\ free' = free \ {<<BuddyOf(p, k), k>>}
       /\ merging' = {<<p, k + 1>>}
  /\ UNCHANGED <<layout, pfn, reserved, private, allocated>>

(* One turn of the loop of __free_pages: the buddy leaves its list.          *)
Merge ==
  /\ \E p \in Page, k \in Order :
       /\ merging = {<<p, k>>}
       /\ CanMerge(p, k)
       /\ LET q == BuddyOf(p, k) IN
            /\ free' = free \ {<<q, k>>}
            /\ merging' = {<<IF p < q THEN p ELSE q, k + 1>>}
  /\ UNCHANGED <<layout, pfn, reserved, private, allocated>>

(* The end of __free_pages: the block is put on the list of its order.       *)
Settle ==
  /\ \E p \in Page, k \in Order :
       /\ merging = {<<p, k>>}
       /\ ~CanMerge(p, k)
       /\ private' = [private EXCEPT ![p] = k]
       /\ free' = free \cup {<<p, k>>}
  /\ merging' = {}
  /\ UNCHANGED <<layout, pfn, reserved, allocated>>

-----------------------------------------------------------------------------
Booted == pfn = MaxPfn /\ merging = {}

(* The lists __rmqueue can take a block of order n from.                     *)
Candidates(n) == {b \in free : b[2] >= n /\ ZoneOf[b[1]] = AllocZone}

(* Mutants: expand adds before it halves size; expand stops one order early. *)
HalvesBeforeShift(b, n) ==
  {<<b[1] + 2 * Size[j], j>> : j \in {i \in Order : n - 1 <= i /\ i < b[2]}}
HalvesStopEarly(b, n) ==
  {<<b[1] + Size[j], j>> : j \in {i \in Order : n < i /\ i < b[2]}}

(* expand: the second halves that go back, one for every order from that of  *)
(* the block taken down to n - 1.  The loop runs once too often: the last    *)
(* one is the second half of the block that is handed out.                   *)
SecondHalves(b, n) ==
  {<<b[1] + Size[j], j>> : j \in {i \in Order : n - 1 <= i /\ i < b[2]}}

(* __alloc_pages(order n): __rmqueue takes a block of the smallest order     *)
(* that has one, expand splits it.  For n = 0 expand also puts page b[1] on  *)
(* the list that precedes the first, and marks it as of order 0.             *)
Alloc(n) ==
  /\ Booted
  /\ \E b \in Candidates(n) :
       /\ \A c \in Candidates(n) : b[2] <= c[2]
       /\ free' = (free \ {b}) \cup SecondHalves(b, n)
       /\ allocated' = allocated \cup {<<b[1], n>>}
       /\ private' = [p \in 0 .. Described |->
            IF \E c \in SecondHalves(b, n) : c[1] = p THEN p - b[1]
            ELSE IF n = 0 /\ p = b[1] THEN 0 ELSE private[p]]
  /\ UNCHANGED <<layout, pfn, reserved, merging>>

(* __alloc_pages returns -1 when no list has a block.                        *)
AllocFails(n) ==
  /\ Booted
  /\ Candidates(n) = {}
  /\ UNCHANGED vars

Next == \/ Reserve \/ FreePage \/ Merge \/ Settle
        \/ \E n \in Order : Alloc(n) \/ AllocFails(n)

Spec == Init /\ [][Next]_vars

-----------------------------------------------------------------------------
Blocks == free \cup merging

(* The boot loop stops at max_pfn, and every block starts at a frame.        *)
TypeOK ==
  /\ layout \in Layouts
  /\ pfn \in 0 .. MaxPfn
  /\ reserved \subseteq Page
  /\ private \in [0 .. Described -> Int]
  /\ free \subseteq Page \X Order
  /\ merging \subseteq Page \X Order
  /\ allocated \subseteq Page \X Order

Disjoint(b, c) == Pages(b) \cap Pages(c) = {}

(* The blocks that are free or being freed never overlap, so that no page    *)
(* is on two free lists: __free_pages always removes the block it absorbs.   *)
FreeDisjoint == \A b, c \in Blocks : b # c => Disjoint(b, c)

(* No block, free or handed out, has a page the boot loop reserved for the   *)
(* kernel ("cant free a reversed page", mm_init.c:144), or a page outside    *)
(* its zone.                                                                 *)
ReservedKept ==
  \A b \in Blocks \cup allocated :
    Pages(b) \subseteq
      {p \in Page : p \notin reserved /\ p < pfn /\ ZoneOf[p] = ZoneOf[b[1]]}

(* While nothing is freed after boot, blocks of one order handed out by      *)
(* __alloc_pages never overlap, although expand leaves the second half of    *)
(* each of them on a list; and none overlaps a free block of its order or    *)
(* of a greater one.                                                         *)
SameOrderDisjoint ==
  /\ \A a, c \in allocated : a # c /\ a[2] = c[2] => Disjoint(a, c)
  /\ \A a \in allocated, b \in free : b[2] >= a[2] => Disjoint(a, b)

(* While boot frees page by page, a stale private is harmless: a page that   *)
(* still carries the order of a block __free_pages has absorbed (line 170    *)
(* leaves it set) lies in one block with the very page it could be taken for *)
(* the buddy of, so IsBuddy never answers yes for a page that is on no list. *)
StaleOrderHarmless ==
  allocated = {} =>
    \A p \in Page, k \in Order :
      private[p] = k =>
        \/ <<p, k>> \in free
        \/ \E b \in Blocks : p \in Pages(b) /\ BuddyOf(p, k) \in Pages(b)

(* No page is lost: every frame the loop has passed is reserved, free, being *)
(* freed, or handed out.                                                     *)
NoLeak ==
  \A p \in 0 .. pfn - 1 :
    p \in reserved \/ \E b \in Blocks \cup allocated : p \in Pages(b)

(* When boot is over no two free blocks of a zone are buddies: freeing page  *)
(* by page has put together every block that can be put together.            *)
Coalesced ==
  Booted /\ allocated = {} =>
    \A b \in free :
      LET q == BuddyOf(b[1], b[2]) IN
        b[2] < MaxOrder - 1 /\ <<q, b[2]>> \in free => ZoneOf[q] # ZoneOf[b[1]]
=============================================================================
