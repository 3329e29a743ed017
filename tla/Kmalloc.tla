------------------------------ MODULE Kmalloc ------------------------------
(* kmalloc and kfree: objects of twelve caches below a page, blocks of pages  *)
(* above.  The caches hand out any free object of their slabs and may give an *)
(* empty slab back, and the page allocator hands out any free block, as far   *)
(* as both keep their promises (modules Slub and Buddy say how far).          *)
EXTENDS Integers, FiniteSets, Sequences

CONSTANTS
  PageShift,   \* PAGE_SHIFT, and the number of size classes
  Ptr,         \* sizeof(void *)
  Descriptors, \* sizes of struct kmem_cache, kmem_cache_cpu, kmem_cache_node
  DescAlign,   \* 128, how objects of these are aligned
  Frames,      \* page frames for kmalloc
  Request,     \* sizes asked for
  MaxLive      \* bound: blocks in use at a time

(* 1 << n                                                                    *)
Pow2[n \in Nat] == IF n = 0 THEN 1 ELSE 2 * Pow2[n - 1]

PageSize == Pow2[PageShift]
Frame == 0 .. Frames - 1
Class == 0 .. PageShift - 1

ASSUME KmallocAssumption ==
  /\ PageShift \in Nat \ {0} /\ \E p \in 0 .. PageShift - 1 : Ptr = Pow2[p]
  /\ Descriptors \in Seq(Nat \ {0}) /\ DescAlign \in Nat \ {0}
  /\ Frames \in Nat /\ Request \subseteq Nat /\ MaxLive \in Nat

VARIABLES
  caches,      \* the caches: three for descriptors, then kmalloc_small
  free,        \* frames the page allocator holds
  kmem, slab,  \* frames with PG_KMEM, with PG_slab
  word,        \* cache_p and kmem_size, which share their place
  used,        \* objects the caches have handed out: page and number
  blocks,        \* blocks in use: where, as how many bytes, from which class
  outcome         \* "ok", or how the code has left its memory

heapVars == <<caches, free, kmem, slab, word, used, blocks, outcome>>
pages == <<free, kmem, slab, word>>

-----------------------------------------------------------------------------
(* get_order: one more than the logarithm, but for 1.                        *)
Bits[n \in Nat] == IF n = 0 THEN 0 ELSE 1 + Bits[n \div 2]
GetOrder(n) == IF n = 1 THEN 0 ELSE Bits[n]

RoundUp(n, a) == ((n + a - 1) \div a) * a

(* Mutant: no room for the link.                                             *)
ObjectBare(size, align) == RoundUp(RoundUp(size, Ptr), align)
(* How far it is from one object to the next, and where its link is.         *)
Object(size, align) == RoundUp(RoundUp(size, Ptr) + Ptr, align)
LinkOffset(size) == RoundUp(size, Ptr)

(* The highest bit that is set, counted from 1.                              *)
Fls(x) == IF x = 0 THEN 0 ELSE CHOOSE n \in 1 .. 30 : Pow2[n - 1] <= x /\ x < Pow2[n]
Ilog2(x) == Fls(x) - 1
(* set_min_partial(s, ilog2(size) / 2): at least 5, at most 10.              *)
SetMinPartial(size) ==
  LET n == Ilog2(size) \div 2 IN IF n < 5 THEN 5 ELSE IF n > 10 THEN 10 ELSE n

(* set_cpu_partial.                                                          *)
SetCpuPartial(size) ==
  CASE size >= PageSize -> 2
    [] size < PageSize /\ size >= 1024 -> 6
    [] size < PageSize /\ size < 1024 /\ size >= 256 -> 13
    [] OTHER -> 30

(* What init_kmem_cache and kmem_cache_create put into a cache.              *)
Cache(size, align, order) ==
  [offset |-> LinkOffset(size), object |-> Object(size, align), order |-> order,
   minPartial |-> SetMinPartial(size), cpuPartial |-> SetCpuPartial(size)]

(* The cache of class c, and the objects new_slab puts into a page of it.    *)
Small(c) == caches[Len(Descriptors) + c + 1]
Slots(c) == {k \in 0 .. PageSize - 1 : Small(c).offset + k * Small(c).object < PageSize}

(* A pointer to a cache: as an int it is negative, and not -1.               *)
CachePtr(c) == -2 - c
ClassOf(f) == -2 - word[f]

(* What the page allocator may hand out.                                     *)
FreeBlocks(order) ==
  {f \in Frame : f % Pow2[order] = 0 /\ f .. f + Pow2[order] - 1 \subseteq free}

Block(f, slot, class, size) == [page |-> f, slot |-> slot, class |-> class, size |-> size]
NoClass == -1

-----------------------------------------------------------------------------
HeapInit ==
  /\ caches = <<>>
  /\ free = Frame /\ kmem = {} /\ slab = {}
  /\ word = [f \in Frame |-> 0]
  /\ used = {} /\ blocks = {}
  /\ outcome = "ok"

InitKmemCache ==
  /\ caches = <<>>
  /\ caches' = [i \in DOMAIN Descriptors |-> Cache(Descriptors[i], DescAlign, 1)]
  /\ UNCHANGED <<pages, used, blocks, outcome>>

(* A turn of kmalloc_init: kmem_cache_create with objects of 1 << i bytes,   *)
(* aligned as much.  Its descriptors are objects of the first caches.        *)
KmallocInit ==
  /\ caches # <<>> /\ Len(caches) < Len(Descriptors) + PageShift
  /\ LET size == Pow2[Len(caches) - Len(Descriptors)]
     IN  caches' = Append(caches, Cache(size, size, 0))
  /\ UNCHANGED <<pages, used, blocks, outcome>>

Ready == Len(caches) = Len(Descriptors) + PageShift /\ outcome = "ok"

FreeSlots(f) ==
  IF f \in slab THEN {k \in Slots(ClassOf(f)) : <<f, k>> \notin used} ELSE {}

(* What kmem_cache_alloc does for an object of class c: it takes it from a   *)
(* slab, or from a new one, with PG_slab and cache_p as kmem_getpages sets.  *)
FromSlab(c, size) ==
  \E f \in slab : \E k \in FreeSlots(f) :
    /\ ClassOf(f) = c
    /\ used' = used \cup {<<f, k>>} /\ blocks' = blocks \cup {Block(f, k, c, size)}
    /\ UNCHANGED pages
FromNewSlab(c, size) ==
  \E f \in FreeBlocks(0) :
    /\ free' = free \ {f} /\ slab' = slab \cup {f} /\ kmem' = kmem
    /\ word' = [word EXCEPT ![f] = CachePtr(c)]
    /\ used' = used \cup {<<f, 0>>} /\ blocks' = blocks \cup {Block(f, 0, c, size)}

(* kmalloc below a page.                                                     *)
KmallocSmall(size) ==
  /\ size < PageSize /\ GetOrder(size) \in Class
  /\ FromSlab(GetOrder(size), size) \/ FromNewSlab(GetOrder(size), size)
  /\ UNCHANGED <<caches, outcome>>

(* kmalloc_small has no entry for what is at least half a page.              *)
KmallocBeyond(size) ==
  /\ size < PageSize /\ GetOrder(size) \notin Class
  /\ outcome' = "beyond"
  /\ UNCHANGED <<caches, pages, used, blocks>>

PageCount(size) == (size + PageSize - 1) \div PageSize

(* Mutant: the last page has the count.                                      *)
SizeWordsLast(f, n) ==
  [g \in Frame |-> IF g = f + n - 1 THEN n ELSE IF g \in f .. f + n - 1 THEN -1 ELSE word[g]]
(* kmem_size of the pages of a block.                                        *)
SizeWords(f, n) ==
  [g \in Frame |-> IF g = f THEN n ELSE IF g \in f + 1 .. f + n - 1 THEN -1 ELSE word[g]]

(* kmalloc of one to four pages; the block has a power of two of them, and   *)
(* only the ones asked for are marked.  Beyond four pages it returns NULL.   *)
KmallocPages(size) ==
  /\ size >= PageSize /\ size <= 4 * PageSize
  /\ \E f \in FreeBlocks(GetOrder(PageCount(size))) :
       /\ free' = free \ (f .. f + Pow2[GetOrder(PageCount(size))] - 1)
       /\ kmem' = kmem \cup (f .. f + PageCount(size) - 1)
       /\ word' = SizeWords(f, PageCount(size))
       /\ blocks' = blocks \cup {Block(f, 0, NoClass, size)}
  /\ UNCHANGED <<caches, slab, used, outcome>>

(* __alloc_pages returns -1, and nobody tests for it.                        *)
KmallocStarves(size) ==
  /\ \/ /\ size < PageSize /\ GetOrder(size) \in Class
        /\ FreeBlocks(0) = {}
        /\ \A f \in slab : ClassOf(f) = GetOrder(size) => FreeSlots(f) = {}
     \/ /\ size >= PageSize /\ size <= 4 * PageSize
        /\ FreeBlocks(GetOrder(PageCount(size))) = {}
  /\ outcome' = "starved"
  /\ UNCHANGED <<caches, pages, used, blocks>>

Kmalloc(size) ==
  KmallocSmall(size) \/ KmallocBeyond(size) \/ KmallocPages(size) \/ KmallocStarves(size)

(* kfree of a page that PG_KMEM marks: as many pages as the word says, which *)
(* is none where it is a pointer.  The flag stays.                           *)
KfreePages(b) ==
  /\ b.page \in kmem
  /\ free' = free \cup (b.page .. b.page + word[b.page] - 1)
  /\ UNCHANGED <<caches, kmem, slab, word, used, outcome>>

(* kfree of an object; the cache may give its slab back if that is empty.    *)
KfreeObject(b) ==
  /\ b.page \notin kmem /\ b.page \in slab
  /\ used' = used \ {<<b.page, b.slot>>}
  /\ \/ UNCHANGED pages
     \/ /\ \A u \in used' : u[1] # b.page
        /\ slab' = slab \ {b.page} /\ free' = free \cup {b.page}
        /\ UNCHANGED <<kmem, word>>
  /\ UNCHANGED <<caches, outcome>>

Kfree(b) == blocks' = blocks \ {b} /\ (KfreePages(b) \/ KfreeObject(b))

HeapNext ==
  \/ InitKmemCache
  \/ KmallocInit
  \/ Ready /\ Cardinality(blocks) < MaxLive /\ \E size \in Request : Kmalloc(size)
  \/ Ready /\ \E b \in blocks : Kfree(b)
HeapSpec == HeapInit /\ [][HeapNext]_heapVars

-----------------------------------------------------------------------------
Bytes(b) ==
  LET first == b.page * PageSize + (IF b.class = NoClass THEN 0 ELSE b.slot * Small(b.class).object)
  IN  first .. first + b.size - 1
FrameBytes(f) == f * PageSize .. (f + 1) * PageSize - 1
Link(f, k) ==
  LET first == f * PageSize + Small(ClassOf(f)).offset + k * Small(ClassOf(f)).object
  IN  first .. first + Ptr - 1

(* The bytes of a block are in no other block and in no page that is free,   *)
(* and the links of a slab are in the slab, outside of all blocks.           *)
Exclusive ==
  /\ \A b \in blocks :
       /\ \A d \in blocks : b # d => Bytes(b) \cap Bytes(d) = {}
       /\ \A f \in free : Bytes(b) \cap FrameBytes(f) = {}
  /\ \A f \in slab : \A k \in Slots(ClassOf(f)) :
       /\ Link(f, k) \subseteq FrameBytes(f)
       /\ \A b \in blocks : Bytes(b) \cap Link(f, k) = {}

(* What kfree is going to give back is what kmalloc took: the count of a     *)
(* block of pages is still there, and where the flag of an earlier use makes *)
(* kfree take an object for pages, it gives none back.                       *)
KfreeOwn ==
  \A b \in blocks : b.page \in kmem =>
    IF b.class = NoClass THEN word[b.page] = PageCount(b.size) ELSE word[b.page] <= 0
=============================================================================
