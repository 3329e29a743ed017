---------------------------- MODULE BuddyProofs ----------------------------
(* Proofs about module Buddy.  The descriptor that follows the last one is   *)
(* assumed not to read as a free block (ZeroedJunk): not_in_zone lets        *)
(* __free_pages look at it when the last zone ends in the middle of a block. *)
EXTENDS Buddy, FiniteSetTheorems, TLAPS

ZeroedJunk == Junk \cap Order = {}

(* The inductive invariant.  StaleOrderHarmless gives that the buddy Merge   *)
(* absorbs is on its list; the last conjuncts say that the block being       *)
(* freed holds the newest page, so that its buddy is in its own zone.        *)
Progress ==
  /\ reserved \subseteq 0 .. pfn - 1
  /\ \A p \in Page : private[p] # None => p < pfn
  /\ \A q \in MaxPfn .. Described : private[q] \notin Order
  /\ ~Booted => allocated = {}
  /\ merging \cap free = {}
  /\ \A b \in merging : pfn - 1 \in Pages(b)

IInv == TypeOK /\ FreeDisjoint /\ ReservedKept /\ SameOrderDisjoint
        /\ StaleOrderHarmless /\ Progress

-----------------------------------------------------------------------------
(* The constants, as the facts the steps below use.                          *)
LEMMA SizeFacts ==
  /\ MaxPfn \in Nat \ {0} /\ Described \in Nat /\ MaxPfn <= Described
  /\ MaxOrder \in Nat \ {0}
  /\ 0 \in Order
  /\ Size[0] = 1
  /\ \A k \in Order : k \in Nat /\ Size[k] \in Nat \ {0}
  /\ \A k \in Order : k < MaxOrder - 1 => k + 1 \in Order /\ Size[k + 1] = 2 * Size[k]
  /\ \A j, k \in Order : j < k => 2 * Size[j] <= Size[k]
  BY SizeAssumption DEF Order

(* A block is the interval of its pages, and starts at the first of them.    *)
LEMMA PagesFacts ==
  ASSUME NEW b \in Page \X Order
  PROVE  /\ b = <<b[1], b[2]>> /\ b[1] \in Page /\ b[2] \in Order
         /\ \A p : p \in Pages(b) <=> p \in Int /\ b[1] <= p /\ p < b[1] + Size[b[2]]
         /\ b[1] \in Pages(b)
  BY SizeFacts DEF Pages, Page

(* The page xor gives lies one block away, and its own buddy is the first.   *)
LEMMA FlipFacts ==
  ASSUME NEW i \in Nat, NEW k \in Order
  PROVE  /\ Flip(i, k) \in Nat
         /\ Flip(i, k) = i + Size[k] \/ Flip(i, k) = i - Size[k]
         /\ Flip(Flip(i, k), k) = i
<1> DEFINE S == Size[k]
<1>0. S \in Nat \ {0}
  BY SizeFacts
<1> HIDE DEF S
<1>1. CASE (i \div S) % 2 = 0
  <2>1. (i + S) \div S = (i \div S) + 1
    BY <1>0
  <2>2. ((i + S) \div S) % 2 # 0
    BY <1>0, <1>1, <2>1
  <2>3. QED
    BY <1>0, <1>1, <2>2 DEF Flip, S
<1>2. CASE (i \div S) % 2 # 0
  <2>1. i >= S
    BY <1>0, <1>2
  <2>2. i - S \in Nat /\ ((i - S) + S) \div S = ((i - S) \div S) + 1
    BY <1>0, <2>1
  <2>3. ((i - S) \div S) % 2 = 0
    BY <1>0, <1>2, <2>2
  <2>4. QED
    BY <1>0, <1>2, <2>1, <2>3 DEF Flip, S
<1>3. QED
  BY <1>1, <1>2

LEMMA BuddyFacts ==
  ASSUME NEW p \in Page, NEW k \in Order
  PROVE  /\ BuddyOf(p, k) \in Nat
         /\ BuddyOf(p, k) = p + Size[k] \/ BuddyOf(p, k) = p - Size[k]
         /\ BuddyOf(p, k) \in Page /\ ZoneOf[BuddyOf(p, k)] = ZoneOf[p]
              => BuddyOf(BuddyOf(p, k), k) = p
<1> DEFINE B == Base[ZoneOf[p]]
           q == BuddyOf(p, k)
<1>1. ZoneOf[p] \in Zone /\ B \in Nat /\ p - B \in Nat
  <2>1. ZoneOf[p] \in Zone
    BY ZoneAssumption
  <2>2. B \in Nat /\ B <= p
    BY <2>1, ZoneAssumption
  <2>3. QED
    BY <2>1, <2>2 DEF Page
<1>2. q = B + Flip(p - B, k)
  BY DEF BuddyOf
<1>3. /\ Flip(p - B, k) \in Nat
      /\ Flip(p - B, k) = p - B + Size[k] \/ Flip(p - B, k) = p - B - Size[k]
      /\ Flip(Flip(p - B, k), k) = p - B
  BY <1>1, FlipFacts
<1>4. Size[k] \in Nat /\ p \in Int
  BY SizeFacts DEF Page
<1>5. q \in Nat /\ (q = p + Size[k] \/ q = p - Size[k])
  BY <1>1, <1>2, <1>3, <1>4
<1>6. ASSUME q \in Page, ZoneOf[q] = ZoneOf[p]
      PROVE  BuddyOf(q, k) = p
  <2>1. q - B = Flip(p - B, k)
    BY <1>1, <1>2, <1>3
  <2>2. BuddyOf(q, k) = B + Flip(q - B, k)
    BY <1>6 DEF BuddyOf
  <2>3. QED
    BY <1>1, <1>3, <1>4, <2>1, <2>2
<1>7. QED
  BY <1>5, <1>6

-----------------------------------------------------------------------------
LEMMA InitInv == ASSUME ZeroedJunk PROVE Init => IInv
<1> SUFFICES ASSUME Init PROVE IInv
  OBVIOUS
<1>1. PICK junk \in Junk :
        private = [p \in 0 .. Described |-> IF p = Described THEN junk ELSE None]
  BY DEF Init
<1>2. TypeOK
  BY <1>1, SizeFacts, LayoutAssumption DEF Init, TypeOK, None
<1>3. FreeDisjoint /\ ReservedKept /\ SameOrderDisjoint
  BY DEF Init, FreeDisjoint, ReservedKept, SameOrderDisjoint, Blocks
<1>4. \A p \in Page : private[p] = None
  BY <1>1, SizeFacts DEF Page
<1>5. StaleOrderHarmless
  BY <1>4 DEF StaleOrderHarmless, None, Order
<1>6. \A q \in MaxPfn .. Described : private[q] \notin Order
  BY <1>1, SizeFacts DEF ZeroedJunk, Order, None
<1>7. Progress
  BY <1>4, <1>6 DEF Init, Progress
<1>8. QED
  BY <1>2, <1>3, <1>5, <1>7 DEF IInv

(* A reserved frame changes none of the blocks.                              *)
LEMMA ReserveStep == IInv /\ Reserve => IInv'
<1> SUFFICES ASSUME IInv, Reserve PROVE IInv'
  OBVIOUS
<1> USE DEF Reserve
<1>1. TypeOK /\ pfn' \in 0 .. MaxPfn /\ pfn \in Page
  BY SizeFacts DEF IInv, TypeOK, Page
<1>2. TypeOK'
  BY <1>1 DEF TypeOK
<1>3. FreeDisjoint' /\ SameOrderDisjoint' /\ StaleOrderHarmless'
  BY DEF IInv, FreeDisjoint, SameOrderDisjoint, StaleOrderHarmless, Blocks
<1>4. ReservedKept'
  <2> SUFFICES ASSUME NEW b \in Blocks \cup allocated, NEW p \in Pages(b)
               PROVE  /\ p \in Page /\ p \notin reserved' /\ p < pfn'
                      /\ ZoneOf[p] = ZoneOf[b[1]]
    BY DEF ReservedKept, Blocks
  <2>1. p \in Page /\ p \notin reserved /\ p < pfn /\ ZoneOf[p] = ZoneOf[b[1]]
    BY DEF IInv, ReservedKept
  <2>2. QED
    BY <1>1, <2>1 DEF Page
<1>5. Booted' \/ allocated' = {}
  BY <1>1, SizeFacts DEF IInv, Progress, Booted, Page
<1>6. Progress'
  BY <1>1, <1>5, SizeFacts DEF IInv, Progress, Page
<1>7. QED
  BY <1>2, <1>3, <1>4, <1>6 DEF IInv

LEMMA FreePageStep == IInv /\ FreePage => IInv'
<1> SUFFICES ASSUME IInv, FreePage PROVE IInv'
  OBVIOUS
<1> DEFINE n == <<pfn, 0>>
<1>1. /\ merging = {} /\ pfn \in Page /\ pfn' = pfn + 1 /\ merging' = {n}
      /\ UNCHANGED <<layout, reserved, private, free, allocated>>
  BY DEF FreePage
<1>2. n \in Page \X Order /\ Pages(n) = {pfn} /\ pfn \in Int
  BY <1>1, SizeFacts DEF Pages, Page
<1>3. allocated = {}
  BY <1>1, SizeFacts DEF IInv, Progress, Booted, Page
<1>4. Blocks = free /\ Blocks' = free \cup {n}
  BY <1>1 DEF Blocks
<1>5. \A b \in free : pfn \notin Pages(b)
  BY <1>2, <1>4 DEF IInv, ReservedKept
<1>6. n \notin free
  BY <1>2, <1>5
<1>7. TypeOK'
  BY <1>1, <1>2, SizeFacts DEF IInv, TypeOK, Page
<1>8. FreeDisjoint'
  <2> SUFFICES ASSUME NEW b \in free \cup {n}, NEW c \in free \cup {n}, b # c
               PROVE  Disjoint(b, c)
    BY <1>4 DEF FreeDisjoint, Disjoint
  <2>1. CASE b \in free /\ c \in free
    BY <1>4, <2>1 DEF IInv, FreeDisjoint
  <2>2. CASE b = n \/ c = n
    BY <1>2, <1>5, <2>2 DEF Disjoint
  <2>3. QED
    BY <2>1, <2>2
<1>9. ReservedKept'
  <2> SUFFICES ASSUME NEW b \in free \cup {n}, NEW p \in Pages(b)
               PROVE  /\ p \in Page /\ p \notin reserved /\ p < pfn'
                      /\ ZoneOf[p] = ZoneOf[b[1]]
    BY <1>1, <1>3, <1>4 DEF ReservedKept
  <2>1. CASE b \in free
    <3>1. p \in Page /\ p \notin reserved /\ p < pfn /\ ZoneOf[p] = ZoneOf[b[1]]
      BY <1>4, <2>1 DEF IInv, ReservedKept
    <3>2. QED
      BY <1>1, <3>1 DEF Page
  <2>2. CASE b = n
    <3>1. pfn \notin reserved
      BY <1>2 DEF IInv, Progress
    <3>2. QED
      BY <1>1, <1>2, <2>2, <3>1
  <2>3. QED
    BY <2>1, <2>2
<1>10. SameOrderDisjoint'
  BY <1>1, <1>3 DEF SameOrderDisjoint
<1>11. StaleOrderHarmless'
  BY <1>1, <1>3, <1>4 DEF IInv, StaleOrderHarmless
<1>12. Progress'
  BY <1>1, <1>2, <1>3, <1>6 DEF IInv, Progress, Page
<1>13. QED
  BY <1>7, <1>8, <1>9, <1>10, <1>11, <1>12 DEF IInv

(* What Merge finds: the buddy is in the zone of the block, and on its list. *)
LEMMA MergeFindsBuddy ==
  ASSUME IInv, NEW p \in Page, NEW k \in Order,
         merging = {<<p, k>>}, CanMerge(p, k)
  PROVE  LET q == BuddyOf(p, k) IN
           /\ q \in Page /\ q # p
           /\ <<q, k>> \in free
           /\ q = p + Size[k] \/ q = p - Size[k]
           /\ BuddyOf(q, k) = p
           /\ ZoneOf[q] = ZoneOf[p]
<1> DEFINE q == BuddyOf(p, k)
           z == ZoneOf[p]
           m == <<p, k>>
<1>1. /\ q \in Nat /\ (q = p + Size[k] \/ q = p - Size[k])
      /\ Size[k] \in Nat \ {0} /\ p \in Int
  BY BuddyFacts, SizeFacts DEF Page
<1>2. z \in Zone /\ Base[z] \in Nat /\ Spanned[z] \in Nat
      /\ Base[z] + Spanned[z] <= Described
  BY ZoneAssumption
<1>3. private[q] = k /\ Base[z] <= q /\ q <= Base[z] + Spanned[z]
  <2>1. IsBuddy(q, k) /\ ~NotInZone(z, q)
    BY DEF CanMerge
  <2>2. QED
    BY <1>1, <1>2, <2>1 DEF IsBuddy, NotInZone
<1>4. q \in Page
  <2>1. q \notin MaxPfn .. Described
    BY <1>3 DEF IInv, Progress
  <2>2. QED
    BY <1>1, <1>2, <1>3, <2>1, SizeFacts DEF Page
<1>5. q < pfn
  BY <1>3, <1>4 DEF IInv, Progress, None, Order
<1>6. q # Base[z] + Spanned[z]
  <2>1. m \in merging /\ m \in Blocks /\ m[1] = p
    BY DEF Blocks
  <2>2. pfn - 1 \in Pages(m)
    BY <2>1 DEF IInv, Progress
  <2>3. pfn - 1 \in Page /\ ZoneOf[pfn - 1] = z
    BY <2>1, <2>2 DEF IInv, ReservedKept
  <2>4. pfn - 1 < Base[z] + Spanned[z]
    BY <1>2, <2>3, ZoneAssumption
  <2>5. QED
    BY <1>1, <1>2, <1>5, <2>4 DEF IInv, TypeOK
<1>7. ZoneOf[q] = z
  BY <1>1, <1>2, <1>3, <1>4, <1>6, ZoneAssumption
<1>8. BuddyOf(q, k) = p
  BY <1>4, <1>7, BuddyFacts
<1>9. <<q, k>> \in free
  <2>1. allocated = {}
    BY DEF IInv, Progress, Booted
  <2>2. SUFFICES ASSUME NEW b \in Blocks, q \in Pages(b), p \in Pages(b)
                 PROVE  FALSE
    BY <1>3, <1>4, <1>8, <2>1 DEF IInv, StaleOrderHarmless
  <2>3. m \in Page \X Order /\ m \in Blocks
    BY DEF Blocks
  <2>4. p \in Pages(m) /\ q \notin Pages(m)
    BY <1>1, <2>3, PagesFacts
  <2>5. QED
    BY <2>2, <2>3, <2>4 DEF IInv, FreeDisjoint, Disjoint
<1>10. QED
  BY <1>1, <1>4, <1>7, <1>8, <1>9

(* The merged block has the pages of the two.                                *)
LEMMA MergedPages ==
  ASSUME IInv, NEW p \in Page, NEW k \in Order,
         merging = {<<p, k>>}, CanMerge(p, k)
  PROVE  LET q == BuddyOf(p, k)
             n == <<IF p < q THEN p ELSE q, k + 1>>
         IN  /\ n \in Page \X Order
             /\ \A x : x \in Pages(n) <=> x \in Pages(<<p, k>>) \/ x \in Pages(<<q, k>>)
<1> DEFINE q == BuddyOf(p, k)
           low == IF p < q THEN p ELSE q
           m == <<p, k>>
           b == <<q, k>>
           n == <<low, k + 1>>
<1>1. /\ q \in Page /\ (q = p + Size[k] \/ q = p - Size[k])
      /\ k + 1 \in Order /\ Size[k + 1] = 2 * Size[k] /\ Size[k] \in Nat \ {0}
  BY MergeFindsBuddy, SizeFacts DEF CanMerge
<1>2. m \in Page \X Order /\ b \in Page \X Order /\ n \in Page \X Order
  BY <1>1
<1> HIDE DEF q
<1>3. \A x : x \in Pages(m) <=> x \in Int /\ p <= x /\ x < p + Size[k]
  BY <1>2, PagesFacts
<1>4. \A x : x \in Pages(b) <=> x \in Int /\ q <= x /\ x < q + Size[k]
  BY <1>2, PagesFacts
<1>5. \A x : x \in Pages(n) <=> x \in Int /\ low <= x /\ x < low + Size[k + 1]
  BY <1>2, PagesFacts
<1>6. p \in Int /\ q \in Int
  BY <1>1 DEF Page
<1>7. \A x : x \in Pages(n) <=> x \in Pages(m) \/ x \in Pages(b)
  BY <1>1, <1>3, <1>4, <1>5, <1>6
<1>8. QED
  BY <1>2, <1>7 DEF q

LEMMA MergeStep == IInv /\ Merge => IInv'
<1> SUFFICES ASSUME IInv, Merge PROVE IInv'
  OBVIOUS
<1>1. PICK p \in Page, k \in Order :
        /\ merging = {<<p, k>>}
        /\ CanMerge(p, k)
        /\ LET q == BuddyOf(p, k) IN
             /\ free' = free \ {<<q, k>>}
             /\ merging' = {<<IF p < q THEN p ELSE q, k + 1>>}
  BY DEF Merge
<1> DEFINE q == BuddyOf(p, k)
           low == IF p < q THEN p ELSE q
           m == <<p, k>>
           b == <<q, k>>
           n == <<low, k + 1>>
<1>2. /\ free' = free \ {b} /\ merging' = {n} /\ merging = {m}
      /\ UNCHANGED <<layout, pfn, reserved, private, allocated>>
  BY <1>1 DEF Merge
<1>3. /\ q \in Page /\ q # p /\ b \in free /\ BuddyOf(q, k) = p
      /\ ZoneOf[q] = ZoneOf[p] /\ (q = p + Size[k] \/ q = p - Size[k])
  BY <1>1, MergeFindsBuddy
<1>4. k + 1 \in Order /\ Size[k + 1] = 2 * Size[k] /\ Size[k] \in Nat \ {0}
  BY <1>1, SizeFacts DEF CanMerge
<1>5. /\ m \in Page \X Order /\ b \in Page \X Order /\ n \in Page \X Order
      /\ m \in Blocks /\ b \in Blocks /\ m # b
  BY <1>2, <1>3, <1>4 DEF Blocks
<1>6. \A x : x \in Pages(n) <=> x \in Pages(m) \/ x \in Pages(b)
  BY <1>1, MergedPages
<1> HIDE DEF q
<1>7. Blocks' = (free \ {b}) \cup {n} /\ Blocks = free \cup {m}
  BY <1>2 DEF Blocks
<1>8. TypeOK'
  BY <1>2, <1>5 DEF IInv, TypeOK
<1>9. \A c \in free \ {b} : Disjoint(c, n) /\ Disjoint(n, c)
  <2> SUFFICES ASSUME NEW c \in free \ {b} PROVE Disjoint(c, n) /\ Disjoint(n, c)
    OBVIOUS
  <2>1. c # m
    BY <1>2 DEF IInv, Progress
  <2>2. c \in Blocks
    BY DEF Blocks
  <2>3. Disjoint(c, m) /\ Disjoint(c, b)
    BY <1>5, <2>1, <2>2 DEF IInv, FreeDisjoint
  <2>4. QED
    BY <1>6, <2>3 DEF Disjoint
<1>10. FreeDisjoint'
  <2>1. \A c, d \in free \ {b} : c # d => Disjoint(c, d)
    BY <1>7 DEF IInv, FreeDisjoint
  <2>2. QED
    BY <1>7, <1>9, <2>1 DEF FreeDisjoint, Disjoint
<1>11. allocated = {} /\ allocated' = {}
  BY <1>2 DEF IInv, Progress, Booted
<1>12. ReservedKept'
  <2> SUFFICES ASSUME NEW c \in (free \ {b}) \cup {n}, NEW x \in Pages(c)
               PROVE  /\ x \in Page /\ x \notin reserved /\ x < pfn
                      /\ ZoneOf[x] = ZoneOf[c[1]]
    BY <1>2, <1>7, <1>11 DEF ReservedKept
  <2>1. CASE c \in free
    BY <1>7, <2>1 DEF IInv, ReservedKept
  <2>2. CASE c = n
    <3>1. ZoneOf[n[1]] = ZoneOf[p]
      BY <1>3
    <3>2. x \in Pages(m) \/ x \in Pages(b)
      BY <1>6, <2>2
    <3>3. /\ x \in Page /\ x \notin reserved /\ x < pfn
          /\ ZoneOf[x] = ZoneOf[m[1]] \/ ZoneOf[x] = ZoneOf[b[1]]
      BY <1>5, <3>2 DEF IInv, ReservedKept
    <3>4. QED
      BY <1>3, <2>2, <3>1, <3>3
  <2>3. QED
    BY <2>1, <2>2
<1>13. SameOrderDisjoint'
  BY <1>11 DEF SameOrderDisjoint
<1>14. StaleOrderHarmless'
  <2> SUFFICES ASSUME NEW x \in Page, NEW j \in Order, private[x] = j,
                      <<x, j>> \notin free \ {b}
               PROVE  \E c \in Blocks' : x \in Pages(c) /\ BuddyOf(x, j) \in Pages(c)
    BY <1>2 DEF StaleOrderHarmless
  <2>2. CASE <<x, j>> = b
    <3>1. x \in Pages(b) /\ p \in Pages(m) /\ BuddyOf(x, j) = p
      BY <1>3, <1>5, <2>2, PagesFacts
    <3>2. QED
      BY <1>6, <1>7, <3>1
  <2>3. CASE <<x, j>> # b
    <3>1. PICK c \in Blocks : x \in Pages(c) /\ BuddyOf(x, j) \in Pages(c)
      BY <1>11, <2>3 DEF IInv, StaleOrderHarmless
    <3>2. CASE c = m \/ c = b
      BY <1>6, <1>7, <3>1, <3>2
    <3>3. CASE c # m /\ c # b
      BY <1>7, <3>1, <3>3
    <3>4. QED
      BY <3>2, <3>3
  <2>4. QED
    BY <2>2, <2>3
<1>15. Progress'
  <2>1. n \notin free
    <3>1. p \in Pages(m) /\ p \in Pages(n)
      BY <1>5, <1>6, PagesFacts
    <3>2. m \notin free
      BY <1>2 DEF IInv, Progress
    <3>3. QED
      BY <1>5, <3>1, <3>2 DEF IInv, FreeDisjoint, Disjoint, Blocks
  <2>2. pfn - 1 \in Pages(n)
    BY <1>2, <1>6 DEF IInv, Progress
  <2>3. QED
    BY <1>2, <1>11, <2>1, <2>2 DEF IInv, Progress
<1>16. QED
  BY <1>8, <1>10, <1>12, <1>13, <1>14, <1>15 DEF IInv

LEMMA SettleStep == IInv /\ Settle => IInv'
<1> SUFFICES ASSUME IInv, Settle PROVE IInv'
  OBVIOUS
<1>1. PICK p \in Page, k \in Order :
        /\ merging = {<<p, k>>}
        /\ private' = [private EXCEPT ![p] = k]
        /\ free' = free \cup {<<p, k>>}
  BY DEF Settle
<1> DEFINE m == <<p, k>>
<1>2. /\ merging = {m} /\ merging' = {} /\ free' = free \cup {m}
      /\ UNCHANGED <<layout, pfn, reserved, allocated>>
  BY <1>1 DEF Settle
<1>3. Blocks' = Blocks
  BY <1>2 DEF Blocks
<1>4. \A x \in 0 .. Described : private'[x] = IF x = p THEN k ELSE private[x]
  BY <1>1 DEF IInv, TypeOK
<1>5. TypeOK'
  <2>1. private' \in [0 .. Described -> Int]
    <3>1. k \in Int /\ private \in [0 .. Described -> Int]
      BY SizeFacts DEF IInv, TypeOK
    <3>2. QED
      BY <1>1, <3>1
  <2>2. QED
    BY <1>2, <2>1, <1>1 DEF IInv, TypeOK
<1>6. allocated = {}
  BY <1>2 DEF IInv, Progress, Booted
<1>7. FreeDisjoint'
  BY <1>3 DEF IInv, FreeDisjoint, Disjoint
<1>8. ReservedKept'
  BY <1>2, <1>3 DEF IInv, ReservedKept
<1>9. SameOrderDisjoint'
  BY <1>2, <1>6 DEF SameOrderDisjoint
<1>10. p < pfn /\ p \in 0 .. Described /\ p \notin MaxPfn .. Described
  <2>1. m \in Page \X Order /\ m \in Blocks
    BY <1>2 DEF Blocks
  <2>2. p \in Pages(m)
    BY <2>1, PagesFacts
  <2>3. QED
    BY <2>1, <2>2, SizeFacts DEF IInv, ReservedKept, Page
<1>11. StaleOrderHarmless'
  <2> SUFFICES ASSUME NEW x \in Page, NEW j \in Order, private'[x] = j,
                      <<x, j>> \notin free \cup {m}
               PROVE  \E c \in Blocks : x \in Pages(c) /\ BuddyOf(x, j) \in Pages(c)
    BY <1>2, <1>3 DEF StaleOrderHarmless
  <2>1. x # p
    BY <1>4, <1>10
  <2>2. private[x] = j
    BY <1>4, <2>1, SizeFacts DEF Page
  <2>3. QED
    BY <1>6, <2>2 DEF IInv, StaleOrderHarmless
<1>12. Progress'
  <2>1. \A x \in Page : private'[x] # None => x < pfn
    BY <1>4, <1>10, SizeFacts DEF IInv, Progress, Page
  <2>2. \A x \in MaxPfn .. Described : private'[x] \notin Order
    BY <1>4, <1>10, SizeFacts DEF IInv, Progress
  <2>3. QED
    BY <1>2, <1>6, <2>1, <2>2 DEF IInv, Progress
<1>13. QED
  BY <1>5, <1>7, <1>8, <1>9, <1>11, <1>12 DEF IInv

-----------------------------------------------------------------------------
(* A second half expand gives back lies in the block it comes from, and      *)
(* beyond the pages of every smaller order.                                  *)
LEMMA HalfFacts ==
  ASSUME IInv, NEW b \in free, NEW n \in Order, NEW c \in SecondHalves(b, n)
  PROVE  /\ c[2] \in Order /\ c = <<c[1], c[2]>> /\ c[1] = b[1] + Size[c[2]]
         /\ c[2] < b[2] /\ n - 1 <= c[2]
         /\ c \in Page \X Order
         /\ \A x \in Pages(c) : x \in Pages(b) /\ b[1] + Size[c[2]] <= x
<1>1. PICK j \in Order : n - 1 <= j /\ j < b[2] /\ c = <<b[1] + Size[j], j>>
  BY DEF SecondHalves
<1>2. b \in Page \X Order /\ b[1] \in Page /\ b[2] \in Order
  BY DEF IInv, TypeOK
<1>3. /\ Size[j] \in Nat \ {0} /\ Size[b[2]] \in Nat \ {0} /\ b[1] \in Int
      /\ 2 * Size[j] <= Size[b[2]]
  BY <1>1, <1>2, SizeFacts DEF Page
<1>4. c[1] = b[1] + Size[j] /\ c[2] = j
  BY <1>1
<1>5. \A x : x \in Pages(c) <=> x \in Int /\ b[1] + Size[j] <= x /\ x < b[1] + Size[j] + Size[j]
  BY <1>3, <1>4 DEF Pages
<1>6. \A x : x \in Pages(b) <=> x \in Int /\ b[1] <= x /\ x < b[1] + Size[b[2]]
  BY <1>2, PagesFacts
<1>7. \A x \in Pages(c) : x \in Pages(b) /\ b[1] + Size[j] <= x
  BY <1>3, <1>5, <1>6
<1>8. c[1] \in Pages(c)
  BY <1>3, <1>4, <1>5
<1>9. c[1] \in Page
  BY <1>7, <1>8 DEF IInv, ReservedKept, Blocks
<1>10. QED
  BY <1>1, <1>4, <1>7, <1>9

LEMMA AllocStep == ASSUME NEW n \in Order PROVE IInv /\ Alloc(n) => IInv'
<1> SUFFICES ASSUME IInv, Alloc(n) PROVE IInv'
  OBVIOUS
<1>1. PICK b \in Candidates(n) :
        /\ free' = (free \ {b}) \cup SecondHalves(b, n)
        /\ allocated' = allocated \cup {<<b[1], n>>}
        /\ private' = [p \in 0 .. Described |->
             IF \E c \in SecondHalves(b, n) : c[1] = p THEN p - b[1]
             ELSE IF n = 0 /\ p = b[1] THEN 0 ELSE private[p]]
  BY DEF Alloc
<1> DEFINE H == SecondHalves(b, n)
           a == <<b[1], n>>
<1>2. /\ pfn = MaxPfn /\ merging = {} /\ merging' = {}
      /\ UNCHANGED <<layout, pfn, reserved>>
  BY DEF Alloc, Booted
<1>3. b \in free /\ b[2] >= n
  BY DEF Candidates
<1>4. b \in Page \X Order /\ b[1] \in Page /\ b[2] \in Order /\ a \in Page \X Order
  BY <1>3 DEF IInv, TypeOK
<1>5. \A c \in H : /\ c[2] \in Order /\ c = <<c[1], c[2]>> /\ c[1] = b[1] + Size[c[2]]
                   /\ c[2] < b[2] /\ n - 1 <= c[2] /\ c \in Page \X Order
                   /\ \A x \in Pages(c) : x \in Pages(b) /\ b[1] + Size[c[2]] <= x
  BY <1>3, HalfFacts
<1>6. Blocks = free /\ Blocks' = (free \ {b}) \cup H
  BY <1>1, <1>2 DEF Blocks
<1> HIDE DEF H
<1>7. \A x \in Pages(a) : x \in Pages(b) /\ x < b[1] + Size[n]
  <2>1. Size[n] <= Size[b[2]] /\ Size[n] \in Nat /\ Size[b[2]] \in Nat /\ b[1] \in Int
    <3>1. n = b[2] \/ n < b[2]
      BY <1>3, <1>4, SizeFacts
    <3>2. QED
      BY <1>4, <3>1, SizeFacts DEF Page
  <2>2. \A x : x \in Pages(a) <=> x \in Int /\ b[1] <= x /\ x < b[1] + Size[n]
    BY <1>4, PagesFacts
  <2>3. \A x : x \in Pages(b) <=> x \in Int /\ b[1] <= x /\ x < b[1] + Size[b[2]]
    BY <1>4, PagesFacts
  <2>4. QED
    BY <2>1, <2>2, <2>3
<1>8. TypeOK'
  <2>1. private' \in [0 .. Described -> Int]
    <3> DEFINE new(p) == IF \E c \in SecondHalves(b, n) : c[1] = p THEN p - b[1]
                         ELSE IF n = 0 /\ p = b[1] THEN 0 ELSE private[p]
    <3>1. \A p \in 0 .. Described : p - b[1] \in Int /\ private[p] \in Int
      BY <1>4, SizeFacts DEF IInv, TypeOK, Page
    <3>2. \A p \in 0 .. Described : new(p) \in Int
      BY <3>1
    <3>3. private' = [p \in 0 .. Described |-> new(p)]
      BY <1>1
    <3> HIDE DEF new
    <3>4. QED
      BY <3>2, <3>3
  <2>2. free' \subseteq Page \X Order /\ allocated' \subseteq Page \X Order
    BY <1>1, <1>4, <1>5 DEF IInv, TypeOK, H
  <2>3. QED
    BY <1>2, <2>1, <2>2 DEF IInv, TypeOK
<1>9. \A c \in H, d \in free \ {b} : Disjoint(c, d) /\ Disjoint(d, c)
  <2>1. \A d \in free \ {b} : Disjoint(b, d)
    BY <1>3, <1>6 DEF IInv, FreeDisjoint
  <2>2. QED
    BY <1>5, <2>1 DEF Disjoint
<1>10. \A c, d \in H : c # d => Disjoint(c, d)
  <2> SUFFICES ASSUME NEW c \in H, NEW d \in H, c # d, NEW x \in Pages(c), x \in Pages(d)
               PROVE  FALSE
    BY DEF Disjoint
  <2>1. c[2] # d[2]
    BY <1>5
  <2>2. /\ x < b[1] + 2 * Size[c[2]] /\ x < b[1] + 2 * Size[d[2]]
        /\ b[1] + Size[c[2]] <= x /\ b[1] + Size[d[2]] <= x
    <3>1. /\ x < c[1] + Size[c[2]] /\ c[1] = b[1] + Size[c[2]]
          /\ x < d[1] + Size[d[2]] /\ d[1] = b[1] + Size[d[2]]
      BY <1>5, PagesFacts
    <3>2. QED
      BY <1>4, <1>5, <3>1, SizeFacts DEF Page
  <2>3. c[2] < d[2] \/ d[2] < c[2]
    BY <1>5, <2>1, SizeFacts
  <2>4. x \in Int /\ b[1] \in Int
    BY <1>4, <1>5, PagesFacts DEF Page
  <2>5. QED
    BY <1>5, <2>2, <2>3, <2>4, SizeFacts
<1>11. FreeDisjoint'
  <2>1. \A c, d \in free \ {b} : c # d => Disjoint(c, d)
    BY <1>6 DEF IInv, FreeDisjoint
  <2>2. QED
    BY <1>6, <1>9, <1>10, <2>1 DEF FreeDisjoint, Disjoint
<1>12. ReservedKept'
  <2>1. \A c \in free \cup allocated : Pages(c) \subseteq
          {p \in Page : p \notin reserved /\ p < pfn /\ ZoneOf[p] = ZoneOf[c[1]]}
    BY <1>6 DEF IInv, ReservedKept
  <2>2. \A c \in H : c[1] \in Pages(c) /\ ZoneOf[c[1]] = ZoneOf[b[1]]
    <3>1. \A c \in H : c[1] \in Pages(c)
      BY <1>5, PagesFacts
    <3>2. QED
      BY <1>3, <1>5, <2>1, <3>1
  <2>3. \A c \in H \cup {a} : Pages(c) \subseteq
          {p \in Page : p \notin reserved /\ p < pfn /\ ZoneOf[p] = ZoneOf[c[1]]}
    BY <1>3, <1>5, <1>7, <2>1, <2>2
  <2>4. QED
    BY <1>1, <1>2, <1>6, <2>1, <2>3 DEF ReservedKept, H
<1>13. SameOrderDisjoint'
  <2>1. \A c \in allocated : c[2] = n => Disjoint(c, a) /\ Disjoint(a, c)
    <3>1. \A c \in allocated : c[2] = n => Disjoint(c, b)
      BY <1>3 DEF IInv, SameOrderDisjoint
    <3>2. QED
      BY <1>7, <3>1 DEF Disjoint
  <2>2. \A c \in allocated, d \in H : d[2] >= c[2] => Disjoint(c, d)
    <3>1. \A c \in allocated, d \in H : d[2] >= c[2] => b[2] >= c[2]
      BY <1>4, <1>5, SizeFacts DEF IInv, TypeOK
    <3>2. \A c \in allocated, d \in H : d[2] >= c[2] => Disjoint(c, b)
      BY <1>3, <3>1 DEF IInv, SameOrderDisjoint
    <3>3. QED
      BY <1>5, <3>2 DEF Disjoint
  <2>3. \A d \in free \ {b} : Disjoint(a, d)
    <3>1. \A d \in free \ {b} : Disjoint(b, d)
      BY <1>3, <1>6 DEF IInv, FreeDisjoint
    <3>2. QED
      BY <1>7, <3>1 DEF Disjoint
  <2>4. \A d \in H : d[2] >= n => Disjoint(a, d)
    <3> SUFFICES ASSUME NEW d \in H, d[2] >= n, NEW x \in Pages(a), x \in Pages(d)
                 PROVE  FALSE
      BY DEF Disjoint
    <3>1. x < b[1] + Size[n] /\ b[1] + Size[d[2]] <= x
      BY <1>5, <1>7
    <3>2. Size[n] <= Size[d[2]] /\ Size[n] \in Nat /\ Size[d[2]] \in Nat
      <4>1. n = d[2] \/ n < d[2]
        BY <1>5, SizeFacts
      <4>2. QED
        BY <1>5, <4>1, SizeFacts
    <3>3. x \in Int /\ b[1] \in Int
      BY <1>4, <1>5, PagesFacts DEF Page
    <3>4. QED
      BY <3>1, <3>2, <3>3
  <2>5. allocated' = allocated \cup {a} /\ free' = (free \ {b}) \cup H
    BY <1>1 DEF H
  <2>6. \A c, d \in allocated' : c # d /\ c[2] = d[2] => Disjoint(c, d)
    BY <2>1, <2>5 DEF IInv, SameOrderDisjoint
  <2>7. \A c \in allocated', d \in free' : d[2] >= c[2] => Disjoint(c, d)
    BY <2>2, <2>3, <2>4, <2>5 DEF IInv, SameOrderDisjoint
  <2>8. QED
    BY <2>6, <2>7 DEF SameOrderDisjoint, Disjoint
<1>14. StaleOrderHarmless'
  BY <1>1 DEF StaleOrderHarmless
<1>15. Progress'
  <2>1. \A p \in Page : p < pfn
    BY <1>2, SizeFacts DEF Page
  <2>2. \A x \in MaxPfn .. Described : private'[x] = private[x]
    <3>1. \A c \in H : c[1] \notin MaxPfn .. Described
      BY <1>5, SizeFacts DEF Page
    <3>2. /\ b[1] \notin MaxPfn .. Described
          /\ \A x \in MaxPfn .. Described : x \in 0 .. Described
      BY <1>4, SizeFacts DEF Page
    <3>3. QED
      BY <1>1, <3>1, <3>2 DEF H
  <2>3. Booted'
    BY <1>2 DEF Booted
  <2>4. QED
    BY <1>2, <2>1, <2>2, <2>3 DEF IInv, Progress
<1>16. QED
  BY <1>8, <1>11, <1>12, <1>13, <1>14, <1>15 DEF IInv

LEMMA StutterStep == IInv /\ UNCHANGED vars => IInv'
<1> SUFFICES ASSUME IInv, UNCHANGED vars PROVE IInv'
  OBVIOUS
<1> USE DEF vars
<1>1. TypeOK' /\ Progress'
  BY DEF IInv, TypeOK, Progress, Booted
<1>2. FreeDisjoint' /\ ReservedKept' /\ SameOrderDisjoint' /\ StaleOrderHarmless'
  BY DEF IInv, FreeDisjoint, ReservedKept, SameOrderDisjoint, StaleOrderHarmless,
         Blocks, Disjoint
<1>3. QED
  BY <1>1, <1>2 DEF IInv

-----------------------------------------------------------------------------
(* Every state of the allocator satisfies the inductive invariant.           *)
THEOREM Inductive == ASSUME ZeroedJunk PROVE Spec => []IInv
<1>1. Init => IInv
  BY InitInv
<1>2. IInv /\ [Next]_vars => IInv'
  BY ReserveStep, FreePageStep, MergeStep, SettleStep, AllocStep, StutterStep
     DEF Next, AllocFails
<1>3. QED
  BY <1>1, <1>2, PTL DEF Spec

(* The state keeps its type for every node, layout and sequence of calls:    *)
(* __free_pages never builds a block of an order that has no list.           *)
THEOREM TypeCorrect == ASSUME ZeroedJunk PROVE Spec => []TypeOK
<1>1. IInv => TypeOK
  BY DEF IInv
<1>2. QED
  BY <1>1, Inductive, PTL

(* Free blocks never overlap (list_del in __free_pages always takes off the  *)
(* block that is absorbed).                                                  *)
THEOREM FreeBlocksDisjoint == ASSUME ZeroedJunk PROVE Spec => []FreeDisjoint
<1>1. IInv => FreeDisjoint
  BY DEF IInv
<1>2. QED
  BY <1>1, Inductive, PTL

(* The kernel's reserved frames are never free and never handed out, and no  *)
(* block crosses the end of its zone.                                        *)
THEOREM KernelNeverHandedOut == ASSUME ZeroedJunk PROVE Spec => []ReservedKept
<1>1. IInv => ReservedKept
  BY DEF IInv
<1>2. QED
  BY <1>1, Inductive, PTL

(* Without frees after boot, __alloc_pages never gives two overlapping       *)
(* blocks of one order.                                                      *)
THEOREM SameOrderExclusive == ASSUME ZeroedJunk PROVE Spec => []SameOrderDisjoint
<1>1. IInv => SameOrderDisjoint
  BY DEF IInv
<1>2. QED
  BY <1>1, Inductive, PTL

(* IsBuddy is right during boot: a stale private never names a block that    *)
(* is on no list.                                                            *)
THEOREM BuddyTestExact == ASSUME ZeroedJunk PROVE Spec => []StaleOrderHarmless
<1>1. IInv => StaleOrderHarmless
  BY DEF IInv
<1>2. QED
  BY <1>1, Inductive, PTL
-----------------------------------------------------------------------------
(* A set of numbers has a least one.  (Induction over Nat, for the provers.) *)
LEMMA Least ==
  ASSUME NEW T \in SUBSET Nat, NEW t \in T
  PROVE  \E x \in T : \A y \in T : x <= y
<1> DEFINE R == StrictSubsetOrdering(Nat)
           F == {0 .. x : x \in T}
<1>1. IsWellFoundedOn(R, FiniteSubsetsOf(Nat))
  BY FS_StrictSubsetOrderingWellFounded
<1>2. F \subseteq FiniteSubsetsOf(Nat) /\ F # {}
  <2>1. \A x \in T : IsFiniteSet(0 .. x) /\ 0 .. x \in SUBSET Nat
    BY FS_Interval
  <2>2. QED
    BY <2>1 DEF FiniteSubsetsOf
<1>3. \E f \in F : \A g \in F : <<g, f>> \notin R
  <2> HIDE DEF R, F
  <2>1. QED
    BY <1>1, <1>2, WFMin
<1>4. PICK x \in T : \A y \in T : <<0 .. y, 0 .. x>> \notin R
  BY <1>3
<1>5. ASSUME NEW y \in T, y < x
      PROVE  FALSE
  <2>1. 0 .. y \in SUBSET Nat /\ 0 .. x \in SUBSET Nat /\ 0 .. y \subseteq 0 .. x
    BY <1>5
  <2>2. x \in 0 .. x /\ x \notin 0 .. y
    BY <1>5
  <2>3. <<0 .. y, 0 .. x>> \in R
    BY <2>1, <2>2 DEF StrictSubsetOrdering
  <2>4. QED
    BY <1>4, <2>3
<1>6. QED
  BY <1>4, <1>5

(* Nothing is lost when a block is split: the halves expand gives back and   *)
(* the block that is handed out have all its pages.                          *)
LEMMA SplitCovers ==
  ASSUME NEW b \in Page \X Order, NEW n \in Order, n <= b[2], NEW x \in Pages(b)
  PROVE  \E c \in SecondHalves(b, n) \cup {<<b[1], n>>} : x \in Pages(c)
<1> DEFINE d == x - b[1]
           T == {j \in Order : n <= j /\ d < Size[j]}
<1>1. /\ x \in Int /\ b[1] \in Page /\ b[2] \in Order /\ b[1] \in Int
      /\ b[1] <= x /\ x < b[1] + Size[b[2]]
  BY PagesFacts DEF Page
<1>2. T \in SUBSET Nat /\ b[2] \in T
  BY <1>1, SizeFacts
<1>3. PICK j \in T : \A i \in T : j <= i
  <2> HIDE DEF T
  <2>1. QED
    BY <1>2, Least
<1>4. /\ j \in Order /\ n <= j /\ x < b[1] + Size[j] /\ Size[j] \in Nat
      /\ j <= b[2] /\ j \in Int /\ n \in Int
  BY <1>1, <1>2, <1>3, SizeFacts
<1>5. CASE j = n
  <2>1. x \in Pages(<<b[1], n>>)
    BY <1>1, <1>4, <1>5 DEF Pages
  <2>2. QED
    BY <2>1
<1>6. CASE j # n
  <2> DEFINE i == j - 1
  <2>1. i \in Order /\ n <= i /\ i < b[2] /\ Size[j] = 2 * Size[i] /\ Size[i] \in Nat
    BY <1>1, <1>4, <1>6, SizeAssumption, SizeFacts, SMTT(30) DEF Order
  <2>2. Size[i] <= d
    BY <1>1, <1>3, <1>4, <2>1
  <2>3. x \in Pages(<<b[1] + Size[i], i>>)
    BY <1>1, <1>4, <2>1, <2>2 DEF Pages
  <2>4. <<b[1] + Size[i], i>> \in SecondHalves(b, n)
    BY <1>1, <1>4, <2>1 DEF SecondHalves
  <2>5. QED
    BY <2>3, <2>4
<1>7. QED
  BY <1>5, <1>6

-----------------------------------------------------------------------------
LEMMA NoLeakStep == IInv /\ NoLeak /\ [Next]_vars => NoLeak'
<1> SUFFICES ASSUME IInv, NoLeak, [Next]_vars PROVE NoLeak'
  OBVIOUS
<1> DEFINE Held == Blocks \cup allocated
<1>1. CASE Reserve
  <2>1. pfn \in Nat /\ pfn' = pfn + 1 /\ reserved' = reserved \cup {pfn}
        /\ UNCHANGED <<free, merging, allocated>>
    BY <1>1 DEF Reserve, Page
  <2>2. QED
    BY <2>1 DEF NoLeak, Blocks, Pages
<1>2. CASE FreePage
  <2>1. /\ pfn \in Nat /\ pfn' = pfn + 1 /\ merging = {} /\ merging' = {<<pfn, 0>>}
        /\ UNCHANGED <<reserved, free, allocated>>
    BY <1>2 DEF FreePage, Page
  <2>2. pfn \in Pages(<<pfn, 0>>)
    BY <2>1, SizeFacts DEF Pages
  <2>3. ASSUME NEW x \in 0 .. pfn - 1
        PROVE  x \in reserved' \/ \E b \in Held' : x \in Pages(b)
    BY <2>1 DEF NoLeak, Blocks
  <2>4. 0 .. pfn' - 1 = (0 .. pfn - 1) \cup {pfn}
    BY <2>1
  <2>5. QED
    BY <2>1, <2>2, <2>3, <2>4, ZenonT(30) DEF NoLeak, Blocks, Pages
<1>3. CASE Merge
  <2>1. PICK p \in Page, k \in Order :
          /\ merging = {<<p, k>>}
          /\ CanMerge(p, k)
          /\ LET q == BuddyOf(p, k) IN
               /\ free' = free \ {<<q, k>>}
               /\ merging' = {<<IF p < q THEN p ELSE q, k + 1>>}
    BY <1>3 DEF Merge
  <2> DEFINE q == BuddyOf(p, k)
             n == <<IF p < q THEN p ELSE q, k + 1>>
  <2>2. \A x : x \in Pages(n) <=> x \in Pages(<<p, k>>) \/ x \in Pages(<<q, k>>)
    BY <2>1, MergedPages
  <2>3. free' = free \ {<<q, k>>} /\ merging' = {n} /\ merging = {<<p, k>>}
        /\ UNCHANGED <<pfn, reserved, allocated>>
    BY <1>3, <2>1 DEF Merge
  <2> HIDE DEF q, n
  <2>4. \A b \in Held : \A x \in Pages(b) : \E c \in Held' : x \in Pages(c)
    BY <2>2, <2>3 DEF Blocks
  <2>5. QED
    BY <2>3, <2>4 DEF NoLeak, Pages
<1>4. CASE Settle
  <2>1. free' \cup merging' = free \cup merging /\ UNCHANGED <<pfn, reserved, allocated>>
    BY <1>4 DEF Settle
  <2>2. QED
    BY <2>1 DEF NoLeak, Blocks, Pages
<1>5. ASSUME NEW n \in Order, Alloc(n)
      PROVE  NoLeak'
  <2>1. PICK b \in Candidates(n) :
          /\ free' = (free \ {b}) \cup SecondHalves(b, n)
          /\ allocated' = allocated \cup {<<b[1], n>>}
    BY <1>5 DEF Alloc
  <2>2. UNCHANGED <<pfn, reserved, merging>>
    BY <1>5 DEF Alloc
  <2>3. b \in Page \X Order /\ b \in free /\ n <= b[2]
    BY SizeFacts DEF Candidates, IInv, TypeOK
  <2>4. \A x \in Pages(b) : \E c \in SecondHalves(b, n) \cup {<<b[1], n>>} : x \in Pages(c)
    BY <2>3, SplitCovers
  <2>5. \A c \in Held : \A x \in Pages(c) : \E d \in Held' : x \in Pages(d)
    BY <2>1, <2>2, <2>4 DEF Blocks
  <2>6. QED
    BY <2>2, <2>5 DEF NoLeak, Pages
<1>6. CASE UNCHANGED vars
  BY <1>6 DEF NoLeak, Blocks, Pages, vars
<1>7. QED
  BY <1>1, <1>2, <1>3, <1>4, <1>5, <1>6 DEF Next, AllocFails

(* No frame is lost (the merge of two buddies and expand): every frame boot  *)
(* has passed is reserved, free, being freed, or handed out.                 *)
THEOREM NothingLost == ASSUME ZeroedJunk PROVE Spec => []NoLeak
<1>1. Init => NoLeak
  BY DEF Init, NoLeak
<1>2. QED
  BY <1>1, NoLeakStep, Inductive, PTL DEF Spec

-----------------------------------------------------------------------------
(* Boot leaves no two free buddies: a free block carries its order where     *)
(* IsBuddy looks for it, so that the second of two buddies to become free    *)
(* finds the first.                                                          *)
Marked == allocated = {} =>
  \A b \in free : private[b[1]] = b[2] /\ b[1] \notin reserved
NoBuddies == allocated = {} =>
  \A b, c \in free :
    b[2] = c[2] /\ b[2] < MaxOrder - 1 /\ ZoneOf[b[1]] = ZoneOf[c[1]]
      => c[1] # BuddyOf(b[1], b[2])

LEMMA MarkedStep == IInv /\ Marked /\ [Next]_vars => Marked'
<1> SUFFICES ASSUME IInv, Marked, [Next]_vars, allocated' = {}, NEW b \in free'
             PROVE  private'[b[1]] = b[2] /\ b[1] \notin reserved'
  BY DEF Marked
<1>1. allocated = {}
  <2>1. allocated \subseteq allocated'
    BY DEF Next, vars, Reserve, FreePage, Merge, Settle, Alloc, AllocFails
  <2>2. QED
    BY <2>1
<1>2. /\ \A c \in Blocks : c \in Page \X Order /\ c[1] \in Pages(c)
      /\ \A c \in Blocks : Pages(c) \subseteq {p \in Page : p \notin reserved /\ p < pfn}
  BY PagesFacts DEF IInv, TypeOK, ReservedKept, Blocks
<1>3. ASSUME b \in free, private' = private, reserved' \subseteq reserved \cup {pfn}
      PROVE  private'[b[1]] = b[2] /\ b[1] \notin reserved'
  <2>1. b[1] < pfn /\ b[1] \in Int /\ pfn \in Int
    BY <1>2, <1>3 DEF Blocks, Page, IInv, TypeOK
  <2>2. QED
    BY <1>1, <1>3, <2>1 DEF Marked
<1>4. CASE Reserve \/ FreePage \/ Merge \/ UNCHANGED vars
  <2>1. b \in free /\ private' = private /\ reserved' \subseteq reserved \cup {pfn}
    BY <1>4 DEF Reserve, FreePage, Merge, vars
  <2>2. QED
    BY <1>3, <2>1
<1>5. CASE Settle
  <2>1. PICK p \in Page, k \in Order :
          /\ merging = {<<p, k>>}
          /\ private' = [private EXCEPT ![p] = k]
          /\ free' = free \cup {<<p, k>>}
    BY <1>5 DEF Settle
  <2>2. reserved' = reserved /\ <<p, k>> \in Blocks /\ <<p, k>> \notin free
    BY <1>5, <2>1 DEF Settle, Blocks, IInv, Progress
  <2>3. \A x \in 0 .. Described : private'[x] = IF x = p THEN k ELSE private[x]
    BY <2>1 DEF IInv, TypeOK
  <2>4. \A x \in Page : x \in 0 .. Described
    BY SizeFacts DEF Page
  <2>5. CASE b = <<p, k>>
    BY <1>2, <2>2, <2>3, <2>4, <2>5
  <2>6. CASE b # <<p, k>>
    <3>1. b \in free /\ b \in Blocks
      BY <2>1, <2>6 DEF Blocks
    <3>2. Disjoint(b, <<p, k>>)
      BY <2>2, <2>6, <3>1 DEF IInv, FreeDisjoint
    <3>3. b[1] # p
      BY <1>2, <2>2, <3>1, <3>2 DEF Disjoint
    <3>4. QED
      BY <1>1, <1>2, <2>2, <2>3, <2>4, <3>1, <3>3 DEF Marked
  <2>7. QED
    BY <2>5, <2>6
<1>6. ASSUME NEW n \in Order, Alloc(n)
      PROVE  FALSE
  BY <1>6 DEF Alloc
<1>7. QED
  BY <1>1, <1>3, <1>4, <1>5, <1>6 DEF Next, AllocFails

LEMMA NoBuddiesStep == IInv /\ Marked /\ NoBuddies /\ [Next]_vars => NoBuddies'
<1> SUFFICES ASSUME IInv, Marked, NoBuddies, [Next]_vars, allocated' = {},
                    NEW b \in free', NEW c \in free', b[2] = c[2], b[2] < MaxOrder - 1,
                    ZoneOf[b[1]] = ZoneOf[c[1]], c[1] = BuddyOf(b[1], b[2])
             PROVE  FALSE
  BY DEF NoBuddies, BuddyOf, Flip
<1>1. allocated = {}
  BY DEF Next, vars, Reserve, FreePage, Merge, Settle, Alloc, AllocFails
<1>2. CASE free' \subseteq free
  BY <1>1, <1>2 DEF NoBuddies
<1>3. CASE Settle
  <2>1. PICK p \in Page, k \in Order :
          /\ merging = {<<p, k>>}
          /\ ~CanMerge(p, k)
          /\ free' = free \cup {<<p, k>>}
    BY <1>3 DEF Settle
  <2>2. ASSUME NEW d \in free, d[2] = k, k < MaxOrder - 1, ZoneOf[d[1]] = ZoneOf[p],
               d[1] = BuddyOf(p, k)
        PROVE  FALSE
    <3>1. d[1] \in Page /\ private[d[1]] = k /\ d[1] \notin reserved
      BY <1>1, <2>2 DEF Marked, IInv, TypeOK
    <3>2. /\ d[1] \in Int /\ Base[ZoneOf[p]] \in Int /\ Spanned[ZoneOf[p]] \in Int
          /\ Base[ZoneOf[p]] <= d[1] /\ d[1] < Base[ZoneOf[p]] + Spanned[ZoneOf[p]]
      BY <2>2, <3>1, ZoneAssumption DEF Page
    <3>3. ~NotInZone(ZoneOf[p], d[1])
      BY <3>2 DEF NotInZone
    <3>4. QED
      BY <2>1, <2>2, <3>1, <3>3 DEF CanMerge, IsBuddy
  <2>3. b \in Page \X Order /\ c \in Page \X Order /\ b # c
    <3>1. b \in Page \X Order /\ c \in Page \X Order
      BY <2>1 DEF IInv, TypeOK
    <3>2. c[1] # b[1]
      BY <3>1, BuddyFacts, SizeFacts DEF Page
    <3>3. QED
      BY <3>1, <3>2
  <2>4. b[1] = BuddyOf(c[1], c[2])
    BY <2>3, BuddyFacts
  <2>5. CASE b \in free /\ c \in free
    BY <1>1, <2>5 DEF NoBuddies
  <2>6. CASE b = <<p, k>> /\ c \in free
    BY <2>2, <2>6
  <2>7. CASE c = <<p, k>> /\ b \in free
    BY <2>2, <2>4, <2>7
  <2>8. QED
    BY <2>1, <2>3, <2>5, <2>6, <2>7
<1>4. QED
  BY <1>2, <1>3 DEF Next, vars, Reserve, FreePage, Merge, Alloc, AllocFails

(* Boot frees page by page and leaves no two free buddies in a zone, in any  *)
(* order of kernel, page tables and zones (page_is_buddy, page_alloc.c:128). *)
THEOREM BuddiesMerged == ASSUME ZeroedJunk PROVE Spec => []Coalesced
<1>1. Init => Marked /\ NoBuddies
  BY DEF Init, Marked, NoBuddies
<1>2. IInv /\ NoBuddies => Coalesced
  <2> SUFFICES ASSUME IInv, NoBuddies, allocated = {}, NEW b \in free,
                      b[2] < MaxOrder - 1, <<BuddyOf(b[1], b[2]), b[2]>> \in free
               PROVE  ZoneOf[BuddyOf(b[1], b[2])] # ZoneOf[b[1]]
    BY DEF Coalesced
  <2>1. QED
    BY DEF NoBuddies
<1>3. QED
  BY <1>1, <1>2, MarkedStep, NoBuddiesStep, Inductive, PTL DEF Spec
=============================================================================
